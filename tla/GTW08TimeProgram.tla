------------------------- MODULE GTW08TimeProgram -------------------------
(***************************************************************************)
(* The slots of one day of a GTW-08 time program: the register they are    *)
(* kept in, the component that reads and writes it, the schedule that is   *)
(* generated for hot water, and the slot in force at a time of the day.    *)
(***************************************************************************)
EXTENDS Integers, Sequences, FiniteSetsExt

CONSTANTS
  HoursInDay,
  MinutesPerStep,  \* switch times are kept in steps
  StepsPerHour,
  MaxSlots,        \* what a day's register has room for
  HeatDuration,    \* the hours the boiler gets to heat up
  UsableHours,     \* seasons, each as the range of hours it allows heating in
  MaxYield,        \* kWh an hour can be forecast to yield
  MaxListed        \* bound on the slots a caller lists, unless too many

ASSUME ProgramAssumption ==
  /\ {HoursInDay, MinutesPerStep, StepsPerHour, HeatDuration} \subseteq Nat \ {0}
  /\ MaxSlots \in Nat /\ MaxYield \in Nat /\ MaxListed \in Nat
  /\ \A hours \in UsableHours : \E a, b \in 0..(HoursInDay - 1) : a <= b /\ hours = a..b

StepsPerDay == StepsPerHour * HoursInDay
MinutesPerHour == MinutesPerStep * StepsPerHour
DayMinutes == 0..(MinutesPerStep * StepsPerDay - 1)

Hour(time) == time \div MinutesPerHour

Setpoints == {"eco", "comfort"}
Timeslots == [setpoint : Setpoints, switchTime : DayMinutes]

Slot(s, time) == [setpoint |-> s, switchTime |-> time]

(***************************************************************************)
(* The register: a count and as many encoded slots, or the value that      *)
(* means there is no program.  A setpoint or activity may be unknown.      *)
(***************************************************************************)
NoProgram == [count |-> 0, slots |-> <<>>, nan |-> TRUE]
Raw(n, s) == [count |-> n, slots |-> s, nan |-> FALSE]

ToSteps(time) == time \div MinutesPerStep

(* Slip: steps past midnight are kept.                                     *)
FromSteps_PastMidnight(steps) == steps * MinutesPerStep
FromSteps(steps) == (steps % StepsPerDay) * MinutesPerStep

Encode(list) ==
  Raw(Len(list), [i \in DOMAIN list |->
    [setpoint |-> list[i].setpoint, steps |-> ToSteps(list[i].switchTime)]])

(* A count past the end of the register makes it unparsable, as does an    *)
(* unknown slot among those counted.                                       *)
Parsable(register) ==
  \/ register.nan
  \/ /\ register.count <= MaxSlots
     /\ \A i \in 1..register.count : register.slots[i].setpoint \in Setpoints

Decode(register) ==
  [i \in 1..register.count |-> Slot(register.slots[i].setpoint, FromSteps(register.slots[i].steps))]

(***************************************************************************)
(* get_current_timeslot: the last slot of the list whose hour has come.    *)
(***************************************************************************)
NoTimeslot == [setpoint |-> "none", switchTime |-> 0]

CurrentTimeslot(list, now) ==
  LET started == {i \in DOMAIN list : Hour(list[i].switchTime) <= Hour(now)}
  IN  IF started = {} THEN NoTimeslot ELSE list[CHOOSE i \in started : \A j \in started : j <= i]

(***************************************************************************)
(* generate_dhw_day_schedule: hours of which HeatDuration in a row are     *)
(* forecast to yield the kWh required are heated in, the first and the     *)
(* last such block of the day, or all usable hours if there is none.       *)
(***************************************************************************)
First(hours) == CHOOSE h \in hours : \A g \in hours : h <= g
Final(hours) == CHOOSE h \in hours : \A g \in hours : g <= h

Block(hours, h) == {g \in hours : h <= g /\ g < h + HeatDuration}

Yield(yields, hours) == MapThenSumSet(LAMBDA h : yields[h], hours)

AcceptableStarts(hours, yields, required) ==
  {h \in hours : Yield(yields, Block(hours, h)) >= required}

AcceptedBlocks(hours, yields, required) ==
  LET starts == AcceptableStarts(hours, yields, required)
  IN  IF starts = {} THEN {hours}
      ELSE {Block(hours, First(starts)), Block(hours, Final(starts))}

(* consecutive_groups of the hours that are left, by their first hours.    *)
(* Slip: heating is never ended.                                           *)
GroupStarts_Midnight(hours) == hours \cap {0}
GroupStarts(hours) == {h \in hours : (h - 1) \notin hours}

SlotHours(blocks) ==
  {First(b) : b \in blocks} \cup GroupStarts((0..(HoursInDay - 1)) \ UNION blocks)

(* The sort: the hours of a set, by how many others come before.           *)
Rank(hours, h) == Cardinality({g \in hours : g < h})
Sorted(hours) ==
  [i \in 1..Cardinality(hours) |-> CHOOSE h \in hours : Rank(hours, h) = i - 1]

Timeslot(blocks, h) ==
  Slot(IF h \in {First(b) : b \in blocks} THEN "comfort" ELSE "eco", h * MinutesPerHour)

Generate(hours, yields, required) ==
  LET blocks == AcceptedBlocks(hours, yields, required)
      starts == Sorted(SlotHours(blocks))
  IN  [i \in DOMAIN starts |-> Timeslot(blocks, starts[i])]

(***************************************************************************)
(* One DaySchedule component and its register.                             *)
(***************************************************************************)
VARIABLES
  register,     \* the register
  slots,   \* the component's slots
  fresh,   \* the component has read the register since it was written
  asked,   \* history: the list that was written last
  heated   \* history: the hours a generated program heats in

programVars == <<register, slots, fresh, asked, heated>>

Found == [kind |-> "found"]
NotGenerated == {HoursInDay}

(* Registers as a controller may hold them: any count, one kind of slot.   *)
FoundRaws == {NoProgram} \cup
  {Raw(n, [i \in 1..MaxSlots |-> [setpoint |-> s, steps |-> k]]) :
     n \in 0..(MaxSlots + 1), s \in Setpoints \cup {"unknown"}, k \in 0..(StepsPerDay + 1)}

(* The lists callers make: short ones, and one that is too long.           *)
Lists == (UNION {[1..n -> Timeslots] : n \in 0..MaxListed})
           \cup {[i \in 1..(MaxSlots + 1) |-> Slot("eco", 0)]}

ProgramInit ==
  /\ register \in FoundRaws
  /\ slots = <<>> /\ fresh = FALSE
  /\ asked = Found /\ heated = NotGenerated

(* DaySchedule.async_update: raises InvalidZoneSchedule, or replaces.      *)
Update ==
  /\ Parsable(register)
  /\ slots' = Decode(register)
  /\ fresh' = TRUE
  /\ UNCHANGED <<register, asked, heated>>

(* DaySchedule.async_set_time_slots: encode raises for too many slots.     *)
(* Slip: the check is for what the bytes have room for, not the slots.     *)
Fits_Bytes(list) == Len(list) <= MaxSlots + 1
Fits(list) == Len(list) <= MaxSlots

SetTimeSlots(list) ==
  /\ Fits(list)
  /\ register' = Encode(list)
  /\ slots' = list
  /\ fresh' = FALSE
  /\ asked' = [kind |-> "asked", list |-> list]

(* A caller's own list, over a register that was found.                    *)
WriteListed ==
  /\ asked = Found
  /\ \E list \in Lists : SetTimeSlots(list)
  /\ heated' = NotGenerated

(* A generated list.                                                       *)
WriteGenerated ==
  /\ asked = Found
  /\ \E hours \in UsableHours : \E yields \in [hours -> 0..MaxYield] :
     \E required \in 1..(HeatDuration * MaxYield) :
       /\ SetTimeSlots(Generate(hours, yields, required))
       /\ heated' = UNION AcceptedBlocks(hours, yields, required)

ProgramNext == Update \/ WriteListed \/ WriteGenerated

ProgramSpec == ProgramInit /\ [][ProgramNext]_programVars

(***************************************************************************)
(* Properties.                                                             *)
(***************************************************************************)
ProgramTypeOK ==
  /\ register.count \in Nat /\ register.nan \in BOOLEAN
  /\ \A i \in DOMAIN slots : slots[i] \in Timeslots
  /\ fresh \in BOOLEAN

(* What was accepted for writing can be read again, slot by slot, with     *)
(* each switch time taken back to the step it lies in.                     *)
WrittenIsRead ==
  asked # Found =>
    /\ Parsable(register)
    /\ fresh => /\ Len(slots) = Len(asked.list)
                /\ \A i \in DOMAIN slots :
                     /\ slots[i].setpoint = asked.list[i].setpoint
                     /\ slots[i].switchTime <= asked.list[i].switchTime
                     /\ asked.list[i].switchTime < slots[i].switchTime + MinutesPerStep

(* With a generated program the component has a current slot all day, and  *)
(* it is a comfort slot in exactly the hours that were accepted.           *)
GeneratedHeats ==
  heated # NotGenerated =>
    \A now \in DayMinutes :
      CurrentTimeslot(slots, now).setpoint = IF Hour(now) \in heated THEN "comfort" ELSE "eco"

(* "the latest timeslot that has started is returned", says the test of    *)
(* get_current_timeslot.                                                   *)
CurrentHasStarted ==
  \A now \in DayMinutes :
    CurrentTimeslot(slots, now) # NoTimeslot => CurrentTimeslot(slots, now).switchTime <= now
=============================================================================
