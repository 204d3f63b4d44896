----------------------------- MODULE GTW08Zone -----------------------------
(***************************************************************************)
(* One climate zone behind a GTW-08 gateway, the calls that change it and  *)
(* the gateway's repair of its schedules.  Unlike the GTW-26 facade this   *)
(* half of the library has no lock: a call decides what to write from the  *)
(* values the component shows, then writes register after register, each   *)
(* write an await at which other tasks, a poll and the appliance go on.    *)
(***************************************************************************)
EXTENDS Integers, FiniteSets, Sequences

CONSTANTS
  Tasks,         \* asyncio tasks that share the zone
  Kinds,         \* kinds of zone
  Schedules,     \* schedules in use: a bound on what is asked for and damaged
  DayCount,      \* days of a week
  Temps,         \* setpoints asked for, some of them out of range
  MinTemp,       \* min_temp and max_temp of the zone
  MaxTemp,
  Moments,       \* the starts and ends of holidays asked for, in hours
  OverrideHours, \* what an override lasts
  HoursPerDay,
  MaxNow,        \* bound on the clock, in hours
  MaxCalls,      \* bound on the calls made
  MaxCorruptions \* bound on the day schedules that become unreadable

Days == 0..(DayCount - 1)

SCHEDULING == 0
MANUAL == 1
ANTI_FROST == 2
Modes == {SCHEDULING, MANUAL, ANTI_FROST}

SCHEDULE_1 == 0
SCHEDULE_4 == 3
ScheduleIds == SCHEDULE_1..SCHEDULE_4

(* What a zone's type and function amount to: "central_heating",           *)
(* "hot_water", or "other" for all that have no current setpoint.          *)
IsCentralHeating(k) == k = "central_heating"
IsHotWater(k) == k = "hot_water"

(* The writable registers that the calls below touch.  A setpoint 0 is     *)
(* whatever the zone was left with, a time 0 the epoch that means not set. *)
Setpoints == {"roomHoliday", "temporaryRoom", "roomManual",
              "dhwComfort", "dhwReduced", "dhwHoliday"}
Times == {"holidayStart", "holidayEnd", "temporaryEnd"}
Fields == {"mode", "selectedSchedule"} \cup Setpoints \cup Times

(* The slots of one day: unreadable, the default, or what a caller gave.   *)
Unreadable == 0
Default == 1
Given == 2

ASSUME ZoneAssumption ==
  /\ Schedules \subseteq ScheduleIds
  /\ DayCount \in Nat \ {0} /\ HoursPerDay \in Nat \ {0}
  /\ Kinds \subseteq {"central_heating", "hot_water", "other"}
  /\ OverrideHours \in Nat \ {0}
  /\ Temps \subseteq Nat /\ MinTemp \in Nat \ {0} /\ MaxTemp \in Nat
  /\ Moments \subseteq Nat \ {0}
  /\ MaxNow \in Nat /\ MaxCalls \in Nat /\ MaxCorruptions \in Nat

NoWrite == [field |-> "none", schedule |-> 0, day |-> 0, value |-> 0]
Put(f, v) == [field |-> f, schedule |-> 0, day |-> 0, value |-> v]
PutDay(s, d, v) == [field |-> "slots", schedule |-> s, day |-> d, value |-> v]

VARIABLES
  kind,      \* type and function of the zone, fixed
  cooling,   \* the zone can cool and appliance_requires_cooling() holds
  device,    \* the zone's registers in the appliance
  slots,     \* the day schedules in the appliance
  now,       \* the time, in hours
  damages,   \* day schedules that have become unreadable
  shown,     \* the values the ClimateZone component holds
  poll,      \* the poll in progress
  pc, call, plan, next, value, \* what each task does
  repaired,  \* async_repair_invalid_schedules: its count
  calls,     \* calls made
  alone,     \* history: no other call and no damage since a task's call began
  broken,    \* history: unreadable days when a task's repair began
  quiet,     \* history: no poll was under way since a task's setpoint call began
  fresh      \* history: a task's week call began with a selection shown as it was

appliance == <<kind, cooling, device, slots, now, damages>>
locals == <<pc, call, plan, next, value, repaired>>
history == <<alone, broken, quiet, fresh>>
vars == <<appliance, shown, poll, locals, calls, history>>

(* The appliance is in holiday mode between the start and the end.         *)
InHoliday == device["holidayStart"] <= now /\ now <= device["holidayEnd"]
                 /\ device["holidayStart"] # 0

Shown == Fields \cup {"holiday"}
Register(f) == IF f = "holiday" THEN (IF InHoliday THEN 1 ELSE 0) ELSE device[f]

(***************************************************************************)
(* What the component's properties return.                                 *)
(***************************************************************************)
SelectedIn(values) == IF values["mode"] = SCHEDULING /\ cooling
                      THEN SCHEDULE_4
                      ELSE values["selectedSchedule"]
SelectedForRead == SelectedIn(shown)

(* Slip: the cooling schedule's own id goes to a register that refuses it. *)
SelectedForWrite_Plain(s) == s
SelectedForWrite(s) == IF s = SCHEDULE_4 THEN SCHEDULE_1 ELSE s

OverrideShown == shown["temporaryEnd"] # 0 /\ shown["temporaryEnd"] >= now

(* Set where the schedule decides, which is a setpoint of the week.        *)
Scheduled == 0

CurrentSetpoint ==
  CASE IsCentralHeating(kind) ->
         (CASE shown["holiday"] = 1 -> shown["roomHoliday"]
            [] shown["holiday"] = 0 /\ shown["mode"] = SCHEDULING ->
                 IF OverrideShown THEN shown["temporaryRoom"] ELSE Scheduled
            [] shown["holiday"] = 0 /\ shown["mode"] = MANUAL -> shown["roomManual"]
            [] shown["holiday"] = 0 /\ shown["mode"] = ANTI_FROST -> MinTemp)
    [] IsHotWater(kind) ->
         (CASE shown["holiday"] = 1 -> shown["dhwHoliday"]
            [] shown["holiday"] = 0 /\ shown["mode"] = SCHEDULING ->
                 IF OverrideShown THEN shown["temporaryRoom"] ELSE Scheduled
            [] shown["holiday"] = 0 /\ shown["mode"] = MANUAL -> shown["dhwComfort"]
            [] shown["holiday"] = 0 /\ shown["mode"] = ANTI_FROST -> shown["dhwReduced"])
    [] OTHER -> Scheduled

(***************************************************************************)
(* The writes a call decides on before its first await.                    *)
(***************************************************************************)
(* Slip: the end of the override is written first.                         *)
HeatingSetpoint_EndFirst(v) ==
  IF shown["holiday"] = 1 THEN <<Put("roomHoliday", v)>>
  ELSE CASE shown["mode"] = SCHEDULING ->
              <<Put("temporaryEnd", 0), Put("temporaryRoom", v)>>
         [] shown["mode"] = MANUAL -> <<Put("roomManual", v)>>
         [] shown["mode"] = ANTI_FROST -> <<>>
HeatingSetpoint(v) ==
  IF shown["holiday"] = 1 THEN <<Put("roomHoliday", v)>>
  ELSE CASE shown["mode"] = SCHEDULING ->
              <<Put("temporaryRoom", v), Put("temporaryEnd", 0)>>
         [] shown["mode"] = MANUAL -> <<Put("roomManual", v)>>
         [] shown["mode"] = ANTI_FROST -> <<>>

(* Slip: anti-frost takes the comfort setpoint, as manual mode does.       *)
HotWaterSetpoint_Comfort(v) ==
  IF shown["holiday"] = 1 THEN <<Put("dhwHoliday", v)>>
  ELSE IF shown["mode"] = SCHEDULING THEN <<>> ELSE <<Put("dhwComfort", v)>>
HotWaterSetpoint(v) ==
  IF shown["holiday"] = 1 THEN <<Put("dhwHoliday", v)>>
  ELSE CASE shown["mode"] = SCHEDULING -> <<>>
         [] shown["mode"] = MANUAL -> <<Put("dhwComfort", v)>>
         [] shown["mode"] = ANTI_FROST -> <<Put("dhwReduced", v)>>

SetpointPlan(v) ==
  CASE v < MinTemp \/ v > MaxTemp -> <<>>
    [] v \in MinTemp..MaxTemp /\ IsCentralHeating(kind) -> HeatingSetpoint(v)
    [] v \in MinTemp..MaxTemp /\ IsHotWater(kind) -> HotWaterSetpoint(v)
    [] OTHER -> <<>>

SelectPlan(s) == <<Put("selectedSchedule", SelectedForWrite(s))>>

(* Slip: the schedule written is not selected.                             *)
WeekPlan_DaysOnly(s) == [i \in 1..DayCount |-> PutDay(s, i - 1, Given)]
(* Slip: the last day of the week is left out.                             *)
WeekPlan_ShortWeek(s) ==
  (IF SelectedForRead # s THEN SelectPlan(s) ELSE <<>>)
    \o [i \in 1..(DayCount - 1) |-> PutDay(s, i - 1, Given)]
WeekPlan(s) ==
  (IF SelectedForRead # s THEN SelectPlan(s) ELSE <<>>)
    \o [i \in 1..DayCount |-> PutDay(s, i - 1, Given)]

HolidayPlan(window) ==
  <<Put("holidayStart", window[1]), Put("holidayEnd", window[2])>>

(* The day schedules async_repair_invalid_schedules visits, in its order.  *)
RepairPlan ==
  [i \in 1..(4 * DayCount) |-> PutDay((i - 1) \div DayCount, (i - 1) % DayCount, Default)]

Day(t) == t \div HoursPerDay

(* The calls that reach their first write or return without one: a call    *)
(* that is refused before an await leaves no trace and is not made.        *)
Requests ==
       [op : {"set_mode"}, arg : Modes]
  \cup [op : {"set_current_setpoint"}, arg : Temps]
  \cup [op : {"set_selected_schedule"}, arg : Schedules]
  \cup {r \in [op : {"set_current_schedule"}, arg : Schedules] :
          IsHotWater(kind) \/ r.arg = SCHEDULE_4}
  \cup [op : {"set_day_schedule"}, arg : Schedules, day : Days]
  \cup {r \in [op : {"enable_holiday_mode"}, arg : Moments \X Moments] :
          Day(r.arg[1]) >= Day(now) /\ Day(r.arg[2]) >= Day(now) /\ r.arg[2] > r.arg[1]}
  \cup [op : {"disable_holiday_mode"}]
  \cup [op : {"repair_invalid_schedules"}]

PlanOf(r) ==
  CASE r.op = "set_mode" -> <<Put("mode", r.arg)>>
    [] r.op = "set_current_setpoint" -> SetpointPlan(r.arg)
    [] r.op = "set_selected_schedule" -> SelectPlan(r.arg)
    [] r.op = "set_current_schedule" -> WeekPlan(r.arg)
    [] r.op = "set_day_schedule" -> <<PutDay(r.arg, r.day, Given)>>
    [] r.op = "enable_holiday_mode" -> HolidayPlan(r.arg)
    [] r.op = "disable_holiday_mode" -> HolidayPlan(<<0, 0>>)
    [] r.op = "repair_invalid_schedules" -> RepairPlan

(* No snapshot: a mode the zone cannot be in.                              *)
NoPoll == [f \in Shown |-> IF f = "mode" THEN 3 ELSE 0]

UnreadableDays == {sd \in ScheduleIds \X Days : slots[sd] = Unreadable}

NoCall == [op |-> "none"]

Write(t) == plan[t][next[t]]

TypeOK ==
  /\ kind \in Kinds /\ cooling \in BOOLEAN /\ now \in 0..MaxNow
  /\ device \in [Fields -> Nat] /\ shown \in [Shown -> Nat]
  /\ slots \in [ScheduleIds \X Days -> {Unreadable, Default, Given}]
  /\ pc \in [Tasks -> {"idle", "reading", "sent", "landed", "returned"}]
  /\ poll \in [Shown -> Nat]
  /\ device["mode"] \in Modes /\ shown["mode"] \in Modes
  \* the register refuses the id of the cooling schedule
  /\ device["selectedSchedule"] \in 0..2
  /\ \A t \in Tasks :
       /\ pc[t] \in {"sent", "landed"} => next[t] \in 1..Len(plan[t])
       /\ pc[t] = "reading" => next[t] \in 0..Len(plan[t])

(* The zone as a setup or a poll has left it: every day schedule readable. *)
Init ==
  /\ kind \in Kinds /\ cooling \in BOOLEAN
  /\ cooling => IsCentralHeating(kind)
  /\ \E m \in Modes, s \in Schedules \ {SCHEDULE_4} :
       device = [f \in Fields |-> CASE f = "mode" -> m
                                    [] f = "selectedSchedule" -> s
                                    [] OTHER -> 0]
  /\ slots = [sd \in ScheduleIds \X Days |-> Default]
  /\ now = 0 /\ damages = 0 /\ calls = 0
  /\ shown = [f \in Shown |-> Register(f)]
  /\ poll = NoPoll
  /\ pc = [t \in Tasks |-> "idle"]
  /\ call = [t \in Tasks |-> NoCall]
  /\ plan = [t \in Tasks |-> <<>>]
  /\ next = [t \in Tasks |-> 0]
  /\ value = [t \in Tasks |-> 0]
  /\ repaired = [t \in Tasks |-> 0]
  /\ broken = [t \in Tasks |-> 0]
  /\ alone = [t \in Tasks |-> FALSE]
  /\ quiet = [t \in Tasks |-> FALSE]
  /\ fresh = [t \in Tasks |-> FALSE]

(* The value a write carries is taken when it is sent; the end of an       *)
(* override is counted from that moment.                                   *)
Sends(t, w) == value' = [value EXCEPT ![t] =
  IF w.field = "temporaryEnd" THEN now + OverrideHours ELSE w.value]

(* What a task does after write or day number next[t] of its plan.         *)
Continue(t) ==
  \/ /\ next[t] < Len(plan[t])
     /\ next' = [next EXCEPT ![t] = @ + 1]
     /\ \/ /\ call[t].op = "repair_invalid_schedules"
           /\ pc' = [pc EXCEPT ![t] = "reading"]
           /\ UNCHANGED value
        \/ /\ call[t].op # "repair_invalid_schedules"
           /\ pc' = [pc EXCEPT ![t] = "sent"]
           /\ Sends(t, plan[t][next[t] + 1])
  \/ /\ next[t] = Len(plan[t])
     /\ pc' = [pc EXCEPT ![t] = "returned"]
     /\ UNCHANGED <<next, value>>

Active(t) == pc[t] \in {"reading", "sent", "landed"}

(* What the properties remember of the calls that begin undisturbed; a     *)
(* call or a damage that comes between forgets it.                         *)
Remember(t, r) ==
  LET undisturbed == \A o \in Tasks \ {t} : ~Active(o)
      of(op, u) == u = t /\ undisturbed /\ r.op = op
  IN /\ alone' = [u \in Tasks |-> u = t /\ undisturbed]
     /\ broken' = [u \in Tasks |->
          IF of("repair_invalid_schedules", u) THEN Cardinality(UnreadableDays) ELSE 0]
     /\ quiet' = [u \in Tasks |-> of("set_current_setpoint", u) /\ poll = NoPoll]
     /\ fresh' = [u \in Tasks |-> /\ of("set_current_schedule", u)
                                  /\ shown["mode"] = device["mode"]
                                  /\ shown["selectedSchedule"] = device["selectedSchedule"]]
Forget ==
  /\ alone' = [t \in Tasks |-> FALSE]
  /\ broken' = [t \in Tasks |-> 0]
  /\ quiet' = [t \in Tasks |-> FALSE]
  /\ fresh' = [t \in Tasks |-> FALSE]

(* async_set_* and async_repair_invalid_schedules up to their first await. *)
Call(t, r) ==
  /\ ~Active(t) /\ calls < MaxCalls
  /\ calls' = calls + 1
  /\ call' = [call EXCEPT ![t] = r]
  /\ plan' = [plan EXCEPT ![t] = PlanOf(r)]
  /\ \/ /\ r.op = "repair_invalid_schedules"
        /\ pc' = [pc EXCEPT ![t] = "reading"]
        /\ next' = [next EXCEPT ![t] = 0]
        /\ UNCHANGED value
     \/ /\ r.op # "repair_invalid_schedules" /\ PlanOf(r) = <<>>
        /\ pc' = [pc EXCEPT ![t] = "returned"]
        /\ UNCHANGED <<next, value>>
     \/ /\ r.op # "repair_invalid_schedules" /\ PlanOf(r) # <<>>
        /\ pc' = [pc EXCEPT ![t] = "sent"]
        /\ next' = [next EXCEPT ![t] = 1]
        /\ Sends(t, PlanOf(r)[1])
  /\ repaired' = [repaired EXCEPT ![t] = 0]
  /\ Remember(t, r)
  /\ UNCHANGED <<appliance, shown, poll>>

(* The write takes effect.                                                 *)
WriteLands(t) ==
  /\ pc[t] = "sent"
  /\ \/ /\ Write(t).field = "slots"
        /\ slots' = [slots EXCEPT ![<<Write(t).schedule, Write(t).day>>] = value[t]]
        /\ UNCHANGED device
     \/ /\ Write(t).field # "slots"
        /\ device' = [device EXCEPT ![Write(t).field] = value[t]]
        /\ UNCHANGED slots
  /\ pc' = [pc EXCEPT ![t] = "landed"]
  /\ UNCHANGED <<kind, cooling, now, damages>>
  /\ UNCHANGED <<shown, poll, call, plan, next, value, repaired, calls, history>>

(* RemehaComponent.write retains the value; a day schedule is written      *)
(* through a component of its own, which nobody reads.                     *)
WriteAcknowledged(t) ==
  /\ pc[t] = "landed"
  /\ \/ /\ Write(t).field = "slots"
        /\ UNCHANGED shown
     \/ /\ Write(t).field # "slots"
        /\ shown' = [shown EXCEPT ![Write(t).field] = value[t]]
  /\ repaired' = [repaired EXCEPT ![t] =
       IF call[t].op = "repair_invalid_schedules" THEN @ + 1 ELSE @]
  /\ Continue(t)
  /\ UNCHANGED <<appliance, poll, call, plan, calls, history>>

(* The repair reads the type and function of the zone, then day by day.    *)
ReadsIdentity(t) ==
  /\ pc[t] = "reading" /\ next[t] = 0
  /\ next' = [next EXCEPT ![t] = 1]
  /\ UNCHANGED <<appliance, shown, poll, pc, call, plan, value, repaired, calls, history>>

(* Slip: the day is written whatever was read.                             *)
ReadsDay_WritesAll(t) ==
  /\ pc[t] = "reading" /\ next[t] > 0
  /\ pc' = [pc EXCEPT ![t] = "sent"]
  /\ Sends(t, Write(t))
  /\ UNCHANGED next
  /\ UNCHANGED <<appliance, shown, poll, call, plan, repaired, calls, history>>
ReadsDay(t) ==
  /\ pc[t] = "reading" /\ next[t] > 0
  /\ \/ /\ slots[<<Write(t).schedule, Write(t).day>>] = Unreadable
        /\ pc' = [pc EXCEPT ![t] = "sent"]
        /\ Sends(t, Write(t))
        /\ UNCHANGED next
     \/ /\ slots[<<Write(t).schedule, Write(t).day>>] # Unreadable
        /\ Continue(t)
  /\ UNCHANGED <<appliance, shown, poll, call, plan, repaired, calls, history>>

(* A request is lost, refused or cancelled, or the list of a day holds     *)
(* more slots than can be encoded: what has been written stays written.    *)
Raises(t) ==
  /\ Active(t)
  /\ pc' = [pc EXCEPT ![t] = "idle"]
  /\ call' = [call EXCEPT ![t] = NoCall]
  /\ plan' = [plan EXCEPT ![t] = <<>>]
  /\ next' = [next EXCEPT ![t] = 0]
  /\ value' = [value EXCEPT ![t] = 0]
  /\ repaired' = [repaired EXCEPT ![t] = 0]
  /\ broken' = [broken EXCEPT ![t] = 0]
  /\ alone' = [alone EXCEPT ![t] = FALSE]
  /\ quiet' = [quiet EXCEPT ![t] = FALSE]
  /\ fresh' = [fresh EXCEPT ![t] = FALSE]
  /\ UNCHANGED <<appliance, shown, poll, calls>>

(***************************************************************************)
(* A poll reads the zone and replaces the values when all of it has been   *)
(* answered.  A day schedule that cannot be read makes it raise.           *)
(***************************************************************************)
PollServed ==
  /\ poll = NoPoll /\ UnreadableDays = {}
  /\ poll' = [f \in Shown |-> Register(f)]
  /\ quiet' = [t \in Tasks |-> FALSE]
  /\ UNCHANGED <<appliance, shown, locals, calls, alone, broken, fresh>>

PollEnds ==
  /\ poll # NoPoll
  /\ shown' = poll
  /\ poll' = NoPoll
  /\ UNCHANGED <<appliance, locals, calls, history>>

PollFails ==
  /\ poll # NoPoll
  /\ poll' = NoPoll
  /\ UNCHANGED <<appliance, shown, locals, calls, history>>

(***************************************************************************)
(* The appliance by itself: time passes, a day schedule gets damaged.      *)
(***************************************************************************)
Tick ==
  /\ now < MaxNow
  /\ now' = now + 1
  /\ UNCHANGED <<kind, cooling, device, slots, damages>>
  /\ UNCHANGED <<shown, poll, locals, calls, history>>

Damage(sd) ==
  /\ damages < MaxCorruptions /\ slots[sd] # Unreadable
  /\ damages' = damages + 1
  /\ slots' = [slots EXCEPT ![sd] = Unreadable]
  /\ Forget
  /\ UNCHANGED <<kind, cooling, device, now, shown, poll, locals, calls>>

Next ==
  \/ \E t \in Tasks :
       \/ \E r \in Requests : Call(t, r)
       \/ WriteLands(t)
       \/ WriteAcknowledged(t)
       \/ ReadsIdentity(t)
       \/ ReadsDay(t)
       \/ Raises(t)
  \/ PollServed
  \/ PollEnds
  \/ PollFails
  \/ Tick
  \/ \E sd \in Schedules \X Days : Damage(sd)

Spec == Init /\ [][Next]_vars

(***************************************************************************)
(* Properties.                                                             *)
(***************************************************************************)
Returned(t, op) == pc[t] = "returned" /\ call[t].op = op

(* The schedule in force, which a poll would show as selected.             *)
Selection == SelectedIn(device)

(* What each call has promised when it returns.  async_set_current_schedule*)
(* writes the selection unless the component shows it: one that shows      *)
(* another than the appliance's may leave the appliance's alone.  Schedule *)
(* 4 is written as schedule 1.                                             *)
Done(t) ==
  LET c == call[t] IN
  CASE c.op = "set_mode" -> device["mode"] = c.arg
    [] c.op = "set_selected_schedule" -> device["selectedSchedule"] = SelectedForWrite(c.arg)
    [] c.op = "set_current_schedule" ->
         /\ \A d \in Days : slots[<<c.arg, d>>] = Given
         /\ fresh[t] =>
              \/ Selection = c.arg
              \/ c.arg = SCHEDULE_4 /\ device["selectedSchedule"] = SCHEDULE_1
    [] c.op = "set_day_schedule" -> slots[<<c.arg, c.day>>] = Given
    [] c.op = "enable_holiday_mode" ->
         device["holidayStart"] = c.arg[1] /\ device["holidayEnd"] = c.arg[2]
    [] c.op = "disable_holiday_mode" -> device["holidayStart"] = 0 /\ device["holidayEnd"] = 0
    [] c.op = "repair_invalid_schedules" -> UnreadableDays = {} /\ repaired[t] = broken[t]
    [] OTHER -> TRUE

(* A call that returns, and that no other call overlapped, has brought its *)
(* registers and all its days to the appliance, whatever an earlier call   *)
(* that raised half-way, a stale component or a poll have left.  Only the  *)
(* selection that comes with a week asks for a component that shows the    *)
(* appliance's.  A repair leaves no unreadable day and reports as many as  *)
(* it found.                                                               *)
OkMeansDone == \A t \in Tasks : pc[t] = "returned" /\ alone[t] => Done(t)

(* "Setting the current schedule also updates selected_schedule to         *)
(* schedule_id", says async_set_current_schedule: that schedule is then    *)
(* the one the component shows or at least the one in force, when nothing  *)
(* intervened and the component showed the appliance's selection.          *)
CurrentScheduleSelected ==
  \A t \in Tasks :
    Returned(t, "set_current_schedule") /\ alone[t] /\ fresh[t] =>
      call[t].arg \in {SelectedForRead, Selection}

(* The field async_set_current_setpoint writes is the one current_setpoint *)
(* reads back, in every mode, in a holiday and during an override, until   *)
(* another call or a poll intervenes or the override has run out.          *)
SetpointReadsBack ==
  \A t \in Tasks :
    Returned(t, "set_current_setpoint") /\ alone[t] /\ quiet[t] /\ plan[t] # <<>> =>
      \/ CurrentSetpoint = call[t].arg
      \/ shown["mode"] = SCHEDULING /\ shown["temporaryEnd"] < now

(* An override gets its end only when its own setpoint is in the register, *)
(* so a call that raises in between never arms what an earlier one left.   *)
ArmsItsOwnSetpoint ==
  [][device'["temporaryEnd"] # device["temporaryEnd"] =>
       \E t \in Tasks :
         /\ pc[t] = "sent" /\ Write(t).field = "temporaryEnd"
         /\ alone[t] => device["temporaryRoom"] = call[t].arg]_vars

(* A repair writes only days that could not be read, unless another call   *)
(* or the appliance has changed the day since the repair read it.          *)
RepairSparesReadableDays ==
  [][\A t \in Tasks :
       pc[t] = "sent" /\ pc'[t] = "landed" /\ call[t].op = "repair_invalid_schedules"
         /\ alone[t] =>
           slots[<<Write(t).schedule, Write(t).day>>] = Unreadable]_vars
=============================================================================
