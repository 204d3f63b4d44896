---------------------------- MODULE GTW08Gateway ----------------------------
(***************************************************************************)
(* The GTW-08 gateway (gtw08/gtw08.py) as one task uses it through a       *)
(* retrying unit it shares with other tasks: detection, health check, the  *)
(* lazy setup that finds the zones, the polls, the reset of the discovery  *)
(* table and the repair of unreadable day schedules.                       *)
(*                                                                         *)
(* A component is read with one request, and a request is one call of the  *)
(* unit: it is repeated, given up or cancelled there, and what the gateway *)
(* does next is conjoined to the step that ends the call.  The base class  *)
(* Device is external: a poll first awaits _async_setup until that has     *)
(* returned once, then reads the components its names list; one that       *)
(* fails is reported, or its error raised.                                 *)
(***************************************************************************)
EXTENDS RetryingUnit, Sequences, SequencesExt, FiniteSets

CONSTANTS
  Client,       \* the task that uses the gateway
  None,         \* an absent value
  Installations,\* what may be behind the unit, see InstallationsAssumption
  Days,         \* day schedules of a zone, numbered in the order of the repair
  MaxFaults     \* bound on failed requests, cancellations and damaged days

BoardTypes     == {"CU_HW", "EHC", "MK", "GTW08", "old_gateway", "unlisted", "unset"}
MainBoards     == {"CU_HW", "EHC"}
ZoneFunctions  == {"DISABLED", "DIRECT", "unlisted"}
\* What the zone count of the discovery table may show: the truth, no value, or zero.
TableStates    == {"intact", "none", "zero"}

(***************************************************************************)
(* An installation has board types and zone functions the code may not     *)
(* list, days no Timeslot can be decoded from, and may be no GTW-08; it is *)
(* used by other tasks as well, or by none.                                *)
(***************************************************************************)
ASSUME InstallationsAssumption ==
  /\ Client \in Tasks
  /\ Days \in Nat \ {0} /\ MaxFaults \in Nat /\ None \notin Nat
  /\ \A i \in Installations :
       /\ i.gtw08 \in BOOLEAN
       /\ i.boards \in Seq(BoardTypes)
       /\ i.functions \in Seq(ZoneFunctions)
       /\ i.damaged \subseteq (DOMAIN i.functions) \X (1..Days)
       /\ i.table \in TableStates
       /\ i.others \subseteq Tasks \ {Client}

VARIABLES
  site,           \* the installation's boards, zone functions and other users
  table, damaged, \* its discovery table and the days no slot can be decoded from
  discovered,     \* discovery_table: the boards and number of zones it holds
  zones, ready,   \* GTW08.zones, and whether setup has returned
  restricted,     \* the board the appliance's fields were restricted for
  doing, phase,   \* the call, and the request it makes next or waits on
  todo,           \* names of the components still to be read
  zone, day,      \* loop variables of the setup and the repair
  result,         \* how the last call ended
  faults

device  == <<site, table, damaged>>
object  == <<discovered, zones, ready, restricted>>
call    == <<doing, phase, todo, zone, day, result>>
gateway == <<device, object, call, faults>>
vars    == <<unit, gateway>>

SETTINGS == <<"discovery_table">>
READINGS == <<"main_control_monitoring", "appliance", "buffer_tank", "_zones">>

Polls == [ async_update          |-> SETTINGS \o READINGS,
           async_update_readings |-> READINGS,
           async_update_settings |-> SETTINGS ]
Calls == DOMAIN Polls \cup
         {"async_detect", "async_health_check", "async_repair_invalid_schedules", "reset"}
WritePhases == {"day_write", "reset"}
Phases      == WritePhases \cup
               {"none", "detect", "health", "setup", "zone_function", "zone",
                "poll", "zone_kind", "day_read"}
Verdicts == {"success", "NO_MAINBOARD", "NO_GATEWAY", "NOT_A_GTW08"}
Results  == Verdicts \cup ModbusErrors \cup
            {"none", "ok", "report", "repaired", "cancelled", "ValueError",
             "api_setup_number_of_zones", "InvalidZoneSchedule", "health_check_failed"}

NumberOfZones == Len(site.functions)

\* What a read of the discovery table returns.
Shown ==
  IF table = "intact" THEN [boards |-> site.boards, zones |-> NumberOfZones]
  ELSE [boards |-> <<>>, zones |-> IF table = "none" THEN None ELSE 0]

Init ==
  /\ UnitInit
  /\ \E i \in Installations :
       /\ site = [gtw08 |-> i.gtw08, boards |-> i.boards, functions |-> i.functions,
                  others |-> i.others]
       /\ table = i.table
       /\ damaged = i.damaged
  /\ discovered = [boards |-> <<>>, zones |-> None]
  /\ zones = <<>> /\ ready = FALSE /\ restricted = None
  /\ doing = "none" /\ phase = "none" /\ todo = <<>> /\ zone = 0 /\ day = 0
  /\ result = "none"
  /\ faults = 0
-----------------------------------------------------------------------------
(* The end of a call, and the next request of one.                         *)

Return(r) ==
  /\ doing' = "none" /\ phase' = "none" /\ todo' = <<>> /\ zone' = 0 /\ day' = 0
  /\ result' = r

Request(p, names, z, d) ==
  /\ phase' = p /\ todo' = names /\ zone' = z /\ day' = d
  /\ UNCHANGED <<doing, result>>

\* Slip: the repair visits the zones the gateway offers.
ZonesToRepair_Offered == Len(zones)

\* number_of_zones or 0
ZonesToRepair == IF discovered.zones = None THEN 0 ELSE discovered.zones

FirstPhase(c) ==
  CASE c = "async_detect"       -> "detect"
    [] c = "async_health_check" -> "health"
    [] c = "reset"              -> "reset"
    [] c \in DOMAIN Polls       -> IF ready THEN "poll" ELSE "setup"
    [] OTHER                    -> "zone_kind"

FirstNames(c) ==
  IF c \notin DOMAIN Polls THEN <<>>
  ELSE IF ready THEN Polls[c]
  ELSE SETTINGS \o Front(READINGS)

\* A repair before any table was read finds no zones and returns at once.
Begin(c) ==
  /\ doing = "none"
  /\ IF c = "async_repair_invalid_schedules" /\ ZonesToRepair = 0
       THEN Return("repaired")
       ELSE /\ doing' = c
            /\ result' = "none"
            /\ phase' = FirstPhase(c)
            /\ todo' = FirstNames(c)
            /\ zone' = IF FirstPhase(c) = "zone_kind" THEN 1 ELSE 0
            /\ day' = 0
  /\ UNCHANGED <<unit, device, object, faults>>

Sends ==
  /\ doing # "none"
  /\ Call(Client, IF phase \in WritePhases THEN "write" ELSE "read")
  /\ UNCHANGED gateway
-----------------------------------------------------------------------------
(* What the gateway does with an answer.                                   *)

Answer(p) == phase = p /\ site.gtw08 /\ Answered(Client) /\ UNCHANGED <<site, faults>>

Has(boards, types) == \E b \in types : Contains(boards, b)

Verdict(boards) ==
  IF Has(boards, {"unlisted"})      THEN "ValueError"
  ELSE IF ~Has(boards, MainBoards)  THEN "NO_MAINBOARD"
  ELSE IF ~Has(boards, {"GTW08"})   THEN "NO_GATEWAY"
  ELSE "success"

DetectAnswered ==
  /\ Answer("detect")
  /\ Return(Verdict(Shown.boards))
  /\ UNCHANGED <<table, damaged, object>>

HealthAnswered ==
  /\ Answer("health")
  /\ Return("ok")
  /\ UNCHANGED <<table, damaged, object>>

\* The index of the first main board, 0 without one.
FirstMainBoard(boards) == SelectInSeq(boards, LAMBDA b : b \in MainBoards)

\* restrict_fields_for_device of the first main board, before the appliance is read.
Restriction(boards) ==
  IF FirstMainBoard(boards) = 0 THEN restricted ELSE boards[FirstMainBoard(boards)]

\* The loop over the zones; after the last one setup is done and the poll begins.
SetupZonesFrom(z) ==
  IF z <= discovered.zones
  THEN Request("zone_function", <<>>, z, 0) /\ ready' = ready
  ELSE Request("poll", Polls[doing], 0, 0) /\ ready' = TRUE

\* Slip: zones found by a setup that failed are kept.
ZonesAtSetup_Kept == zones

\* self.zones = []
ZonesAtSetup == <<>>

ExaminesBoards(name) == name = "main_control_monitoring"

(***************************************************************************)
(* _async_setup up to the zones: four components in order.  The boards are *)
(* examined once the second has been read, the zones counted after all.    *)
(***************************************************************************)
SetupComponentRead ==
  LET name == Head(todo)
      rest == Tail(todo)
  IN  /\ Answer("setup")
      /\ discovered' = IF name = "discovery_table" THEN Shown ELSE discovered
      /\ restricted' = IF ExaminesBoards(name) THEN Restriction(discovered.boards) ELSE restricted
      /\ \/ /\ ExaminesBoards(name) /\ Has(discovered.boards, {"unlisted"})
            /\ Return("ValueError")
            /\ UNCHANGED <<zones, ready>>
         \/ /\ ~(ExaminesBoards(name) /\ Has(discovered.boards, {"unlisted"}))
            /\ rest # <<>>
            /\ Request("setup", rest, 0, 0)
            /\ UNCHANGED <<zones, ready>>
         \/ /\ rest = <<>>
            /\ discovered.zones = None
            /\ Return("api_setup_number_of_zones")
            /\ UNCHANGED <<zones, ready>>
         \/ /\ rest = <<>>
            /\ discovered.zones # None
            /\ zones' = ZonesAtSetup
            /\ SetupZonesFrom(1)
      /\ UNCHANGED <<table, damaged>>

ZoneFunctionRead ==
  /\ Answer("zone_function")
  /\ \/ /\ site.functions[zone] = "unlisted"
        /\ Return("ValueError")
        /\ UNCHANGED ready
     \/ /\ site.functions[zone] = "DISABLED"
        /\ SetupZonesFrom(zone + 1)
     \/ /\ site.functions[zone] = "DIRECT"
        /\ Request("zone", <<>>, zone, 0)
        /\ UNCHANGED ready
  /\ UNCHANGED <<table, damaged, discovered, zones, restricted>>

\* A zone's update reads all its time programs and decodes their slots.
Unreadable(z) == \E d \in 1..Days : <<z, d>> \in damaged

ZoneRead ==
  /\ Answer("zone")
  /\ \/ /\ Unreadable(zone)
        /\ Return("InvalidZoneSchedule")
        /\ UNCHANGED <<zones, ready>>
     \/ /\ ~Unreadable(zone)
        /\ zones' = Append(zones, zone)
        /\ SetupZonesFrom(zone + 1)
  /\ UNCHANGED <<table, damaged, discovered, restricted>>

PollsOn == IF Tail(todo) = <<>> THEN Return("report") ELSE Request("poll", Tail(todo), 0, 0)

Polled ==
  /\ Answer("poll")
  /\ discovered' = IF Head(todo) = "discovery_table" THEN Shown ELSE discovered
  /\ IF Head(todo) = "_zones" /\ \E i \in DOMAIN zones : Unreadable(zones[i])
       THEN Return("InvalidZoneSchedule")
       ELSE PollsOn
  /\ UNCHANGED <<table, damaged, zones, ready, restricted>>

ResetWritten ==
  /\ Answer("reset")
  /\ table' = "intact"
  /\ Return("ok")
  /\ UNCHANGED <<damaged, object>>
-----------------------------------------------------------------------------
(* The repair: every day of every zone of the table, disabled ones too.    *)

\* The function must be one ClimateZoneFunction lists, for a default slot to be made.
ZoneKindRead ==
  /\ Answer("zone_kind")
  /\ IF site.functions[zone] = "unlisted"
       THEN Return("ValueError")
       ELSE Request("day_read", <<>>, zone, 1)
  /\ UNCHANGED <<table, damaged, object>>

\* Slip: the last zone is left out of the range.
MoreZones_Short == zone + 1 < ZonesToRepair

\* range(1, number_of_zones + 1)
MoreZones == zone < ZonesToRepair

NextDay ==
  CASE day < Days -> Request("day_read", <<>>, zone, day + 1)
    [] day = Days /\ MoreZones -> Request("zone_kind", <<>>, zone + 1, 0)
    [] OTHER -> Return("repaired")

DayRead ==
  /\ Answer("day_read")
  /\ IF <<zone, day>> \in damaged
       THEN Request("day_write", <<>>, zone, day)
       ELSE NextDay
  /\ UNCHANGED <<table, damaged, object>>

DayWritten ==
  /\ Answer("day_write")
  /\ damaged' = damaged \ {<<zone, day>>}
  /\ NextDay
  /\ UNCHANGED <<table, object>>
-----------------------------------------------------------------------------
(* Requests that fail.  On a GTW-08 they use up the budget of faults, on   *)
(* anything else no request is served.                                     *)

Faulty == IF site.gtw08 THEN faults < MaxFaults /\ faults' = faults + 1 ELSE UNCHANGED faults

\* A write whose reply is lost may have taken effect.
EffectOfWrite ==
  LET took == landed'[Client] > landed[Client] /\ site.gtw08
  IN  /\ table' = IF took /\ phase = "reset" THEN "intact" ELSE table
      /\ damaged' = IF took /\ phase = "day_write" THEN damaged \ {<<zone, day>>} ELSE damaged

\* except (IllegalDataAddressError, IllegalDataValueError, GatewayPathUnavailableError)
MeansAbsent(e) == e = "not_served"

Failed(e) ==
  /\ Faulty
  /\ FailsForGood(Client, e)
  /\ EffectOfWrite
  /\ \/ phase = "detect" /\ MeansAbsent(e) /\ Return("NOT_A_GTW08")
     \/ phase = "detect" /\ ~MeansAbsent(e) /\ Return(e)
     \/ phase = "health" /\ Return(IF e = "link" THEN e ELSE "health_check_failed")
     \/ phase = "poll" /\ e # "link" /\ PollsOn
     \/ phase \notin {"detect", "health"} /\ Return(e)
  /\ UNCHANGED <<site, object>>

Repeats ==
  /\ Faulty
  /\ FailsAndRepeats(Client)
  /\ EffectOfWrite
  /\ UNCHANGED <<site, object, call>>

GivenUp ==
  /\ Faulty
  /\ Cancelled(Client)
  /\ EffectOfWrite
  /\ Return("cancelled")
  /\ UNCHANGED <<site, object>>

\* A day schedule is damaged in transit or on the gateway, between two calls.
Damaged(z, d) ==
  /\ doing = "none"
  /\ faults < MaxFaults
  /\ faults' = faults + 1
  /\ damaged' = damaged \cup {<<z, d>>}
  /\ UNCHANGED <<unit, site, table, object, call>>

OtherTask(t) == UnitNext(t) /\ UNCHANGED gateway

Answers ==
  \/ DetectAnswered \/ HealthAnswered \/ SetupComponentRead \/ ZoneFunctionRead
  \/ ZoneRead \/ Polled \/ ResetWritten \/ ZoneKindRead \/ DayRead \/ DayWritten

Next ==
  \/ \E c \in Calls : Begin(c)
  \/ Sends
  \/ Answers
  \/ \E e \in ModbusErrors : Failed(e)
  \/ Repeats
  \/ GivenUp
  \/ \E z \in 1..NumberOfZones, d \in 1..Days : Damaged(z, d)
  \/ \E t \in site.others : OtherTask(t)

(***************************************************************************)
(* A request under way is answered or fails, the event loop runs the task, *)
(* and the host keeps on updating, and on repairing and resetting.         *)
(***************************************************************************)
Fairness ==
  /\ WF_vars(Sends)
  /\ WF_vars(Answers)
  /\ \A c \in {"async_update", "async_repair_invalid_schedules", "reset"} : SF_vars(Begin(c))

Spec == Init /\ [][Next]_vars /\ Fairness
-----------------------------------------------------------------------------
\* Every variable holds a value of the kind the code gives it.
TypeOK ==
  /\ UnitTypeOK
  /\ table \in TableStates
  /\ damaged \subseteq (DOMAIN site.functions) \X (1..Days)
  /\ discovered \in [boards : {<<>>, site.boards}, zones : {None, 0, NumberOfZones}]
  /\ zones \in Seq(DOMAIN site.functions) /\ ready \in BOOLEAN
  /\ restricted \in MainBoards \cup {None}
  /\ doing \in Calls \cup {"none"} /\ phase \in Phases
  /\ todo \in Seq({SETTINGS[i] : i \in DOMAIN SETTINGS} \cup {READINGS[i] : i \in DOMAIN READINGS})
  /\ zone \in 0..NumberOfZones /\ day \in 0..Days
  /\ result \in Results
  /\ faults \in 0..MaxFaults

(***************************************************************************)
(* The verdicts of async_detect: a success is a table with a main board    *)
(* and a GTW-08, a missing board is missing from the table, and a GTW-08   *)
(* is taken for something else only when every try of a request failed.    *)
(***************************************************************************)
DetectionIsFounded ==
  [][ doing = "async_detect" /\ doing' = "none" =>
        /\ result' = "success" => Has(Shown.boards, MainBoards) /\ Has(Shown.boards, {"GTW08"})
        /\ result' = "NO_MAINBOARD" => ~Has(Shown.boards, MainBoards)
        /\ result' = "NO_GATEWAY" => ~Has(Shown.boards, {"GTW08"})
        /\ result' = "NOT_A_GTW08" => ~site.gtw08 \/ requests[Client] >= MaxTries
    ]_vars

(***************************************************************************)
(* However often setup failed on the way, when it returns the zones are    *)
(* the enabled ones of all those the table shows, each once and in order,  *)
(* and the appliance's fields are those of the first main board shown: the *)
(* gateway has no zones only if the table shows none or all are disabled.  *)
(* No later call changes either.                                           *)
(***************************************************************************)
Ascending(s) == \A i, j \in DOMAIN s : i < j => s[i] < s[j]
Found(n)     == {zones[i] : i \in DOMAIN zones} = {z \in 1..n : site.functions[z] # "DISABLED"}

FoundAll ==
  /\ Shown.zones # None
  /\ Ascending(zones) /\ Found(Shown.zones)
  /\ restricted = Restriction(Shown.boards)

SetupIsComplete ==
  [][IF ready THEN UNCHANGED <<ready, zones, restricted>> ELSE ready' => FoundAll']_vars

(***************************************************************************)
(* A repair that returns, with the zones known, leaves no day of any of    *)
(* them unreadable, whatever earlier repairs broke off or lost.            *)
(***************************************************************************)
RepairLeavesNoDamage ==
  [][ doing = "async_repair_invalid_schedules" /\ result' = "repaired" /\ doing' = "none" =>
        damaged' \cap (1..ZonesToRepair) \X (1..Days) = {} ]_vars

(***************************************************************************)
(* The host that updates, repairs and resets gets the gateway going,       *)
(* whatever was damaged: setup returns and a later poll reports, unless    *)
(* the installation has something the code does not list.                  *)
(***************************************************************************)
Listed == site.gtw08 /\ ~Has(site.boards, {"unlisted"}) /\ ~Has(site.functions, {"unlisted"})

Recovers == []<>(Listed => result = "report")
=============================================================================
