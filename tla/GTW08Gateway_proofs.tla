------------------------- MODULE GTW08Gateway_proofs -------------------------
(***************************************************************************)
(* Proofs about the retrying unit and the gateway on it, for every         *)
(* installation, every number of zones and days, every set of tasks and    *)
(* every number of tries.                                                  *)
(***************************************************************************)
EXTENDS GTW08Gateway, SequenceTheorems, FiniteSetTheorems, TLAPS

-----------------------------------------------------------------------------
(* The retrying unit by itself.                                            *)

(* A request under way is the one its loop counts, and a write under way   *)
(* has not taken effect: what takes effect at most once is the request     *)
(* that ends the call.                                                     *)
Counted(t) == pc[t] = "sent" => requests[t] = try[t] + 1
Fresh(t)   == op[t] = "write" => /\ landed[t] <= 1
                                 /\ pc[t] = "sent" => landed[t] = 0

UnitInv ==
  /\ UnitTypeOK
  /\ \A t \in Tasks : Counted(t) /\ Fresh(t)

LEMMA InitUnitInv == UnitInit => UnitInv
BY RetryAssumption DEF UnitInit, UnitInv, UnitTypeOK, Counted, Fresh, Operations

(* Every step of a task keeps the invariant.                               *)
LEMMA StepUnitInv ==
  ASSUME UnitInv, NEW t \in Tasks, UnitNext(t)
  PROVE  UnitInv'
<1> USE RetryAssumption
<1>1. CASE \E o \in Operations : Call(t, o)
  BY <1>1 DEF Call, UnitInv, UnitTypeOK, Counted, Fresh, Operations
<1>2. CASE FailsAndRepeats(t)
  <2>1. op[t] = "read"
    BY <1>2 DEF FailsAndRepeats, Decorated
  <2>2. /\ try[t] + 1 \in 0..(MaxTries - 1)
        /\ requests[t] + 1 \in 0..MaxTries
        /\ requests[t] + 1 = try[t] + 1 + 1
    BY <1>2 DEF FailsAndRepeats, GivesUp, UnitInv, UnitTypeOK, Counted
  <2>3. landed' = landed
    BY <2>1, <1>2 DEF FailsAndRepeats, MayTakeEffect, TakesEffect, UnitInv, UnitTypeOK
  <2> QED
    BY <1>2, <2>1, <2>2, <2>3 DEF FailsAndRepeats, UnitInv, UnitTypeOK, Counted, Fresh
<1>3. CASE Finish(t) /\ MayTakeEffect(t)
  <2>1. landed' \in [Tasks -> Nat] /\ \A u \in Tasks \ {t} : landed'[u] = landed[u]
    BY <1>3 DEF MayTakeEffect, TakesEffect, UnitInv, UnitTypeOK
  <2>2. op[t] = "write" => landed'[t] <= 1
    BY <1>3 DEF MayTakeEffect, TakesEffect, Finish, UnitInv, UnitTypeOK, Fresh
  <2>0. 0 \in 0..(MaxTries - 1) /\ 0 \in 0..MaxTries
    OBVIOUS
  <2>3. UnitTypeOK'
    <3>1. /\ pc' \in [Tasks -> {"idle", "sent"}]
          /\ try' \in [Tasks -> 0..(MaxTries - 1)]
          /\ requests' \in [Tasks -> 0..MaxTries]
      BY <1>3, <2>0 DEF Finish, UnitInv, UnitTypeOK
    <3> QED
      BY <1>3, <2>1, <3>1 DEF Finish, UnitInv, UnitTypeOK
  <2>4. \A u \in Tasks : Counted(u)'
    BY <1>3 DEF Finish, UnitInv, UnitTypeOK, Counted
  <2>5. \A u \in Tasks : Fresh(u)'
    BY <1>3, <2>1, <2>2 DEF Finish, UnitInv, UnitTypeOK, Fresh
  <2> QED
    BY <2>3, <2>4, <2>5 DEF UnitInv
<1> QED
  BY <1>1, <1>2, <1>3
  DEF UnitNext, Answered, FailsForGood, Cancelled, MayTakeEffect

(* The invariant of the unit, whoever uses it.                             *)
THEOREM UnitInvHolds == UnitSpec => []UnitInv
<1>1. UnitInit => UnitInv
  BY InitUnitInv
<1>2. UnitInv /\ [\E t \in Tasks : UnitNext(t)]_unit => UnitInv'
  <2> SUFFICES ASSUME UnitInv, [\E t \in Tasks : UnitNext(t)]_unit PROVE UnitInv'
    OBVIOUS
  <2>1. CASE UNCHANGED unit
    BY <2>1 DEF unit, UnitInv, UnitTypeOK, Counted, Fresh
  <2> QED
    BY <2>1, StepUnitInv
<1> QED
  BY <1>1, <1>2, PTL DEF UnitSpec

(* Type correctness of the unit.                                           *)
THEOREM UnitTypeCorrect == UnitSpec => []UnitTypeOK
<1>1. UnitInv => UnitTypeOK
  BY DEF UnitInv
<1> QED
  BY <1>1, UnitInvHolds, PTL

(* A write takes effect at most once per call, whatever it fails with.     *)
THEOREM WritesOnce == UnitSpec => []WritesAtMostOnce
<1>1. UnitInv => WritesAtMostOnce
  BY DEF UnitInv, Fresh, WritesAtMostOnce
<1> QED
  BY <1>1, UnitInvHolds, PTL
-----------------------------------------------------------------------------
(* The gateway.                                                            *)

SetupPhases  == {"setup", "zone_function", "zone"}
RepairPhases == {"zone_kind", "day_read", "day_write"}

(***************************************************************************)
(* The call a request is made for, and the operation it is: a write only   *)
(* in a phase that writes, and nothing under way without a call.           *)
(***************************************************************************)
Suits(c, p) ==
  /\ p = "none" <=> c = "none"
  /\ p = "detect" <=> c = "async_detect"
  /\ p = "health" <=> c = "async_health_check"
  /\ p = "reset" <=> c = "reset"
  /\ p \in RepairPhases <=> c = "async_repair_invalid_schedules"
  /\ p \in SetupPhases \cup {"poll"} <=> c \in DOMAIN Polls

Working ==
  /\ Suits(doing, phase)
  /\ doing = "none" => pc[Client] = "idle"
  /\ pc[Client] = "sent" => op[Client] = IF phase \in WritePhases THEN "write" ELSE "read"

Installed ==
  /\ site.functions \in Seq(ZoneFunctions) /\ site.boards \in Seq(BoardTypes)
  /\ site.others \subseteq Tasks \ {Client}

(* What the table showed last.                                             *)
Discovered ==
  \/ discovered.zones = None
  \/ discovered.zones = 0
  \/ discovered = [boards |-> site.boards, zones |-> NumberOfZones]

(***************************************************************************)
(* Setup: what has been read decides which names are left; the boards have *)
(* been examined once the second is gone, and the zones below the one at   *)
(* hand have been found, in order.  Meanwhile nobody changes the table.    *)
(***************************************************************************)
LaterNames == {<<"appliance", "buffer_tank">>, <<"buffer_tank">>}
TableNames == LaterNames \cup {<<"main_control_monitoring", "appliance", "buffer_tank">>}
SetupNames == TableNames \cup
  {<<"discovery_table", "main_control_monitoring", "appliance", "buffer_tank">>}

SettingUp ==
  /\ phase \in SetupPhases => ~ready
  /\ phase = "setup" =>
       /\ todo \in SetupNames
       /\ todo \in TableNames => discovered = Shown
       /\ todo \in LaterNames => restricted = Restriction(discovered.boards)
  /\ phase \in {"zone_function", "zone"} =>
       /\ discovered = Shown /\ discovered.zones \in Nat /\ zone \in 1..discovered.zones
       /\ restricted = Restriction(discovered.boards)
       /\ Ascending(zones) /\ Found(zone - 1)
  /\ phase = "zone" => site.functions[zone] # "DISABLED"

(* Repair: the days before the one at hand can be read.                    *)
Passed(z, d) == z < zone \/ (z = zone /\ phase # "zone_kind" /\ d < day)

Repairing ==
  phase \in RepairPhases =>
    /\ ZonesToRepair \in Nat /\ zone \in 1..ZonesToRepair
    /\ phase # "zone_kind" => day \in 1..Days
    /\ \A z \in 1..ZonesToRepair, d \in 1..Days : Passed(z, d) => <<z, d>> \notin damaged

Inv == /\ UnitInv /\ Working /\ Installed /\ Discovered
       /\ zones \in Seq(Nat)
       /\ SettingUp /\ Repairing

-----------------------------------------------------------------------------
(* The operators of the model.                                             *)

LEMMA PollCalls ==
  DOMAIN Polls = {"async_update", "async_update_readings", "async_update_settings"}
BY DEF Polls

Names == {"discovery_table", "main_control_monitoring", "appliance", "buffer_tank", "_zones"}

\* The first poll reads what setup needs: all components but the zones.
LEMMA FirstSetupNames ==
  SETTINGS \o Front(READINGS)
    = <<"discovery_table", "main_control_monitoring", "appliance", "buffer_tank">>
<1> DEFINE s == READINGS
           f == SubSeq(s, 1, 3)
           g == <<"main_control_monitoring", "appliance", "buffer_tank">>
           c == SETTINGS \o g
           n == <<"discovery_table", "main_control_monitoring", "appliance", "buffer_tank">>
<1>1. f = g
  <2>1. \A i \in 1..3 : s[i] \in Names
    BY DEF READINGS, Names
  <2> HIDE DEF s
  <2>2. f \in Seq(Names) /\ Len(f) = 3 /\ \A i \in 1..3 : f[i] = s[i]
    <3>1. 1 \in Int /\ 3 \in Int
      OBVIOUS
    <3>2. /\ f \in Seq(Names) /\ Len(f) = IF 1 <= 3 THEN 3 - 1 + 1 ELSE 0
          /\ \A i \in 1..(3 - 1 + 1) : f[i] = s[1 + i - 1]
      BY <2>1, <3>1, SubSeqProperties
    <3> QED
      BY <3>2
  <2>3. g \in Seq(Names) /\ Len(g) = 3
    BY DEF Names
  <2>4. \A i \in 1..3 : f[i] = g[i]
    BY <2>2 DEF s, READINGS
  <2> QED
    BY <2>2, <2>3, <2>4, SeqEqual
<1>2. Front(READINGS) = f
  BY DEF Front, READINGS
<1>3. c \in Seq(Names) /\ Len(c) = 4
      /\ \A i \in 1..4 : c[i] = IF i <= 1 THEN SETTINGS[i] ELSE g[i - 1]
  <2>1. SETTINGS \in Seq(Names) /\ Len(SETTINGS) = 1 /\ g \in Seq(Names) /\ Len(g) = 3
    BY DEF SETTINGS, Names
  <2> HIDE DEF g
  <2>2. /\ c \in Seq(Names) /\ Len(c) = Len(SETTINGS) + Len(g)
        /\ \A i \in 1..(Len(SETTINGS) + Len(g)) :
             c[i] = IF i <= Len(SETTINGS) THEN SETTINGS[i] ELSE g[i - Len(SETTINGS)]
    BY <2>1, ConcatProperties
  <2> HIDE DEF c
  <2> QED
    BY <2>1, <2>2
<1>4. n \in Seq(Names) /\ Len(n) = 4 /\ \A i \in 1..4 : c[i] = n[i]
  BY <1>3 DEF SETTINGS, Names
<1>5. c = n
  <2> HIDE DEF c, n
  <2> QED
    BY <1>3, <1>4, SeqEqual
<1> QED
  BY <1>1, <1>2, <1>5

LEMMA SetupNamesGoOn ==
  /\ \A names \in SetupNames : Tail(names) # <<>> => Tail(names) \in SetupNames
  /\ \A names \in SetupNames : Head(names) = "main_control_monitoring" <=>
       names = <<"main_control_monitoring", "appliance", "buffer_tank">>
  /\ \A names \in LaterNames : Head(names) # "discovery_table"
  /\ \A names \in SetupNames : Tail(names) = <<>> <=> names = <<"buffer_tank">>
  /\ \A names \in SetupNames : Tail(names) \in LaterNames =>
       names \in LaterNames \/ Head(names) = "main_control_monitoring"
BY DEF SetupNames, TableNames, LaterNames

LEMMA FirstSuits ==
  /\ Suits("none", "none")
  /\ \A c \in Calls : c # "none" /\ Suits(c, FirstPhase(c))
BY PollCalls
DEF Suits, FirstPhase, Calls, SetupPhases, RepairPhases

\* The zones found so far, with and without the one at hand.
LEMMA FoundMore ==
  ASSUME zones \in Seq(Nat), NEW z \in Nat \ {0}, Ascending(zones), Found(z - 1)
  PROVE  /\ site.functions[z] = "DISABLED" => Found(z)
         /\ site.functions[z] # "DISABLED" /\ zones' = Append(zones, z) /\ site' = site =>
              Ascending(zones)' /\ Found(z)'
<1>1. ASSUME site.functions[z] = "DISABLED" PROVE Found(z)
  <2>1. {y \in 1..z : site.functions[y] # "DISABLED"}
          = {y \in 1..(z - 1) : site.functions[y] # "DISABLED"}
    BY <1>1
  <2> QED
    BY <2>1 DEF Found
<1>2. ASSUME site.functions[z] # "DISABLED", zones' = Append(zones, z), site' = site
      PROVE  Ascending(zones)' /\ Found(z)'
  <2> DEFINE n == Len(zones)
  <2>1. n \in Nat /\ DOMAIN zones = 1..n /\ \A i \in 1..n : zones[i] \in Nat
    OBVIOUS
  <2>2. DOMAIN zones' = 1..(n + 1) /\ zones'[n + 1] = z /\ \A i \in 1..n : zones'[i] = zones[i]
    BY <1>2
  <2>3. \A i \in 1..n : zones[i] \in 1..(z - 1) /\ site.functions[zones[i]] # "DISABLED"
    BY <2>1 DEF Found
  <2>4. \A y \in 1..(z - 1) : site.functions[y] # "DISABLED" => \E i \in 1..n : zones[i] = y
    BY <2>1 DEF Found
  <2> HIDE DEF n
  <2>5. \A i, j \in 1..(n + 1) : i < j => zones'[i] < zones'[j]
    <3> SUFFICES ASSUME NEW i \in 1..(n + 1), NEW j \in 1..(n + 1), i < j
                 PROVE  zones'[i] < zones'[j]
      OBVIOUS
    <3>1. i \in 1..n
      BY <2>1
    <3>2. CASE j \in 1..n
      BY <2>1, <2>2, <3>1, <3>2 DEF Ascending
    <3>3. CASE j = n + 1
      BY <2>2, <2>3, <3>1, <3>3
    <3> QED
      BY <2>1, <3>2, <3>3
  <2>6. \A i \in 1..(n + 1) : zones'[i] \in 1..z /\ site.functions[zones'[i]] # "DISABLED"
    <3> SUFFICES ASSUME NEW i \in 1..(n + 1)
                 PROVE  zones'[i] \in 1..z /\ site.functions[zones'[i]] # "DISABLED"
      OBVIOUS
    <3>1. CASE i \in 1..n
      BY <2>2, <2>3, <3>1
    <3>2. CASE i = n + 1
      BY <2>2, <1>2, <3>2
    <3> QED
      BY <2>1, <3>1, <3>2
  <2>7. \A y \in 1..z : site.functions[y] # "DISABLED" => \E i \in 1..(n + 1) : zones'[i] = y
    <3> SUFFICES ASSUME NEW y \in 1..z, site.functions[y] # "DISABLED"
                 PROVE  \E i \in 1..(n + 1) : zones'[i] = y
      OBVIOUS
    <3>1. CASE y = z
      BY <2>1, <2>2, <3>1
    <3>2. CASE y \in 1..(z - 1)
      <4>1. PICK i \in 1..n : zones[i] = y
        BY <2>4, <3>2
      <4> QED
        BY <2>1, <2>2, <4>1
    <3> QED
      BY <3>1, <3>2
  <2>8. {zones'[i] : i \in DOMAIN zones'} = {y \in 1..z : site.functions[y] # "DISABLED"}
    <3> SUFFICES ASSUME NEW y
                 PROVE  (\E i \in DOMAIN zones' : y = zones'[i])
                          <=> y \in 1..z /\ site.functions[y] # "DISABLED"
      OBVIOUS
    <3> QED
      BY <2>2, <2>6, <2>7
  <2> QED
    BY <1>2, <2>2, <2>5, <2>8 DEF Ascending, Found
<1> QED
  BY <1>1, <1>2
-----------------------------------------------------------------------------
(* Initially.                                                              *)

LEMMA InvInit == Init => Inv
<1> SUFFICES ASSUME Init PROVE Inv
  OBVIOUS
<1> USE InstallationsAssumption
<1>1. UnitInv
  BY InitUnitInv DEF Init
<1>2. Working
  BY FirstSuits DEF Init, Working, UnitInit
<1>3. PICK i \in Installations : site = [gtw08 |-> i.gtw08, boards |-> i.boards,
                                         functions |-> i.functions, others |-> i.others]
  BY DEF Init
<1>4. Installed
  <2>1. site.functions = i.functions /\ site.boards = i.boards /\ site.others = i.others
    BY <1>3
  <2> QED
    BY <2>1 DEF Installed
<1>5. Discovered
  BY DEF Init, Discovered
<1>6. zones \in Seq(Nat)
  BY DEF Init
<1>7. SettingUp /\ Repairing
  BY DEF Init, SettingUp, Repairing, SetupPhases, RepairPhases
<1> QED
  BY <1>1, <1>2, <1>4, <1>5, <1>6, <1>7 DEF Inv
-----------------------------------------------------------------------------
(* The calls and the unit: a step of the client is a step of the unit, and *)
(* what ends a request either ends the call or goes on with it.            *)

GoesOn ==
  \/ doing' = "none" /\ phase' = "none"
  \/ /\ doing' = doing
     /\ \/ phase \in SetupPhases \cup {"poll"} /\ phase' \in SetupPhases \cup {"poll"}
        \/ phase \in RepairPhases /\ phase' \in RepairPhases

LEMMA SetupZonesGoOn ==
  ASSUME NEW z, SetupZonesFrom(z)
  PROVE  doing' = doing /\ phase' \in {"zone_function", "poll"}
BY DEF SetupZonesFrom, Request

LEMMA AnswersGoOn ==
  ASSUME Answers
  PROVE  Answered(Client) /\ GoesOn /\ UNCHANGED site
<1>1. CASE DetectAnswered \/ HealthAnswered \/ ResetWritten
  BY <1>1 DEF DetectAnswered, HealthAnswered, ResetWritten, Answer, Return, GoesOn
<1>2. CASE SetupComponentRead
  BY <1>2, SetupZonesGoOn
  DEF SetupComponentRead, Answer, Return, Request, GoesOn, SetupPhases
<1>3. CASE ZoneFunctionRead
  BY <1>3, SetupZonesGoOn
  DEF ZoneFunctionRead, Answer, Return, Request, GoesOn, SetupPhases
<1>4. CASE ZoneRead
  BY <1>4, SetupZonesGoOn DEF ZoneRead, Answer, Return, Request, GoesOn, SetupPhases
<1>5. CASE Polled
  BY <1>5 DEF Polled, PollsOn, Answer, Return, Request, GoesOn
<1>6. CASE ZoneKindRead
  BY <1>6 DEF ZoneKindRead, Answer, Return, Request, GoesOn, RepairPhases
<1>7. CASE DayRead \/ DayWritten
  BY <1>7 DEF DayRead, DayWritten, NextDay, Answer, Return, Request, GoesOn, RepairPhases
<1> QED
  BY <1>1, <1>2, <1>3, <1>4, <1>5, <1>6, <1>7 DEF Answers

LEMMA FailedGoesOn ==
  ASSUME NEW e \in ModbusErrors, Failed(e)
  PROVE  FailsForGood(Client, e) /\ GoesOn /\ UNCHANGED <<site, object>>
BY DEF Failed, PollsOn, Return, Request, GoesOn

\* What a step of the unit's client leaves: the operation, and no other task's request.
LEMMA Finished ==
  ASSUME UnitTypeOK, Client \in Tasks, Finish(Client)
  PROVE  pc'[Client] = "idle" /\ UNCHANGED op
BY DEF Finish, UnitTypeOK

LEMMA OthersLeaveClient ==
  ASSUME UnitTypeOK, NEW t \in Tasks \ {Client}, UnitNext(t)
  PROVE  pc'[Client] = pc[Client] /\ op'[Client] = op[Client]
<1>1. Client \in Tasks
  BY InstallationsAssumption
<1>2. CASE \E o \in Operations : Call(t, o)
  BY <1>1, <1>2 DEF Call, UnitTypeOK
<1>3. CASE Finish(t)
  BY <1>1, <1>3 DEF Finish, UnitTypeOK
<1>4. CASE FailsAndRepeats(t)
  BY <1>4 DEF FailsAndRepeats
<1> QED
  BY <1>2, <1>3, <1>4 DEF UnitNext, Answered, FailsForGood, Cancelled

LEMMA WorkingStep ==
  ASSUME Inv, Next
  PROVE  UnitInv' /\ Working' /\ Installed'
<1> USE InstallationsAssumption
<1>1. UnitTypeOK /\ Client \in Tasks
  BY DEF Inv, UnitInv
<1>2. ASSUME NEW c \in Calls, Begin(c) PROVE UnitInv' /\ Working' /\ Installed'
  <2>1. UNCHANGED <<unit, site>>
    BY <1>2 DEF Begin, device
  <2>2. UnitInv' /\ Installed'
    BY <2>1 DEF Inv, UnitInv, UnitTypeOK, Counted, Fresh, unit, Installed
  <2>3. Suits(doing', phase')
    BY <1>2, FirstSuits DEF Begin, Return
  <2>4. pc'[Client] = "idle"
    BY <1>2, <2>1 DEF Begin, Inv, Working, unit
  <2> QED
    BY <2>2, <2>3, <2>4 DEF Working, Suits
<1>3. ASSUME Sends PROVE UnitInv' /\ Working' /\ Installed'
  <2>1. UnitNext(Client)
    BY <1>3 DEF Sends, UnitNext, Operations
  <2>2. op'[Client] = IF phase \in WritePhases THEN "write" ELSE "read"
    BY <1>1, <1>3 DEF Sends, Call, UnitTypeOK
  <2> QED
    BY <1>1, <1>3, <2>1, <2>2, StepUnitInv
    DEF Sends, gateway, device, call, Inv, Working, Suits, Installed
<1>4. ASSUME UnitNext(Client), Finish(Client), GoesOn, UNCHANGED site
      PROVE  UnitInv' /\ Working' /\ Installed'
  <2>1. pc'[Client] = "idle"
    BY <1>1, <1>4, Finished
  <2>2. Suits(doing', phase')
    BY <1>4, FirstSuits
    DEF GoesOn, Inv, Working, Suits, SetupPhases, RepairPhases
  <2> QED
    BY <1>1, <1>4, <2>1, <2>2, StepUnitInv DEF Inv, Working, Suits, Installed
<1>5. CASE Answers
  BY <1>5, <1>4, AnswersGoOn DEF UnitNext, Answered
<1>6. ASSUME NEW e \in ModbusErrors, Failed(e) PROVE UnitInv' /\ Working' /\ Installed'
  BY <1>6, <1>4, FailedGoesOn DEF UnitNext, FailsForGood
<1>7. CASE Repeats
  <2>1. UnitNext(Client) /\ UNCHANGED <<pc, op, site, call>>
    BY <1>7 DEF Repeats, UnitNext, FailsAndRepeats
  <2> QED
    BY <1>1, <2>1, StepUnitInv DEF call, Inv, Working, Suits, Installed
<1>8. CASE GivenUp
  BY <1>8, <1>4 DEF GivenUp, Cancelled, UnitNext, GoesOn, Return
<1>9. ASSUME NEW z \in 1..NumberOfZones, NEW d \in 1..Days, Damaged(z, d)
      PROVE  UnitInv' /\ Working' /\ Installed'
  BY <1>9 DEF Damaged, unit, call, Inv, UnitInv, UnitTypeOK, Counted, Fresh, Working, Suits, Installed
<1>10. ASSUME NEW t \in site.others, OtherTask(t) PROVE UnitInv' /\ Working' /\ Installed'
  <2>1. t \in Tasks \ {Client}
    BY DEF Inv, Installed
  <2>2. UnitInv'
    BY <1>10, <2>1, StepUnitInv DEF OtherTask, Inv
  <2>3. pc'[Client] = pc[Client] /\ op'[Client] = op[Client]
    BY <1>1, <1>10, <2>1, OthersLeaveClient DEF OtherTask
  <2> QED
    BY <1>10, <2>2, <2>3
    DEF OtherTask, gateway, device, call, Inv, Working, Suits, Installed
<1> QED
  BY <1>2, <1>3, <1>5, <1>6, <1>7, <1>8, <1>9, <1>10 DEF Next
-----------------------------------------------------------------------------
(* Setup: the zones found and the boards examined.                         *)

SetupInv == Discovered /\ zones \in Seq(Nat) /\ SettingUp

\* What a step may do to the zones and the fields, and has done when setup ends.
Completes == IF ready THEN UNCHANGED <<ready, zones, restricted>> ELSE ready' => FoundAll'

LEMMA SameObject ==
  ASSUME SetupInv, UNCHANGED <<site, object>>,
         phase' \notin SetupPhases \/ UNCHANGED <<phase, todo, zone, table>>
  PROVE  SetupInv' /\ Completes
<1>1. UNCHANGED <<site, discovered, zones, ready, restricted>>
  BY DEF object
<1>2. Restriction(discovered.boards)' = Restriction(discovered.boards)
  BY <1>1 DEF Restriction
<1>3. Ascending(zones)' = Ascending(zones) /\ Found(zone - 1)' = Found(zone' - 1)
  BY <1>1 DEF Ascending, Found
<1>4. Discovered' /\ (zones \in Seq(Nat))' /\ Completes
  BY <1>1 DEF SetupInv, Discovered, NumberOfZones, Completes
<1>5. SettingUp'
  <2>1. CASE phase' \notin SetupPhases
    BY <2>1 DEF SettingUp, SetupPhases
  <2>2. CASE UNCHANGED <<phase, todo, zone, table>>
    BY <1>1, <1>2, <1>3, <2>2 DEF SetupInv, SettingUp, Shown, NumberOfZones
  <2> QED
    BY <2>1, <2>2
<1> QED
  BY <1>4, <1>5 DEF SetupInv

\* What a read of the table shows.
LEMMA ShownIsKnown ==
  ASSUME discovered' = Shown, site' = site
  PROVE  Discovered'
BY DEF Shown, Discovered, NumberOfZones

\* Setup goes on with the zone after those found, or is done.
LEMMA NextZone ==
  ASSUME NEW z \in Nat \ {0}, SetupZonesFrom(z), UNCHANGED <<site, table, discovered>>,
         Discovered, discovered = Shown, discovered.zones \in Nat, z - 1 <= discovered.zones,
         (zones \in Seq(Nat))', Ascending(zones)', Found(z - 1)', ~ready,
         restricted' = restricted, restricted = Restriction(discovered.boards)
  PROVE  SetupInv' /\ Completes
<1> USE InstallationsAssumption
<1>1. Discovered' /\ Shown' = Shown
  BY DEF Discovered, Shown, NumberOfZones
<1>2. restricted' = Restriction(discovered.boards)'
  BY DEF Restriction
<1>3. CASE z <= discovered.zones
  <2>1. phase' = "zone_function" /\ zone' = z /\ ready' = FALSE
    BY <1>3 DEF SetupZonesFrom, Request
  <2>2. SettingUp'
    BY <1>1, <1>2, <1>3, <2>1 DEF SettingUp, SetupPhases
  <2> QED
    BY <1>1, <2>1, <2>2 DEF SetupInv, Completes
<1>4. CASE ~(z <= discovered.zones)
  <2>1. phase' = "poll"
    BY <1>4 DEF SetupZonesFrom, Request
  <2>2. Found(Shown.zones)'
    <3>1. (Shown.zones)' = z - 1
      BY <1>1, <1>4
    <3> QED
      BY <3>1 DEF Found
  <2>3. FoundAll'
    <3>1. (Shown.zones # None)'
      BY <1>1
    <3>2. (restricted = Restriction(Shown.boards))'
      BY <1>1, <1>2 DEF Restriction
    <3> QED
      BY <2>2, <3>1, <3>2 DEF FoundAll
  <2> QED
    BY <1>1, <2>1, <2>3 DEF SetupInv, SettingUp, SetupPhases, Completes
<1> QED
  BY <1>3, <1>4

LEMMA SetupBegins ==
  ASSUME SetupInv, NEW c \in Calls, Begin(c)
  PROVE  SetupInv' /\ Completes
<1>1. UNCHANGED <<site, object>>
  BY DEF Begin, device
<1>2. CASE phase' \notin SetupPhases
  BY <1>1, <1>2, SameObject
<1>3. CASE phase' \in SetupPhases
  <2>1. c \in DOMAIN Polls /\ ~ready /\ phase' = "setup" /\ todo' = FirstNames(c)
    BY <1>3 DEF Begin, Return, FirstPhase, SetupPhases
  <2>2. todo' = <<"discovery_table", "main_control_monitoring", "appliance", "buffer_tank">>
    BY <2>1, FirstSetupNames DEF FirstNames
  <2>3. todo' \in SetupNames /\ todo' \notin TableNames /\ todo' \notin LaterNames
    BY <2>2 DEF SetupNames, TableNames, LaterNames
  <2>4. SettingUp'
    BY <1>1, <2>1, <2>3 DEF SettingUp, SetupPhases, object
  <2>5. Discovered' /\ (zones \in Seq(Nat))' /\ Completes
    BY <1>1 DEF SetupInv, object, Discovered, NumberOfZones, Completes
  <2> QED
    BY <2>4, <2>5 DEF SetupInv
<1> QED
  BY <1>2, <1>3

LEMMA SetupReadsComponent ==
  ASSUME SetupInv, SetupComponentRead
  PROVE  SetupInv' /\ Completes
<1> DEFINE name == Head(todo)
<1>1. phase = "setup" /\ UNCHANGED <<site, table>> /\ todo \in SetupNames /\ ~ready
  BY DEF SetupComponentRead, Answer, SetupInv, SettingUp, SetupPhases
<1>2. Discovered'
  BY <1>1, ShownIsKnown DEF SetupComponentRead, SetupInv, Discovered, NumberOfZones
<1>3. CASE zones' = zones /\ ready' = ready /\ phase' = "none"
  BY <1>1, <1>2, <1>3 DEF SetupInv, SettingUp, SetupPhases, Completes
<1>4. CASE /\ Tail(todo) # <<>> /\ Request("setup", Tail(todo), 0, 0)
           /\ UNCHANGED <<zones, ready>>
  <2>1. phase' = "setup" /\ todo' = Tail(todo) /\ todo' \in SetupNames
    BY <1>1, <1>4, SetupNamesGoOn DEF Request
  <2>2. ASSUME todo' \in LaterNames PROVE restricted' = Restriction(discovered.boards)'
    <3>1. todo \in LaterNames \/ Head(todo) = "main_control_monitoring"
      BY <1>1, <2>1, <2>2, SetupNamesGoOn
    <3>2. discovered' = discovered
      BY <3>1, SetupNamesGoOn DEF SetupComponentRead
    <3>3. restricted' = restricted \/ restricted' = Restriction(discovered.boards)
      BY DEF SetupComponentRead
    <3>4. CASE Head(todo) = "main_control_monitoring"
      BY <3>2, <3>4 DEF SetupComponentRead, ExaminesBoards, Restriction
    <3>5. CASE todo \in LaterNames
      BY <1>1, <3>2, <3>3, <3>5 DEF SetupInv, SettingUp, Restriction
    <3> QED
      BY <3>1, <3>4, <3>5
  <2>3. ASSUME todo' \in TableNames PROVE discovered' = Shown'
    <3>1. Shown' = Shown
      BY <1>1 DEF Shown, NumberOfZones
    <3>2. CASE Head(todo) = "discovery_table"
      BY <3>1, <3>2 DEF SetupComponentRead
    <3>3. CASE Head(todo) # "discovery_table"
      <4>1. todo \in TableNames /\ discovered' = discovered
        BY <1>1, <3>3 DEF SetupNames, SetupComponentRead
      <4> QED
        BY <1>1, <3>1, <4>1 DEF SetupInv, SettingUp
    <3> QED
      BY <3>2, <3>3
  <2> QED
    BY <1>1, <1>2, <1>4, <2>1, <2>2, <2>3 DEF SetupInv, SettingUp, SetupPhases, Completes
<1>5. CASE /\ Tail(todo) = <<>> /\ discovered.zones # None
           /\ zones' = ZonesAtSetup /\ SetupZonesFrom(1)
  <2>1. todo = <<"buffer_tank">>
    BY <1>1, <1>5, SetupNamesGoOn
  <2>2. discovered' = discovered /\ restricted' = restricted
    BY <2>1 DEF SetupComponentRead, ExaminesBoards
  <2>3. restricted = Restriction(discovered.boards) /\ discovered = Shown
    BY <1>1, <2>1 DEF SetupInv, SettingUp, LaterNames, TableNames
  <2>4. discovered.zones \in Nat
    BY <1>5 DEF SetupInv, Discovered, NumberOfZones
  <2>5. (zones \in Seq(Nat))' /\ Ascending(zones)' /\ Found(1 - 1)'
    BY <1>5 DEF ZonesAtSetup, Ascending, Found
  <2> QED
    BY <1>1, <1>5, <2>2, <2>3, <2>4, <2>5, NextZone DEF SetupInv
<1> QED
  BY <1>3, <1>4, <1>5 DEF SetupComponentRead, Return

LEMMA SetupReadsFunction ==
  ASSUME SetupInv, ZoneFunctionRead
  PROVE  SetupInv' /\ Completes
<1>1. /\ phase = "zone_function" /\ ~ready
      /\ UNCHANGED <<site, table, discovered, zones, restricted>>
      /\ discovered = Shown /\ discovered.zones \in Nat /\ zone \in 1..discovered.zones
      /\ restricted = Restriction(discovered.boards) /\ Ascending(zones) /\ Found(zone - 1)
  BY DEF ZoneFunctionRead, Answer, SetupInv, SettingUp, SetupPhases
<1>2. /\ Discovered' /\ (zones \in Seq(Nat))' /\ Ascending(zones)'
      /\ restricted' = Restriction(discovered.boards)'
  BY <1>1 DEF SetupInv, Discovered, NumberOfZones, Ascending, Restriction
<1>3. CASE phase' = "none" /\ ready' = ready
  BY <1>1, <1>2, <1>3 DEF SetupInv, SettingUp, SetupPhases, Completes
<1>4. CASE site.functions[zone] = "DISABLED" /\ SetupZonesFrom(zone + 1)
  <2>1. zone \in Nat \ {0} /\ zone + 1 \in Nat \ {0} /\ (zone + 1) - 1 = zone
    BY <1>1
  <2>2. Found(zone)
    BY <1>1, <1>4, <2>1, FoundMore DEF SetupInv
  <2>3. {zones'[i] : i \in DOMAIN zones'} = {y \in 1..zone : site'.functions[y] # "DISABLED"}
    BY <1>1, <2>2 DEF Found
  <2>4. PICK n \in Nat \ {0} : n = zone + 1
    BY <2>1
  <2>5. Found(n - 1)'
    BY <2>1, <2>3, <2>4 DEF Found
  <2>6. SetupZonesFrom(n) /\ n - 1 <= discovered.zones
    BY <1>1, <1>4, <2>4
  <2> QED
    BY <1>1, <1>2, <2>5, <2>6, NextZone DEF SetupInv
<1>5. CASE site.functions[zone] = "DIRECT" /\ Request("zone", <<>>, zone, 0) /\ ready' = ready
  <2>1. phase' = "zone" /\ zone' = zone /\ (site.functions[zone] # "DISABLED")'
    BY <1>1, <1>5 DEF Request
  <2>2. Found(zone - 1)' /\ Shown' = Shown
    BY <1>1, <2>1 DEF Found, Shown, NumberOfZones
  <2> QED
    BY <1>1, <1>2, <1>5, <2>1, <2>2 DEF SetupInv, SettingUp, SetupPhases, Completes
<1> QED
  BY <1>3, <1>4, <1>5 DEF ZoneFunctionRead, Return

LEMMA SetupReadsZone ==
  ASSUME SetupInv, ZoneRead
  PROVE  SetupInv' /\ Completes
<1>1. /\ phase = "zone" /\ ~ready
      /\ UNCHANGED <<site, table, discovered, restricted>>
      /\ discovered = Shown /\ discovered.zones \in Nat /\ zone \in 1..discovered.zones
      /\ restricted = Restriction(discovered.boards) /\ Ascending(zones) /\ Found(zone - 1)
      /\ site.functions[zone] # "DISABLED"
  BY DEF ZoneRead, Answer, SetupInv, SettingUp, SetupPhases
<1>2. Discovered' /\ restricted' = Restriction(discovered.boards)'
  BY <1>1 DEF SetupInv, Discovered, NumberOfZones, Restriction
<1>3. CASE phase' = "none" /\ UNCHANGED <<zones, ready>>
  BY <1>1, <1>2, <1>3 DEF SetupInv, SettingUp, SetupPhases, Completes
<1>4. CASE zones' = Append(zones, zone) /\ SetupZonesFrom(zone + 1)
  <2>1. zone \in Nat \ {0} /\ zone + 1 \in Nat \ {0} /\ (zone + 1) - 1 = zone
    BY <1>1
  <2>2. (zones \in Seq(Nat))'
    BY <1>4, <2>1 DEF SetupInv
  <2>3. PICK m \in Nat \ {0} : m = zone
    BY <2>1
  <2>4. Ascending(zones)' /\ Found(m)'
    <3>1. Found(m - 1) /\ zones' = Append(zones, m) /\ site.functions[m] # "DISABLED"
      BY <1>1, <1>4, <2>3
    <3> QED
      BY <1>1, <3>1, FoundMore DEF SetupInv
  <2>5. PICK n \in Nat \ {0} : n = m + 1
    OBVIOUS
  <2>6. Found(n - 1)'
    BY <2>3, <2>4, <2>5 DEF Found
  <2>7. SetupZonesFrom(n) /\ n - 1 <= discovered.zones
    BY <1>1, <1>4, <2>3, <2>5
  <2> QED
    BY <1>1, <1>2, <2>2, <2>4, <2>6, <2>7, NextZone DEF SetupInv
<1> QED
  BY <1>3, <1>4 DEF ZoneRead, Return

LEMMA SetupStep ==
  ASSUME SetupInv, Working, Installed, Next
  PROVE  SetupInv' /\ Completes
<1>1. CASE Answers
  <2>1. GoesOn /\ UNCHANGED site
    BY <1>1, AnswersGoOn
  <2>2. CASE DetectAnswered \/ HealthAnswered \/ ResetWritten \/ ZoneKindRead \/ DayRead \/ DayWritten
    <3>1. UNCHANGED object
      BY <2>2
      DEF DetectAnswered, HealthAnswered, ResetWritten, ZoneKindRead, DayRead, DayWritten
    <3>2. phase \notin SetupPhases \cup {"poll"}
      BY <2>2
      DEF DetectAnswered, HealthAnswered, ResetWritten, ZoneKindRead, DayRead, DayWritten,
          Answer, SetupPhases
    <3>3. phase' \notin SetupPhases
      BY <2>1, <3>2 DEF GoesOn, SetupPhases, RepairPhases
    <3> QED
      BY <2>1, <3>1, <3>3, SameObject
  <2>3. CASE Polled
    <3>1. phase' \notin SetupPhases
      BY <2>3 DEF Polled, PollsOn, Return, Request, SetupPhases
    <3>2. UNCHANGED <<site, zones, ready, restricted>>
      BY <2>1, <2>3 DEF Polled
    <3>3. Discovered'
      BY <2>3, <3>2, ShownIsKnown DEF Polled, SetupInv, Discovered, NumberOfZones
    <3>4. SettingUp'
      BY <3>1 DEF SettingUp, SetupPhases
    <3> QED
      BY <3>2, <3>3, <3>4 DEF SetupInv, Completes
  <2> QED
    BY <1>1, <2>2, <2>3, SetupReadsComponent, SetupReadsFunction, SetupReadsZone DEF Answers
<1>2. ASSUME NEW c \in Calls, Begin(c) PROVE SetupInv' /\ Completes
  BY <1>2, SetupBegins
<1>3. ASSUME NEW e \in ModbusErrors, Failed(e) PROVE SetupInv' /\ Completes
  <2>1. phase' \notin SetupPhases
    BY <1>3 DEF Failed, PollsOn, Return, Request, SetupPhases
  <2> QED
    BY <1>3, <2>1, SameObject DEF Failed
<1>4. CASE GivenUp
  <2>1. phase' \notin SetupPhases
    BY <1>4 DEF GivenUp, Return, SetupPhases
  <2> QED
    BY <1>4, <2>1, SameObject DEF GivenUp
<1>5. CASE UNCHANGED <<site, object, call, table>>
  BY <1>5, SameObject DEF call
<1>6. CASE Sends
  BY <1>5, <1>6 DEF Sends, gateway, device
<1>9. CASE Repeats
  <2>1. UNCHANGED <<site, object, call>> /\ (phase \in SetupPhases => table' = table)
    BY <1>9 DEF Repeats, EffectOfWrite, SetupPhases
  <2> QED
    BY <2>1, SameObject DEF call
<1>7. ASSUME NEW z \in 1..NumberOfZones, NEW d \in 1..Days, Damaged(z, d) PROVE SetupInv' /\ Completes
  BY <1>5, <1>7 DEF Damaged
<1>8. ASSUME NEW t \in site.others, OtherTask(t) PROVE SetupInv' /\ Completes
  BY <1>5, <1>8 DEF OtherTask, gateway, device
<1> QED
  BY <1>1, <1>2, <1>3, <1>4, <1>6, <1>7, <1>8, <1>9 DEF Next
-----------------------------------------------------------------------------
(* Repair: the days behind it stay readable, for only its own call runs.   *)

LEMMA NotRepairing ==
  ASSUME phase' \notin RepairPhases
  PROVE  Repairing'
BY DEF Repairing

\* What the repair knows while it goes on: the table, and the days behind it.
LEMMA SameRepair ==
  ASSUME Repairing, UNCHANGED <<discovered, phase, zone, day>>,
         damaged' \subseteq damaged
  PROVE  Repairing'
BY DEF Repairing, RepairPhases, Passed, ZonesToRepair

\* The repair goes on from a day that can be read now.
LEMMA NextDayRepairs ==
  ASSUME Repairing, NextDay, phase \in {"day_read", "day_write"}, discovered' = discovered,
         damaged' \subseteq damaged, <<zone, day>> \notin damaged'
  PROVE  /\ Repairing'
         /\ doing' # doing => damaged' \cap ((1..ZonesToRepair) \X (1..Days)) = {}
<1> USE InstallationsAssumption
<1> DEFINE n == ZonesToRepair
<1>1. /\ n \in Nat /\ zone \in 1..n /\ day \in 1..Days /\ ZonesToRepair' = n
      /\ \A z \in 1..n, d \in 1..Days :
           (z < zone \/ (z = zone /\ d < day)) => <<z, d>> \notin damaged
  BY DEF Repairing, RepairPhases, Passed, ZonesToRepair
<1> HIDE DEF n
<1>2. \A z \in 1..n, d \in 1..Days :
        (z < zone \/ (z = zone /\ d <= day)) => <<z, d>> \notin damaged'
  <2> SUFFICES ASSUME NEW z \in 1..n, NEW d \in 1..Days, z < zone \/ (z = zone /\ d <= day)
               PROVE  <<z, d>> \notin damaged'
    OBVIOUS
  <2>1. CASE z = zone /\ d = day
    BY <2>1
  <2>2. CASE z < zone \/ (z = zone /\ d < day)
    BY <1>1, <2>2
  <2> QED
    BY <1>1, <2>1, <2>2
<1>3. CASE day < Days /\ Request("day_read", <<>>, zone, day + 1)
  <2>1. phase' = "day_read" /\ zone' = zone /\ day' = day + 1 /\ day' \in 1..Days
    BY <1>1, <1>3 DEF Request
  <2>2. doing' = doing
    BY <1>3 DEF Request
  <2>3. \A z \in 1..n, d \in 1..Days : Passed(z, d)' => <<z, d>> \notin damaged'
    <3> SUFFICES ASSUME NEW z \in 1..n, NEW d \in 1..Days, Passed(z, d)'
                 PROVE  <<z, d>> \notin damaged'
      OBVIOUS
    <3>1. z < zone \/ (z = zone /\ d < day + 1)
      BY <2>1 DEF Passed
    <3>2. z < zone \/ (z = zone /\ d <= day)
      BY <1>1, <3>1
    <3> QED
      BY <1>2, <3>2
  <2> QED
    BY <1>1, <2>1, <2>2, <2>3 DEF Repairing
<1>4. CASE day = Days /\ MoreZones /\ Request("zone_kind", <<>>, zone + 1, 0)
  <2>1. phase' = "zone_kind" /\ zone' = zone + 1 /\ doing' = doing
    BY <1>4 DEF Request
  <2>2. zone' \in 1..n
    BY <1>1, <1>4, <2>1 DEF MoreZones, n
  <2>3. \A z \in 1..n, d \in 1..Days : Passed(z, d)' => <<z, d>> \notin damaged'
    <3> SUFFICES ASSUME NEW z \in 1..n, NEW d \in 1..Days, Passed(z, d)'
                 PROVE  <<z, d>> \notin damaged'
      OBVIOUS
    <3>1. z < zone + 1
      BY <2>1 DEF Passed
    <3>2. z < zone \/ (z = zone /\ d <= day)
      BY <1>1, <1>4, <3>1
    <3> QED
      BY <1>2, <3>2
  <2> QED
    BY <1>1, <2>1, <2>2, <2>3 DEF Repairing
<1>5. CASE day = Days /\ ~MoreZones /\ Return("repaired")
  <2>1. phase' = "none"
    BY <1>5 DEF Return
  <2>2. zone = n
    BY <1>1, <1>5 DEF MoreZones, n
  <2>3. ASSUME NEW z \in 1..n, NEW d \in 1..Days PROVE <<z, d>> \notin damaged'
    <3>1. z < zone \/ (z = zone /\ d <= day)
      BY <1>1, <1>5, <2>2
    <3> QED
      BY <1>2, <3>1
  <2>4. damaged' \cap ((1..n) \X (1..Days)) = {}
    BY <2>3
  <2> QED
    BY <2>1, <2>4 DEF Repairing, RepairPhases, n
<1> QED
  BY <1>1, <1>3, <1>4, <1>5 DEF NextDay

LEMMA RepairStep ==
  ASSUME Inv, Next
  PROVE  Repairing'
<1> USE InstallationsAssumption
<1>1. Repairing /\ Working /\ Suits(doing, phase) /\ Discovered /\ Installed
  BY DEF Inv, Working
<1>2. CASE UNCHANGED <<discovered, phase, zone, day, damaged>>
  BY <1>1, <1>2, SameRepair
<1>3. ASSUME NEW c \in Calls, Begin(c) PROVE Repairing'
  <2>1. CASE phase' \notin RepairPhases
    BY <2>1, NotRepairing
  <2>2. CASE phase' \in RepairPhases
    <3>1. /\ c = "async_repair_invalid_schedules" /\ ZonesToRepair # 0
          /\ phase' = "zone_kind" /\ zone' = 1 /\ discovered' = discovered
      BY <1>3, <2>2, PollCalls DEF Begin, Return, FirstPhase, RepairPhases, object, Calls
    <3>2. ZonesToRepair \in Nat
      BY <1>1 DEF ZonesToRepair, Discovered, NumberOfZones, Installed
    <3>3. ZonesToRepair' = ZonesToRepair /\ 1 \in 1..ZonesToRepair
      BY <3>1, <3>2 DEF ZonesToRepair
    <3>4. \A z \in 1..ZonesToRepair, d \in 1..Days : ~Passed(z, d)'
      BY <3>1, <3>2 DEF Passed
    <3> QED
      BY <3>1, <3>2, <3>3, <3>4 DEF Repairing
  <2> QED
    BY <2>1, <2>2
<1>4. CASE DetectAnswered \/ HealthAnswered \/ SetupComponentRead \/ ZoneFunctionRead
             \/ ZoneRead \/ Polled \/ ResetWritten
  <2>1. phase \notin RepairPhases /\ phase # "none"
    BY <1>4
    DEF DetectAnswered, HealthAnswered, SetupComponentRead, ZoneFunctionRead, ZoneRead, Polled,
        ResetWritten, Answer, RepairPhases
  <2>2. phase' \notin RepairPhases
    BY <1>4, <2>1, AnswersGoOn DEF Answers, GoesOn, RepairPhases, SetupPhases
  <2> QED
    BY <2>2, NotRepairing
<1>5. CASE ZoneKindRead
  <2>1. phase = "zone_kind" /\ UNCHANGED <<damaged, discovered>>
    BY <1>5 DEF ZoneKindRead, Answer, object
  <2>2. CASE Return("ValueError")
    BY <2>2, NotRepairing DEF Return, RepairPhases
  <2>3. CASE Request("day_read", <<>>, zone, 1)
    <3>1. phase' = "day_read" /\ zone' = zone /\ day' = 1 /\ ZonesToRepair' = ZonesToRepair
      BY <2>1, <2>3 DEF Request, ZonesToRepair
    <3>2. \A z \in 1..ZonesToRepair, d \in 1..Days : Passed(z, d)' => Passed(z, d)
      BY <3>1 DEF Passed
    <3> QED
      BY <1>1, <2>1, <3>1, <3>2 DEF Repairing, RepairPhases
  <2> QED
    BY <1>5, <2>2, <2>3 DEF ZoneKindRead
<1>6. CASE DayRead
  <2>1. phase = "day_read" /\ UNCHANGED <<damaged, discovered>>
    BY <1>6 DEF DayRead, Answer, object
  <2>2. CASE <<zone, day>> \in damaged /\ Request("day_write", <<>>, zone, day)
    <3>1. phase' = "day_write" /\ zone' = zone /\ day' = day /\ ZonesToRepair' = ZonesToRepair
      BY <2>1, <2>2 DEF Request, ZonesToRepair
    <3>2. \A z \in 1..ZonesToRepair, d \in 1..Days : Passed(z, d)' => Passed(z, d)
      BY <2>1, <3>1 DEF Passed
    <3> QED
      BY <1>1, <2>1, <3>1, <3>2 DEF Repairing, RepairPhases
  <2>3. CASE <<zone, day>> \notin damaged /\ NextDay
    BY <1>1, <2>1, <2>3, NextDayRepairs
  <2> QED
    BY <1>6, <2>2, <2>3 DEF DayRead
<1>7. CASE DayWritten
  BY <1>1, <1>7, NextDayRepairs DEF DayWritten, Answer, object
<1>8. ASSUME NEW e \in ModbusErrors, Failed(e) PROVE Repairing'
  <2>1. phase' \notin RepairPhases
    BY <1>8 DEF Failed, PollsOn, Return, Request, RepairPhases
  <2> QED
    BY <2>1, NotRepairing
<1>9. CASE GivenUp
  BY <1>9, NotRepairing DEF GivenUp, Return, RepairPhases
<1>10. CASE Repeats
  <2>1. UNCHANGED <<discovered, phase, zone, day>>
    BY <1>10 DEF Repeats, object, call
  <2>2. damaged' \subseteq damaged
    BY <1>10 DEF Repeats, EffectOfWrite
  <2> QED
    BY <1>1, <2>1, <2>2, SameRepair
<1>11. CASE Sends
  BY <1>2, <1>11 DEF Sends, gateway, device, object, call
<1>12. ASSUME NEW z \in 1..NumberOfZones, NEW d \in 1..Days, Damaged(z, d) PROVE Repairing'
  <2>1. phase' = "none"
    BY <1>1, <1>12 DEF Damaged, call, Suits
  <2> QED
    BY <2>1, NotRepairing DEF RepairPhases
<1>13. ASSUME NEW t \in site.others, OtherTask(t) PROVE Repairing'
  BY <1>2, <1>13 DEF OtherTask, gateway, device, object, call
<1> QED
  BY <1>3, <1>4, <1>5, <1>6, <1>7, <1>8, <1>9, <1>10, <1>11, <1>12, <1>13 DEF Next, Answers

LEMMA InvStep ==
  ASSUME Inv, [Next]_vars
  PROVE  Inv'
<1>1. CASE Next
  <2>1. SetupInv'
    BY <1>1, SetupStep DEF Inv, SetupInv
  <2> QED
    BY <1>1, <2>1, WorkingStep, RepairStep DEF Inv, SetupInv
<1>2. CASE UNCHANGED vars
  <2>1. UNCHANGED <<unit, site, object, damaged>> /\ UNCHANGED <<doing, phase, todo, zone, day>>
    BY <1>2 DEF vars, gateway, device, call
  <2>2. UnitInv'
    BY <2>1 DEF unit, Inv, UnitInv, UnitTypeOK, Counted, Fresh
  <2>3. Working' /\ Installed'
    BY <2>1 DEF unit, Inv, Working, Suits, Installed
  <2>4. SetupInv'
    BY <1>2, <2>1, SameObject DEF Inv, SetupInv, vars, gateway, device
  <2>5. Repairing'
    BY <2>1, SameRepair DEF Inv, object
  <2> QED
    BY <2>2, <2>3, <2>4, <2>5 DEF Inv, SetupInv
<1> QED
  BY <1>1, <1>2
-----------------------------------------------------------------------------
(* The theorems.                                                           *)

(* The inductive invariant: the unit's, and what the gateway's call knows  *)
(* of the table, the zones and the days at the request it has under way.   *)
THEOREM InvHolds == Spec => []Inv
<1>1. Init => Inv
  BY InvInit
<1>2. Inv /\ [Next]_vars => Inv'
  BY InvStep
<1> QED
  BY <1>1, <1>2, PTL DEF Spec

(* A setup that returns has found the enabled zones of all that the table  *)
(* shows, each once and in order, and the fields of the first main board,  *)
(* however often it failed on the way, and no later call changes them      *)
(* (_async_setup).                                                         *)
THEOREM SetupCompletes == Spec => SetupIsComplete
<1>1. Inv /\ [Next]_vars => [Completes]_vars
  BY SetupStep DEF Inv, SetupInv
<1> QED
  BY <1>1, InvHolds, PTL DEF Spec, SetupIsComplete, Completes

(* A write of the gateway or of any other task on the unit takes effect at *)
(* most once per call (the undecorated write methods).                     *)
THEOREM GatewayWritesOnce == Spec => []WritesAtMostOnce
<1>1. Inv => WritesAtMostOnce
  BY DEF Inv, UnitInv, Fresh, WritesAtMostOnce
<1> QED
  BY <1>1, InvHolds, PTL

(* The gateway uses the unit as the unit allows: every step of it is a     *)
(* step of one task at the unit or none.                                   *)
THEOREM GatewayUsesUnit == Spec => UnitSpec
<1>1. Init => UnitInit
  BY DEF Init
<1>2. Inv /\ [Next]_vars => [\E t \in Tasks : UnitNext(t)]_unit
  <2> SUFFICES ASSUME Inv, [Next]_vars
               PROVE  UNCHANGED unit \/ \E t \in Tasks : UnitNext(t)
    OBVIOUS
  <2>1. Client \in Tasks /\ site.others \subseteq Tasks
    BY InstallationsAssumption DEF Inv, Installed
  <2>2. CASE \E c \in Calls : Begin(c)
    BY <2>2 DEF Begin
  <2>3. CASE Sends
    BY <2>1, <2>3 DEF Sends, UnitNext, Operations
  <2>4. CASE Answers
    BY <2>1, <2>4, AnswersGoOn DEF UnitNext
  <2>5. CASE \E e \in ModbusErrors : Failed(e)
    BY <2>1, <2>5, FailedGoesOn DEF UnitNext
  <2>6. CASE Repeats \/ GivenUp
    BY <2>1, <2>6 DEF Repeats, GivenUp, UnitNext
  <2>7. CASE \E z \in 1..NumberOfZones, d \in 1..Days : Damaged(z, d)
    BY <2>7 DEF Damaged
  <2>8. CASE \E t \in site.others : OtherTask(t)
    BY <2>1, <2>8 DEF OtherTask
  <2>9. CASE UNCHANGED vars
    BY <2>9 DEF vars
  <2> QED
    BY <2>2, <2>3, <2>4, <2>5, <2>6, <2>7, <2>8, <2>9 DEF Next
<1> QED
  BY <1>1, <1>2, InvHolds, PTL DEF Spec, UnitSpec

(* A repair that returns with the zones known leaves no day of any of them *)
(* unreadable (async_repair_invalid_schedules).                            *)
THEOREM RepairsAll == Spec => RepairLeavesNoDamage
<1>1. ASSUME Inv, Next,
             doing = "async_repair_invalid_schedules", result' = "repaired", doing' = "none"
      PROVE  damaged' \cap ((1..ZonesToRepair) \X (1..Days)) = {}
  <2>1. phase \in RepairPhases /\ Repairing
    BY <1>1 DEF Inv, Working, Suits
  <2>2. CASE Answers
    <3>1. ZoneKindRead \/ DayRead \/ DayWritten
      BY <2>1, <2>2
      DEF Answers, DetectAnswered, HealthAnswered, SetupComponentRead, ZoneFunctionRead, ZoneRead,
          Polled, ResetWritten, Answer, RepairPhases
    <3>2. CASE ZoneKindRead
      BY <1>1, <3>2 DEF ZoneKindRead, Return, Request
    <3>3. CASE DayRead
      <4>1. <<zone, day>> \notin damaged /\ NextDay
        BY <1>1, <3>3 DEF DayRead, Request
      <4> QED
        BY <1>1, <2>1, <3>3, <4>1, NextDayRepairs DEF DayRead, Answer, object
    <3>4. CASE DayWritten
      BY <1>1, <2>1, <3>4, NextDayRepairs DEF DayWritten, Answer, object
    <3> QED
      BY <3>1, <3>2, <3>3, <3>4
  <2>3. ~ \E e \in ModbusErrors : Failed(e)
    BY <1>1, <2>1
    DEF Failed, Return, RepairPhases, ModbusErrors, TransientModbusError
  <2>4. ~GivenUp
    BY <1>1 DEF GivenUp, Return
  <2>5. ~Sends /\ ~Repeats /\ ~ \E t \in site.others : OtherTask(t)
    BY <1>1 DEF Sends, Repeats, OtherTask, gateway, call
  <2>6. ~(\E c \in Calls : Begin(c)) /\ ~ \E z \in 1..NumberOfZones, d \in 1..Days : Damaged(z, d)
    BY <1>1 DEF Begin, Damaged
  <2> QED
    BY <1>1, <2>2, <2>3, <2>4, <2>5, <2>6 DEF Next
<1>2. Inv /\ [Next]_vars =>
        [ doing = "async_repair_invalid_schedules" /\ result' = "repaired" /\ doing' = "none" =>
            damaged' \cap (1..ZonesToRepair) \X (1..Days) = {} ]_vars
  BY <1>1
<1> QED
  BY <1>2, InvHolds, PTL DEF Spec, RepairLeavesNoDamage

(* The verdicts of async_detect: a success is a table with a main board    *)
(* and a GTW-08, and a GTW-08 is taken for something else only after every *)
(* try of a request.                                                       *)
THEOREM DetectionFounded == Spec => DetectionIsFounded
<1> DEFINE Founded ==
             /\ result' = "success" => Has(Shown.boards, MainBoards) /\ Has(Shown.boards, {"GTW08"})
             /\ result' = "NO_MAINBOARD" => ~Has(Shown.boards, MainBoards)
             /\ result' = "NO_GATEWAY" => ~Has(Shown.boards, {"GTW08"})
             /\ result' = "NOT_A_GTW08" => ~site.gtw08 \/ requests[Client] >= MaxTries
<1>1. ASSUME Inv, Next, doing = "async_detect", doing' = "none"
      PROVE  Founded
  <2>1. phase = "detect"
    BY <1>1 DEF Inv, Working, Suits
  <2>2. CASE DetectAnswered
    <3>1. result' = Verdict(Shown.boards)
      BY <2>2 DEF DetectAnswered, Return
    <3> HIDE DEF Founded
    <3>2. PICK b : b = Shown.boards
      OBVIOUS
    <3>3. result' = Verdict(b)
      BY <3>1, <3>2
    <3>4. /\ result' = "success" => Has(b, MainBoards) /\ Has(b, {"GTW08"})
          /\ result' = "NO_MAINBOARD" => ~Has(b, MainBoards)
          /\ result' = "NO_GATEWAY" => ~Has(b, {"GTW08"})
          /\ result' # "NOT_A_GTW08"
      BY <3>3 DEF Verdict
    <3> QED
      BY <3>2, <3>4 DEF Founded
  <2>3. ASSUME NEW e \in ModbusErrors, Failed(e) PROVE Founded
    <3>1. result' = IF MeansAbsent(e) THEN "NOT_A_GTW08" ELSE e
      BY <2>1, <2>3 DEF Failed, Return
    <3>2. CASE e = "not_served"
      <4>0. pc[Client] = "sent"
        BY <2>3 DEF Failed, FailsForGood, Finish
      <4>1. Working /\ UnitInv
        BY <1>1 DEF Inv
      <4>4. op[Client] = "read"
        BY <2>1, <4>0, <4>1 DEF Working, WritePhases
      <4>2. try[Client] = MaxTries - 1
        BY <2>3, <3>2, <4>4
        DEF Failed, FailsForGood, Decorated, TransientModbusError, GivesUp
      <4>3. Client \in Tasks /\ requests[Client] = try[Client] + 1
        BY <4>0, <4>1, InstallationsAssumption DEF UnitInv, Counted
      <4>5. requests[Client] >= MaxTries
        BY <4>2, <4>3, RetryAssumption
      <4> QED
        BY <3>1, <3>2, <4>5 DEF MeansAbsent
    <3>3. CASE e # "not_served"
      BY <3>1, <3>3 DEF MeansAbsent, ModbusErrors, TransientModbusError
    <3> QED
      BY <3>2, <3>3
  <2>4. CASE GivenUp
    BY <2>4 DEF GivenUp, Return
  <2>5. Answers => DetectAnswered
    BY <2>1
    DEF Answers, HealthAnswered, SetupComponentRead, ZoneFunctionRead, ZoneRead,
        Polled, ResetWritten, ZoneKindRead, DayRead, DayWritten, Answer
  <2>6. ~Sends /\ ~Repeats /\ ~ \E t \in site.others : OtherTask(t)
    BY <1>1 DEF Sends, Repeats, OtherTask, gateway, call
  <2>7. ~(\E c \in Calls : Begin(c)) /\ ~ \E z \in 1..NumberOfZones, d \in 1..Days : Damaged(z, d)
    BY <1>1 DEF Begin, Damaged
  <2> HIDE DEF Founded
  <2> QED
    BY <1>1, <2>2, <2>3, <2>4, <2>5, <2>6, <2>7 DEF Next
<1>2. Inv /\ [Next]_vars => [doing = "async_detect" /\ doing' = "none" => Founded]_vars
  <2> HIDE DEF Founded
  <2> QED
    BY <1>1
<1> QED
  BY <1>2, InvHolds, PTL DEF Spec, DetectionIsFounded

-----------------------------------------------------------------------------
(* Type correctness of the gateway.                                        *)

DeviceTyped ==
  table \in TableStates /\ damaged \subseteq (DOMAIN site.functions) \X (1..Days)

ObjectTyped ==
  /\ discovered \in [boards : {<<>>, site.boards}, zones : {None, 0, NumberOfZones}]
  /\ zones \in Seq(DOMAIN site.functions) /\ ready \in BOOLEAN
  /\ restricted \in MainBoards \cup {None}

\* A poll under way has a component to read.
CallTyped ==
  /\ doing \in Calls \cup {"none"} /\ phase \in Phases /\ todo \in Seq(Names)
  /\ phase = "poll" => todo # <<>>
  /\ zone \in 0..NumberOfZones /\ day \in 0..Days
  /\ result \in Results

Typed == DeviceTyped /\ ObjectTyped /\ CallTyped /\ faults \in 0..MaxFaults

LEMMA ComponentNames ==
  /\ {SETTINGS[i] : i \in DOMAIN SETTINGS} \cup {READINGS[i] : i \in DOMAIN READINGS} = Names
  /\ SETTINGS \in Seq(Names) /\ READINGS \in Seq(Names)
  /\ Len(SETTINGS) = 1 /\ Len(READINGS) = 4
BY DEF SETTINGS, READINGS, Names

LEMMA PollNames ==
  ASSUME NEW c \in DOMAIN Polls
  PROVE  Polls[c] \in Seq(Names) /\ Polls[c] # <<>>
<1>1. SETTINGS \o READINGS \in Seq(Names) /\ Len(SETTINGS \o READINGS) = 5
  <2> DEFINE a == SETTINGS
             b == READINGS
  <2>1. a \in Seq(Names) /\ b \in Seq(Names) /\ Len(a) = 1 /\ Len(b) = 4
    BY ComponentNames
  <2> HIDE DEF a, b
  <2>2. a \o b \in Seq(Names) /\ Len(a \o b) = Len(a) + Len(b)
    BY <2>1, ConcatProperties
  <2>3. Len(a \o b) = 5
    BY <2>1, <2>2
  <2> QED
    BY <2>2, <2>3 DEF a, b
<1>2. Polls[c] \in {SETTINGS \o READINGS, READINGS, SETTINGS}
  BY DEF Polls
<1>3. Polls[c] \in Seq(Names) /\ Len(Polls[c]) \in {1, 4, 5}
  BY <1>1, <1>2, ComponentNames
<1> QED
  BY <1>3

LEMMA FirstNamesTyped ==
  ASSUME NEW c \in Calls
  PROVE  /\ FirstNames(c) \in Seq(Names)
         /\ FirstPhase(c) = "poll" => FirstNames(c) # <<>>
<1>1. <<"discovery_table", "main_control_monitoring", "appliance", "buffer_tank">> \in Seq(Names)
  BY DEF Names
<1>2. CASE c \in DOMAIN Polls /\ ready
  BY <1>2, PollNames DEF FirstNames
<1>3. CASE c \in DOMAIN Polls /\ ~ready
  BY <1>1, <1>3, FirstSetupNames, PollCalls DEF FirstNames, FirstPhase
<1>4. CASE c \notin DOMAIN Polls
  BY <1>4 DEF FirstNames, FirstPhase
<1> QED
  BY <1>2, <1>3, <1>4

LEMMA HasMinimum ==
  ASSUME NEW n \in Nat, NEW I \in SUBSET (1..n), I # {}
  PROVE  \E x \in I : \A y \in I : x <= y
<1> DEFINE R == StrictSubsetOrdering(I)
           Below(x) == {y \in I : y <= x}
           T == {Below(x) : x \in I}
<1>1. IsFiniteSet(I)
  <2>1. n \in Int /\ IsFiniteSet(1..n)
    BY FS_Interval
  <2> QED
    BY <2>1, FS_Subset
<1>2. IsWellFoundedOn(R, SUBSET I)
  BY <1>1, FS_StrictSubsetOrderingWellFounded, FS_FiniteSubsetsOfFinite
<1>3. T \subseteq SUBSET I /\ T # {}
  OBVIOUS
<1>4. PICK a \in T : \A b \in T : <<b, a>> \notin R
  <2> HIDE DEF T, R
  <2> QED
    BY <1>2, <1>3, WFMin
<1>5. PICK x \in I : a = Below(x)
  BY <1>4
<1>6. ASSUME NEW y \in I, y < x PROVE FALSE
  <2>1. x \in Nat /\ y \in Nat /\ \A z \in I : z \in Nat
    OBVIOUS
  <2>2. Below(y) \subseteq Below(x)
    <3>1. \A i, j, k \in Nat : j < i /\ k <= j => k <= i
      OBVIOUS
    <3>2. \A z \in I : z <= y => z <= x
      BY <1>6, <2>1, <3>1
    <3> QED
      BY <3>2
  <2>3. x \in Below(x) /\ x \notin Below(y)
    <3>1. \A i, j \in Nat : j < i => i <= i /\ ~(i <= j)
      OBVIOUS
    <3>2. x <= x /\ ~(x <= y)
      BY <1>6, <2>1, <3>1
    <3> QED
      BY <3>2
  <2>4. <<Below(y), Below(x)>> \in R
    <3> HIDE DEF T
    <3>1. \A b, c \in SUBSET I : b \subseteq c /\ b # c => <<b, c>> \in StrictSubsetOrdering(I)
      BY DEF StrictSubsetOrdering
    <3> QED
      BY <2>2, <2>3, <3>1
  <2>5. Below(y) \in T
    OBVIOUS
  <2> QED
    BY <1>4, <1>5, <2>4, <2>5
<1> QED
  BY <1>6

LEMMA RestrictionTyped ==
  ASSUME restricted \in MainBoards \cup {None}, NEW boards \in Seq(BoardTypes)
  PROVE  Restriction(boards) \in MainBoards \cup {None}
<1> DEFINE I == {i \in 1..Len(boards) : boards[i] \in MainBoards}
<1>1. CASE I = {}
  <2>1. FirstMainBoard(boards) = 0
    BY <1>1 DEF FirstMainBoard, SelectInSeq
  <2> QED
    BY <2>1 DEF Restriction
<1>2. CASE I # {}
  <2>1. FirstMainBoard(boards) = Min(I)
    BY <1>2 DEF FirstMainBoard, SelectInSeq
  <2>2. Len(boards) \in Nat /\ I \in SUBSET (1..Len(boards))
    OBVIOUS
  <2>3. \E x \in I : \A y \in I : x <= y
    BY <1>2, <2>2, HasMinimum
  <2>4. Min(I) \in I
    BY <2>3 DEF Min
  <2>5. FirstMainBoard(boards) # 0 /\ boards[FirstMainBoard(boards)] \in MainBoards
    BY <2>1, <2>4
  <2> QED
    BY <2>5 DEF Restriction
<1> QED
  BY <1>1, <1>2

LEMMA ReturnTyped ==
  ASSUME NEW r \in Results, Return(r), site' = site, site.functions \in Seq(ZoneFunctions)
  PROVE  CallTyped'
BY InstallationsAssumption DEF Return, CallTyped, Phases, NumberOfZones

LEMMA RequestTyped ==
  ASSUME CallTyped, NEW p \in Phases, NEW names \in Seq(Names), p = "poll" => names # <<>>,
         NEW z \in 0..NumberOfZones, NEW d \in 0..Days, Request(p, names, z, d), site' = site
  PROVE  CallTyped'
BY DEF Request, CallTyped, NumberOfZones

LEMMA RequestAloneTyped ==
  ASSUME CallTyped, NEW p \in Phases \ {"poll"},
         NEW z \in 0..NumberOfZones, NEW d \in 0..Days, Request(p, <<>>, z, d), site' = site
  PROVE  CallTyped'
<1>1. <<>> \in Seq(Names)
  OBVIOUS
<1> QED
  BY <1>1, RequestTyped

LEMMA TypedInit == Init => Typed
<1> SUFFICES ASSUME Init PROVE Typed
  OBVIOUS
<1> USE InstallationsAssumption
<1>1. PICK i \in Installations :
        /\ site = [gtw08 |-> i.gtw08, boards |-> i.boards,
                   functions |-> i.functions, others |-> i.others]
        /\ table = i.table /\ damaged = i.damaged
  BY DEF Init
<1>2. site.functions = i.functions /\ i.functions \in Seq(ZoneFunctions)
  BY <1>1
<1>3. DeviceTyped
  BY <1>1, <1>2 DEF DeviceTyped
<1>4. ObjectTyped
  <2>1. discovered \in [boards : {<<>>, site.boards}, zones : {None, 0, NumberOfZones}]
    BY DEF Init
  <2>2. zones \in Seq(DOMAIN site.functions)
    BY DEF Init
  <2> QED
    BY <2>1, <2>2 DEF Init, ObjectTyped
<1>5. CallTyped
  BY <1>2 DEF Init, CallTyped, Phases, Results, NumberOfZones
<1> QED
  BY <1>3, <1>4, <1>5 DEF Typed, Init

LEMMA ShownTyped ==
  Shown \in [boards : {<<>>, site.boards}, zones : {None, 0, NumberOfZones}]
BY DEF Shown

LEMMA ZonesToRepairBounded ==
  ASSUME ObjectTyped, Installed
  PROVE  NumberOfZones \in Nat /\ ZonesToRepair \in 0..NumberOfZones
<1>1. NumberOfZones \in Nat
  BY DEF Installed, NumberOfZones
<1> QED
  BY <1>1 DEF ObjectTyped, ZonesToRepair

LEMMA SetupZonesTyped ==
  ASSUME ObjectTyped, CallTyped, Installed, doing \in DOMAIN Polls, discovered.zones # None,
         NEW z \in Nat \ {0}, SetupZonesFrom(z), site' = site
  PROVE  CallTyped' /\ ready' \in BOOLEAN
<1>1. NumberOfZones \in Nat /\ discovered.zones \in {0, NumberOfZones}
  BY DEF ObjectTyped, Installed, NumberOfZones
<1>2. CASE z <= discovered.zones
  <2>1. z \in 0..NumberOfZones /\ 0 \in 0..Days
    BY <1>1, <1>2, InstallationsAssumption
  <2>2. Request("zone_function", <<>>, z, 0) /\ ready' = ready
    BY <1>2 DEF SetupZonesFrom
  <2> QED
    BY <2>1, <2>2, RequestAloneTyped DEF Phases, ObjectTyped
<1>3. CASE ~(z <= discovered.zones)
  <2>1. 0 \in 0..NumberOfZones /\ 0 \in 0..Days
    BY <1>1, InstallationsAssumption
  <2>2. Request("poll", Polls[doing], 0, 0) /\ ready' = TRUE
    BY <1>3 DEF SetupZonesFrom
  <2> QED
    BY <2>1, <2>2, PollNames, RequestTyped DEF Phases
<1> QED
  BY <1>2, <1>3

LEMMA PollsOnTyped ==
  ASSUME CallTyped, Installed, phase = "poll", PollsOn, site' = site
  PROVE  CallTyped'
<1>1. todo \in Seq(Names) /\ todo # <<>> /\ 0 \in 0..NumberOfZones /\ 0 \in 0..Days
  BY InstallationsAssumption DEF CallTyped, Installed, NumberOfZones
<1>2. Tail(todo) \in Seq(Names)
  BY <1>1
<1>3. CASE Tail(todo) = <<>>
  BY <1>3, ReturnTyped DEF PollsOn, Results, Installed
<1>4. CASE Tail(todo) # <<>>
  BY <1>1, <1>2, <1>4, RequestTyped DEF PollsOn, Phases
<1> QED
  BY <1>3, <1>4

LEMMA NextDayTyped ==
  ASSUME ObjectTyped, CallTyped, Installed, zone \in 1..ZonesToRepair, day \in 1..Days,
         NextDay, site' = site
  PROVE  CallTyped'
<1>1. NumberOfZones \in Nat /\ ZonesToRepair \in 0..NumberOfZones /\ Days \in Nat
  BY ZonesToRepairBounded, InstallationsAssumption
<1>2. CASE day < Days
  <2>1. day + 1 \in 0..Days /\ zone \in 0..NumberOfZones /\ day # Days
    BY <1>1, <1>2
  <2>2. Request("day_read", <<>>, zone, day + 1)
    BY <1>2, <2>1 DEF NextDay
  <2> QED
    BY <2>1, <2>2, RequestAloneTyped DEF Phases
<1>3. CASE day = Days /\ MoreZones
  <2>1. zone + 1 \in 0..NumberOfZones /\ 0 \in 0..Days /\ ~(day < Days)
    BY <1>1, <1>3 DEF MoreZones
  <2>2. Request("zone_kind", <<>>, zone + 1, 0)
    BY <1>3, <2>1 DEF NextDay
  <2> QED
    BY <2>1, <2>2, RequestAloneTyped DEF Phases
<1>4. CASE ~(day < Days) /\ ~(day = Days /\ MoreZones)
  BY <1>4, ReturnTyped DEF NextDay, Results, Installed
<1> QED
  BY <1>2, <1>3, <1>4


(* A request that fails, or is given up, may still have written.           *)
LEMMA EffectTyped ==
  ASSUME DeviceTyped, EffectOfWrite, site' = site
  PROVE  DeviceTyped'
BY DEF DeviceTyped, EffectOfWrite, TableStates

LEMMA FaultyTyped ==
  ASSUME faults \in 0..MaxFaults, Faulty
  PROVE  faults' \in 0..MaxFaults
BY InstallationsAssumption DEF Faulty

LEMMA SameObjectTyped ==
  ASSUME ObjectTyped, UNCHANGED <<site, object>>
  PROVE  ObjectTyped'
BY DEF ObjectTyped, object, NumberOfZones

LEMMA SetupReadTyped ==
  ASSUME Inv, Typed, SetupComponentRead
  PROVE  Typed'
<1>1. /\ site' = site /\ faults' = faults /\ phase = "setup" /\ table' = table
      /\ damaged' = damaged
  BY DEF SetupComponentRead, Answer
<1>2. Installed /\ DeviceTyped /\ ObjectTyped /\ CallTyped /\ doing \in DOMAIN Polls
  BY <1>1 DEF Inv, Typed, Working, Suits, SetupPhases
<1>3. todo # <<>> /\ Tail(todo) \in Seq(Names)
  BY <1>1, <1>2, SetupNamesGoOn DEF Inv, SettingUp, CallTyped
<1>4. discovered' \in [boards : {<<>>, site.boards}, zones : {None, 0, NumberOfZones}]
  BY <1>2, ShownTyped DEF SetupComponentRead, ObjectTyped
<1>5. restricted' \in MainBoards \cup {None}
  <2>1. discovered.boards \in Seq(BoardTypes)
    <3>1. discovered.boards = <<>> \/ discovered.boards = site.boards
      BY <1>2 DEF ObjectTyped
    <3>2. <<>> \in Seq(BoardTypes)
      OBVIOUS
    <3> QED
      BY <1>2, <3>1, <3>2 DEF Installed
  <2>2. Restriction(discovered.boards) \in MainBoards \cup {None}
    BY <1>2, <2>1, RestrictionTyped DEF ObjectTyped
  <2> QED
    BY <1>2, <2>2 DEF SetupComponentRead, ObjectTyped
<1>6. DeviceTyped'
  BY <1>1, <1>2 DEF DeviceTyped
<1>7. zones' \in Seq(DOMAIN site.functions) /\ ready' \in BOOLEAN /\ CallTyped'
  <2>1. ASSUME NEW r \in {"ValueError", "api_setup_number_of_zones"}, Return(r),
               UNCHANGED <<zones, ready>>
        PROVE  zones' \in Seq(DOMAIN site.functions) /\ ready' \in BOOLEAN /\ CallTyped'
    BY <1>1, <1>2, <2>1, ReturnTyped DEF Results, Installed, ObjectTyped
  <2>2. ASSUME Request("setup", Tail(todo), 0, 0), UNCHANGED <<zones, ready>>
        PROVE  zones' \in Seq(DOMAIN site.functions) /\ ready' \in BOOLEAN /\ CallTyped'
    <3>1. 0 \in 0..NumberOfZones /\ 0 \in 0..Days
      BY <1>2, InstallationsAssumption DEF Installed, NumberOfZones
    <3> QED
      BY <1>1, <1>2, <1>3, <2>2, <3>1, RequestTyped DEF Phases, ObjectTyped
  <2>3. ASSUME discovered.zones # None, zones' = ZonesAtSetup, SetupZonesFrom(1)
        PROVE  zones' \in Seq(DOMAIN site.functions) /\ ready' \in BOOLEAN /\ CallTyped'
    BY <1>1, <1>2, <2>3, SetupZonesTyped DEF ZonesAtSetup
  <2> QED
    BY <2>1, <2>2, <2>3 DEF SetupComponentRead
<1>8. ObjectTyped'
  BY <1>1, <1>4, <1>5, <1>7 DEF ObjectTyped, NumberOfZones
<1> QED
  BY <1>1, <1>6, <1>7, <1>8 DEF Typed


LEMMA ZonesReadTyped ==
  ASSUME Inv, Typed, ZoneFunctionRead \/ ZoneRead
  PROVE  Typed'
<1>1. /\ UNCHANGED <<site, faults, table, damaged, discovered, restricted>>
      /\ phase \in {"zone_function", "zone"}
  BY DEF ZoneFunctionRead, ZoneRead, Answer
<1>2. Installed /\ DeviceTyped /\ ObjectTyped /\ CallTyped /\ doing \in DOMAIN Polls
  BY <1>1 DEF Inv, Typed, Working, Suits, SetupPhases
<1>3. /\ zone \in DOMAIN site.functions /\ zone \in 0..NumberOfZones /\ 0 \in 0..Days
      /\ zone + 1 \in Nat \ {0} /\ discovered.zones # None
  <2>1. zone \in 1..discovered.zones /\ discovered.zones \in Nat
    BY <1>1 DEF Inv, SettingUp
  <2>2. NumberOfZones \in Nat /\ discovered.zones \in {0, NumberOfZones}
    BY <1>2, <2>1, InstallationsAssumption DEF ObjectTyped, Installed, NumberOfZones
  <2> QED
    BY <1>2, <2>1, <2>2, InstallationsAssumption DEF Installed, NumberOfZones
<1>4. CallTyped' /\ ready' \in BOOLEAN
  <2>1. ASSUME NEW r \in {"ValueError", "InvalidZoneSchedule"}, Return(r), ready' = ready
        PROVE  CallTyped' /\ ready' \in BOOLEAN
    BY <1>1, <1>2, <2>1, ReturnTyped DEF Results, Installed, ObjectTyped
  <2>2. ASSUME SetupZonesFrom(zone + 1)
        PROVE  CallTyped' /\ ready' \in BOOLEAN
    BY <1>1, <1>2, <1>3, <2>2, SetupZonesTyped
  <2>3. ASSUME Request("zone", <<>>, zone, 0), ready' = ready
        PROVE  CallTyped' /\ ready' \in BOOLEAN
    BY <1>1, <1>2, <1>3, <2>3, RequestAloneTyped DEF Phases, ObjectTyped
  <2> QED
    BY <2>1, <2>2, <2>3 DEF ZoneFunctionRead, ZoneRead
<1>5. zones' \in Seq(DOMAIN site.functions)
  <2>1. zones' = zones \/ zones' = Append(zones, zone)
    BY DEF ZoneFunctionRead, ZoneRead
  <2>2. \A D, s, x : s \in Seq(D) /\ x \in D => Append(s, x) \in Seq(D)
    BY AppendProperties
  <2>3. zones \in Seq(DOMAIN site.functions)
    BY <1>2 DEF ObjectTyped
  <2> QED
    BY <1>3, <2>1, <2>2, <2>3
<1>6. DeviceTyped'
  BY <1>1, <1>2 DEF DeviceTyped
<1>7. ObjectTyped'
  BY <1>1, <1>2, <1>4, <1>5 DEF ObjectTyped, NumberOfZones
<1> QED
  BY <1>1, <1>2, <1>4, <1>6, <1>7 DEF Typed

LEMMA PolledTyped ==
  ASSUME Inv, Typed, Polled
  PROVE  Typed'
<1>1. /\ UNCHANGED <<site, faults, table, damaged, zones, ready, restricted>>
      /\ phase = "poll" /\ Installed /\ DeviceTyped /\ ObjectTyped /\ CallTyped
  BY DEF Polled, Answer, Inv, Typed
<1>2. discovered' \in [boards : {<<>>, site.boards}, zones : {None, 0, NumberOfZones}]
  BY <1>1, ShownTyped DEF Polled, ObjectTyped
<1>3. CallTyped'
  BY <1>1, ReturnTyped, PollsOnTyped DEF Polled, Results, Installed
<1>4. DeviceTyped' /\ ObjectTyped'
  BY <1>1, <1>2 DEF DeviceTyped, ObjectTyped, NumberOfZones
<1> QED
  BY <1>1, <1>3, <1>4 DEF Typed

LEMMA RepairTyped ==
  ASSUME Inv, Typed, ZoneKindRead \/ DayRead \/ DayWritten
  PROVE  Typed'
<1>1. UNCHANGED <<site, faults, table, object>> /\ phase \in RepairPhases
  BY DEF ZoneKindRead, DayRead, DayWritten, Answer, RepairPhases
<1>2. Installed /\ DeviceTyped /\ ObjectTyped /\ CallTyped
  BY DEF Inv, Typed
<1>3. /\ zone \in 1..ZonesToRepair /\ zone \in 0..NumberOfZones /\ day \in 0..Days /\ 1 \in 0..Days
      /\ phase # "zone_kind" => day \in 1..Days
  BY <1>1, <1>2, InstallationsAssumption DEF Inv, Repairing, CallTyped
<1>4. CASE ZoneKindRead
  <2>1. CallTyped'
    BY <1>1, <1>2, <1>3, <1>4, ReturnTyped, RequestAloneTyped
    DEF ZoneKindRead, Results, Phases, Installed
  <2> QED
    BY <1>1, <1>2, <1>4, <2>1, SameObjectTyped DEF ZoneKindRead, Typed, DeviceTyped
<1>5. CASE DayRead
  <2>1. day \in 1..Days
    BY <1>3, <1>5 DEF DayRead, Answer
  <2>2. ASSUME <<zone, day>> \in damaged PROVE CallTyped'
    BY <1>1, <1>2, <1>3, <1>5, <2>2, RequestAloneTyped DEF DayRead, Phases, WritePhases
  <2>3. ASSUME <<zone, day>> \notin damaged PROVE CallTyped'
    BY <1>1, <1>2, <1>3, <1>5, <2>1, <2>3, NextDayTyped DEF DayRead
  <2>4. CallTyped'
    BY <2>2, <2>3
  <2> QED
    BY <1>1, <1>2, <1>5, <2>4, SameObjectTyped DEF DayRead, Typed, DeviceTyped
<1>6. CASE DayWritten
  <2>1. day \in 1..Days
    BY <1>3, <1>6 DEF DayWritten, Answer
  <2>2. CallTyped'
    BY <1>1, <1>2, <1>3, <1>6, <2>1, NextDayTyped DEF DayWritten
  <2> QED
    BY <1>1, <1>2, <1>6, <2>2, SameObjectTyped DEF DayWritten, Typed, DeviceTyped
<1> QED
  BY <1>4, <1>5, <1>6

LEMMA ReturnedTyped ==
  ASSUME Inv, Typed, NEW r \in Results, Return(r), UNCHANGED <<site, object>>,
         faults' \in 0..MaxFaults, DeviceTyped'
  PROVE  Typed'
BY ReturnTyped, SameObjectTyped DEF Typed, Inv, Installed

LEMMA TypedStep == Inv /\ Typed /\ Next => Typed'
<1> SUFFICES ASSUME Inv, Typed, Next PROVE Typed'
  OBVIOUS
<1>1. Installed /\ DeviceTyped /\ ObjectTyped /\ CallTyped /\ faults \in 0..MaxFaults
  BY DEF Inv, Typed
<1>2. ASSUME UNCHANGED <<device, object, call, faults>> PROVE Typed'
  BY <1>1, <1>2, SameObjectTyped
  DEF device, call, Typed, DeviceTyped, CallTyped, NumberOfZones
<1>3. ASSUME NEW c \in Calls, Begin(c) PROVE Typed'
  <2>1. UNCHANGED <<site, table, damaged, object, faults>>
    BY <1>3 DEF Begin, device
  <2>2. CASE Return("repaired")
    BY <1>1, <2>1, <2>2, ReturnedTyped DEF Results, DeviceTyped
  <2>3. CASE ~Return("repaired")
    <3>1. /\ doing' = c /\ result' = "none" /\ phase' = FirstPhase(c) /\ todo' = FirstNames(c)
          /\ zone' = IF FirstPhase(c) = "zone_kind" THEN 1 ELSE 0
          /\ day' = 0 /\ ~(c = "async_repair_invalid_schedules" /\ ZonesToRepair = 0)
      BY <1>3, <2>3 DEF Begin
    <3>2. NumberOfZones \in Nat /\ ZonesToRepair \in 0..NumberOfZones /\ 0 \in 0..Days
      BY <1>1, ZonesToRepairBounded, InstallationsAssumption
    <3>3. FirstPhase(c) \in Phases
      <4>1. CASE c \in DOMAIN Polls
        BY <4>1, PollCalls DEF FirstPhase, Phases
      <4>2. CASE c \notin DOMAIN Polls
        <5>1. c \in {"async_detect", "async_health_check", "async_repair_invalid_schedules", "reset"}
          BY <4>2 DEF Calls
        <5>2. FirstPhase(c) \in {"detect", "health", "reset", "zone_kind"}
          BY <4>2, <5>1 DEF FirstPhase
        <5> QED
          BY <5>2 DEF Phases, WritePhases
      <4> QED
        BY <4>1, <4>2
    <3>4. FirstPhase(c) = "zone_kind" => c = "async_repair_invalid_schedules"
      BY DEF FirstPhase, Calls
    <3>5. zone' \in 0..NumberOfZones
      BY <3>1, <3>2, <3>4
    <3>6. CallTyped'
      BY <2>1, <3>1, <3>2, <3>3, <3>5, FirstNamesTyped DEF CallTyped, Results, NumberOfZones
    <3> QED
      BY <1>1, <2>1, <3>6, SameObjectTyped DEF Typed, DeviceTyped
  <2> QED
    BY <2>2, <2>3
<1>4. CASE Sends
  BY <1>2, <1>4 DEF Sends, gateway
<1>5. CASE Answers
  <2>1. CASE DetectAnswered
    <3>1. Verdict(Shown.boards) \in Results
      BY DEF Verdict, Results, Verdicts
    <3> QED
      BY <1>1, <2>1, <3>1, ReturnedTyped DEF DetectAnswered, Answer, DeviceTyped
  <2>2. CASE HealthAnswered
    BY <1>1, <2>2, ReturnedTyped DEF HealthAnswered, Answer, DeviceTyped, Results
  <2>3. CASE ResetWritten
    BY <1>1, <2>3, ReturnedTyped DEF ResetWritten, Answer, DeviceTyped, Results, TableStates
  <2> QED
    BY <1>5, <2>1, <2>2, <2>3, SetupReadTyped, ZonesReadTyped, PolledTyped, RepairTyped
    DEF Answers
<1>6. ASSUME NEW e \in ModbusErrors, Failed(e) PROVE Typed'
  <2>1. UNCHANGED <<site, object>> /\ DeviceTyped' /\ faults' \in 0..MaxFaults
    BY <1>1, <1>6, EffectTyped, FaultyTyped DEF Failed
  <2>2. CASE phase = "poll" /\ PollsOn
    BY <1>1, <2>1, <2>2, PollsOnTyped, SameObjectTyped DEF Typed
  <2>3. ASSUME NEW r \in {"NOT_A_GTW08", e, "health_check_failed"}, Return(r) PROVE Typed'
    <3>1. r \in Results
      BY DEF Results, Verdicts
    <3> QED
      BY <2>1, <2>3, <3>1, ReturnedTyped
  <2> QED
    BY <1>6, <2>2, <2>3 DEF Failed
<1>7. CASE Repeats
  <2>1. UNCHANGED <<site, object, call>> /\ DeviceTyped' /\ faults' \in 0..MaxFaults
    BY <1>1, <1>7, EffectTyped, FaultyTyped DEF Repeats
  <2> QED
    BY <1>1, <2>1, SameObjectTyped DEF call, Typed, CallTyped, NumberOfZones
<1>8. CASE GivenUp
  <2>1. UNCHANGED <<site, object>> /\ DeviceTyped' /\ faults' \in 0..MaxFaults
    BY <1>1, <1>8, EffectTyped, FaultyTyped DEF GivenUp
  <2> QED
    BY <1>8, <2>1, ReturnedTyped DEF GivenUp, Results
<1>9. ASSUME NEW z \in 1..NumberOfZones, NEW d \in 1..Days, Damaged(z, d) PROVE Typed'
  <2>1. UNCHANGED <<site, table, object, call>> /\ damaged' = damaged \cup {<<z, d>>}
    BY <1>9 DEF Damaged
  <2>2. faults' \in 0..MaxFaults
    BY <1>1, <1>9, InstallationsAssumption DEF Damaged
  <2>3. DeviceTyped'
    BY <1>1, <2>1 DEF DeviceTyped, NumberOfZones, Installed
  <2> QED
    BY <1>1, <2>1, <2>2, <2>3, SameObjectTyped DEF call, Typed, CallTyped, NumberOfZones
<1>10. ASSUME NEW t \in site.others, OtherTask(t) PROVE Typed'
  BY <1>2, <1>10 DEF OtherTask, gateway
<1> QED
  BY <1>3, <1>4, <1>5, <1>6, <1>7, <1>8, <1>9, <1>10 DEF Next

(* The gateway's variables keep the kind the code gives them, in every     *)
(* installation: the loops stay within the zones and days there are.       *)
THEOREM GatewayTypeCorrect == Spec => []TypeOK
<1>1. Typed /\ UNCHANGED vars => Typed'
  BY DEF vars, gateway, device, object, call, Typed, DeviceTyped, ObjectTyped, CallTyped,
         NumberOfZones
<1>2. Inv /\ Typed => TypeOK
  BY ComponentNames DEF Inv, UnitInv, Typed, DeviceTyped, ObjectTyped, CallTyped, TypeOK
<1> QED
  BY <1>1, <1>2, TypedInit, TypedStep, InvHolds, PTL DEF Spec
=============================================================================
