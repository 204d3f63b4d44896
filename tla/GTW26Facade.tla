----------------------------- MODULE GTW26Facade -----------------------------
(***************************************************************************)
(* The GTW26 facade (gtw26/gtw26.py) shared by several asyncio tasks: lazy *)
(* setup behind a lock, the three polls with their pooled read and their   *)
(* bundle-by-bundle fallback, the read-once bundles (installer config and  *)
(* week programs) that are latched after their first read, and the writes  *)
(* that re-arm them.                                                       *)
(*                                                                         *)
(* Tasks interleave only where the code awaits, so one action is what a    *)
(* task does between two awaits: it ends with the request the task waits   *)
(* on next.  An exception that leaves the call at an await (a dead link, a *)
(* cancelled task) is the action Raises.                                   *)
(*                                                                         *)
(* Of a bundle's registers the model keeps one writable field of each      *)
(* read-once bundle, as a version number that grows with every write; the  *)
(* other bundles appear by name only.                                      *)
(***************************************************************************)
EXTENDS GTW26Identity, FiniteSets

CONSTANTS
  Tasks,            \* the asyncio tasks using the facade
  NoTask,           \* the setup lock is free
  NoBundle,         \* a task is not reading a read-once bundle
  ReadingNames,     \* bundles in the readings pool
  SettingNames,     \* bundles in the settings pool
  CachedNames,      \* read-once bundles of the iSystem layout
  KnownLayouts,     \* layouts the constructor may be given, or None
  KnownGenerations, \* generations the constructor may be given, or None
  MaxWrites         \* bound on the writes of a run

ASSUME FacadeAssumption ==
  /\ NoTask \notin Tasks
  /\ NoBundle \notin ReadingNames \cup SettingNames \cup CachedNames
  /\ ReadingNames \cap SettingNames = {}
  /\ CachedNames \cap (ReadingNames \cup SettingNames) = {}
  /\ KnownLayouts \subseteq Layouts \cup {None}
  /\ KnownGenerations \subseteq Generations \cup {None}
  /\ MaxWrites \in Nat

VARIABLES
  layout, generation, setupComplete, setupLock, \* facade attributes
  pendingOnce,    \* the keys of _pending_once
  seen,           \* seen[b]: version met by b's last completed read, 0 if none
  cache,          \* cache[b]: version held by component b, 0 if none
  device,         \* device[b]: version held by the controller's register
  acked,          \* acked[b]: newest version whose write was acknowledged
  pc, op,         \* where each task is, and in which call
  todo,           \* names a loop of the task has not read yet
  current,        \* the read-once bundle the task is reading or writing
  carried,        \* the version carried by that read or write
  updated, failed,\* the UpdateReport being collected
  outcome         \* how the task's last call ended

facade == <<layout, generation, setupComplete, setupLock>>
bundle == <<pendingOnce, seen, cache, device, acked>>
call   == <<todo, current, carried, updated, failed>>
vars   == <<facade, bundle, pc, op, call, outcome>>

RegularNames == ReadingNames \cup SettingNames
AllNames     == RegularNames \cup CachedNames

Polls    == {"async_update", "async_update_readings", "async_update_settings"}
NoResult == "none"
Results  == {NoResult, "ready", "report", "written", "probe_error", "raised", "key_error"}

\* The names a poll's pool reads.
PoolNames(o) ==
  CASE o = "async_update_readings" -> ReadingNames
    [] o = "async_update_settings" -> SettingNames
    [] OTHER                       -> RegularNames

Calls == Polls \cup {"async_ensure_setup"}

PollsReadOnce(o) == o # "async_update_readings"

Init ==
  /\ layout \in KnownLayouts
  /\ generation \in KnownGenerations
  /\ setupComplete = FALSE
  /\ setupLock = NoTask
  /\ pendingOnce = {}
  /\ seen = [b \in CachedNames |-> 0]
  /\ cache = [b \in CachedNames |-> 0]
  /\ device = [b \in CachedNames |-> 1]
  /\ acked = [b \in CachedNames |-> 0]
  /\ pc = [t \in Tasks |-> "idle"]
  /\ op = [t \in Tasks |-> "async_update"]
  /\ todo = [t \in Tasks |-> {}]
  /\ current = [t \in Tasks |-> NoBundle]
  /\ carried = [t \in Tasks |-> 0]
  /\ updated = [t \in Tasks |-> {}]
  /\ failed = [t \in Tasks |-> {}]
  /\ outcome = [t \in Tasks |-> NoResult]
-----------------------------------------------------------------------------
(* Setup *)

NeedsProbe == layout = None \/ (layout = "base" /\ generation = None)

(***************************************************************************)
(* _setup_bundles: fresh components that hold no values, every read-once   *)
(* bundle of the layout pending, and the facade marked complete.           *)
(***************************************************************************)
SetupBundles(lay, gen) ==
  /\ layout' = lay
  /\ generation' = gen
  /\ setupComplete' = TRUE
  /\ pendingOnce' = IF lay = "isystem" THEN CachedNames ELSE {}
  /\ seen' = [b \in CachedNames |-> 0]
  /\ cache' = [b \in CachedNames |-> 0]
  /\ UNCHANGED <<device, acked>>

Goto(t, label) == pc' = [pc EXCEPT ![t] = label]

\* The call of task t ends with result r and the locals of its loops are gone.
Finish(t, r) ==
  /\ Goto(t, "idle")
  /\ outcome' = [outcome EXCEPT ![t] = r]
  /\ todo' = [todo EXCEPT ![t] = {}]
  /\ current' = [current EXCEPT ![t] = NoBundle]
  /\ carried' = [carried EXCEPT ![t] = 0]

(***************************************************************************)
(* Every call that needs the components starts with async_ensure_setup,    *)
(* whose first test needs no lock; a poll then sends its pooled read.      *)
(* "async_ensure_setup" alone stands for the other callers: mode and clock *)
(* writes and raw reads.                                                   *)
(***************************************************************************)
AfterSetup(t) ==
  IF op[t] \in Polls
  THEN Goto(t, "pool") /\ UNCHANGED <<todo, current, carried, outcome>>
  ELSE Finish(t, "ready")

Call(t, o) ==
  /\ pc[t] = "idle"
  /\ op' = [op EXCEPT ![t] = o]
  /\ outcome' = [outcome EXCEPT ![t] = NoResult]
  /\ updated' = [updated EXCEPT ![t] = {}]
  /\ failed' = [failed EXCEPT ![t] = {}]
  /\ o \in Polls \/ ~setupComplete
  /\ Goto(t, IF setupComplete THEN "pool" ELSE "locking")
  /\ UNCHANGED <<facade, bundle, todo, current, carried>>

\* The lock is free: the second test finds that another task did the setup.
SetupAlreadyDone(t) ==
  /\ pc[t] = "locking"
  /\ setupLock = NoTask
  /\ setupComplete
  /\ AfterSetup(t)
  /\ UNCHANGED <<facade, bundle, op, updated, failed>>

\* Slip: the second test under the lock is missing.
SetupWithoutProbe_NoRetest(t) ==
  /\ pc[t] = "locking"
  /\ setupLock = NoTask
  /\ ~NeedsProbe
  /\ SetupBundles(layout, generation)
  /\ AfterSetup(t)
  /\ UNCHANGED <<setupLock, op, updated, failed>>

\* The layout and generation are known: the setup runs without awaiting.
SetupWithoutProbe(t) ==
  /\ pc[t] = "locking"
  /\ setupLock = NoTask
  /\ ~setupComplete
  /\ ~NeedsProbe
  /\ SetupBundles(layout, generation)
  /\ AfterSetup(t)
  /\ UNCHANGED <<setupLock, op, updated, failed>>

\* Slip: the probe starts without waiting for the lock.
StartProbe_NoLock(t) ==
  /\ pc[t] = "locking"
  /\ ~setupComplete
  /\ NeedsProbe
  /\ setupLock' = t
  /\ Goto(t, "probing")
  /\ UNCHANGED <<layout, generation, setupComplete, bundle, op, call, outcome>>

StartProbe(t) ==
  /\ pc[t] = "locking"
  /\ setupLock = NoTask
  /\ ~setupComplete
  /\ NeedsProbe
  /\ setupLock' = t
  /\ Goto(t, "probing")
  /\ UNCHANGED <<layout, generation, setupComplete, bundle, op, call, outcome>>

(***************************************************************************)
(* async_detect, or async_detect_base when the base layout is known, comes *)
(* back with a verdict; the lock is released on the way out.               *)
(***************************************************************************)
ProbeResults == DetectionResults(layout = "base")

ProbeSucceeds(t) ==
  /\ pc[t] = "probing"
  /\ \E d \in {r \in ProbeResults : r.success} : SetupBundles(d.layout, d.generation)
  /\ setupLock' = NoTask
  /\ AfterSetup(t)
  /\ UNCHANGED <<op, updated, failed>>

\* Slip: the lock is released on success only.
ProbeFails_KeepsLock(t) ==
  /\ pc[t] = "probing"
  /\ Finish(t, "probe_error")
  /\ UNCHANGED <<facade, bundle, op, updated, failed>>

ProbeFails(t) ==
  /\ pc[t] = "probing"
  /\ setupLock' = NoTask
  /\ Finish(t, "probe_error")
  /\ UNCHANGED <<layout, generation, setupComplete, bundle, op, updated, failed>>
-----------------------------------------------------------------------------
(* Polls *)

(***************************************************************************)
(* The regular bundles are done.  async_update_readings returns; the other *)
(* two go on with a snapshot of the pending read-once bundles.             *)
(***************************************************************************)
AfterRegular(t) ==
  IF PollsReadOnce(op[t]) /\ pendingOnce # {}
  THEN /\ Goto(t, "once")
       /\ todo' = [todo EXCEPT ![t] = pendingOnce]
       /\ UNCHANGED <<current, carried, outcome>>
  ELSE Finish(t, "report")

\* _poll_group: the pooled read of every regular bundle succeeds.
PoolAnswers(t) ==
  /\ pc[t] = "pool"
  /\ updated' = [updated EXCEPT ![t] = @ \cup PoolNames(op[t])]
  /\ AfterRegular(t)
  /\ UNCHANGED <<facade, bundle, op, failed>>

\* Slip: the pool's bundles are reported as updated before they are read.
PoolRefused_Reports(t) ==
  /\ pc[t] = "pool"
  /\ Goto(t, "each")
  /\ todo' = [todo EXCEPT ![t] = PoolNames(op[t])]
  /\ updated' = [updated EXCEPT ![t] = PoolNames(op[t])]
  /\ UNCHANGED <<facade, bundle, op, current, carried, failed, outcome>>

\* A register error in the pooled read: fall back to one read per bundle.
PoolRefused(t) ==
  /\ pc[t] = "pool"
  /\ Goto(t, "each")
  /\ todo' = [todo EXCEPT ![t] = PoolNames(op[t])]
  /\ UNCHANGED <<facade, bundle, op, current, carried, updated, failed, outcome>>

\* _poll_individually: one bundle is read, or refused and named in `failed`.
ReadEach(t) ==
  /\ pc[t] = "each"
  /\ \E b \in todo[t] :
       /\ \/ /\ updated' = [updated EXCEPT ![t] = @ \cup {b}]
             /\ UNCHANGED failed
          \/ /\ failed' = [failed EXCEPT ![t] = @ \cup {b}]
             /\ UNCHANGED updated
       /\ IF todo[t] = {b}
          THEN AfterRegular(t)
          ELSE /\ todo' = [todo EXCEPT ![t] = @ \ {b}]
               /\ UNCHANGED <<pc, current, carried, outcome>>
  /\ UNCHANGED <<facade, bundle, op>>

\* Slip: the bundle leaves _pending_once before it has been read.
ServeReadOnce_Pops(t) ==
  /\ pc[t] = "once"
  /\ current[t] = NoBundle
  /\ \E b \in todo[t] :
       /\ current' = [current EXCEPT ![t] = b]
       /\ carried' = [carried EXCEPT ![t] = device[b]]
       /\ todo' = [todo EXCEPT ![t] = @ \ {b}]
       /\ pendingOnce' = pendingOnce \ {b}
  /\ UNCHANGED <<facade, seen, cache, device, acked, pc, op, updated, failed, outcome>>

(***************************************************************************)
(* _poll_read_once reads the bundles of its snapshot in turn.  A bundle is *)
(* read with several requests (a week program: one day per read), so other *)
(* tasks run between the moment the controller serves the field and the    *)
(* moment the read completes and replaces the component's values.          *)
(***************************************************************************)
ServeReadOnce(t) ==
  /\ pc[t] = "once"
  /\ current[t] = NoBundle
  /\ \E b \in todo[t] :
       /\ current' = [current EXCEPT ![t] = b]
       /\ carried' = [carried EXCEPT ![t] = device[b]]
       /\ todo' = [todo EXCEPT ![t] = @ \ {b}]
  /\ UNCHANGED <<facade, bundle, pc, op, updated, failed, outcome>>

\* The loop over the snapshot takes its next bundle or the poll returns.
NextReadOnce(t) ==
  IF todo[t] = {}
  THEN Finish(t, "report")
  ELSE /\ current' = [current EXCEPT ![t] = NoBundle]
       /\ carried' = [carried EXCEPT ![t] = 0]
       /\ UNCHANGED <<pc, todo, outcome>>

(***************************************************************************)
(* The bundle has been read: its values are replaced and it is deleted     *)
(* from _pending_once, which raises KeyError when it is no longer there.   *)
(***************************************************************************)
ReadOnceAnswers(t) ==
  /\ pc[t] = "once"
  /\ current[t] # NoBundle
  /\ LET b == current[t]
     IN  /\ cache' = [cache EXCEPT ![b] = carried[t]]
         /\ seen' = [seen EXCEPT ![b] = carried[t]]
         /\ updated' = [updated EXCEPT ![t] = @ \cup {b}]
         /\ pendingOnce' = pendingOnce \ {b}
         /\ IF b \in pendingOnce THEN NextReadOnce(t) ELSE Finish(t, "key_error")
  /\ UNCHANGED <<facade, device, acked, op, failed>>

\* Slip: the refusal is recorded whether or not a bundle was being read.
ReadOnceRefused_AnyTime(t) ==
  /\ pc[t] = "once"
  /\ failed' = [failed EXCEPT ![t] = @ \cup {current[t]}]
  /\ NextReadOnce(t)
  /\ UNCHANGED <<facade, bundle, op, updated>>

\* Slip: a refused bundle is given up like one that was read.
ReadOnceRefused_GivesUp(t) ==
  /\ pc[t] = "once"
  /\ current[t] # NoBundle
  /\ failed' = [failed EXCEPT ![t] = @ \cup {current[t]}]
  /\ pendingOnce' = pendingOnce \ {current[t]}
  /\ NextReadOnce(t)
  /\ UNCHANGED <<facade, seen, cache, device, acked, op, updated>>

ReadOnceRefused(t) ==
  /\ pc[t] = "once"
  /\ current[t] # NoBundle
  /\ failed' = [failed EXCEPT ![t] = @ \cup {current[t]}]
  /\ NextReadOnce(t)
  /\ UNCHANGED <<facade, bundle, op, updated>>
-----------------------------------------------------------------------------
(* Writes to read-once bundles: Config.write and WeekProgram.async_set_day *)

\* The components exist only on the iSystem layout, after setup.
Write(t, b) ==
  /\ pc[t] = "idle"
  /\ setupComplete /\ layout = "isystem"
  /\ device[b] <= MaxWrites
  /\ Goto(t, "writing")
  /\ op' = [op EXCEPT ![t] = "write"]
  /\ current' = [current EXCEPT ![t] = b]
  /\ outcome' = [outcome EXCEPT ![t] = NoResult]
  /\ updated' = [updated EXCEPT ![t] = {}]
  /\ failed' = [failed EXCEPT ![t] = {}]
  /\ UNCHANGED <<facade, bundle, todo, carried>>

\* The controller takes the value over.
WriteLands(t) ==
  /\ pc[t] = "writing"
  /\ LET b == current[t]
     IN  /\ device' = [device EXCEPT ![b] = @ + 1]
         /\ carried' = [carried EXCEPT ![t] = device[b] + 1]
  /\ Goto(t, "landed")
  /\ UNCHANGED <<facade, pendingOnce, seen, cache, acked, op, todo, current,
                 updated, failed, outcome>>

\* Slip: the hook that re-arms the bundle is not called.
WriteAcknowledged_NoRearm(t) ==
  /\ pc[t] = "landed"
  /\ LET b == current[t]
     IN  /\ cache' = [cache EXCEPT ![b] = carried[t]]
         /\ acked' = [acked EXCEPT ![b] = IF carried[t] > @ THEN carried[t] ELSE @]
  /\ Finish(t, "written")
  /\ UNCHANGED <<facade, pendingOnce, seen, device, op, updated, failed>>

(***************************************************************************)
(* The reply arrives: Gtw26Component.write retains the value, and the hook *)
(* _invalidate_read_once makes the bundle pending again.                   *)
(***************************************************************************)
WriteAcknowledged(t) ==
  /\ pc[t] = "landed"
  /\ LET b == current[t]
     IN  /\ cache' = [cache EXCEPT ![b] = carried[t]]
         /\ acked' = [acked EXCEPT ![b] = IF carried[t] > @ THEN carried[t] ELSE @]
         /\ pendingOnce' = pendingOnce \cup {b}
  /\ Finish(t, "written")
  /\ UNCHANGED <<facade, seen, device, op, updated, failed>>
-----------------------------------------------------------------------------
(***************************************************************************)
(* The request a task waits for ends in an exception that leaves the call: *)
(* a connection error, a register error of a write or of a probe's         *)
(* transport, or the task is cancelled.  `async with` releases the lock.   *)
(***************************************************************************)
Raises(t) ==
  /\ pc[t] # "idle"
  /\ Finish(t, "raised")
  /\ setupLock' = IF setupLock = t THEN NoTask ELSE setupLock
  /\ UNCHANGED <<layout, generation, setupComplete, bundle, op, updated, failed>>

TakeSetupLock(t) == SetupAlreadyDone(t) \/ SetupWithoutProbe(t) \/ StartProbe(t)

Resume(t) ==
  \/ ProbeSucceeds(t) \/ ProbeFails(t)
  \/ PoolAnswers(t) \/ PoolRefused(t) \/ ReadEach(t)
  \/ ServeReadOnce(t) \/ ReadOnceAnswers(t) \/ ReadOnceRefused(t)
  \/ WriteLands(t) \/ WriteAcknowledged(t)

Next ==
  \E t \in Tasks :
    \/ \E o \in Calls : Call(t, o)
    \/ \E b \in CachedNames : Write(t, b)
    \/ TakeSetupLock(t)
    \/ Resume(t)
    \/ Raises(t)

Spec == Init /\ [][Next]_vars

(***************************************************************************)
(* Every request is answered or fails, so a task that waits for one is     *)
(* resumed.  asyncio.Lock serves its waiters first come first served:      *)
(* under it a waiter that keeps finding the lock free gets it, however     *)
(* often other tasks' probes fail in between.                              *)
(***************************************************************************)
Fairness == \A t \in Tasks : WF_vars(Resume(t)) /\ SF_vars(TakeSetupLock(t))

FairSpec == Spec /\ Fairness

(***************************************************************************)
(* The host polls periodically, and a request that is repeated often       *)
(* enough is answered at some point.                                       *)
(***************************************************************************)
PollFairness ==
  \A t \in Tasks :
    /\ SF_vars(Call(t, "async_update"))
    /\ SF_vars(op[t] = "async_update" /\ PoolAnswers(t))
    /\ SF_vars(ServeReadOnce(t))
    /\ SF_vars(ReadOnceAnswers(t))

PollingSpec == FairSpec /\ PollFairness
-----------------------------------------------------------------------------
(* Properties *)

PollLabels == {"pool", "each", "once"}
Labels     == {"idle", "locking", "probing", "writing", "landed"} \cup PollLabels

\* Every variable holds a value of the kind the code gives it.
TypeOK ==
  /\ layout \in Layouts \cup {None}
  /\ generation \in Generations \cup {None}
  /\ setupComplete \in BOOLEAN
  /\ setupLock \in Tasks \cup {NoTask}
  /\ pendingOnce \subseteq CachedNames
  /\ seen \in [CachedNames -> Nat]
  /\ cache \in [CachedNames -> Nat]
  /\ device \in [CachedNames -> Nat]
  /\ acked \in [CachedNames -> Nat]
  /\ pc \in [Tasks -> Labels]
  /\ op \in [Tasks -> Calls \cup {"write"}]
  /\ todo \in [Tasks -> SUBSET AllNames]
  /\ current \in [Tasks -> CachedNames \cup {NoBundle}]
  /\ carried \in [Tasks -> Nat]
  /\ updated \in [Tasks -> SUBSET AllNames]
  /\ failed \in [Tasks -> SUBSET AllNames]
  /\ outcome \in [Tasks -> Results]

(***************************************************************************)
(* async_ensure_setup: whoever probes holds the setup lock and the facade  *)
(* is not set up yet, so no second task probes and no finished setup is    *)
(* ever probed again; and no task polls or writes a facade that has not    *)
(* been set up, however the setups before it ended.                        *)
(***************************************************************************)
SetupExclusive ==
  \A t \in Tasks :
    /\ pc[t] = "probing" <=> setupLock = t
    /\ pc[t] = "probing" => ~setupComplete
    /\ pc[t] \in PollLabels \cup {"writing", "landed"} => setupComplete

(***************************************************************************)
(* The component set is built once: from then on the layout, generation    *)
(* and the values the components hold survive every later call, and a      *)
(* layout given to the constructor is never replaced by a probed one.      *)
(***************************************************************************)
BuiltOnce ==
  [][/\ setupComplete =>
          /\ setupComplete'
          /\ UNCHANGED <<layout, generation>>
          /\ \A b \in CachedNames : seen[b] # 0 => seen'[b] # 0
     /\ layout # None => layout' = layout]_vars

(***************************************************************************)
(* A read-once bundle that is not pending has been read in full at least   *)
(* once: no failed read, lost link, cancelled poll or racing task makes    *)
(* the facade give up on a bundle it has never seen.                       *)
(***************************************************************************)
LatchedWasRead ==
  setupComplete /\ layout = "isystem" =>
    \A b \in CachedNames \ pendingOnce : seen[b] # 0

(***************************************************************************)
(* UpdateReport: a poll that returns a report accounts for each bundle of  *)
(* its pool exactly once, as updated or as failed, and names beyond the    *)
(* pool only read-once bundles, none of them for the readings poll.        *)
(***************************************************************************)
ReportAccounts ==
  \A t \in Tasks :
    outcome[t] = "report" =>
      /\ updated[t] \cap failed[t] = {}
      /\ (updated[t] \cup failed[t]) \ CachedNames = PoolNames(op[t])
      /\ PollsReadOnce(op[t]) \/ (updated[t] \cup failed[t]) \cap CachedNames = {}

(***************************************************************************)
(* Config.write: "Write a config field and notify the facade to reread     *)
(* it"; _invalidate_read_once: "Re-arm a cached bundle after a successful  *)
(* write".  A bundle that is not pending has been read since the newest    *)
(* acknowledged write to it.                                               *)
(***************************************************************************)
RereadAfterWrite ==
  setupComplete => \A b \in CachedNames \ pendingOnce : seen[b] >= acked[b]

(***************************************************************************)
(* The purpose of the re-arming: after an acknowledged write the component *)
(* sooner or later holds values the controller reported after that write,  *)
(* such as a value it rounded or the related fields it changed.            *)
(***************************************************************************)
WritesAreReread ==
  \A b \in CachedNames : \A v \in 1..(MaxWrites + 1) :
    acked[b] >= v ~> seen[b] >= v

(***************************************************************************)
(* The polls document GTW26ProbeError and ModbusConnectionError as what    *)
(* they raise: no poll ends in a KeyError of its own bookkeeping.          *)
(***************************************************************************)
NoKeyError == \A t \in Tasks : outcome[t] # "key_error"

(***************************************************************************)
(* Every call returns: no failure inside setup leaves its lock taken and   *)
(* no fallback loop runs for ever.                                         *)
(***************************************************************************)
EveryCallReturns == \A t \in Tasks : pc[t] # "idle" ~> pc[t] = "idle"
=============================================================================
