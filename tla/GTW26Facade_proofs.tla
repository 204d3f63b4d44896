-------------------------- MODULE GTW26Facade_proofs --------------------------
(***************************************************************************)
(* Proofs about the facade, for every set of tasks and bundles and every   *)
(* way of constructing it.                                                 *)
(***************************************************************************)
EXTENDS GTW26Facade, TLAPS

(***************************************************************************)
(* What the locals of a task hold: a loop over read-once bundles has only  *)
(* such bundles left, a bundle being read carries a version the controller *)
(* held, a write has a target, and other tasks are at no bundle.           *)
(***************************************************************************)
Locals ==
  /\ \A b \in CachedNames : device[b] # 0
  /\ \A t \in Tasks :
       /\ pc[t] = "once" => todo[t] \subseteq CachedNames
       /\ pc[t] = "once" /\ current[t] # NoBundle => carried[t] # 0
       /\ pc[t] \in {"writing", "landed"} => current[t] \in CachedNames
       /\ pc[t] \notin {"once", "writing", "landed"} => current[t] = NoBundle

IInv == TypeOK /\ SetupExclusive /\ Locals /\ LatchedWasRead

-----------------------------------------------------------------------------
(* The operators of the model *)

\* A probe that succeeds names a layout, and a generation or none.
LEMMA SuccessfulProbe ==
  ASSUME NEW d \in ProbeResults, d.success
  PROVE  d.layout \in Layouts /\ d.generation \in Generations \cup {None}
<1>1. PICK outcomes \in [Blocks -> Outcomes], code \in TypeCodes :
        d = Detection(layout = "base", outcomes, code)
  BY DEF ProbeResults, DetectionResults
<1>2. BaseGenerations(code) \in Generations \cup {None}
  BY DEF BaseGenerations, Generations
<1>3. QED
  BY <1>1, <1>2 DEF Detection, Failure, Detected, Layouts

\* Every poll reads bundles of its pool only.
LEMMA PoolNamesKnown ==
  ASSUME NEW o
  PROVE  PoolNames(o) \subseteq AllNames
BY DEF PoolNames, AllNames, RegularNames
-----------------------------------------------------------------------------
(* The inductive invariant *)

LEMMA InvInit == Init => IInv
<1> SUFFICES ASSUME Init PROVE IInv
  OBVIOUS
<1>1. TypeOK
  BY FacadeAssumption
  DEF Init, TypeOK, Labels, Calls, Polls, Results, NoResult, AllNames
<1>2. SetupExclusive
  BY FacadeAssumption DEF Init, SetupExclusive, PollLabels
<1>3. Locals
  BY DEF Init, Locals
<1>4. LatchedWasRead
  BY DEF Init, LatchedWasRead
<1>5. QED
  BY <1>1, <1>2, <1>3, <1>4 DEF IInv

LEMMA InvCall ==
  ASSUME IInv, NEW t \in Tasks, NEW o \in Calls, Call(t, o)
  PROVE  IInv'
<1> USE DEF IInv, Call, Goto, facade, bundle
<1>1. TypeOK'
  BY DEF TypeOK, Labels, PollLabels, Results, NoResult
<1>2. SetupExclusive'
  BY DEF TypeOK, SetupExclusive, PollLabels
<1>3. Locals'
  BY DEF TypeOK, Locals
<1>4. LatchedWasRead'
  BY DEF LatchedWasRead
<1>5. QED
  BY <1>1, <1>2, <1>3, <1>4

(***************************************************************************)
(* A call that ends, or goes from setup to its pool, keeps the locals in   *)
(* order; what it did to the shared state is left to its caller.           *)
(***************************************************************************)
LEMMA FinishLocals ==
  ASSUME TypeOK, Locals, NEW t \in Tasks, NEW r \in Results, Finish(t, r),
         device' = device
  PROVE  /\ Locals'
         /\ pc' = [pc EXCEPT ![t] = "idle"]
         /\ pc' \in [Tasks -> Labels]
         /\ todo' \in [Tasks -> SUBSET AllNames]
         /\ current' \in [Tasks -> CachedNames \cup {NoBundle}]
         /\ carried' \in [Tasks -> Nat]
         /\ outcome' \in [Tasks -> Results]
BY DEF Finish, Goto, TypeOK, Labels, Locals

LEMMA AfterSetupLocals ==
  ASSUME TypeOK, Locals, NEW t \in Tasks, AfterSetup(t), pc[t] \in {"locking", "probing"},
         device' = device
  PROVE  /\ Locals'
         /\ \E label \in {"idle", "pool"} : pc' = [pc EXCEPT ![t] = label]
         /\ pc' \in [Tasks -> Labels]
         /\ todo' \in [Tasks -> SUBSET AllNames]
         /\ current' \in [Tasks -> CachedNames \cup {NoBundle}]
         /\ carried' \in [Tasks -> Nat]
         /\ outcome' \in [Tasks -> Results]
<1>1. CASE op[t] \in Polls
  BY <1>1 DEF AfterSetup, Goto, TypeOK, Labels, PollLabels, Locals
<1>2. CASE op[t] \notin Polls
  BY <1>2, FinishLocals DEF AfterSetup, Results
<1>3. QED
  BY <1>1, <1>2

LEMMA InvSetupAlreadyDone ==
  ASSUME IInv, NEW t \in Tasks, SetupAlreadyDone(t)
  PROVE  IInv'
<1>1. /\ setupComplete
      /\ UNCHANGED <<facade, bundle, op, updated, failed>>
      /\ pc[t] = "locking" /\ AfterSetup(t) /\ device' = device
  BY DEF SetupAlreadyDone, bundle
<1>2. TypeOK'
  BY <1>1, AfterSetupLocals DEF IInv, TypeOK, facade, bundle
<1>3. SetupExclusive'
  BY <1>1, AfterSetupLocals DEF IInv, TypeOK, SetupExclusive, PollLabels, facade
<1>4. Locals'
  BY <1>1, AfterSetupLocals DEF IInv
<1>5. LatchedWasRead'
  BY <1>1 DEF IInv, LatchedWasRead, facade, bundle
<1>6. QED
  BY <1>2, <1>3, <1>4, <1>5 DEF IInv

\* A setup that completes, whether it probed or not, while nobody else probes.
LEMMA InvSetupBundles ==
  ASSUME IInv, NEW t \in Tasks, pc[t] \in {"locking", "probing"},
         NEW lay \in Layouts \cup {None}, NEW gen \in Generations \cup {None},
         SetupBundles(lay, gen), AfterSetup(t), setupLock' = NoTask,
         setupLock \in {t, NoTask},
         UNCHANGED <<op, updated, failed>>
  PROVE  IInv'
<1>1. /\ layout' = lay /\ generation' = gen /\ setupComplete' = TRUE
      /\ pendingOnce' = IF lay = "isystem" THEN CachedNames ELSE {}
      /\ seen' = [b \in CachedNames |-> 0] /\ cache' = [b \in CachedNames |-> 0]
      /\ device' = device /\ acked' = acked
  BY DEF SetupBundles
<1>2. TypeOK'
  BY <1>1, AfterSetupLocals DEF IInv, TypeOK
<1>3. SetupExclusive'
  <2>1. \A u \in Tasks : pc'[u] # "probing" /\ setupLock' # u
    BY <1>1, AfterSetupLocals, FacadeAssumption DEF IInv, TypeOK, SetupExclusive
  <2>2. QED
    BY <1>1, <2>1 DEF SetupExclusive
<1>4. Locals'
  BY <1>1, AfterSetupLocals DEF IInv
<1>5. LatchedWasRead'
  BY <1>1 DEF LatchedWasRead
<1>6. QED
  BY <1>2, <1>3, <1>4, <1>5 DEF IInv

LEMMA InvSetupWithoutProbe ==
  ASSUME IInv, NEW t \in Tasks, SetupWithoutProbe(t)
  PROVE  IInv'
BY InvSetupBundles DEF SetupWithoutProbe, IInv, TypeOK

LEMMA InvStartProbe ==
  ASSUME IInv, NEW t \in Tasks, StartProbe(t)
  PROVE  IInv'
<1> USE DEF IInv, StartProbe, Goto, bundle, call
<1>1. TypeOK'
  BY DEF TypeOK, Labels
<1>2. SetupExclusive'
  BY FacadeAssumption DEF TypeOK, SetupExclusive, PollLabels
<1>3. Locals'
  BY DEF TypeOK, Locals
<1>4. LatchedWasRead'
  BY DEF LatchedWasRead
<1>5. QED
  BY <1>1, <1>2, <1>3, <1>4

LEMMA InvProbeSucceeds ==
  ASSUME IInv, NEW t \in Tasks, ProbeSucceeds(t)
  PROVE  IInv'
<1>1. PICK d \in {r \in ProbeResults : r.success} : SetupBundles(d.layout, d.generation)
  BY DEF ProbeSucceeds
<1>2. d.layout \in Layouts \cup {None} /\ d.generation \in Generations \cup {None}
  BY SuccessfulProbe
<1>3. setupLock = t
  BY DEF ProbeSucceeds, IInv, SetupExclusive
<1>4. QED
  BY <1>1, <1>2, <1>3, InvSetupBundles DEF ProbeSucceeds

(***************************************************************************)
(* A call that ends without touching the facade: the lock is released if   *)
(* the task held it.                                                       *)
(***************************************************************************)
LEMMA InvEnds ==
  ASSUME IInv, NEW t \in Tasks, NEW r \in Results, Finish(t, r),
         setupLock' = IF setupLock = t THEN NoTask ELSE setupLock,
         UNCHANGED <<layout, generation, setupComplete, bundle, op>>,
         updated' \in [Tasks -> SUBSET AllNames],
         failed' \in [Tasks -> SUBSET AllNames]
  PROVE  IInv'
<1>1. device' = device
  BY DEF bundle
<1>2. TypeOK'
  BY <1>1, FinishLocals DEF IInv, TypeOK, bundle
<1>3. SetupExclusive'
  <2>1. pc' = [pc EXCEPT ![t] = "idle"]
    BY <1>1, FinishLocals DEF IInv
  <2>2. \A u \in Tasks : pc'[u] = "probing" <=> setupLock' = u
    BY <2>1, FacadeAssumption DEF IInv, TypeOK, SetupExclusive
  <2>3. QED
    BY <2>1, <2>2 DEF IInv, TypeOK, SetupExclusive, PollLabels
<1>4. Locals'
  BY <1>1, FinishLocals DEF IInv
<1>5. LatchedWasRead'
  BY DEF IInv, LatchedWasRead, bundle
<1>6. QED
  BY <1>2, <1>3, <1>4, <1>5 DEF IInv

LEMMA InvProbeFails ==
  ASSUME IInv, NEW t \in Tasks, ProbeFails(t)
  PROVE  IInv'
<1>1. setupLock = t
  BY DEF ProbeFails, IInv, SetupExclusive
<1>2. QED
  BY <1>1, InvEnds DEF ProbeFails, Results, IInv, TypeOK

LEMMA InvRaises ==
  ASSUME IInv, NEW t \in Tasks, Raises(t)
  PROVE  IInv'
BY InvEnds DEF Raises, Results, IInv, TypeOK

\* A poll or a write leaves the setup as it is.
LEMMA StaysSetUp ==
  ASSUME TypeOK, SetupExclusive, NEW t \in Tasks,
         pc[t] \in PollLabels \cup {"writing", "landed"},
         NEW label \in PollLabels \cup {"idle", "landed"},
         pc' = [pc EXCEPT ![t] = label], UNCHANGED facade
  PROVE  SetupExclusive'
BY DEF TypeOK, SetupExclusive, PollLabels, facade

LEMMA AfterRegularLocals ==
  ASSUME TypeOK, Locals, NEW t \in Tasks, AfterRegular(t), pc[t] \in {"pool", "each"},
         device' = device
  PROVE  /\ Locals'
         /\ \E label \in PollLabels \cup {"idle", "landed"} :
              pc' = [pc EXCEPT ![t] = label]
         /\ pc' \in [Tasks -> Labels]
         /\ todo' \in [Tasks -> SUBSET AllNames]
         /\ current' \in [Tasks -> CachedNames \cup {NoBundle}]
         /\ carried' \in [Tasks -> Nat]
         /\ outcome' \in [Tasks -> Results]
<1>1. CASE PollsReadOnce(op[t]) /\ pendingOnce # {}
  BY <1>1 DEF AfterRegular, Goto, TypeOK, Labels, PollLabels, Locals, AllNames
<1>2. CASE ~(PollsReadOnce(op[t]) /\ pendingOnce # {})
  BY <1>2, FinishLocals DEF AfterRegular, Results
<1>3. QED
  BY <1>1, <1>2

LEMMA InvPoolAnswers ==
  ASSUME IInv, NEW t \in Tasks, PoolAnswers(t)
  PROVE  IInv'
<1>1. /\ pc[t] = "pool" /\ AfterRegular(t) /\ device' = device
      /\ UNCHANGED <<facade, bundle, op, failed>>
      /\ updated' = [updated EXCEPT ![t] = updated[t] \cup PoolNames(op[t])]
  BY DEF PoolAnswers, bundle
<1>2. TypeOK'
  <2>1. updated' \in [Tasks -> SUBSET AllNames]
    BY <1>1, PoolNamesKnown DEF IInv, TypeOK
  <2>2. QED
    BY <1>1, <2>1, AfterRegularLocals DEF IInv, TypeOK, facade, bundle
<1>3. SetupExclusive'
  BY <1>1, AfterRegularLocals, StaysSetUp DEF IInv, PollLabels
<1>4. Locals'
  BY <1>1, AfterRegularLocals DEF IInv
<1>5. LatchedWasRead'
  BY <1>1 DEF IInv, LatchedWasRead, facade, bundle
<1>6. QED
  BY <1>2, <1>3, <1>4, <1>5 DEF IInv

LEMMA InvPoolRefused ==
  ASSUME IInv, NEW t \in Tasks, PoolRefused(t)
  PROVE  IInv'
<1> USE DEF IInv, PoolRefused, Goto, facade, bundle
<1>1. TypeOK'
  BY PoolNamesKnown DEF TypeOK, Labels, PollLabels
<1>2. SetupExclusive'
  BY StaysSetUp DEF PollLabels
<1>3. Locals'
  BY DEF TypeOK, Locals
<1>4. LatchedWasRead'
  BY DEF LatchedWasRead
<1>5. QED
  BY <1>1, <1>2, <1>3, <1>4

LEMMA InvReadEach ==
  ASSUME IInv, NEW t \in Tasks, ReadEach(t)
  PROVE  IInv'
<1>1. PICK b \in todo[t] :
        /\ \/ /\ updated' = [updated EXCEPT ![t] = updated[t] \cup {b}]
              /\ UNCHANGED failed
           \/ /\ failed' = [failed EXCEPT ![t] = failed[t] \cup {b}]
              /\ UNCHANGED updated
        /\ \/ AfterRegular(t)
           \/ /\ todo' = [todo EXCEPT ![t] = todo[t] \ {b}]
              /\ UNCHANGED <<pc, current, carried, outcome>>
  BY DEF ReadEach
<1>2. /\ pc[t] = "each" /\ device' = device
      /\ UNCHANGED <<facade, bundle, op>>
  BY DEF ReadEach, bundle
<1>3. updated' \in [Tasks -> SUBSET AllNames] /\ failed' \in [Tasks -> SUBSET AllNames]
  BY <1>1 DEF IInv, TypeOK
<1>4. LatchedWasRead'
  BY <1>2 DEF IInv, LatchedWasRead, facade, bundle
<1>5. CASE AfterRegular(t)
  <2>1. TypeOK'
    BY <1>2, <1>3, <1>5, AfterRegularLocals DEF IInv, TypeOK, facade, bundle
  <2>2. SetupExclusive'
    BY <1>2, <1>5, AfterRegularLocals, StaysSetUp DEF IInv, PollLabels
  <2>3. Locals'
    BY <1>2, <1>5, AfterRegularLocals DEF IInv
  <2>4. QED
    BY <1>4, <2>1, <2>2, <2>3 DEF IInv
<1>6. CASE /\ todo' = [todo EXCEPT ![t] = todo[t] \ {b}]
           /\ UNCHANGED <<pc, current, carried, outcome>>
  <2>1. TypeOK'
    BY <1>2, <1>3, <1>6 DEF IInv, TypeOK, facade, bundle
  <2>2. SetupExclusive'
    BY <1>2, <1>6 DEF IInv, SetupExclusive, facade
  <2>3. Locals'
    BY <1>2, <1>6 DEF IInv, TypeOK, Locals
  <2>4. QED
    BY <1>4, <2>1, <2>2, <2>3 DEF IInv
<1>7. QED
  BY <1>1, <1>5, <1>6

LEMMA InvServeReadOnce ==
  ASSUME IInv, NEW t \in Tasks, ServeReadOnce(t)
  PROVE  IInv'
<1>1. PICK b \in todo[t] :
        /\ current' = [current EXCEPT ![t] = b]
        /\ carried' = [carried EXCEPT ![t] = device[b]]
        /\ todo' = [todo EXCEPT ![t] = todo[t] \ {b}]
  BY DEF ServeReadOnce
<1>2. /\ pc[t] = "once"
      /\ UNCHANGED <<facade, bundle, pc, op, updated, failed, outcome>>
  BY DEF ServeReadOnce
<1>3. b \in CachedNames /\ device[b] \in Nat \ {0}
  BY <1>1, <1>2 DEF IInv, Locals, TypeOK
<1>4. TypeOK'
  BY <1>1, <1>2, <1>3 DEF IInv, TypeOK, facade, bundle
<1>5. SetupExclusive'
  BY <1>2 DEF IInv, SetupExclusive, facade
<1>6. Locals'
  BY <1>1, <1>2, <1>3 DEF IInv, TypeOK, Locals, bundle
<1>7. LatchedWasRead'
  BY <1>2 DEF IInv, LatchedWasRead, facade, bundle
<1>8. QED
  BY <1>4, <1>5, <1>6, <1>7 DEF IInv

LEMMA NextReadOnceLocals ==
  ASSUME TypeOK, Locals, NEW t \in Tasks, NextReadOnce(t), pc[t] = "once",
         device' = device
  PROVE  /\ Locals'
         /\ \E label \in PollLabels \cup {"idle", "landed"} :
              pc' = [pc EXCEPT ![t] = label]
         /\ pc' \in [Tasks -> Labels]
         /\ todo' \in [Tasks -> SUBSET AllNames]
         /\ current' \in [Tasks -> CachedNames \cup {NoBundle}]
         /\ carried' \in [Tasks -> Nat]
         /\ outcome' \in [Tasks -> Results]
<1>1. CASE todo[t] = {}
  BY <1>1, FinishLocals DEF NextReadOnce, Results
<1>2. CASE todo[t] # {}
  <2>1. pc' = [pc EXCEPT ![t] = "once"]
    BY <1>2 DEF NextReadOnce, TypeOK
  <2>2. QED
    BY <1>2, <2>1 DEF NextReadOnce, TypeOK, Labels, PollLabels, Locals
<1>3. QED
  BY <1>1, <1>2

LEMMA InvReadOnceAnswers ==
  ASSUME IInv, NEW t \in Tasks, ReadOnceAnswers(t)
  PROVE  IInv'
<1> DEFINE b == current[t]
<1>1. /\ pc[t] = "once" /\ b \in CachedNames
      /\ carried[t] \in Nat \ {0}
  BY DEF ReadOnceAnswers, IInv, TypeOK, Locals
<1>2. /\ cache' = [cache EXCEPT ![b] = carried[t]]
      /\ seen' = [seen EXCEPT ![b] = carried[t]]
      /\ updated' = [updated EXCEPT ![t] = updated[t] \cup {b}]
      /\ pendingOnce' = pendingOnce \ {b}
      /\ NextReadOnce(t) \/ Finish(t, "key_error")
      /\ UNCHANGED <<facade, device, acked, op, failed>>
  BY DEF ReadOnceAnswers
<1>3. /\ Locals'
      /\ \E label \in PollLabels \cup {"idle", "landed"} :
           pc' = [pc EXCEPT ![t] = label]
      /\ pc' \in [Tasks -> Labels]
      /\ todo' \in [Tasks -> SUBSET AllNames]
      /\ current' \in [Tasks -> CachedNames \cup {NoBundle}]
      /\ carried' \in [Tasks -> Nat]
      /\ outcome' \in [Tasks -> Results]
  <2>1. CASE NextReadOnce(t)
    BY <1>1, <1>2, <2>1, NextReadOnceLocals DEF IInv
  <2>2. CASE Finish(t, "key_error")
    BY <1>1, <1>2, <2>2, FinishLocals DEF IInv, Results
  <2>3. QED
    BY <1>2, <2>1, <2>2
<1>4. TypeOK'
  BY <1>1, <1>2, <1>3 DEF IInv, TypeOK, facade, AllNames
<1>5. SetupExclusive'
  BY <1>1, <1>2, <1>3, StaysSetUp DEF IInv, PollLabels
<1>6. LatchedWasRead'
  BY <1>1, <1>2 DEF IInv, TypeOK, LatchedWasRead, facade
<1>7. QED
  BY <1>3, <1>4, <1>5, <1>6 DEF IInv

LEMMA InvReadOnceRefused ==
  ASSUME IInv, NEW t \in Tasks, ReadOnceRefused(t)
  PROVE  IInv'
<1>1. /\ pc[t] = "once" /\ current[t] \in CachedNames
      /\ failed' = [failed EXCEPT ![t] = failed[t] \cup {current[t]}]
      /\ NextReadOnce(t) /\ device' = device
      /\ UNCHANGED <<facade, bundle, op, updated>>
  BY DEF ReadOnceRefused, IInv, TypeOK, bundle
<1>2. TypeOK'
  <2>1. failed' \in [Tasks -> SUBSET AllNames]
    BY <1>1 DEF IInv, TypeOK, AllNames
  <2>2. QED
    BY <1>1, <2>1, NextReadOnceLocals DEF IInv, TypeOK, facade, bundle
<1>3. SetupExclusive'
  BY <1>1, NextReadOnceLocals, StaysSetUp DEF IInv, PollLabels
<1>4. Locals'
  BY <1>1, NextReadOnceLocals DEF IInv
<1>5. LatchedWasRead'
  BY <1>1 DEF IInv, LatchedWasRead, facade, bundle
<1>6. QED
  BY <1>2, <1>3, <1>4, <1>5 DEF IInv

LEMMA InvWrite ==
  ASSUME IInv, NEW t \in Tasks, NEW b \in CachedNames, Write(t, b)
  PROVE  IInv'
<1> USE DEF IInv, Write, Goto, facade, bundle
<1>1. TypeOK'
  BY DEF TypeOK, Labels, Results, NoResult
<1>2. SetupExclusive'
  BY DEF TypeOK, SetupExclusive, PollLabels
<1>3. Locals'
  BY DEF TypeOK, Locals
<1>4. LatchedWasRead'
  BY DEF LatchedWasRead
<1>5. QED
  BY <1>1, <1>2, <1>3, <1>4

LEMMA InvWriteLands ==
  ASSUME IInv, NEW t \in Tasks, WriteLands(t)
  PROVE  IInv'
<1> DEFINE b == current[t]
<1>1. /\ pc[t] = "writing" /\ b \in CachedNames /\ device[b] \in Nat
      /\ device' = [device EXCEPT ![b] = device[b] + 1]
      /\ carried' = [carried EXCEPT ![t] = device[b] + 1]
      /\ pc' = [pc EXCEPT ![t] = "landed"]
      /\ UNCHANGED <<facade, pendingOnce, seen, cache, acked, op, todo, current,
                     updated, failed, outcome>>
  BY DEF WriteLands, Goto, IInv, TypeOK, Locals
<1>2. TypeOK'
  BY <1>1 DEF IInv, TypeOK, Labels, facade
<1>3. SetupExclusive'
  BY <1>1, StaysSetUp DEF IInv, PollLabels
<1>4. Locals'
  BY <1>1 DEF IInv, TypeOK, Locals
<1>5. LatchedWasRead'
  BY <1>1 DEF IInv, LatchedWasRead, facade
<1>6. QED
  BY <1>2, <1>3, <1>4, <1>5 DEF IInv

LEMMA InvWriteAcknowledged ==
  ASSUME IInv, NEW t \in Tasks, WriteAcknowledged(t)
  PROVE  IInv'
<1> DEFINE b == current[t]
<1>1. /\ pc[t] = "landed" /\ b \in CachedNames /\ carried[t] \in Nat
      /\ cache' = [cache EXCEPT ![b] = carried[t]]
      /\ acked' = [acked EXCEPT ![b] = IF carried[t] > acked[b] THEN carried[t] ELSE acked[b]]
      /\ pendingOnce' = pendingOnce \cup {b}
      /\ Finish(t, "written")
      /\ UNCHANGED <<facade, seen, device, op, updated, failed>>
  BY DEF WriteAcknowledged, IInv, TypeOK, Locals
<1>2. /\ Locals'
      /\ pc' = [pc EXCEPT ![t] = "idle"]
      /\ pc' \in [Tasks -> Labels]
      /\ todo' \in [Tasks -> SUBSET AllNames]
      /\ current' \in [Tasks -> CachedNames \cup {NoBundle}]
      /\ carried' \in [Tasks -> Nat]
      /\ outcome' \in [Tasks -> Results]
  BY <1>1, FinishLocals DEF IInv, Results
<1>3. TypeOK'
  BY <1>1, <1>2 DEF IInv, TypeOK, facade
<1>4. SetupExclusive'
  BY <1>1, <1>2, StaysSetUp DEF IInv, PollLabels
<1>5. LatchedWasRead'
  BY <1>1 DEF IInv, LatchedWasRead, facade
<1>6. QED
  BY <1>2, <1>3, <1>4, <1>5 DEF IInv

LEMMA InvStutter ==
  ASSUME IInv, UNCHANGED vars
  PROVE  IInv'
BY DEF vars, facade, bundle, call, IInv, TypeOK, SetupExclusive, Locals, LatchedWasRead

LEMMA InvNext == IInv /\ [Next]_vars => IInv'
<1> SUFFICES ASSUME IInv, [Next]_vars PROVE IInv'
  OBVIOUS
<1>1. ASSUME NEW t \in Tasks, NEW o \in Calls, Call(t, o) PROVE IInv'
  BY <1>1, InvCall
<1>2. ASSUME NEW t \in Tasks, NEW b \in CachedNames, Write(t, b) PROVE IInv'
  BY <1>2, InvWrite
<1>3. ASSUME NEW t \in Tasks, TakeSetupLock(t) PROVE IInv'
  BY <1>3, InvSetupAlreadyDone, InvSetupWithoutProbe, InvStartProbe DEF TakeSetupLock
<1>4. ASSUME NEW t \in Tasks, Resume(t) PROVE IInv'
  BY <1>4, InvProbeSucceeds, InvProbeFails, InvPoolAnswers, InvPoolRefused, InvReadEach,
     InvServeReadOnce, InvReadOnceAnswers, InvReadOnceRefused, InvWriteLands,
     InvWriteAcknowledged DEF Resume
<1>5. ASSUME NEW t \in Tasks, Raises(t) PROVE IInv'
  BY <1>5, InvRaises
<1>6. CASE UNCHANGED vars
  BY <1>6, InvStutter
<1>7. QED
  BY <1>1, <1>2, <1>3, <1>4, <1>5, <1>6 DEF Next
-----------------------------------------------------------------------------
(* What is proved of the specification *)

\* The inductive invariant holds in every reachable state of the facade.
THEOREM Invariance == Spec => []IInv
<1>1. Init => IInv
  BY InvInit
<1>2. IInv /\ [Next]_vars => IInv'
  BY InvNext
<1>3. QED
  BY <1>1, <1>2, PTL DEF Spec

\* Every variable keeps the kind of value the code gives it.
THEOREM TypeCorrect == Spec => []TypeOK
<1>1. IInv => TypeOK
  BY DEF IInv
<1>2. QED
  BY <1>1, Invariance, PTL

(***************************************************************************)
(* async_ensure_setup: for any number of racing tasks at most one of them  *)
(* probes, never after a finished setup, and nobody polls or writes before *)
(* it.                                                                     *)
(***************************************************************************)
THEOREM SetupIsExclusive == Spec => []SetupExclusive
<1>1. IInv => SetupExclusive
  BY DEF IInv
<1>2. QED
  BY <1>1, Invariance, PTL

(***************************************************************************)
(* _poll_read_once: a bundle the facade does not intend to read again has  *)
(* been read, whatever failed, raced or was cancelled.                     *)
(***************************************************************************)
THEOREM LatchedIsRead == Spec => []LatchedWasRead
<1>1. IInv => LatchedWasRead
  BY DEF IInv
<1>2. QED
  BY <1>1, Invariance, PTL
-----------------------------------------------------------------------------
(* The component set is built once. *)

\* A task probes only for what the facade does not know.
ProbingNeeded == \A t \in Tasks : pc[t] = "probing" => NeedsProbe

\* What a step that does not build the component set leaves alone.
Unbuilt ==
  /\ UNCHANGED <<layout, generation, setupComplete>>
  /\ \A b \in CachedNames : seen[b] # 0 => seen'[b] # 0
  /\ \A t \in Tasks : pc'[t] = "probing" => pc[t] = "probing" \/ NeedsProbe

LEMMA BuildingOrNot ==
  ASSUME IInv, [Next]_vars
  PROVE  Unbuilt \/ \E t \in Tasks : SetupWithoutProbe(t) \/ ProbeSucceeds(t)
<1> USE DEF Goto
<1>1. ASSUME NEW t \in Tasks, NEW o \in Calls, Call(t, o) PROVE Unbuilt
  BY <1>1 DEF Call, facade, bundle, IInv, TypeOK, Unbuilt
<1>2. ASSUME NEW t \in Tasks, NEW b \in CachedNames, Write(t, b) PROVE Unbuilt
  BY <1>2 DEF Write, facade, bundle, IInv, TypeOK, Unbuilt
<1>3. ASSUME NEW t \in Tasks, SetupAlreadyDone(t) PROVE Unbuilt
  BY <1>3 DEF SetupAlreadyDone, AfterSetup, Finish, facade, bundle, IInv, TypeOK, Unbuilt
<1>4. ASSUME NEW t \in Tasks, StartProbe(t) PROVE Unbuilt
  BY <1>4 DEF StartProbe, bundle, IInv, TypeOK, Unbuilt
<1>5. ASSUME NEW t \in Tasks, ProbeFails(t) \/ Raises(t) PROVE Unbuilt
  BY <1>5 DEF ProbeFails, Raises, Finish, bundle, IInv, TypeOK, Unbuilt
<1>6. ASSUME NEW t \in Tasks, PoolAnswers(t) \/ PoolRefused(t) \/ ReadEach(t)
      PROVE  Unbuilt
  <2>1. UNCHANGED <<facade, bundle>>
    BY <1>6 DEF PoolAnswers, PoolRefused, ReadEach
  <2>2. \E label \in {"each", "once", "idle"} : pc' = [pc EXCEPT ![t] = label]
    BY <1>6 DEF PoolAnswers, PoolRefused, ReadEach, AfterRegular, Finish, IInv, TypeOK
  <2>3. QED
    BY <2>1, <2>2 DEF facade, bundle, IInv, TypeOK, Unbuilt
<1>7. ASSUME NEW t \in Tasks, ServeReadOnce(t) \/ ReadOnceRefused(t) PROVE Unbuilt
  <2>1. UNCHANGED <<facade, bundle>>
    BY <1>7 DEF ServeReadOnce, ReadOnceRefused
  <2>2. pc' = pc \/ pc' = [pc EXCEPT ![t] = "idle"]
    BY <1>7 DEF ServeReadOnce, ReadOnceRefused, NextReadOnce, Finish
  <2>3. QED
    BY <2>1, <2>2 DEF facade, bundle, IInv, TypeOK, Unbuilt
<1>8. ASSUME NEW t \in Tasks, ReadOnceAnswers(t) PROVE Unbuilt
  <2>1. UNCHANGED facade
    BY <1>8 DEF ReadOnceAnswers
  <2>2. pc' = pc \/ pc' = [pc EXCEPT ![t] = "idle"]
    BY <1>8 DEF ReadOnceAnswers, NextReadOnce, Finish
  <2>3. /\ carried[t] # 0
        /\ seen' = [seen EXCEPT ![current[t]] = carried[t]]
    BY <1>8 DEF ReadOnceAnswers, IInv, Locals
  <2>4. QED
    BY <2>1, <2>2, <2>3 DEF facade, IInv, TypeOK, Unbuilt
<1>9. ASSUME NEW t \in Tasks, WriteLands(t) \/ WriteAcknowledged(t) PROVE Unbuilt
  BY <1>9 DEF WriteLands, WriteAcknowledged, Finish, facade, IInv, TypeOK, Unbuilt
<1>10. CASE UNCHANGED vars
  BY <1>10 DEF vars, facade, bundle, Unbuilt
<1>11. QED
  BY <1>1, <1>2, <1>3, <1>4, <1>5, <1>6, <1>7, <1>8, <1>9, <1>10
  DEF Next, TakeSetupLock, Resume

LEMMA ProbingNext == IInv /\ ProbingNeeded /\ [Next]_vars => ProbingNeeded'
<1> SUFFICES ASSUME IInv, ProbingNeeded, [Next]_vars PROVE ProbingNeeded'
  OBVIOUS
<1>1. IInv'
  BY InvNext
<1>2. CASE Unbuilt
  BY <1>2 DEF Unbuilt, ProbingNeeded, NeedsProbe
<1>3. CASE \E t \in Tasks : SetupWithoutProbe(t) \/ ProbeSucceeds(t)
  <2>1. setupComplete'
    BY <1>3 DEF SetupWithoutProbe, ProbeSucceeds, SetupBundles
  <2>2. QED
    BY <1>1, <2>1 DEF IInv, SetupExclusive, ProbingNeeded
<1>4. QED
  BY <1>2, <1>3, BuildingOrNot

\* A base-only probe never concludes that the controller is an iSystem.
LEMMA BaseProbeIsBase ==
  ASSUME NEW d \in ProbeResults, d.success, layout = "base"
  PROVE  d.layout = "base"
<1>1. PICK outcomes \in [Blocks -> Outcomes], code \in TypeCodes :
        d = Detection(layout = "base", outcomes, code)
  BY DEF ProbeResults, DetectionResults
<1>2. QED
  BY <1>1 DEF Detection, Failure, Detected

(***************************************************************************)
(* The component set is built once, and what the constructor or a probe    *)
(* said of the layout is final.                                            *)
(***************************************************************************)
THEOREM BuildsOnce == Spec => BuiltOnce
<1> DEFINE A == /\ setupComplete =>
                     /\ setupComplete'
                     /\ UNCHANGED <<layout, generation>>
                     /\ \A b \in CachedNames : seen[b] # 0 => seen'[b] # 0
                /\ layout # None => layout' = layout
<1>1. ASSUME IInv, ProbingNeeded, [Next]_vars PROVE A
  <2>1. CASE Unbuilt
    BY <2>1 DEF Unbuilt
  <2>2. ASSUME NEW t \in Tasks, SetupWithoutProbe(t) PROVE A
    BY <2>2 DEF SetupWithoutProbe, SetupBundles
  <2>3. ASSUME NEW t \in Tasks, ProbeSucceeds(t) PROVE A
    <3>1. ~setupComplete /\ NeedsProbe
      BY <1>1, <2>3 DEF ProbeSucceeds, IInv, SetupExclusive, ProbingNeeded
    <3>2. PICK d \in {r \in ProbeResults : r.success} : layout' = d.layout
      BY <2>3 DEF ProbeSucceeds, SetupBundles
    <3>3. QED
      BY <3>1, <3>2, BaseProbeIsBase DEF NeedsProbe
  <2>4. QED
    BY <1>1, <2>1, <2>2, <2>3, BuildingOrNot
<1>2. Init => ProbingNeeded
  BY DEF Init, ProbingNeeded
<1>3. ASSUME IInv, ProbingNeeded, [Next]_vars PROVE [A]_vars
  BY <1>1, <1>3
<1>4. QED
  BY <1>2, <1>3, InvInit, InvNext, ProbingNext, PTL DEF Spec, BuiltOnce

-----------------------------------------------------------------------------
(* The reports account for every bundle. *)

Named(t) == updated[t] \cup failed[t]

(***************************************************************************)
(* What the report of task t says at each await: nothing before the pool,  *)
(* the names of the pool that are not to do in the loop over them, the     *)
(* pool in the loop over the snapshot, where no name comes twice.          *)
(***************************************************************************)
Accounts(t) ==
  /\ pc[t] \in {"locking", "probing", "pool"} => Named(t) = {}
  /\ pc[t] \in {"each", "once"} =>
       updated[t] \cap failed[t] = {} /\ todo[t] \cap Named(t) = {}
  /\ pc[t] = "each" => Named(t) \cup todo[t] = PoolNames(op[t])
  /\ pc[t] = "once" =>
       /\ PollsReadOnce(op[t]) /\ Named(t) \ CachedNames = PoolNames(op[t])
       /\ current[t] # NoBundle => current[t] \notin Named(t) \cup todo[t]
  /\ outcome[t] = "report" =>
       /\ pc[t] = "idle"
       /\ updated[t] \cap failed[t] = {}
       /\ Named(t) \ CachedNames = PoolNames(op[t])
       /\ PollsReadOnce(op[t]) \/ Named(t) \cap CachedNames = {}

AllAccount == \A t \in Tasks : Accounts(t)

\* A pool and the read-once bundles are disjoint, and other polls read the latter.
LEMMA PoolNamesApart ==
  ASSUME NEW o
  PROVE  PoolNames(o) \cap CachedNames = {}
BY FacadeAssumption DEF PoolNames, RegularNames

\* A step of one task leaves the report of another one alone.
LEMMA OthersAccount ==
  ASSUME AllAccount, NEW t \in Tasks, NEW u \in Tasks,
         pc'[u] = pc[u], op'[u] = op[u], todo'[u] = todo[u], current'[u] = current[u],
         updated'[u] = updated[u], failed'[u] = failed[u], outcome'[u] = outcome[u]
  PROVE  Accounts(u)'
BY DEF AllAccount, Accounts, Named

\* What Finish leaves of the locals of the task whose call ends, and of the others'.
LEMMA FinishSets ==
  ASSUME TypeOK, NEW t \in Tasks, NEW r, Finish(t, r)
  PROVE  /\ pc'[t] = "idle" /\ outcome'[t] = r /\ todo'[t] = {} /\ current'[t] = NoBundle
         /\ \A u \in Tasks \ {t} :
              /\ pc'[u] = pc[u] /\ todo'[u] = todo[u]
              /\ current'[u] = current[u] /\ outcome'[u] = outcome[u]
BY DEF Finish, Goto, TypeOK

\* A call that ends without a report, whatever it had collected.
LEMMA AccountsEnd ==
  ASSUME TypeOK, AllAccount, NEW t \in Tasks, NEW r, r # "report", Finish(t, r), op' = op,
         \A u \in Tasks \ {t} : updated'[u] = updated[u] /\ failed'[u] = failed[u]
  PROVE  AllAccount'
<1>1. Accounts(t)'
  BY FinishSets DEF Accounts
<1>2. ASSUME NEW u \in Tasks \ {t} PROVE Accounts(u)'
  BY <1>2, FinishSets, OthersAccount
<1>3. QED
  BY <1>1, <1>2 DEF AllAccount

\* From the setup a poll goes on to its pool with an empty report.
LEMMA AccountsAfterSetup ==
  ASSUME TypeOK, AllAccount, NEW t \in Tasks, AfterSetup(t),
         pc[t] \in {"locking", "probing"}, UNCHANGED <<op, updated, failed>>
  PROVE  AllAccount'
<1>1. CASE op[t] \in Polls
  <2>1. /\ pc' = [pc EXCEPT ![t] = "pool"]
        /\ UNCHANGED <<op, todo, current, updated, failed, outcome>>
    BY <1>1 DEF AfterSetup, Goto
  <2>2. pc'[t] = "pool" /\ \A u \in Tasks \ {t} : pc'[u] = pc[u]
    BY <2>1 DEF TypeOK
  <2>3. Accounts(t)'
    BY <2>1, <2>2 DEF AllAccount, Accounts, Named
  <2>4. ASSUME NEW u \in Tasks \ {t} PROVE Accounts(u)'
    BY <2>1, <2>2, <2>4, OthersAccount
  <2>5. QED
    BY <2>3, <2>4 DEF AllAccount
<1>2. CASE op[t] \notin Polls
  BY <1>2, AccountsEnd DEF AfterSetup
<1>3. QED
  BY <1>1, <1>2

\* After the pool, the snapshot of the pending bundles is read or the report returned.
LEMMA AccountsAfterRegular ==
  ASSUME TypeOK, Locals, AllAccount, NEW t \in Tasks, AfterRegular(t),
         pc[t] \in {"pool", "each"}, op' = op,
         updated'[t] \cap failed'[t] = {},
         updated'[t] \cup failed'[t] = PoolNames(op[t]),
         \A u \in Tasks \ {t} : updated'[u] = updated[u] /\ failed'[u] = failed[u]
  PROVE  AllAccount'
<1>1. PoolNames(op[t]) \cap CachedNames = {}
  BY PoolNamesApart
<1>2. CASE PollsReadOnce(op[t]) /\ pendingOnce # {}
  <2>1. /\ pc' = [pc EXCEPT ![t] = "once"] /\ todo' = [todo EXCEPT ![t] = pendingOnce]
        /\ UNCHANGED <<current, outcome>>
    BY <1>2 DEF AfterRegular, Goto
  <2>2. /\ pc'[t] = "once" /\ todo'[t] = pendingOnce /\ pendingOnce \subseteq CachedNames
        /\ \A u \in Tasks \ {t} : pc'[u] = pc[u] /\ todo'[u] = todo[u]
    BY <2>1 DEF TypeOK
  <2>3. current'[t] = NoBundle /\ outcome'[t] # "report"
    BY <2>1 DEF Locals, AllAccount, Accounts
  <2>4. Accounts(t)'
    BY <1>1, <1>2, <2>2, <2>3 DEF Accounts, Named
  <2>5. ASSUME NEW u \in Tasks \ {t} PROVE Accounts(u)'
    BY <2>1, <2>2, <2>5, OthersAccount
  <2>6. QED
    BY <2>4, <2>5 DEF AllAccount
<1>3. CASE ~(PollsReadOnce(op[t]) /\ pendingOnce # {})
  <2>1. Finish(t, "report")
    BY <1>3 DEF AfterRegular
  <2>2. Accounts(t)'
    BY <1>1, <2>1, FinishSets DEF Accounts, Named
  <2>3. ASSUME NEW u \in Tasks \ {t} PROVE Accounts(u)'
    BY <2>1, <2>3, FinishSets, OthersAccount
  <2>4. QED
    BY <2>2, <2>3 DEF AllAccount
<1>4. QED
  BY <1>2, <1>3

LEMMA AccountsCall ==
  ASSUME IInv, AllAccount, NEW t \in Tasks, NEW o, Call(t, o)
  PROVE  AllAccount'
<1> USE DEF IInv, TypeOK, Call, Goto
<1>1. pc'[t] \in {"pool", "locking"} /\ Named(t)' = {} /\ outcome'[t] = NoResult
  BY DEF Named
<1>2. Accounts(t)'
  BY <1>1 DEF Accounts, NoResult
<1>3. ASSUME NEW u \in Tasks \ {t} PROVE Accounts(u)'
  BY <1>3, OthersAccount
<1>4. QED
  BY <1>2, <1>3 DEF AllAccount

LEMMA AccountsWrites ==
  ASSUME IInv, AllAccount, NEW t \in Tasks,
         WriteLands(t) \/ \E b \in CachedNames : Write(t, b)
  PROVE  AllAccount'
<1>1. CASE WriteLands(t)
  <2>1. /\ pc'[t] = "landed" /\ outcome'[t] = outcome[t] /\ pc[t] = "writing"
        /\ UNCHANGED <<op, todo, current, updated, failed, outcome>>
    BY <1>1 DEF WriteLands, Goto, IInv, TypeOK
  <2>2. Accounts(t)'
    BY <2>1 DEF AllAccount, Accounts
  <2>3. ASSUME NEW u \in Tasks \ {t} PROVE pc'[u] = pc[u]
    BY <1>1, <2>3 DEF WriteLands, Goto, IInv, TypeOK
  <2>4. QED
    BY <2>1, <2>2, <2>3, OthersAccount DEF AllAccount
<1>2. ASSUME NEW b \in CachedNames, Write(t, b) PROVE AllAccount'
  <2>1. pc'[t] = "writing" /\ outcome'[t] = NoResult
    BY <1>2 DEF Write, Goto, IInv, TypeOK
  <2>2. Accounts(t)'
    BY <2>1 DEF Accounts, NoResult
  <2>3. ASSUME NEW u \in Tasks \ {t} PROVE Accounts(u)'
    BY <1>2, <2>3, OthersAccount DEF Write, Goto, IInv, TypeOK
  <2>4. QED
    BY <2>2, <2>3 DEF AllAccount
<1>3. QED
  BY <1>1, <1>2

LEMMA AccountsStartProbe ==
  ASSUME IInv, AllAccount, NEW t \in Tasks, StartProbe(t)
  PROVE  AllAccount'
<1>1. /\ pc[t] = "locking" /\ pc'[t] = "probing"
      /\ \A u \in Tasks \ {t} : pc'[u] = pc[u]
      /\ UNCHANGED <<op, todo, current, updated, failed, outcome>>
  BY DEF StartProbe, Goto, call, IInv, TypeOK
<1>2. Accounts(t)'
  BY <1>1 DEF AllAccount, Accounts, Named
<1>3. QED
  BY <1>1, <1>2, OthersAccount DEF AllAccount

LEMMA AccountsPool ==
  ASSUME IInv, AllAccount, NEW t \in Tasks, PoolAnswers(t) \/ PoolRefused(t)
  PROVE  AllAccount'
<1>1. pc[t] = "pool" /\ updated[t] = {} /\ failed[t] = {} /\ op' = op
  BY DEF PoolAnswers, PoolRefused, AllAccount, Accounts, Named
<1>2. CASE PoolAnswers(t)
  <2>1. /\ updated'[t] = PoolNames(op[t]) /\ failed' = failed
        /\ \A u \in Tasks \ {t} : updated'[u] = updated[u]
    BY <1>1, <1>2 DEF PoolAnswers, IInv, TypeOK
  <2>2. QED
    BY <1>1, <1>2, <2>1, AccountsAfterRegular DEF PoolAnswers, IInv
<1>3. CASE PoolRefused(t)
  <2>1. /\ pc'[t] = "each" /\ todo'[t] = PoolNames(op[t])
        /\ \A u \in Tasks \ {t} : pc'[u] = pc[u] /\ todo'[u] = todo[u]
        /\ UNCHANGED <<op, current, updated, failed, outcome>>
    BY <1>3 DEF PoolRefused, Goto, IInv, TypeOK
  <2>2. Accounts(t)'
    BY <1>1, <2>1 DEF AllAccount, Accounts, Named
  <2>3. QED
    BY <2>1, <2>2, OthersAccount DEF AllAccount
<1>4. QED
  BY <1>2, <1>3

LEMMA AccountsReadEach ==
  ASSUME IInv, AllAccount, NEW t \in Tasks, ReadEach(t)
  PROVE  AllAccount'
<1>1. PICK b \in todo[t] :
        /\ \/ /\ updated' = [updated EXCEPT ![t] = updated[t] \cup {b}]
              /\ UNCHANGED failed
           \/ /\ failed' = [failed EXCEPT ![t] = failed[t] \cup {b}]
              /\ UNCHANGED updated
        /\ IF todo[t] = {b}
           THEN AfterRegular(t)
           ELSE /\ todo' = [todo EXCEPT ![t] = todo[t] \ {b}]
                /\ UNCHANGED <<pc, current, carried, outcome>>
  BY DEF ReadEach
<1>2. /\ pc[t] = "each" /\ op' = op
      /\ updated[t] \cap failed[t] = {} /\ todo[t] \cap Named(t) = {}
      /\ Named(t) \cup todo[t] = PoolNames(op[t])
      /\ outcome[t] # "report"
  BY DEF ReadEach, AllAccount, Accounts
<1>3. /\ updated'[t] \cap failed'[t] = {}
      /\ updated'[t] \cup failed'[t] = Named(t) \cup {b}
      /\ \A u \in Tasks \ {t} : updated'[u] = updated[u] /\ failed'[u] = failed[u]
  BY <1>1, <1>2 DEF Named, IInv, TypeOK
<1>4. CASE todo[t] = {b}
  BY <1>1, <1>2, <1>3, <1>4, AccountsAfterRegular DEF IInv
<1>5. CASE todo[t] # {b}
  <2>1. /\ todo'[t] = todo[t] \ {b} /\ pc'[t] = "each" /\ outcome'[t] # "report"
        /\ UNCHANGED <<pc, current, outcome>>
        /\ \A u \in Tasks \ {t} : todo'[u] = todo[u]
    BY <1>1, <1>2, <1>5 DEF IInv, TypeOK
  <2>2. Accounts(t)'
    BY <1>2, <1>3, <2>1 DEF Accounts, Named
  <2>3. QED
    BY <1>2, <1>3, <2>1, <2>2, OthersAccount DEF AllAccount
<1>6. QED
  BY <1>4, <1>5

LEMMA AccountsServe ==
  ASSUME IInv, AllAccount, NEW t \in Tasks, ServeReadOnce(t)
  PROVE  AllAccount'
<1>1. PICK b \in todo[t] :
        /\ current' = [current EXCEPT ![t] = b]
        /\ todo' = [todo EXCEPT ![t] = todo[t] \ {b}]
  BY DEF ServeReadOnce
<1>2. /\ pc[t] = "once"
      /\ UNCHANGED <<pc, op, updated, failed, outcome>>
  BY DEF ServeReadOnce
<1>3. /\ current'[t] = b /\ todo'[t] = todo[t] \ {b}
      /\ \A u \in Tasks \ {t} : current'[u] = current[u] /\ todo'[u] = todo[u]
  BY <1>1 DEF IInv, TypeOK
<1>4. Accounts(t)'
  BY <1>2, <1>3 DEF AllAccount, Accounts, Named
<1>5. QED
  BY <1>2, <1>3, <1>4, OthersAccount DEF AllAccount

(***************************************************************************)
(* A read-once bundle joins one side of the report, of which it was not    *)
(* part, and the loop goes on or the report is returned.                   *)
(***************************************************************************)
LEMMA AccountsNext ==
  ASSUME IInv, AllAccount, NEW t \in Tasks, pc[t] = "once", current[t] # NoBundle,
         NextReadOnce(t), op' = op,
         updated'[t] \cap failed'[t] = {},
         updated'[t] \cup failed'[t] = Named(t) \cup {current[t]},
         \A u \in Tasks \ {t} : updated'[u] = updated[u] /\ failed'[u] = failed[u]
  PROVE  AllAccount'
<1>1. /\ PollsReadOnce(op[t]) /\ Named(t) \ CachedNames = PoolNames(op[t])
      /\ current[t] \notin Named(t) \cup todo[t]
      /\ todo[t] \cap Named(t) = {} /\ outcome[t] # "report"
      /\ current[t] \in CachedNames
  BY DEF AllAccount, Accounts, IInv, TypeOK
<1>2. Named(t)' = Named(t) \cup {current[t]} /\ Named(t)' \ CachedNames = PoolNames(op[t])
  BY <1>1 DEF Named
<1>3. CASE todo[t] = {}
  <2>1. Finish(t, "report")
    BY <1>3 DEF NextReadOnce
  <2>2. Accounts(t)'
    BY <1>1, <1>2, <2>1, FinishSets DEF Accounts, IInv
  <2>3. QED
    BY <2>1, <2>2, FinishSets, OthersAccount DEF AllAccount, IInv
<1>4. CASE todo[t] # {}
  <2>1. /\ current'[t] = NoBundle /\ pc'[t] = "once"
        /\ \A u \in Tasks \ {t} : current'[u] = current[u]
        /\ UNCHANGED <<pc, todo, outcome>>
    BY <1>4 DEF NextReadOnce, IInv, TypeOK
  <2>2. Accounts(t)'
    BY <1>1, <1>2, <2>1 DEF Accounts
  <2>3. QED
    BY <2>1, <2>2, OthersAccount DEF AllAccount
<1>5. QED
  BY <1>3, <1>4

LEMMA AccountsReadOnce ==
  ASSUME IInv, AllAccount, NEW t \in Tasks, ReadOnceAnswers(t) \/ ReadOnceRefused(t)
  PROVE  AllAccount'
<1>1. /\ pc[t] = "once" /\ current[t] # NoBundle /\ op' = op
      /\ updated[t] \cap failed[t] = {} /\ current[t] \notin Named(t)
  BY DEF ReadOnceAnswers, ReadOnceRefused, AllAccount, Accounts
<1>2. CASE ReadOnceAnswers(t)
  <2>1. /\ updated' = [updated EXCEPT ![t] = updated[t] \cup {current[t]}] /\ failed' = failed
        /\ NextReadOnce(t) \/ Finish(t, "key_error")
    BY <1>2 DEF ReadOnceAnswers
  <2>2. /\ updated'[t] = updated[t] \cup {current[t]}
        /\ \A u \in Tasks \ {t} : updated'[u] = updated[u]
    BY <2>1 DEF IInv, TypeOK
  <2>3. CASE NextReadOnce(t)
    <3>1. /\ updated'[t] \cap failed'[t] = {}
          /\ updated'[t] \cup failed'[t] = Named(t) \cup {current[t]}
      BY <1>1, <2>1, <2>2 DEF Named
    <3>2. QED
      BY <1>1, <2>1, <2>2, <2>3, <3>1, AccountsNext
  <2>4. CASE Finish(t, "key_error")
    BY <1>1, <2>1, <2>2, <2>4, AccountsEnd DEF IInv
  <2>5. QED
    BY <2>1, <2>3, <2>4
<1>3. CASE ReadOnceRefused(t)
  <2>1. /\ failed' = [failed EXCEPT ![t] = failed[t] \cup {current[t]}] /\ updated' = updated
        /\ NextReadOnce(t)
    BY <1>3 DEF ReadOnceRefused
  <2>2. /\ failed'[t] = failed[t] \cup {current[t]}
        /\ \A u \in Tasks \ {t} : failed'[u] = failed[u]
    BY <2>1 DEF IInv, TypeOK
  <2>3. /\ updated'[t] \cap failed'[t] = {}
        /\ updated'[t] \cup failed'[t] = Named(t) \cup {current[t]}
    BY <1>1, <2>1, <2>2 DEF Named
  <2>4. QED
    BY <1>1, <2>1, <2>2, <2>3, AccountsNext
<1>4. QED
  BY <1>2, <1>3

LEMMA AccountsKept == IInv /\ AllAccount /\ [Next]_vars => AllAccount'
<1> SUFFICES ASSUME IInv, AllAccount, [Next]_vars PROVE AllAccount'
  OBVIOUS
<1>1. TypeOK
  BY DEF IInv
<1>2. ASSUME NEW t \in Tasks, NEW o \in Calls, Call(t, o) PROVE AllAccount'
  BY <1>2, AccountsCall
<1>3. ASSUME NEW t \in Tasks, WriteLands(t) \/ \E b \in CachedNames : Write(t, b)
      PROVE  AllAccount'
  BY <1>3, AccountsWrites
<1>4. ASSUME NEW t \in Tasks, SetupAlreadyDone(t) PROVE AllAccount'
  BY <1>1, <1>4, AccountsAfterSetup DEF SetupAlreadyDone
<1>5. ASSUME NEW t \in Tasks, SetupWithoutProbe(t) \/ ProbeSucceeds(t) PROVE AllAccount'
  BY <1>1, <1>5, AccountsAfterSetup DEF SetupWithoutProbe, ProbeSucceeds
<1>6. ASSUME NEW t \in Tasks, StartProbe(t) PROVE AllAccount'
  BY <1>6, AccountsStartProbe
<1>7. ASSUME NEW t \in Tasks, ProbeFails(t) \/ Raises(t) \/ WriteAcknowledged(t)
      PROVE  AllAccount'
  BY <1>1, <1>7, AccountsEnd DEF ProbeFails, Raises, WriteAcknowledged
<1>8. ASSUME NEW t \in Tasks, PoolAnswers(t) \/ PoolRefused(t) PROVE AllAccount'
  BY <1>8, AccountsPool
<1>9. ASSUME NEW t \in Tasks, ReadEach(t) PROVE AllAccount'
  BY <1>9, AccountsReadEach
<1>10. ASSUME NEW t \in Tasks, ServeReadOnce(t) PROVE AllAccount'
  BY <1>10, AccountsServe
<1>11. ASSUME NEW t \in Tasks, ReadOnceAnswers(t) \/ ReadOnceRefused(t) PROVE AllAccount'
  BY <1>11, AccountsReadOnce
<1>12. CASE UNCHANGED vars
  BY <1>12 DEF vars, call, AllAccount, Accounts, Named
<1>13. QED
  BY <1>2, <1>3, <1>4, <1>5, <1>6, <1>7, <1>8, <1>9, <1>10, <1>11, <1>12
  DEF Next, TakeSetupLock, Resume

(***************************************************************************)
(* UpdateReport: the bundles a poll names are those of its pool, each once,*)
(* and read-once bundles, whichever of its reads were refused.             *)
(***************************************************************************)
THEOREM ReportsAccount == Spec => []ReportAccounts
<1>1. Init => AllAccount
  BY DEF Init, AllAccount, Accounts, Named, NoResult
<1>2. IInv /\ AllAccount => ReportAccounts
  BY DEF AllAccount, Accounts, Named, ReportAccounts
<1>3. QED
  BY <1>1, <1>2, InvInit, InvNext, AccountsKept, PTL DEF Spec
-----------------------------------------------------------------------------
(* What holds when calls do not overlap, and which overlaps it takes. *)

\* A step of task t leaves the other tasks where they are.
OnlyTask(t) ==
  \A u \in Tasks \ {t} :
    /\ pc'[u] = pc[u] /\ todo'[u] = todo[u] /\ current'[u] = current[u]
    /\ carried'[u] = carried[u] /\ outcome'[u] = outcome[u]

LEMMA OnlyItself ==
  ASSUME TypeOK, NEW t \in Tasks
  PROVE  /\ \A label : Goto(t, label) /\ UNCHANGED <<todo, current, carried, outcome>>
              => OnlyTask(t)
         /\ \A r : Finish(t, r) => OnlyTask(t)
         /\ AfterSetup(t) => OnlyTask(t)
         /\ AfterRegular(t) => OnlyTask(t)
         /\ NextReadOnce(t) => OnlyTask(t)
<1>1. \A label : Goto(t, label) /\ UNCHANGED <<todo, current, carried, outcome>> => OnlyTask(t)
  BY DEF Goto, OnlyTask, TypeOK
<1>2. \A r : Finish(t, r) => OnlyTask(t)
  BY DEF Finish, Goto, OnlyTask, TypeOK
<1>3. AfterSetup(t) => OnlyTask(t)
  BY <1>1, <1>2 DEF AfterSetup
<1>4. AfterRegular(t) => OnlyTask(t)
  BY <1>2 DEF AfterRegular, Goto, OnlyTask, TypeOK
<1>5. NextReadOnce(t) => OnlyTask(t)
  BY <1>2 DEF NextReadOnce, OnlyTask, TypeOK
<1>6. QED
  BY <1>1, <1>2, <1>3, <1>4, <1>5

StepOf(t) ==
  \/ \E o \in Calls : Call(t, o)
  \/ \E b \in CachedNames : Write(t, b)
  \/ TakeSetupLock(t)
  \/ Resume(t)
  \/ Raises(t)

LEMMA StepOfOne ==
  ASSUME TypeOK, NEW t \in Tasks, StepOf(t)
  PROVE  OnlyTask(t)
<1>1. ASSUME NEW o \in Calls, Call(t, o) PROVE OnlyTask(t)
  BY <1>1 DEF Call, Goto, OnlyTask, TypeOK
<1>2. ASSUME NEW b \in CachedNames, Write(t, b) PROVE OnlyTask(t)
  BY <1>2 DEF Write, Goto, OnlyTask, TypeOK
<1>3. CASE TakeSetupLock(t)
  BY <1>3, OnlyItself DEF TakeSetupLock, SetupAlreadyDone, SetupWithoutProbe, StartProbe, call
<1>4. CASE ProbeSucceeds(t) \/ ProbeFails(t) \/ PoolAnswers(t) \/ Raises(t)
  BY <1>4, OnlyItself DEF ProbeSucceeds, ProbeFails, PoolAnswers, Raises
<1>5. CASE PoolRefused(t)
  BY <1>5 DEF PoolRefused, Goto, OnlyTask, TypeOK
<1>6. CASE ReadEach(t)
  <2>1. CASE AfterRegular(t)
    BY <2>1, OnlyItself
  <2>2. CASE ~AfterRegular(t)
    BY <1>6, <2>2 DEF ReadEach, OnlyTask, TypeOK
  <2>3. QED
    BY <2>1, <2>2
<1>7. CASE ServeReadOnce(t)
  BY <1>7 DEF ServeReadOnce, OnlyTask, TypeOK
<1>8. CASE ReadOnceAnswers(t) \/ ReadOnceRefused(t)
  BY <1>8, OnlyItself DEF ReadOnceAnswers, ReadOnceRefused
<1>9. CASE WriteLands(t)
  BY <1>9 DEF WriteLands, Goto, OnlyTask, TypeOK
<1>10. CASE WriteAcknowledged(t)
  BY <1>10, OnlyItself DEF WriteAcknowledged
<1>11. QED
  BY <1>1, <1>2, <1>3, <1>4, <1>5, <1>6, <1>7, <1>8, <1>9, <1>10 DEF StepOf, Resume

LEMMA NextIsAStep == Next => \E t \in Tasks : StepOf(t)
BY DEF Next, StepOf
-----------------------------------------------------------------------------
(***************************************************************************)
(* KeyError.  Two tasks are not in the loop over read-once bundles at a    *)
(* time: then what a task's snapshot still holds is pending.               *)
(***************************************************************************)
PollsApart == \A t, u \in Tasks : pc[t] = "once" /\ pc[u] = "once" => t = u

Held(t) ==
  pc[t] = "once" =>
    /\ todo[t] \subseteq pendingOnce
    /\ current[t] # NoBundle => current[t] \in pendingOnce

AllHeld == NoKeyError /\ \A t \in Tasks : Held(t)

\* Only a completed read takes a bundle from the pending ones.
LEMMA PendingStays ==
  ASSUME IInv, NEW t \in Tasks, StepOf(t), setupComplete, pc[t] # "once"
  PROVE  pendingOnce \subseteq pendingOnce'
<1> USE DEF bundle
<1>1. CASE WriteAcknowledged(t)
  BY <1>1 DEF WriteAcknowledged
<1>2. CASE ~WriteAcknowledged(t)
  BY <1>2 DEF StepOf, Call, Write, TakeSetupLock, SetupAlreadyDone, SetupWithoutProbe,
     StartProbe, Resume, ProbeSucceeds, ProbeFails, PoolAnswers, PoolRefused, ReadEach,
     ServeReadOnce, ReadOnceAnswers, ReadOnceRefused, WriteLands, Raises, IInv, SetupExclusive
<1>3. QED
  BY <1>1, <1>2

\* A step that ends outside the loop, without a KeyError.
Outside(t) == pc'[t] # "once" /\ outcome'[t] # "key_error"

LEMMA HeldAfterSetup ==
  ASSUME TypeOK, NoKeyError, NEW t \in Tasks, AfterSetup(t)
  PROVE  Outside(t)
BY FinishSets DEF AfterSetup, Goto, TypeOK, NoKeyError, Outside

LEMMA HeldAfterRegular ==
  ASSUME IInv, NoKeyError, NEW t \in Tasks, AfterRegular(t), pc[t] \in {"pool", "each"},
         UNCHANGED pendingOnce
  PROVE  Held(t)' /\ outcome'[t] # "key_error"
<1>1. CASE PollsReadOnce(op[t]) /\ pendingOnce # {}
  BY <1>1 DEF AfterRegular, Goto, Held, IInv, TypeOK, Locals, NoKeyError
<1>2. CASE ~(PollsReadOnce(op[t]) /\ pendingOnce # {})
  BY <1>2, FinishSets DEF AfterRegular, Held, IInv
<1>3. QED
  BY <1>1, <1>2

\* The bundle that was read leaves the pending ones; those to do stay among them.
LEMMA HeldReadOnce ==
  ASSUME IInv, AllAccount, AllHeld, NEW t \in Tasks, ReadOnceAnswers(t) \/ ReadOnceRefused(t)
  PROVE  Held(t)' /\ outcome'[t] # "key_error"
<1> DEFINE b == current[t]
<1>1. /\ pc[t] = "once" /\ b # NoBundle /\ b \in pendingOnce /\ b \notin todo[t]
      /\ todo[t] \subseteq pendingOnce
      /\ NextReadOnce(t) /\ pendingOnce' \in {pendingOnce, pendingOnce \ {b}}
  BY DEF ReadOnceAnswers, ReadOnceRefused, AllAccount, Accounts, AllHeld, Held,
         IInv, TypeOK, bundle
<1>2. CASE todo[t] = {}
  BY <1>1, <1>2, FinishSets DEF NextReadOnce, Held, IInv
<1>3. CASE todo[t] # {}
  BY <1>1, <1>3 DEF NextReadOnce, Held, IInv, TypeOK, AllHeld, NoKeyError
<1>4. QED
  BY <1>2, <1>3

LEMMA HeldByTask ==
  ASSUME IInv, AllAccount, AllHeld, NEW t \in Tasks, StepOf(t)
  PROVE  Held(t)' /\ outcome'[t] # "key_error"
<1>1. Outside(t) => Held(t)' /\ outcome'[t] # "key_error"
  BY DEF Outside, Held
<1>2. NoKeyError /\ TypeOK
  BY DEF AllHeld, IInv
<1>3. ASSUME NEW o \in Calls, Call(t, o) PROVE Outside(t)
  BY <1>2, <1>3 DEF Call, Goto, Outside, NoResult, TypeOK
<1>4. ASSUME NEW b \in CachedNames, Write(t, b) PROVE Outside(t)
  BY <1>2, <1>4 DEF Write, Goto, Outside, NoResult, TypeOK
<1>5. CASE SetupAlreadyDone(t) \/ SetupWithoutProbe(t) \/ ProbeSucceeds(t)
  BY <1>1, <1>2, <1>5, HeldAfterSetup DEF SetupAlreadyDone, SetupWithoutProbe, ProbeSucceeds
<1>6. CASE StartProbe(t) \/ PoolRefused(t) \/ WriteLands(t)
  BY <1>1, <1>2, <1>6 DEF StartProbe, PoolRefused, WriteLands, Goto, Outside, TypeOK,
     NoKeyError, call
<1>7. CASE ProbeFails(t) \/ Raises(t) \/ WriteAcknowledged(t)
  BY <1>1, <1>2, <1>7, FinishSets DEF ProbeFails, Raises, WriteAcknowledged, Outside
<1>8. CASE PoolAnswers(t)
  BY <1>2, <1>8, HeldAfterRegular DEF PoolAnswers, bundle
<1>9. CASE ReadEach(t)
  <2>1. /\ pc[t] = "each" /\ UNCHANGED pendingOnce
        /\ AfterRegular(t) \/ UNCHANGED <<pc, outcome>>
    BY <1>9 DEF ReadEach, bundle
  <2>2. UNCHANGED <<pc, outcome>> => Outside(t)
    BY <1>2, <2>1 DEF Outside, NoKeyError
  <2>3. QED
    BY <1>1, <1>2, <2>1, <2>2, HeldAfterRegular
<1>10. CASE ServeReadOnce(t)
  <2>1. PICK b \in todo[t] :
          /\ current' = [current EXCEPT ![t] = b]
          /\ todo' = [todo EXCEPT ![t] = todo[t] \ {b}]
    BY <1>10 DEF ServeReadOnce
  <2>2. /\ pc[t] = "once" /\ UNCHANGED <<pendingOnce, pc, outcome>>
        /\ todo[t] \subseteq pendingOnce
    BY <1>10 DEF ServeReadOnce, bundle, AllHeld, Held
  <2>3. current'[t] = b /\ todo'[t] = todo[t] \ {b}
    BY <1>2, <2>1 DEF TypeOK
  <2>4. QED
    BY <1>2, <2>2, <2>3 DEF Held, NoKeyError
<1>11. CASE ReadOnceAnswers(t) \/ ReadOnceRefused(t)
  BY <1>11, HeldReadOnce
<1>12. QED
  BY <1>1, <1>3, <1>4, <1>5, <1>6, <1>7, <1>8, <1>9, <1>10, <1>11
  DEF StepOf, TakeSetupLock, Resume

LEMMA HeldKept == IInv /\ AllAccount /\ AllHeld /\ PollsApart /\ [Next]_vars => AllHeld'
<1> SUFFICES ASSUME IInv, AllAccount, AllHeld, PollsApart, [Next]_vars PROVE AllHeld'
  OBVIOUS
<1>1. ASSUME NEW t \in Tasks, StepOf(t) PROVE AllHeld'
  <2>1. Held(t)' /\ outcome'[t] # "key_error"
    BY <1>1, HeldByTask
  <2>2. OnlyTask(t)
    BY <1>1, StepOfOne DEF IInv
  <2>3. ASSUME NEW u \in Tasks, u # t PROVE Held(u)' /\ outcome'[u] # "key_error"
    <3>1. /\ pc'[u] = pc[u] /\ todo'[u] = todo[u] /\ current'[u] = current[u]
          /\ outcome'[u] # "key_error"
      BY <2>2, <2>3 DEF OnlyTask, AllHeld, NoKeyError
    <3>2. pc[u] = "once" => pendingOnce \subseteq pendingOnce'
      <4>1. pc[u] = "once" => setupComplete /\ pc[t] # "once"
        BY <2>3 DEF PollsApart, IInv, SetupExclusive, PollLabels
      <4>2. QED
        BY <1>1, <4>1, PendingStays
    <3>3. QED
      BY <3>1, <3>2 DEF Held, AllHeld
  <2>4. QED
    BY <2>1, <2>3 DEF AllHeld, NoKeyError
<1>2. CASE UNCHANGED vars
  BY <1>2 DEF vars, bundle, call, AllHeld, Held, NoKeyError
<1>3. QED
  BY <1>1, <1>2, NextIsAStep

(***************************************************************************)
(* _poll_read_once: as long as no two polls are in their loops over the    *)
(* read-once bundles at a time, the entry a poll deletes is there, however *)
(* many tasks poll, write, fail and are cancelled.                         *)
(***************************************************************************)
THEOREM NoKeyErrorApart == Spec /\ []PollsApart => []NoKeyError
<1>1. Init => AllAccount /\ AllHeld
  BY DEF Init, AllAccount, Accounts, Named, NoResult, AllHeld, Held, NoKeyError
<1>2. AllHeld => NoKeyError
  BY DEF AllHeld
<1>3. QED
  BY <1>1, <1>2, InvInit, InvNext, AccountsKept, HeldKept, PTL DEF Spec
-----------------------------------------------------------------------------
(***************************************************************************)
(* Lost re-arms.  No bundle is being read while a write to it that the     *)
(* controller has taken over waits for its reply: then what a read carries *)
(* is newer than every acknowledged write.                                 *)
(***************************************************************************)
WritesApart ==
  \A t, u \in Tasks : ~(pc[t] = "once" /\ pc[u] = "landed" /\ current[t] = current[u])

Carries(t) ==
  pc[t] = "once" /\ current[t] # NoBundle => acked[current[t]] <= carried[t]

Writing(t) ==
  /\ pc[t] \in {"writing", "landed"} => layout = "isystem"
  /\ pc[t] = "landed" => carried[t] <= device[current[t]]

\* Nothing is written before the setup, nor on the base layout.
Acked ==
  /\ \A b \in CachedNames : acked[b] <= device[b]
  /\ ~setupComplete \/ layout # "isystem" => \A b \in CachedNames : acked[b] = 0

Rearmed ==
  /\ Acked /\ RereadAfterWrite
  /\ \A t \in Tasks : Carries(t) /\ Writing(t)

LEMMA VersionsGrow ==
  ASSUME IInv, NEW t \in Tasks, StepOf(t)
  PROVE  /\ \A b \in CachedNames : device[b] <= device'[b]
         /\ \A b \in CachedNames : acked'[b] = acked[b] \/ (pc[t] = "landed" /\ b = current[t])
         /\ setupComplete => setupComplete' /\ layout' = layout
<1> USE DEF bundle, facade, IInv
<1>1. /\ device \in [CachedNames -> Nat] /\ acked \in [CachedNames -> Nat]
      /\ \A b \in CachedNames : device[b] <= device[b]
  BY DEF TypeOK
<1>2. CASE WriteLands(t)
  <2>1. /\ current[t] \in CachedNames /\ UNCHANGED <<acked, setupComplete, layout>>
        /\ device' = [device EXCEPT ![current[t]] = device[current[t]] + 1]
    BY <1>2 DEF WriteLands, Locals
  <2>2. \A b \in CachedNames : device'[b] \in {device[b], device[b] + 1}
    BY <1>1, <2>1
  <2>3. QED
    BY <1>1, <2>1, <2>2
<1>3. CASE WriteAcknowledged(t)
  BY <1>1, <1>3 DEF WriteAcknowledged
<1>4. CASE ~WriteLands(t) /\ ~WriteAcknowledged(t)
  <2>1. /\ device' = device /\ acked' = acked
        /\ setupComplete => setupComplete' /\ layout' = layout
    BY <1>4 DEF StepOf, Call, Write, TakeSetupLock, SetupAlreadyDone, SetupWithoutProbe,
       StartProbe, Resume, ProbeSucceeds, ProbeFails, PoolAnswers, PoolRefused, ReadEach,
       ServeReadOnce, ReadOnceAnswers, ReadOnceRefused, Raises, SetupExclusive, SetupBundles
  <2>2. QED
    BY <1>1, <2>1
<1>5. QED
  BY <1>2, <1>3, <1>4

LEMMA RearmedOthers ==
  ASSUME IInv, Rearmed, WritesApart, NEW t \in Tasks, StepOf(t), NEW u \in Tasks, u # t
  PROVE  Carries(u)' /\ Writing(u)'
<1>1. pc'[u] = pc[u] /\ current'[u] = current[u] /\ carried'[u] = carried[u]
  BY StepOfOne DEF OnlyTask, IInv
<1>2. Carries(u)'
  <2>1. SUFFICES ASSUME pc[u] = "once", current[u] # NoBundle
                 PROVE  acked'[current[u]] <= carried[u]
    BY <1>1 DEF Carries
  <2>2. current[u] \in CachedNames /\ acked[current[u]] <= carried[u]
    BY <2>1 DEF IInv, TypeOK, Rearmed, Carries
  <2>3. ~(pc[t] = "landed" /\ current[u] = current[t])
    BY <2>1 DEF WritesApart
  <2>4. acked'[current[u]] = acked[current[u]]
    BY <2>2, <2>3, VersionsGrow
  <2>5. QED
    BY <2>2, <2>4
<1>3. Writing(u)'
  <2>1. SUFFICES ASSUME pc[u] \in {"writing", "landed"}
                 PROVE  /\ layout' = "isystem"
                        /\ pc[u] = "landed" => carried[u] <= device'[current[u]]
    BY <1>1 DEF Writing
  <2>2. /\ current[u] \in CachedNames /\ setupComplete /\ layout = "isystem"
        /\ pc[u] = "landed" => carried[u] <= device[current[u]]
    BY <2>1 DEF IInv, SetupExclusive, Locals, Rearmed, Writing
  <2>3. layout' = layout /\ device[current[u]] <= device'[current[u]]
    BY <2>2, VersionsGrow
  <2>4. carried[u] \in Nat /\ device[current[u]] \in Nat
    BY <2>2 DEF IInv, TypeOK
  <2>5. device'[current[u]] \in Nat
    BY <2>2, InvNext DEF IInv, TypeOK, Next, StepOf
  <2>6. QED
    BY <2>2, <2>3, <2>4, <2>5
<1>4. QED
  BY <1>2, <1>3

\* A step that leaves the facade's bundles alone, to where none is read or written.
Elsewhere(t) ==
  UNCHANGED <<layout, setupComplete, bundle>> /\ pc'[t] \notin {"once", "writing", "landed"}

ByTask(t) == Acked' /\ RereadAfterWrite' /\ Carries(t)' /\ Writing(t)'

LEMMA RearmedElsewhere ==
  ASSUME Rearmed, NEW t \in Tasks, Elsewhere(t)
  PROVE  ByTask(t)
BY DEF Elsewhere, ByTask, Rearmed, Acked, RereadAfterWrite, Carries, Writing, bundle

LEMMA PlaceAfterSetup ==
  ASSUME TypeOK, NEW t \in Tasks, AfterSetup(t)
  PROVE  pc'[t] \notin {"once", "writing", "landed"}
BY FinishSets DEF AfterSetup, Goto, TypeOK

\* The setup makes every bundle pending, or none that was ever written.
LEMMA RearmedSetup ==
  ASSUME IInv, Rearmed, NEW t \in Tasks, NEW lay, NEW gen,
         SetupBundles(lay, gen), AfterSetup(t), ~setupComplete
  PROVE  ByTask(t)
<1>1. /\ \A b \in CachedNames : acked[b] = 0 /\ acked[b] <= device[b]
      /\ acked' = acked /\ device' = device /\ \A b \in CachedNames : seen'[b] = 0
  BY DEF Rearmed, Acked, SetupBundles
<1>2. Acked' /\ RereadAfterWrite'
  BY <1>1 DEF Acked, RereadAfterWrite
<1>3. QED
  BY <1>2, PlaceAfterSetup DEF ByTask, Carries, Writing, IInv

LEMMA RearmedAfterRegular ==
  ASSUME IInv, Rearmed, NEW t \in Tasks, AfterRegular(t),
         pc[t] \in {"pool", "each"}, UNCHANGED <<facade, bundle>>
  PROVE  ByTask(t)
<1>1. CASE PollsReadOnce(op[t]) /\ pendingOnce # {}
  <2>1. pc'[t] = "once" /\ current'[t] = NoBundle
    BY <1>1 DEF AfterRegular, Goto, IInv, TypeOK, Locals
  <2>2. QED
    BY <2>1 DEF ByTask, Carries, Writing, Rearmed, Acked, RereadAfterWrite, facade, bundle
<1>2. CASE ~(PollsReadOnce(op[t]) /\ pendingOnce # {})
  BY <1>2, FinishSets, RearmedElsewhere DEF AfterRegular, IInv, Elsewhere, facade
<1>3. QED
  BY <1>1, <1>2

LEMMA RearmedServe ==
  ASSUME IInv, Rearmed, NEW t \in Tasks, ServeReadOnce(t)
  PROVE  ByTask(t)
<1>1. PICK b \in todo[t] :
        /\ current' = [current EXCEPT ![t] = b]
        /\ carried' = [carried EXCEPT ![t] = device[b]]
  BY DEF ServeReadOnce
<1>2. /\ pc[t] = "once" /\ UNCHANGED <<facade, bundle, pc>> /\ b \in CachedNames
  BY DEF ServeReadOnce, IInv, Locals
<1>3. current'[t] = b /\ carried'[t] = device[b] /\ acked[b] <= device[b]
  BY <1>1, <1>2 DEF IInv, TypeOK, Rearmed, Acked
<1>4. Carries(t)' /\ Writing(t)'
  BY <1>2, <1>3 DEF Carries, Writing, bundle
<1>5. QED
  BY <1>2, <1>4 DEF ByTask, Rearmed, Acked, RereadAfterWrite, facade, bundle

LEMMA RearmedReadOnce ==
  ASSUME IInv, Rearmed, NEW t \in Tasks, ReadOnceAnswers(t) \/ ReadOnceRefused(t)
  PROVE  ByTask(t)
<1> DEFINE b == current[t]
<1>1. /\ pc[t] = "once" /\ b \in CachedNames /\ acked[b] <= carried[t]
      /\ UNCHANGED <<facade, acked, device>>
  BY DEF ReadOnceAnswers, ReadOnceRefused, Rearmed, Carries, IInv, TypeOK, bundle
<1>2. RereadAfterWrite'
  <2>1. CASE ReadOnceAnswers(t)
    <3>1. seen' = [seen EXCEPT ![b] = carried[t]] /\ pendingOnce' = pendingOnce \ {b}
      BY <2>1 DEF ReadOnceAnswers
    <3>2. \A c \in CachedNames : seen'[c] = IF c = b THEN carried[t] ELSE seen[c]
      BY <3>1 DEF IInv, TypeOK
    <3>3. carried[t] \in Nat /\ acked[b] \in Nat
      BY <1>1 DEF IInv, TypeOK
    <3>4. \A c \in CachedNames : acked'[c] = acked[c]
      BY <1>1
    <3>5. QED
      BY <1>1, <3>1, <3>2, <3>3, <3>4 DEF Rearmed, RereadAfterWrite, facade
  <2>2. CASE ReadOnceRefused(t)
    BY <2>2 DEF ReadOnceRefused, Rearmed, RereadAfterWrite, facade, bundle
  <2>3. QED
    BY <2>1, <2>2
<1>3. Acked'
  BY <1>1 DEF Rearmed, Acked, facade
<1>4. pc'[t] \in {"idle", "once"} /\ current'[t] = NoBundle
  <2>1. CASE \E r : Finish(t, r)
    BY <2>1, FinishSets DEF IInv
  <2>2. CASE ~(\E r : Finish(t, r))
    BY <1>1, <2>2 DEF ReadOnceAnswers, ReadOnceRefused, NextReadOnce, IInv, TypeOK
  <2>3. QED
    BY <2>1, <2>2
<1>5. QED
  BY <1>2, <1>3, <1>4 DEF ByTask, Carries, Writing

LEMMA RearmedLands ==
  ASSUME IInv, Rearmed, NEW t \in Tasks, WriteLands(t)
  PROVE  ByTask(t)
<1> DEFINE b == current[t]
<1>1. /\ pc[t] = "writing" /\ b \in CachedNames /\ device[b] \in Nat
      /\ device' = [device EXCEPT ![b] = device[b] + 1]
      /\ carried'[t] = device[b] + 1 /\ pc'[t] = "landed"
      /\ UNCHANGED <<facade, pendingOnce, seen, acked, current>>
  BY DEF WriteLands, Goto, IInv, TypeOK, Locals
<1>2. device'[b] = device[b] + 1 /\ \A c \in CachedNames \ {b} : device'[c] = device[c]
  BY <1>1 DEF IInv, TypeOK
<1>3. Acked'
  <2>1. \A c \in CachedNames : acked[c] <= device[c] /\ acked[c] \in Nat
    BY DEF Rearmed, Acked, IInv, TypeOK
  <2>2. \A c \in CachedNames : acked'[c] <= device'[c]
    BY <1>1, <1>2, <2>1
  <2>3. QED
    BY <1>1, <2>2 DEF Rearmed, Acked, facade
<1>4. Carries(t)' /\ Writing(t)'
  BY <1>1, <1>2 DEF Rearmed, Carries, Writing, facade
<1>5. RereadAfterWrite'
  BY <1>1 DEF Rearmed, RereadAfterWrite, facade
<1>6. QED
  BY <1>3, <1>4, <1>5 DEF ByTask

LEMMA RearmedAcknowledged ==
  ASSUME IInv, Rearmed, NEW t \in Tasks, WriteAcknowledged(t)
  PROVE  ByTask(t)
<1> DEFINE b == current[t]
<1>1. /\ pc[t] = "landed" /\ b \in CachedNames /\ carried[t] <= device[b]
      /\ layout = "isystem" /\ setupComplete
      /\ acked' = [acked EXCEPT ![b] = IF carried[t] > acked[b] THEN carried[t] ELSE acked[b]]
      /\ pendingOnce' = pendingOnce \cup {b}
      /\ Finish(t, "written")
      /\ UNCHANGED <<facade, seen, device>>
  BY DEF WriteAcknowledged, IInv, Locals, SetupExclusive, Rearmed, Writing
<1>2. /\ acked'[b] \in {carried[t], acked[b]}
      /\ \A c \in CachedNames \ {b} : acked'[c] = acked[c]
  BY <1>1 DEF IInv, TypeOK
<1>3. pc'[t] = "idle"
  BY <1>1, FinishSets DEF IInv
<1>4. Acked'
  BY <1>1, <1>2 DEF Rearmed, Acked, facade
<1>5. RereadAfterWrite'
  BY <1>1, <1>2 DEF Rearmed, RereadAfterWrite, facade
<1>6. QED
  BY <1>3, <1>4, <1>5 DEF ByTask, Carries, Writing

LEMMA RearmedByTask ==
  ASSUME IInv, Rearmed, NEW t \in Tasks, StepOf(t)
  PROVE  ByTask(t)
<1> USE DEF Elsewhere, facade
<1>1. ASSUME NEW o \in Calls, Call(t, o) PROVE ByTask(t)
  BY <1>1, RearmedElsewhere DEF Call, Goto, IInv, TypeOK
<1>2. ASSUME NEW b \in CachedNames, Write(t, b) PROVE ByTask(t)
  <2>1. pc'[t] = "writing" /\ layout = "isystem" /\ UNCHANGED <<facade, bundle>>
    BY <1>2 DEF Write, Goto, IInv, TypeOK
  <2>2. QED
    BY <2>1 DEF ByTask, Rearmed, Acked, RereadAfterWrite, Carries, Writing, bundle
<1>3. CASE SetupAlreadyDone(t)
  BY <1>3, PlaceAfterSetup, RearmedElsewhere DEF SetupAlreadyDone, IInv
<1>4. CASE SetupWithoutProbe(t) \/ ProbeSucceeds(t)
  BY <1>4, RearmedSetup DEF SetupWithoutProbe, ProbeSucceeds, IInv, SetupExclusive
<1>5. CASE StartProbe(t) \/ PoolRefused(t)
  BY <1>5, RearmedElsewhere DEF StartProbe, PoolRefused, Goto, IInv, TypeOK
<1>6. CASE ProbeFails(t) \/ Raises(t)
  BY <1>6, FinishSets, RearmedElsewhere DEF ProbeFails, Raises, IInv
<1>7. CASE PoolAnswers(t)
  BY <1>7, RearmedAfterRegular DEF PoolAnswers
<1>8. CASE ReadEach(t)
  <2>1. /\ pc[t] = "each" /\ UNCHANGED <<facade, bundle>>
        /\ AfterRegular(t) \/ UNCHANGED pc
    BY <1>8 DEF ReadEach
  <2>2. CASE AfterRegular(t)
    BY <2>1, <2>2, RearmedAfterRegular
  <2>3. CASE UNCHANGED pc
    BY <2>1, <2>3, RearmedElsewhere
  <2>4. QED
    BY <2>1, <2>2, <2>3
<1>9. CASE ServeReadOnce(t)
  BY <1>9, RearmedServe
<1>10. CASE ReadOnceAnswers(t) \/ ReadOnceRefused(t)
  BY <1>10, RearmedReadOnce
<1>11. CASE WriteLands(t) \/ WriteAcknowledged(t)
  BY <1>11, RearmedLands, RearmedAcknowledged
<1>12. QED
  BY <1>1, <1>2, <1>3, <1>4, <1>5, <1>6, <1>7, <1>8, <1>9, <1>10, <1>11
  DEF StepOf, TakeSetupLock, Resume

LEMMA RearmedKept == IInv /\ Rearmed /\ WritesApart /\ [Next]_vars => Rearmed'
<1> SUFFICES ASSUME IInv, Rearmed, WritesApart, [Next]_vars PROVE Rearmed'
  OBVIOUS
<1>1. ASSUME NEW t \in Tasks, StepOf(t) PROVE Rearmed'
  <2>1. ByTask(t)
    BY <1>1, RearmedByTask
  <2>2. ASSUME NEW u \in Tasks, u # t PROVE Carries(u)' /\ Writing(u)'
    BY <1>1, <2>2, RearmedOthers
  <2>3. QED
    BY <2>1, <2>2 DEF ByTask, Rearmed
<1>2. CASE UNCHANGED vars
  BY <1>2 DEF vars, facade, bundle, call, Rearmed, Acked, RereadAfterWrite, Carries, Writing
<1>3. QED
  BY <1>1, <1>2, NextIsAStep

(***************************************************************************)
(* _invalidate_read_once: as long as no bundle is being read while a write *)
(* to it waits for its reply, a bundle that is not pending has been read   *)
(* since the newest acknowledged write to it.                              *)
(***************************************************************************)
THEOREM RereadsApart == Spec /\ []WritesApart => []RereadAfterWrite
<1>1. Init => Rearmed
  BY DEF Init, Rearmed, Acked, RereadAfterWrite, Carries, Writing
<1>2. Rearmed => RereadAfterWrite
  BY DEF Rearmed
<1>3. QED
  BY <1>1, <1>2, InvInit, InvNext, RearmedKept, PTL DEF Spec
-----------------------------------------------------------------------------
(***************************************************************************)
(* What a component shows.  Writes are retained by it until the reread     *)
(* replaces them; the entry of a bundle is deleted by reads only.          *)
(***************************************************************************)
NoneAhead == \A b \in CachedNames : seen[b] <= device[b]

LatchedShowsRead == \A b \in CachedNames \ pendingOnce : cache[b] = seen[b]

ReadsHeld(t) == pc[t] = "once" /\ current[t] # NoBundle => carried[t] <= device[current[t]]

Shown == NoneAhead /\ LatchedShowsRead /\ \A t \in Tasks : ReadsHeld(t)

\* Only ServeReadOnce begins to read a bundle.
LEMMA ReadingBegins ==
  ASSUME IInv, NEW t \in Tasks, StepOf(t), ~ServeReadOnce(t)
  PROVE  pc'[t] # "once" \/ current'[t] = NoBundle
<1> DEFINE Goal == pc'[t] # "once" \/ current'[t] = NoBundle
<1>1. ASSUME NEW o \in Calls, Call(t, o) PROVE Goal
  BY <1>1 DEF Call, Goto, IInv, TypeOK
<1>2. ASSUME NEW b \in CachedNames, Write(t, b) PROVE Goal
  BY <1>2 DEF Write, Goto, IInv, TypeOK
<1>3. CASE SetupAlreadyDone(t) \/ SetupWithoutProbe(t) \/ ProbeSucceeds(t)
  <2>1. AfterSetup(t)
    BY <1>3 DEF SetupAlreadyDone, SetupWithoutProbe, ProbeSucceeds
  <2>2. QED
    BY <2>1, PlaceAfterSetup DEF IInv
<1>4. CASE StartProbe(t) \/ PoolRefused(t)
  BY <1>4 DEF StartProbe, PoolRefused, Goto, IInv, TypeOK
<1>5. CASE \E r : Finish(t, r)
  BY <1>5, FinishSets DEF IInv
<1>6. CASE AfterRegular(t) /\ pc[t] \in {"pool", "each"}
  <2>1. CASE PollsReadOnce(op[t]) /\ pendingOnce # {}
    BY <1>6, <2>1 DEF AfterRegular, Goto, IInv, TypeOK, Locals
  <2>2. CASE ~(PollsReadOnce(op[t]) /\ pendingOnce # {})
    BY <1>5, <1>6, <2>2 DEF AfterRegular
  <2>3. QED
    BY <2>1, <2>2
<1>7. CASE ReadEach(t)
  BY <1>6, <1>7 DEF ReadEach
<1>8. CASE ReadOnceAnswers(t) \/ ReadOnceRefused(t)
  <2>1. CASE current' = [current EXCEPT ![t] = NoBundle]
    BY <2>1 DEF IInv, TypeOK
  <2>2. QED
    BY <1>5, <1>8, <2>1 DEF ReadOnceAnswers, ReadOnceRefused, NextReadOnce
<1>9. CASE WriteLands(t)
  BY <1>9 DEF WriteLands, Goto, IInv, TypeOK
<1>10. CASE ProbeFails(t) \/ Raises(t) \/ WriteAcknowledged(t)
  BY <1>5, <1>10 DEF ProbeFails, Raises, WriteAcknowledged
<1>11. CASE PoolAnswers(t)
  BY <1>6, <1>11 DEF PoolAnswers
<1>12. QED
  BY <1>1, <1>2, <1>3, <1>4, <1>7, <1>8, <1>9, <1>10, <1>11
  DEF StepOf, TakeSetupLock, Resume

LEMMA ShownKept == IInv /\ Shown /\ [Next]_vars => Shown'
<1> SUFFICES ASSUME IInv, NoneAhead, LatchedShowsRead, \A t \in Tasks : ReadsHeld(t), [Next]_vars
             PROVE  Shown'
  BY DEF Shown
<1>1. ASSUME NEW t \in Tasks, StepOf(t) PROVE Shown'
  <2>1. \A b \in CachedNames : device[b] <= device'[b] /\ device[b] \in Nat /\ device'[b] \in Nat
                               /\ seen[b] \in Nat
    BY <1>1, VersionsGrow, InvNext DEF IInv, TypeOK, Next, StepOf
  <2>2. \A i, j, k \in Nat : i <= j /\ j <= k => i <= k
    OBVIOUS
  <2>3. ASSUME NEW u \in Tasks, u # t PROVE ReadsHeld(u)'
    <3>1. pc'[u] = pc[u] /\ current'[u] = current[u] /\ carried'[u] = carried[u]
      BY <1>1, <2>3, StepOfOne DEF OnlyTask, IInv
    <3>2. SUFFICES ASSUME pc[u] = "once", current[u] # NoBundle
                   PROVE  carried[u] <= device'[current[u]]
      BY <3>1 DEF ReadsHeld
    <3>3. /\ current[u] \in CachedNames /\ carried[u] \in Nat
          /\ carried[u] <= device[current[u]]
      BY <3>2 DEF ReadsHeld, IInv, TypeOK
    <3>4. QED
      BY <2>1, <2>2, <3>3
  <2>4. ReadsHeld(t)'
    <3>1. CASE ServeReadOnce(t)
      <4>1. PICK b \in todo[t] : /\ current' = [current EXCEPT ![t] = b]
                                 /\ carried' = [carried EXCEPT ![t] = device[b]]
        BY <3>1 DEF ServeReadOnce
      <4>2. b \in CachedNames /\ device' = device
        BY <3>1 DEF ServeReadOnce, IInv, Locals, bundle
      <4>3. QED
        BY <2>1, <4>1, <4>2 DEF ReadsHeld, IInv, TypeOK
    <3>2. CASE ~ServeReadOnce(t)
      BY <1>1, <3>2, ReadingBegins DEF ReadsHeld
    <3>3. QED
      BY <3>1, <3>2
  <2>5. NoneAhead' /\ LatchedShowsRead'
    <3>1. CASE UNCHANGED <<pendingOnce, seen, cache>>
      <4>1. \A b \in CachedNames : seen[b] <= device'[b]
        BY <2>1, <2>2 DEF NoneAhead
      <4>2. QED
        BY <3>1, <4>1 DEF NoneAhead, LatchedShowsRead
    <3>2. ASSUME NEW lay, NEW gen, SetupBundles(lay, gen) PROVE NoneAhead' /\ LatchedShowsRead'
      BY <2>1, <3>2 DEF SetupBundles, NoneAhead, LatchedShowsRead
    <3>3. CASE ReadOnceAnswers(t)
      <4>1. PICK b \in CachedNames : /\ b = current[t] /\ device' = device
                                     /\ carried[t] <= device[b]
                                     /\ cache' = [cache EXCEPT ![b] = carried[t]]
                                     /\ seen' = [seen EXCEPT ![b] = carried[t]]
                                     /\ pendingOnce' = pendingOnce \ {b}
        BY <3>3 DEF ReadOnceAnswers, ReadsHeld, IInv, TypeOK
      <4>2. \A c \in CachedNames : /\ cache'[c] = IF c = b THEN carried[t] ELSE cache[c]
                                   /\ seen'[c] = IF c = b THEN carried[t] ELSE seen[c]
        BY <4>1 DEF IInv, TypeOK
      <4>3. QED
        BY <4>1, <4>2 DEF NoneAhead, LatchedShowsRead
    <3>4. CASE WriteAcknowledged(t)
      <4>1. PICK b \in CachedNames : /\ UNCHANGED <<seen, device>>
                                     /\ cache' = [cache EXCEPT ![b] = carried[t]]
                                     /\ pendingOnce' = pendingOnce \cup {b}
        BY <3>4 DEF WriteAcknowledged, IInv, Locals
      <4>2. \A c \in CachedNames \ {b} : cache'[c] = cache[c]
        BY <4>1 DEF IInv, TypeOK
      <4>3. QED
        BY <4>1, <4>2 DEF NoneAhead, LatchedShowsRead
    <3>5. QED
      BY <1>1, <3>1, <3>2, <3>3, <3>4
      DEF StepOf, Call, Write, TakeSetupLock, SetupAlreadyDone, SetupWithoutProbe, StartProbe,
          Resume, ProbeSucceeds, ProbeFails, PoolAnswers, PoolRefused, ReadEach, ServeReadOnce,
          ReadOnceRefused, WriteLands, Raises, bundle
  <2>6. QED
    BY <2>3, <2>4, <2>5 DEF Shown
<1>2. CASE UNCHANGED vars
  BY <1>2 DEF vars, facade, bundle, call, Shown, NoneAhead, LatchedShowsRead, ReadsHeld
<1>3. QED
  BY <1>1, <1>2, NextIsAStep

(***************************************************************************)
(* A read-once component that will not be read again shows what its last   *)
(* completed read met, whatever overlaps: a value a caller wrote, which    *)
(* the controller may have rounded, is never what it is left with.         *)
(***************************************************************************)
THEOREM ShowsWhatWasRead == Spec => []LatchedShowsRead
<1>1. Init => Shown
  BY DEF Init, Shown, NoneAhead, LatchedShowsRead, ReadsHeld
<1>2. Shown => LatchedShowsRead
  BY DEF Shown
<1>3. QED
  BY <1>1, <1>2, InvInit, InvNext, ShownKept, PTL DEF Spec

(***************************************************************************)
(* With no write acknowledged while its bundle is read, that is what the   *)
(* controller holds now, unless the reply to its newest write was lost or  *)
(* is still to come.                                                       *)
(***************************************************************************)
THEOREM LatchedIsCurrent ==
  Spec /\ []WritesApart =>
    [](setupComplete =>
         \A b \in CachedNames \ pendingOnce : acked[b] = device[b] => cache[b] = device[b])
<1> DEFINE Current ==
      setupComplete =>
        \A b \in CachedNames \ pendingOnce : acked[b] = device[b] => cache[b] = device[b]
<1>1. Init => Shown
  BY DEF Init, Shown, NoneAhead, LatchedShowsRead, ReadsHeld
<1>2. IInv /\ Shown /\ RereadAfterWrite => Current
  <2> SUFFICES ASSUME IInv, NoneAhead, LatchedShowsRead, RereadAfterWrite, setupComplete,
                      NEW b \in CachedNames \ pendingOnce, acked[b] = device[b]
               PROVE  cache[b] = device[b]
    BY DEF Shown
  <2>1. cache[b] = seen[b] /\ seen[b] >= acked[b] /\ seen[b] <= device[b]
    BY DEF NoneAhead, LatchedShowsRead, RereadAfterWrite
  <2>2. seen[b] \in Nat /\ device[b] \in Nat
    BY DEF IInv, TypeOK
  <2>3. QED
    BY <2>1, <2>2
<1>3. QED
  BY <1>1, <1>2, InvInit, InvNext, ShownKept, RereadsApart, PTL DEF Spec
-----------------------------------------------------------------------------
(* One task alone overlaps with nobody. *)

OneTask == \A t, u \in Tasks : t = u

(***************************************************************************)
(* _invalidate_read_once: when calls do not overlap, a bundle that is not  *)
(* pending has been read since the newest acknowledged write to it.        *)
(***************************************************************************)
THEOREM RereadsAlone ==
  ASSUME OneTask
  PROVE  Spec => []RereadAfterWrite
<1>1. WritesApart
  BY DEF OneTask, WritesApart
<1>2. QED
  BY <1>1, RereadsApart, PTL

(***************************************************************************)
(* _poll_read_once: when calls do not overlap, the entry it deletes is     *)
(* there.                                                                  *)
(***************************************************************************)
THEOREM NoKeyErrorAlone ==
  ASSUME OneTask
  PROVE  Spec => []NoKeyError
<1>1. PollsApart
  BY DEF OneTask, PollsApart
<1>2. QED
  BY <1>1, NoKeyErrorApart, PTL
=============================================================================
