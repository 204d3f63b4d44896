------------------------ MODULE GTW26ModeWrites_proofs ------------------------
(***************************************************************************)
(* Proofs about the mode writes, for every set of tasks, pollers,          *)
(* registers and modes.                                                    *)
(***************************************************************************)
EXTENDS GTW26ModeWrites, TLAPS, SequenceTheorems

(***************************************************************************)
(* A task with a call in progress has arguments, and its index stays       *)
(* inside the call's targets until the last of them has been acknowledged. *)
(***************************************************************************)
CallActive ==
  \A t \in Tasks :
    /\ pc[t] # "polled"
    /\ pc[t] # "idle" => call[t] \in ModeCalls
    /\ pc[t] \in {"reading", "writing", "landed"} => next[t] \in 1..Len(call[t].targets)
    /\ pc[t] \in {"nudging", "sleeping"} => next[t] = Len(call[t].targets) + 1

IInv == TypeOK /\ MutualExclusion /\ CallActive /\ WordIsCurrent

-----------------------------------------------------------------------------
(* The operators of the model *)

\* A call's targets are a nonempty sequence of distinct registers.
LEMMA TargetsSeq ==
  ASSUME NEW c \in ModeCalls
  PROVE  /\ c.targets \in Seq(Registers)
         /\ Len(c.targets) \in Nat \ {0}
         /\ DOMAIN c.targets = 1..Len(c.targets)
         /\ \A i \in 1..Len(c.targets) : c.targets[i] \in Registers
         /\ \A i, j \in 1..Len(c.targets) : c.targets[i] = c.targets[j] => i = j
<1>1. CASE c \in Abstract!HeatingCalls
  <2>1. PICK r \in Registers : c.targets = <<r>>
    BY <1>1 DEF Abstract!HeatingCalls
  <2>2. QED
    BY <2>1
<1>2. CASE c \in Abstract!HotWaterCalls
  <2>1. c.targets = HotWaterRegisters
    BY <1>2 DEF Abstract!HotWaterCalls
  <2>2. QED
    BY <2>1, ModeWritesAssumption
<1>3. QED
  BY <1>1, <1>2 DEF ModeCalls, Abstract!Calls

\* The modes of a call lie within its mask, and its mask within a word.
LEMMA ModeInMask ==
  ASSUME NEW c \in ModeCalls
  PROVE  c.mode \subseteq Mask(c) /\ Mask(c) \subseteq 0..15
<1>1. Abstract!HeatingMask \subseteq 0..15 /\ Abstract!HotWaterMask \subseteq 0..15
  BY DEF Abstract!HeatingMask, Abstract!HotWaterMask
<1>2. CASE c \in Abstract!HeatingCalls
  BY <1>1, <1>2, ModeWritesAssumption DEF Abstract!HeatingCalls, Mask, Abstract!Mask
<1>3. CASE c \in Abstract!HotWaterCalls
  BY <1>1, <1>3, ModeWritesAssumption DEF Abstract!HotWaterCalls, Mask, Abstract!Mask
<1>4. QED
  BY <1>2, <1>3 DEF ModeCalls, Abstract!Calls

\* Word v is word w with the mode of call c.
Sets(v, w, c) == Abstract!Holds(v, c) /\ Abstract!Keeps(v, w, c)

\* Clearing the mask and or-ing the mode in replaces the mode, nothing else.
LEMMA SetModeWord ==
  ASSUME NEW c \in ModeCalls, NEW w \in Word
  PROVE  SetMode(w, c) \in Word /\ Sets(SetMode(w, c), w, c)
<1>1. c.mode \subseteq Mask(c) /\ Mask(c) \subseteq 0..15
  BY ModeInMask
<1>2. SetMode(w, c) \subseteq 0..15
  BY <1>1 DEF SetMode, Word, Abstract!Word
<1>3. SetMode(w, c) \cap Mask(c) = c.mode
  BY <1>1 DEF SetMode
<1>4. SetMode(w, c) \ Mask(c) = w \ Mask(c)
  BY <1>1 DEF SetMode
<1>5. QED
  BY <1>2, <1>3, <1>4 DEF Sets, Abstract!Holds, Abstract!Keeps, Mask, Word, Abstract!Word
-----------------------------------------------------------------------------
(* The inductive invariant *)

LEMMA InvInit == Init => IInv
<1> SUFFICES ASSUME Init PROVE IInv
  OBVIOUS
<1>1. HotWaterField \in Registers
  BY ModeWritesAssumption DEF HotWaterField
<1>2. TypeOK
  <2>1. regs \in [Registers -> Word]
    BY ModeWritesAssumption DEF Init
  <2>2. shownHeating \in [Registers -> SUBSET Abstract!HeatingMask]
    BY <2>1 DEF Init, Heating
  <2>3. shownHotWater \in SUBSET Abstract!HotWaterMask
    BY <1>1, <2>1 DEF Init, HotWater
  <2>4. word \in [Tasks \cup Pollers -> [Registers -> Word]]
    BY <2>1 DEF Init
  <2>5. waiters \in Seq(Tasks)
    BY EmptySeq DEF Init
  <2>6. QED
    BY <2>1, <2>2, <2>3, <2>4, <2>5 DEF Init, TypeOK
<1>3. MutualExclusion
  <2>1. \A t \in Tasks : pc[t] = "idle" /\ lock # t
    BY ModeWritesAssumption DEF Init
  <2>2. QED
    BY <2>1 DEF MutualExclusion, Critical
<1>4. CallActive
  BY DEF Init, CallActive
<1>5. WordIsCurrent
  BY DEF Init, WordIsCurrent
<1>6. QED
  BY <1>2, <1>3, <1>4, <1>5 DEF IInv

LEMMA InvRequest ==
  ASSUME IInv, NEW t \in Tasks, NEW c \in ModeCalls, Request(t, c)
  PROVE  IInv'
<1> USE DEF IInv, Request, Goto, shown
<1>1. TypeOK'
  BY AppendProperties DEF TypeOK, Critical
<1>2. MutualExclusion'
  BY DEF TypeOK, MutualExclusion, Critical
<1>3. CallActive'
  BY DEF TypeOK, CallActive
<1>4. WordIsCurrent'
  BY DEF TypeOK, WordIsCurrent
<1>5. QED
  BY <1>1, <1>2, <1>3, <1>4

LEMMA InvAcquire ==
  ASSUME IInv, NEW t \in Tasks, Acquire(t)
  PROVE  IInv'
<1> USE DEF IInv, Acquire, Goto, shown
<1>1. TypeOK'
  BY HeadTailProperties DEF TypeOK, Critical
<1>2. MutualExclusion'
  BY ModeWritesAssumption DEF TypeOK, MutualExclusion, Critical
<1>3. CallActive'
  BY TargetsSeq DEF TypeOK, CallActive
<1>4. WordIsCurrent'
  <2> SUFFICES ASSUME NEW u \in Tasks, pc'[u] \in {"reading", "writing", "landed"},
                      NEW i \in DOMAIN call[u].targets,
                      pc'[u] = "reading" => i < next'[u]
               PROVE  Sets(word[u][call[u].targets[i]], regs[call[u].targets[i]], call[u])
    BY DEF WordIsCurrent, Sets, Abstract!Holds, Abstract!Keeps
  <2>1. u # t
    BY TargetsSeq DEF TypeOK, CallActive
  <2>2. pc'[u] = pc[u] /\ next'[u] = next[u]
    BY <2>1 DEF TypeOK
  <2> QED
    BY <2>2 DEF WordIsCurrent, Sets
<1>5. QED
  BY <1>1, <1>2, <1>3, <1>4

\* The lock's holder is the only task in its critical section.
LEMMA Alone ==
  ASSUME IInv, NEW t \in Tasks, NEW u \in Tasks,
         pc[t] \in Critical, pc[u] \in Critical
  PROVE  u = t
BY DEF IInv, MutualExclusion

LEMMA InvReadWord ==
  ASSUME IInv, NEW t \in Tasks, ReadWord(t)
  PROVE  IInv'
<1> DEFINE r == call[t].targets[next[t]]
<1>1. /\ call[t] \in ModeCalls
      /\ next[t] \in 1..Len(call[t].targets)
      /\ r \in Registers
      /\ regs[r] \in Word
  BY TargetsSeq DEF IInv, CallActive, TypeOK, ReadWord
<1>2. /\ SetMode(regs[r], call[t]) \in Word
      /\ Sets(SetMode(regs[r], call[t]), regs[r], call[t])
  BY <1>1, SetModeWord
<1>3. word' = [word EXCEPT ![t] = [word[t] EXCEPT ![r] = SetMode(regs[r], call[t])]]
  BY DEF ReadWord
<1>4. \/ /\ next' = [next EXCEPT ![t] = next[t] + 1] /\ next[t] < Len(call[t].targets)
         /\ pc' = pc
      \/ /\ next' = [next EXCEPT ![t] = 1] /\ ~(next[t] < Len(call[t].targets))
         /\ pc' = [pc EXCEPT ![t] = "writing"]
  BY DEF ReadWord, Goto
<1>5. pc[t] = "reading" /\ UNCHANGED <<regs, panel, lock, waiters, call, shown, outcome, calls>>
  BY DEF ReadWord
<1> HIDE DEF r
<1>6. TypeOK'
  <2>1. word' \in [Tasks \cup Pollers -> [Registers -> Word]]
    BY <1>1, <1>2, <1>3 DEF IInv, TypeOK
  <2>2. next' \in [Tasks -> Nat \ {0}]
    BY <1>4 DEF IInv, TypeOK
  <2>3. pc' \in [Tasks \cup Pollers -> Critical \cup {"idle", "waiting", "polled"}]
    BY <1>4 DEF IInv, TypeOK, Critical
  <2>4. QED
    BY <2>1, <2>2, <2>3, <1>5 DEF IInv, TypeOK, shown
<1>7. MutualExclusion'
  BY <1>4, <1>5 DEF IInv, TypeOK, MutualExclusion, Critical
<1>8. CallActive'
  BY <1>1, <1>4, <1>5, TargetsSeq DEF IInv, TypeOK, CallActive
<1>9. WordIsCurrent'
  <2> SUFFICES ASSUME NEW u \in Tasks, pc'[u] \in {"reading", "writing", "landed"},
                      NEW i \in DOMAIN call[u].targets,
                      pc'[u] = "reading" => i < next'[u]
               PROVE  Sets(word'[u][call[u].targets[i]], regs[call[u].targets[i]], call[u])
    BY <1>5 DEF WordIsCurrent, Sets, Abstract!Holds, Abstract!Keeps
  <2>1. pc[u] \in Critical
    BY <1>4, <1>5 DEF IInv, TypeOK, Critical
  <2>2. u = t
    BY <2>1, <1>5, Alone DEF Critical
  <2>3. i \in 1..Len(call[t].targets)
    BY <1>1, <2>2, TargetsSeq
  <2>4. CASE i = next[t]
    BY <2>2, <2>4, <1>1, <1>2, <1>3 DEF IInv, TypeOK, r
  <2>5. CASE i # next[t]
    <3>1. i < next[t]
      BY <2>2, <2>3, <2>5, <1>1, <1>4, <1>5 DEF IInv, TypeOK
    <3>2. call[t].targets[i] # r
      BY <2>3, <2>5, <1>1, TargetsSeq DEF r
    <3>3. Sets(word[t][call[t].targets[i]], regs[call[t].targets[i]], call[t])
      BY <3>1, <2>2, <1>5 DEF IInv, WordIsCurrent, Sets
    <3>4. QED
      BY <2>2, <3>2, <3>3, <1>3, <1>1 DEF IInv, TypeOK
  <2>6. QED
    BY <2>4, <2>5
<1>10. QED
  BY <1>6, <1>7, <1>8, <1>9 DEF IInv

LEMMA InvWriteLands ==
  ASSUME IInv, NEW t \in Tasks, WriteLands(t)
  PROVE  IInv'
<1> DEFINE r == call[t].targets[next[t]]
<1>1. /\ call[t] \in ModeCalls
      /\ next[t] \in 1..Len(call[t].targets)
      /\ r \in Registers
      /\ word[t][r] \in Word
  BY TargetsSeq DEF IInv, CallActive, TypeOK, WriteLands
<1>2. /\ regs' = [regs EXCEPT ![r] = word[t][r]]
      /\ pc' = [pc EXCEPT ![t] = "landed"]
      /\ pc[t] = "writing"
      /\ UNCHANGED <<panel, lock, waiters, call, next, word, shownHeating,
                     shownHotWater, outcome, calls>>
  BY DEF WriteLands, Goto, shown
<1>3. TypeOK'
  <2>1. regs' \in [Registers -> Word]
    BY <1>1, <1>2 DEF IInv, TypeOK
  <2>2. pc' \in [Tasks \cup Pollers -> Critical \cup {"idle", "waiting", "polled"}]
    BY <1>2 DEF IInv, TypeOK, Critical
  <2>3. QED
    BY <2>1, <2>2, <1>2 DEF IInv, TypeOK
<1>4. MutualExclusion'
  BY <1>2 DEF IInv, TypeOK, MutualExclusion, Critical
<1>5. CallActive'
  BY <1>2 DEF IInv, TypeOK, CallActive
<1>6. WordIsCurrent'
  <2> SUFFICES ASSUME NEW u \in Tasks, pc'[u] \in {"reading", "writing", "landed"},
                      NEW i \in DOMAIN call[u].targets,
                      pc'[u] = "reading" => i < next[u]
               PROVE  Sets(word[u][call[u].targets[i]], regs'[call[u].targets[i]], call[u])
    BY <1>2 DEF WordIsCurrent, Sets, Abstract!Holds, Abstract!Keeps
  <2>1. u = t
    BY <1>2, Alone DEF IInv, TypeOK, Critical
  <2> DEFINE s == call[t].targets[i]
  <2>2. s \in Registers
    BY <1>1, <2>1, TargetsSeq
  <2>3. Sets(word[t][s], regs[s], call[t])
    BY <1>2, <2>1 DEF IInv, WordIsCurrent, Sets
  <2>4. CASE s = r
    <3>1. Sets(word[t][r], word[t][r], call[t])
      BY <2>3, <2>4 DEF Sets, Abstract!Keeps
    <3>2. QED
      BY <2>1, <2>4, <3>1, <1>1, <1>2 DEF IInv, TypeOK
  <2>5. CASE s # r
    BY <2>1, <2>2, <2>3, <2>5, <1>2 DEF IInv, TypeOK
  <2>6. QED
    BY <2>4, <2>5
<1>7. QED
  BY <1>3, <1>4, <1>5, <1>6 DEF IInv

(***************************************************************************)
(* What the remaining steps of a task have in common: the registers, the   *)
(* words and the calls stay, and the task leaves its critical section for  *)
(* "idle" (releasing the lock), or stays inside it.                        *)
(***************************************************************************)
LEMMA InvFinish ==
  ASSUME IInv, NEW t \in Tasks, NEW result \in {"ok", "raised"},
         Finish(t, result),
         UNCHANGED <<regs, call, word, calls>>,
         next' = next \/ next' = [next EXCEPT ![t] = next[t] + 1],
         panel' \in {0, 1},
         waiters' \in Seq(Tasks),
         shownHeating' \in [Registers -> SUBSET Abstract!HeatingMask],
         shownHotWater' \in SUBSET Abstract!HotWaterMask
  PROVE  IInv'
<1>1. /\ pc' = [pc EXCEPT ![t] = "idle"]
      /\ lock' = IF lock = t THEN NoTask ELSE lock
      /\ outcome' = [outcome EXCEPT ![t] = result]
  BY DEF Finish, Goto
<1>2. \A u \in Tasks : u # t => pc'[u] = pc[u] /\ next'[u] = next[u]
  BY <1>1 DEF IInv, TypeOK
<1>3. pc'[t] = "idle"
  BY <1>1 DEF IInv, TypeOK
<1>4. TypeOK'
  <2>1. pc' \in [Tasks \cup Pollers -> Critical \cup {"idle", "waiting", "polled"}]
    BY <1>1 DEF IInv, TypeOK
  <2>2. next' \in [Tasks -> Nat \ {0}]
    <3>1. CASE next' = next
      BY <3>1 DEF IInv, TypeOK
    <3>2. CASE next' = [next EXCEPT ![t] = next[t] + 1]
      BY <3>2 DEF IInv, TypeOK
    <3>3. QED
      BY <3>1, <3>2
  <2>3. QED
    BY <2>1, <2>2, <1>1 DEF IInv, TypeOK
<1>5. MutualExclusion'
  BY <1>1, <1>2, <1>3, ModeWritesAssumption DEF IInv, TypeOK, MutualExclusion, Critical
<1>6. CallActive'
  BY <1>2, <1>3 DEF IInv, CallActive
<1>7. WordIsCurrent'
  BY <1>2, <1>3 DEF IInv, WordIsCurrent
<1>8. QED
  BY <1>4, <1>5, <1>6, <1>7 DEF IInv

LEMMA InvWriteAcknowledged ==
  ASSUME IInv, NEW t \in Tasks, WriteAcknowledged(t)
  PROVE  IInv'
<1> DEFINE r == call[t].targets[next[t]]
<1>1. /\ call[t] \in ModeCalls
      /\ next[t] \in 1..Len(call[t].targets)
      /\ r \in Registers
      /\ word[t][r] \in Word
  BY TargetsSeq DEF IInv, CallActive, TypeOK, WriteAcknowledged
<1>2. /\ pc[t] = "landed"
      /\ UNCHANGED <<regs, panel, waiters, call, word, calls>>
      /\ next' = [next EXCEPT ![t] = next[t] + 1]
  BY DEF WriteAcknowledged
<1>3. /\ shownHeating' \in [Registers -> SUBSET Abstract!HeatingMask]
      /\ shownHotWater' \in SUBSET Abstract!HotWaterMask
  BY <1>1 DEF IInv, TypeOK, WriteAcknowledged, Heating, HotWater
<1>4. CASE Finish(t, "ok")
  BY <1>2, <1>3, <1>4, InvFinish DEF IInv, TypeOK
<1>5. ASSUME NEW label \in {"writing", "nudging"},
             pc' = [pc EXCEPT ![t] = label],
             label = "writing" => next[t] < Len(call[t].targets),
             label = "nudging" => ~(next[t] < Len(call[t].targets)),
             UNCHANGED <<lock, outcome>>
      PROVE  IInv'
  <2>1. /\ pc'[t] = label
        /\ \A u \in Tasks : u # t => pc'[u] = pc[u] /\ next'[u] = next[u]
    BY <1>2, <1>5 DEF IInv, TypeOK
  <2>2. TypeOK'
    BY <1>2, <1>3, <1>5 DEF IInv, TypeOK, Critical
  <2>3. MutualExclusion'
    BY <1>2, <1>5, <2>1 DEF IInv, MutualExclusion, Critical
  <2>4. CallActive'
    BY <1>1, <1>2, <1>5, <2>1, TargetsSeq DEF IInv, TypeOK, CallActive
  <2>5. WordIsCurrent'
    BY <1>2, <1>5, <2>1 DEF IInv, WordIsCurrent
  <2>6. QED
    BY <2>2, <2>3, <2>4, <2>5 DEF IInv
<1>6. QED
  BY <1>4, <1>5 DEF WriteAcknowledged, Goto

LEMMA InvNudgeLands ==
  ASSUME IInv, NEW t \in Tasks, NudgeLands(t)
  PROVE  IInv'
<1> USE DEF IInv, NudgeLands, Goto, shown
<1>1. TypeOK'
  BY DEF TypeOK, Critical
<1>2. MutualExclusion'
  BY DEF TypeOK, MutualExclusion, Critical
<1>3. CallActive'
  BY DEF TypeOK, CallActive
<1>4. WordIsCurrent'
  BY DEF TypeOK, WordIsCurrent
<1>5. QED
  BY <1>1, <1>2, <1>3, <1>4

LEMMA InvNudgeReleased ==
  ASSUME IInv, NEW t \in Tasks, NudgeReleased(t)
  PROVE  IInv'
BY InvFinish DEF IInv, TypeOK, NudgeReleased, shown

LEMMA InvRaises ==
  ASSUME IInv, NEW t \in Tasks, Raises(t)
  PROVE  IInv'
BY InvFinish DEF IInv, TypeOK, Raises, shown

LEMMA InvCancelledWaiting ==
  ASSUME IInv, NEW t \in Tasks, CancelledWaiting(t)
  PROVE  IInv'
<1>1. waiters \in Seq(Tasks)
  BY DEF IInv, TypeOK
<1>2. PICK i \in 1..Len(waiters) :
        waiters' = SubSeq(waiters, 1, i - 1) \o SubSeq(waiters, i + 1, Len(waiters))
  BY DEF CancelledWaiting
<1>3. /\ Len(waiters) \in Nat
      /\ \A j \in 1..Len(waiters) : waiters[j] \in Tasks
  BY <1>1, ElementOfSeq, LenProperties
<1>4. SubSeq(waiters, 1, i - 1) \in Seq(Tasks)
  BY <1>2, <1>3, SubSeqProperties
<1>5. SubSeq(waiters, i + 1, Len(waiters)) \in Seq(Tasks)
  BY <1>2, <1>3, SubSeqProperties
<1>6. waiters' \in Seq(Tasks)
  BY <1>2, <1>4, <1>5, ConcatProperties
<1>7. QED
  BY <1>6, InvFinish DEF IInv, TypeOK, CancelledWaiting, shown

(***************************************************************************)
(* A poll changes no register, no lock and no task: only its own words and *)
(* label, and the shown modes.                                             *)
(***************************************************************************)
LEMMA InvPoll ==
  ASSUME IInv, NEW p \in Pollers, PollServed(p) \/ PollCompletes(p) \/ PollFails(p)
  PROVE  IInv'
<1>1. UNCHANGED <<regs, panel, lock, waiters, call, next, outcome, calls>>
  BY DEF PollServed, PollCompletes, PollFails
<1>2. \E label \in {"idle", "polled"} : pc' = [pc EXCEPT ![p] = label]
  BY DEF PollServed, PollCompletes, PollFails, Goto
<1>3. word' = word \/ word' = [word EXCEPT ![p] = regs]
  BY DEF PollServed, PollCompletes, PollFails
<1>4. \A t \in Tasks : pc'[t] = pc[t] /\ word'[t] = word[t]
  BY <1>2, <1>3, ModeWritesAssumption DEF IInv, TypeOK
<1>5. TypeOK'
  <2>1. pc' \in [Tasks \cup Pollers -> Critical \cup {"idle", "waiting", "polled"}]
    BY <1>2 DEF IInv, TypeOK
  <2>2. word' \in [Tasks \cup Pollers -> [Registers -> Word]]
    BY <1>3 DEF IInv, TypeOK
  <2>3. /\ shownHeating' \in [Registers -> SUBSET Abstract!HeatingMask]
        /\ shownHotWater' \in SUBSET Abstract!HotWaterMask
    <3>1. CASE PollCompletes(p)
      <4>1. HotWaterField \in Registers
        BY ModeWritesAssumption DEF HotWaterField
      <4>2. \A r \in Registers : word[p][r] \in Word
        BY DEF IInv, TypeOK
      <4>3. QED
        BY <3>1, <4>1, <4>2 DEF PollCompletes, Heating, HotWater
    <3>2. CASE ~PollCompletes(p)
      BY <3>2 DEF PollServed, PollFails, shown, IInv, TypeOK
    <3>3. QED
      BY <3>1, <3>2
  <2>4. QED
    BY <2>1, <2>2, <2>3, <1>1 DEF IInv, TypeOK
<1>6. MutualExclusion'
  BY <1>1, <1>4 DEF IInv, MutualExclusion
<1>7. CallActive'
  BY <1>1, <1>4 DEF IInv, CallActive
<1>8. WordIsCurrent'
  BY <1>1, <1>4 DEF IInv, WordIsCurrent
<1>9. QED
  BY <1>5, <1>6, <1>7, <1>8 DEF IInv

LEMMA InvStutter ==
  ASSUME IInv, UNCHANGED vars
  PROVE  IInv'
BY DEF vars, IInv, TypeOK, MutualExclusion, CallActive, WordIsCurrent

LEMMA InvNext == IInv /\ [Next]_vars => IInv'
<1> SUFFICES ASSUME IInv, [Next]_vars PROVE IInv'
  OBVIOUS
<1>1. ASSUME NEW t \in Tasks, NEW c \in ModeCalls, Request(t, c) PROVE IInv'
  BY <1>1, InvRequest
<1>2. ASSUME NEW t \in Tasks, Resume(t) PROVE IInv'
  BY <1>2, InvAcquire, InvReadWord, InvWriteLands, InvWriteAcknowledged,
     InvNudgeLands, InvNudgeReleased DEF Resume
<1>3. ASSUME NEW t \in Tasks, Raises(t) \/ CancelledWaiting(t) PROVE IInv'
  BY <1>3, InvRaises, InvCancelledWaiting
<1>4. ASSUME NEW p \in Pollers, PollServed(p) \/ PollCompletes(p) \/ PollFails(p)
      PROVE  IInv'
  BY <1>4, InvPoll
<1>5. CASE UNCHANGED vars
  BY <1>5, InvStutter
<1>6. QED
  BY <1>1, <1>2, <1>3, <1>4, <1>5 DEF Next

-----------------------------------------------------------------------------
(* What is proved of the specification *)

\* The inductive invariant holds in every reachable state of the mode writes.
THEOREM Invariance == Spec => []IInv
<1>1. Init => IInv
  BY InvInit
<1>2. IInv /\ [Next]_vars => IInv'
  BY InvNext
<1>3. QED
  BY <1>1, <1>2, PTL DEF Spec

\* Every variable keeps the kind of value the code gives it.
THEOREM TypeCorrect == Spec => []TypeOK
<1>1. IInv => TypeOK
  BY DEF IInv
<1>2. QED
  BY <1>1, Invariance, PTL

(***************************************************************************)
(* The tasks between `async with self._write_lock` and its release are the *)
(* holders of that lock, for any number of tasks and registers and in the  *)
(* presence of lost requests and cancelled tasks.                          *)
(***************************************************************************)
THEOREM LockMutex == Spec => []MutualExclusion
<1>1. IInv => MutualExclusion
  BY DEF IInv
<1>2. QED
  BY <1>1, Invariance, PTL

(***************************************************************************)
(* A mode call never writes a word derived from a value that another call  *)
(* has replaced since: the read-modify-write cycles lose no update.        *)
(***************************************************************************)
THEOREM NoLostUpdate == Spec => []WordIsCurrent
<1>1. IInv => WordIsCurrent
  BY DEF IInv
<1>2. QED
  BY <1>1, Invariance, PTL
-----------------------------------------------------------------------------
(* The action property OkMeansDone needs to know that the targets already *)
(* written keep the value the call gave them until the call returns.      *)

(***************************************************************************)
(* Every target that a call has written still holds the call's mode.       *)
(***************************************************************************)
WrittenStays ==
  \A t \in {u \in Tasks : pc[u] \in Critical \ {"reading"}} :
    \A i \in DOMAIN call[t].targets :
      Written(t, i) => LET r == call[t].targets[i]
                       IN  Abstract!Holds(regs[r], call[t])

LEMMA WrittenInit == Init => WrittenStays
BY ModeWritesAssumption DEF Init, WrittenStays, Critical

\* A step that writes no register and starts no writing keeps WrittenStays.
LEMMA WrittenKept ==
  ASSUME IInv, WrittenStays, UNCHANGED regs,
         \A t \in Tasks : pc'[t] \in Critical \ {"reading"} =>
           /\ call'[t] = call[t]
           /\ \A i \in DOMAIN call[t].targets :
                Written(t, i)' => pc[t] \in Critical \ {"reading"} /\ Written(t, i)
  PROVE  WrittenStays'
BY DEF WrittenStays

LEMMA WrittenWriteLands ==
  ASSUME IInv, WrittenStays, NEW t \in Tasks, WriteLands(t)
  PROVE  WrittenStays'
<1> DEFINE r == call[t].targets[next[t]]
<1>1. /\ call[t] \in ModeCalls
      /\ next[t] \in 1..Len(call[t].targets)
      /\ r \in Registers
      /\ regs[r] \in Word
  BY TargetsSeq DEF IInv, CallActive, TypeOK, WriteLands
<1>2. /\ regs' = [regs EXCEPT ![r] = word[t][r]]
      /\ pc' = [pc EXCEPT ![t] = "landed"]
      /\ pc[t] = "writing"
      /\ UNCHANGED <<call, next>>
  BY DEF WriteLands, Goto
<1>3. Abstract!Holds(word[t][r], call[t])
  BY <1>1, <1>2, TargetsSeq DEF IInv, WordIsCurrent
<1>4. SUFFICES ASSUME NEW u \in Tasks, pc'[u] \in Critical \ {"reading"},
                      NEW i \in DOMAIN call[u].targets, Written(u, i)'
               PROVE  Abstract!Holds(regs'[call[u].targets[i]], call[u])
  BY <1>2 DEF WrittenStays, Abstract!Holds
<1>5. u = t
  BY <1>2, <1>4, Alone DEF IInv, TypeOK, Critical
<1>6. /\ i \in 1..Len(call[t].targets)
      /\ call[t].targets[i] \in Registers
  BY <1>1, <1>5, TargetsSeq
<1>7. CASE i = next[t]
  <2>1. regs'[r] = word[t][r]
    BY <1>1, <1>2 DEF IInv, TypeOK
  <2>2. QED
    BY <2>1, <1>3, <1>5, <1>7
<1>8. CASE i # next[t]
  <2>1. i < next[t]
    BY <1>2, <1>4, <1>5, <1>6, <1>8 DEF Written
  <2>2. Abstract!Holds(regs[call[t].targets[i]], call[t])
    BY <2>1, <1>2, <1>5 DEF WrittenStays, Written, Critical
  <2>3. call[t].targets[i] # r
    BY <1>1, <1>6, <1>8, TargetsSeq
  <2>4. QED
    BY <2>2, <2>3, <1>2, <1>5, <1>6 DEF IInv, TypeOK
<1>9. QED
  BY <1>7, <1>8

LEMMA WrittenNext == IInv /\ WrittenStays /\ [Next]_vars => WrittenStays'
<1> SUFFICES ASSUME IInv, WrittenStays, [Next]_vars PROVE WrittenStays'
  OBVIOUS
<1> DEFINE Writing(l) == l \in Critical \ {"reading"}
<1>1. ASSUME NEW t \in Tasks, NEW c \in ModeCalls, Request(t, c) PROVE WrittenStays'
  BY <1>1, WrittenKept DEF Request, Goto, Written, Critical, IInv, TypeOK
<1>2. ASSUME NEW t \in Tasks, Acquire(t) PROVE WrittenStays'
  BY <1>2, WrittenKept DEF Acquire, Goto, Written, Critical, IInv, TypeOK
<1>3. ASSUME NEW t \in Tasks, ReadWord(t) PROVE WrittenStays'
  <2>1. /\ call[t] \in ModeCalls
        /\ DOMAIN call[t].targets = 1..Len(call[t].targets)
        /\ Len(call[t].targets) \in Nat
    BY <1>3, TargetsSeq DEF ReadWord, IInv, TypeOK, CallActive
  <2>2. \A u \in Tasks : Writing(pc'[u]) =>
          \/ u # t /\ pc'[u] = pc[u] /\ next'[u] = next[u]
          \/ u = t /\ pc'[u] = "writing" /\ next'[u] = 1
    BY <1>3 DEF ReadWord, Goto, Critical, IInv, TypeOK
  <2>3. UNCHANGED <<regs, call>>
    BY <1>3 DEF ReadWord
  <2>4. QED
    BY <2>1, <2>2, <2>3, WrittenKept DEF Written
<1>4. ASSUME NEW t \in Tasks, WriteLands(t) PROVE WrittenStays'
  BY <1>4, WrittenWriteLands
<1>5. ASSUME NEW t \in Tasks, WriteAcknowledged(t) PROVE WrittenStays'
  <2>1. /\ call[t] \in ModeCalls
        /\ DOMAIN call[t].targets = 1..Len(call[t].targets)
        /\ Len(call[t].targets) \in Nat
        /\ next[t] \in Nat
    BY <1>5, TargetsSeq DEF WriteAcknowledged, IInv, TypeOK, CallActive
  <2>2. /\ pc[t] = "landed"
        /\ next' = [next EXCEPT ![t] = next[t] + 1]
        /\ \E label \in {"writing", "nudging", "idle"} : pc' = [pc EXCEPT ![t] = label]
        /\ UNCHANGED <<regs, call>>
    BY <1>5 DEF WriteAcknowledged, Finish, Goto
  <2>3. \A u \in Tasks : Writing(pc'[u]) =>
          \/ u # t /\ pc'[u] = pc[u] /\ next'[u] = next[u]
          \/ /\ u = t /\ next'[u] = next[t] + 1
             /\ pc'[u] \in {"writing", "nudging"}
    BY <2>2 DEF Critical, IInv, TypeOK
  <2>4. \A i \in 1..Len(call[t].targets) :
          (i < next[t] + 1) => (i < next[t] \/ i = next[t])
    BY <2>1
  <2>5. QED
    BY <2>1, <2>2, <2>3, <2>4, WrittenKept DEF Written, Critical
<1>6. ASSUME NEW t \in Tasks, NudgeLands(t) \/ NudgeReleased(t) \/ Raises(t)
      PROVE  WrittenStays'
  BY <1>6, WrittenKept
  DEF NudgeLands, NudgeReleased, Raises, Finish, Goto, Written, Critical, IInv, TypeOK
<1>7. ASSUME NEW t \in Tasks, CancelledWaiting(t) PROVE WrittenStays'
  BY <1>7, WrittenKept
  DEF CancelledWaiting, Finish, Goto, Written, Critical, IInv, TypeOK
<1>8. ASSUME NEW p \in Pollers, PollServed(p) \/ PollCompletes(p) \/ PollFails(p)
      PROVE  WrittenStays'
  BY <1>8, WrittenKept, ModeWritesAssumption
  DEF PollServed, PollCompletes, PollFails, Goto, Written, IInv, TypeOK
<1>9. CASE UNCHANGED vars
  BY <1>9, WrittenKept DEF vars, Written
<1>10. QED
  BY <1>1, <1>2, <1>3, <1>4, <1>5, <1>6, <1>7, <1>8, <1>9 DEF Next, Resume

\* Nothing is left unwritten in a call that is about to return normally.
LEMMA AllWritten ==
  ASSUME IInv, NEW t \in Tasks,
         \/ pc[t] \in {"nudging", "sleeping"}
         \/ pc[t] = "landed" /\ ~(next[t] < Len(call[t].targets))
  PROVE  /\ call[t] \in ModeCalls
         /\ pc[t] \in Critical \ {"reading"}
         /\ \A i \in DOMAIN call[t].targets : Written(t, i)
<1>1. /\ call[t] \in ModeCalls
      /\ DOMAIN call[t].targets = 1..Len(call[t].targets)
      /\ Len(call[t].targets) \in Nat
      /\ next[t] \in Nat
  BY TargetsSeq DEF IInv, TypeOK, CallActive
<1>2. CASE pc[t] \in {"nudging", "sleeping"}
  BY <1>1, <1>2 DEF IInv, CallActive, Written, Critical
<1>3. CASE pc[t] = "landed" /\ ~(next[t] < Len(call[t].targets))
  BY <1>1, <1>3 DEF IInv, CallActive, Written, Critical
<1>4. QED
  BY <1>2, <1>3

\* The steps in which a call returns normally.
LEMMA OkStep ==
  ASSUME IInv, [Next]_vars, NEW t \in Tasks, outcome'[t] = "ok", outcome[t] # "ok"
  PROVE  /\ \/ /\ WriteAcknowledged(t) /\ ~NudgesPanel
               /\ ~(next[t] < Len(call[t].targets))
            \/ NudgeReleased(t)
<1>1. ASSUME NEW u \in Tasks, NEW c \in ModeCalls, Request(u, c) PROVE FALSE
  BY <1>1 DEF Request, IInv, TypeOK
<1>2. ASSUME NEW u \in Tasks,
             Acquire(u) \/ ReadWord(u) \/ WriteLands(u) \/ NudgeLands(u)
      PROVE  FALSE
  BY <1>2 DEF Acquire, ReadWord, WriteLands, NudgeLands
<1>3. ASSUME NEW u \in Tasks, Raises(u) \/ CancelledWaiting(u) PROVE FALSE
  BY <1>3 DEF Raises, CancelledWaiting, Finish, IInv, TypeOK
<1>4. ASSUME NEW p \in Pollers, PollServed(p) \/ PollCompletes(p) \/ PollFails(p)
      PROVE  FALSE
  BY <1>4 DEF PollServed, PollCompletes, PollFails
<1>5. ASSUME NEW u \in Tasks, WriteAcknowledged(u)
      PROVE  u = t /\ ~NudgesPanel /\ ~(next[t] < Len(call[t].targets))
  BY <1>5 DEF WriteAcknowledged, Finish, IInv, TypeOK
<1>6. ASSUME NEW u \in Tasks, NudgeReleased(u) PROVE u = t
  BY <1>6 DEF NudgeReleased, Finish, IInv, TypeOK
<1>7. CASE UNCHANGED vars
  BY <1>7 DEF vars
<1>8. QED
  BY <1>1, <1>2, <1>3, <1>4, <1>5, <1>6, <1>7 DEF Next, Resume

(***************************************************************************)
(* A mode call that returns normally has set its mode in every target, and *)
(* a nudging one has released the panel register.                          *)
(***************************************************************************)
THEOREM OkIsDone == Spec => OkMeansDone
<1> DEFINE Done(t) == outcome'[t] = "ok" /\ outcome[t] # "ok" =>
              /\ \A r \in Targets(call[t]) : Abstract!Holds(regs'[r], call[t])
              /\ NudgesPanel => panel' = 0
           A == \A t \in Tasks : Done(t)
<1>1. ASSUME IInv, WrittenStays, [Next]_vars PROVE A
  <2> SUFFICES ASSUME NEW t \in Tasks, outcome'[t] = "ok", outcome[t] # "ok"
               PROVE  /\ \A r \in Targets(call[t]) : Abstract!Holds(regs'[r], call[t])
                      /\ NudgesPanel => panel' = 0
    OBVIOUS
  <2>1. \/ /\ WriteAcknowledged(t) /\ ~NudgesPanel
           /\ ~(next[t] < Len(call[t].targets))
        \/ NudgeReleased(t)
    BY <1>1, OkStep
  <2>2. /\ regs' = regs
        /\ \/ pc[t] \in {"nudging", "sleeping"}
           \/ pc[t] = "landed" /\ ~(next[t] < Len(call[t].targets))
    BY <2>1 DEF WriteAcknowledged, NudgeReleased
  <2>3. \A i \in DOMAIN call[t].targets :
          Abstract!Holds(regs[call[t].targets[i]], call[t])
    BY <1>1, <2>2, AllWritten DEF WrittenStays
  <2>4. NudgesPanel => panel' = 0
    BY <2>1 DEF NudgeReleased
  <2>5. QED
    BY <2>2, <2>3, <2>4 DEF Targets, Abstract!Targets
<1>2. ASSUME IInv, WrittenStays, [Next]_vars PROVE [A]_vars
  BY <1>1, <1>2
<1>3. QED
  BY <1>2, InvInit, InvNext, WrittenInit, WrittenNext, PTL DEF Spec, OkMeansDone
-----------------------------------------------------------------------------
(* The write lock and its queue.                                           *)

(***************************************************************************)
(* A task that waits for the lock is in the queue, once, and nobody else   *)
(* is.                                                                     *)
(***************************************************************************)
Queued(t) == \E i \in 1..Len(waiters) : waiters[i] = t

QueueIsSound ==
  /\ \A t \in Tasks : pc[t] = "waiting" <=> Queued(t)
  /\ \A i, j \in 1..Len(waiters) : waiters[i] = waiters[j] => i = j

LEMMA QueuedRequest ==
  ASSUME IInv, QueueIsSound, NEW t \in Tasks, NEW c \in ModeCalls, Request(t, c)
  PROVE  QueueIsSound'
<1>1. /\ waiters \in Seq(Tasks) /\ Len(waiters) \in Nat
      /\ pc[t] = "idle" /\ waiters' = Append(waiters, t)
      /\ pc'[t] = "waiting" /\ \A u \in Tasks \ {t} : pc'[u] = pc[u]
  BY DEF Request, Goto, IInv, TypeOK
<1>2. /\ Len(waiters') = Len(waiters) + 1 /\ waiters'[Len(waiters) + 1] = t
      /\ \A i \in 1..Len(waiters) : waiters'[i] = waiters[i]
  BY <1>1, AppendProperties
<1>3. \A i \in 1..Len(waiters) : waiters[i] # t
  BY <1>1 DEF QueueIsSound, Queued
<1>4. \A i \in 1..Len(waiters') : i = Len(waiters) + 1 \/ i \in 1..Len(waiters)
  BY <1>1, <1>2
<1>5. Len(waiters) + 1 \in 1..Len(waiters') /\ 1..Len(waiters) \subseteq 1..Len(waiters')
  BY <1>1, <1>2
<1>6. \A u \in Tasks : Queued(u)' <=> u = t \/ Queued(u)
  BY <1>2, <1>4, <1>5 DEF Queued
<1>7. \A i, j \in 1..Len(waiters') : waiters'[i] = waiters'[j] => i = j
  BY <1>2, <1>3, <1>4 DEF QueueIsSound
<1>8. QED
  BY <1>1, <1>6, <1>7 DEF QueueIsSound

LEMMA QueuedAcquire ==
  ASSUME IInv, QueueIsSound, NEW t \in Tasks, Acquire(t)
  PROVE  QueueIsSound'
<1>1. /\ waiters \in Seq(Tasks) /\ waiters # <<>> /\ Head(waiters) = t
      /\ waiters' = Tail(waiters)
      /\ pc'[t] = "reading" /\ \A u \in Tasks \ {t} : pc'[u] = pc[u]
  BY DEF Acquire, Goto, IInv, TypeOK
<1>2. /\ Len(waiters) \in Nat \ {0} /\ waiters[1] = t
      /\ Len(waiters') = Len(waiters) - 1
      /\ \A i \in 1..Len(waiters') : waiters'[i] = waiters[i + 1]
  BY <1>1, HeadTailProperties, EmptySeq
<1>3. \A i \in 1..Len(waiters) : i # 1 => i - 1 \in 1..Len(waiters') /\ waiters[i] = waiters'[i - 1]
  BY <1>2
<1>4. \A i \in 1..Len(waiters') : i + 1 \in 1..Len(waiters) /\ i + 1 # 1
  BY <1>2
<1>5. 1 \in 1..Len(waiters)
  BY <1>2
<1>6. ~Queued(t)'
  BY <1>2, <1>4, <1>5 DEF Queued, QueueIsSound
<1>7. \A u \in Tasks \ {t} : Queued(u)' <=> Queued(u)
  BY <1>2, <1>3, <1>4 DEF Queued
<1>8. \A i, j \in 1..Len(waiters') : waiters'[i] = waiters'[j] => i = j
  BY <1>2, <1>4 DEF QueueIsSound
<1>9. QED
  BY <1>1, <1>6, <1>7, <1>8 DEF QueueIsSound

\* What is left of a sequence without its member k.
LEMMA WithoutOne ==
  ASSUME NEW S, NEW s \in Seq(S), NEW k \in 1..Len(s), NEW r,
         r = SubSeq(s, 1, k - 1) \o SubSeq(s, k + 1, Len(s))
  PROVE  /\ Len(r) = Len(s) - 1
         /\ \A i \in 1..Len(r) : r[i] = IF i < k THEN s[i] ELSE s[i + 1]
<1> DEFINE a == SubSeq(s, 1, k - 1)
           b == SubSeq(s, k + 1, Len(s))
<1>1. k \in Nat /\ Len(s) \in Nat /\ 1 <= k /\ k <= Len(s)
  OBVIOUS
<1>2. a = [i \in 1..(k - 1) |-> s[i]] /\ b = [i \in 1..(Len(s) - k) |-> s[i + k]]
  BY <1>1
<1>3. Len(a) = k - 1 /\ Len(b) = Len(s) - k
  BY <1>1, <1>2
<1>4. a \in Seq(S) /\ b \in Seq(S)
  BY <1>1, <1>2
<1>5. /\ Len(a \o b) = Len(a) + Len(b)
      /\ \A i \in 1..(Len(a) + Len(b)) : (a \o b)[i] = IF i <= Len(a) THEN a[i] ELSE b[i - Len(a)]
  <2> HIDE DEF a, b
  <2> QED
    BY <1>4, ConcatProperties
<1>6. r = a \o b
  OBVIOUS
<1>7. /\ \A i \in 1..(k - 1) : a[i] = s[i]
      /\ \A i \in 1..(Len(s) - k) : b[i] = s[i + k]
  BY <1>2
<1> HIDE DEF a, b
<1>8. Len(r) = Len(s) - 1
  <2>1. \A m, n \in Nat : (m - 1) + (n - m) = n - 1
    OBVIOUS
  <2>2. Len(a) + Len(b) = Len(s) - 1
    BY <1>1, <1>3, <2>1
  <2>3. Len(r) = Len(a) + Len(b)
    BY <1>5, <1>6
  <2>4. QED
    BY <2>2, <2>3
<1>9. ASSUME NEW i \in 1..Len(r), i < k PROVE r[i] = s[i]
  <2>1. i \in 1..(Len(a) + Len(b)) /\ i <= Len(a) /\ i \in 1..(k - 1)
    BY <1>1, <1>3, <1>8, <1>9
  <2>2. QED
    BY <1>5, <1>6, <1>7, <2>1
<1>10. ASSUME NEW i \in 1..Len(r), ~(i < k) PROVE r[i] = s[i + 1]
  <2>1. /\ i \in 1..(Len(a) + Len(b)) /\ ~(i <= Len(a))
        /\ i - Len(a) = i - (k - 1) /\ i - (k - 1) \in 1..(Len(s) - k)
        /\ (i - (k - 1)) + k = i + 1
    <3>1. \A m, n \in Nat : \A j \in 1..(n - 1) :
            1 <= m /\ m <= n /\ ~(j < m)
              => /\ j \in 1..((m - 1) + (n - m)) /\ ~(j <= m - 1)
                 /\ j - (m - 1) \in 1..(n - m) /\ (j - (m - 1)) + m = j + 1
      OBVIOUS
    <3>2. i \in 1..(Len(s) - 1)
      BY <1>8
    <3>3. QED
      BY <1>1, <1>3, <1>10, <3>1, <3>2
  <2>2. (a \o b)[i] = b[i - (k - 1)]
    BY <1>5, <2>1
  <2>3. b[i - (k - 1)] = s[i + 1]
    BY <1>7, <2>1
  <2>4. QED
    BY <1>6, <2>2, <2>3
<1> QED
  BY <1>8, <1>9, <1>10

LEMMA QueuedCancelled ==
  ASSUME IInv, QueueIsSound, NEW t \in Tasks, CancelledWaiting(t)
  PROVE  QueueIsSound'
<1>1. PICK k \in 1..Len(waiters) :
        /\ waiters[k] = t
        /\ waiters' = SubSeq(waiters, 1, k - 1) \o SubSeq(waiters, k + 1, Len(waiters))
  BY DEF CancelledWaiting
<1>2. /\ waiters \in Seq(Tasks) /\ Len(waiters) \in Nat /\ k \in Nat
      /\ pc'[t] = "idle" /\ \A u \in Tasks \ {t} : pc'[u] = pc[u]
  BY DEF CancelledWaiting, Finish, Goto, IInv, TypeOK
<1>3. /\ Len(waiters') = Len(waiters) - 1
      /\ \A i \in 1..Len(waiters') : waiters'[i] = IF i < k THEN waiters[i] ELSE waiters[i + 1]
  BY <1>1, <1>2, WithoutOne
<1> DEFINE Before(i) == IF i < k THEN i ELSE i + 1
<1>4. \A i \in 1..Len(waiters') :
        /\ Before(i) \in 1..Len(waiters) /\ Before(i) # k
        /\ waiters'[i] = waiters[Before(i)]
  BY <1>2, <1>3
<1>5. \A i, j \in 1..Len(waiters') : Before(i) = Before(j) => i = j
  BY <1>2, <1>3
<1>6. \A i \in 1..Len(waiters) : i # k => \E j \in 1..Len(waiters') : Before(j) = i
  <2> SUFFICES ASSUME NEW i \in 1..Len(waiters), i # k
               PROVE  \E j \in 1..Len(waiters') : Before(j) = i
    OBVIOUS
  <2>1. CASE i < k
    <3>1. i \in 1..Len(waiters')
      BY <1>2, <1>3, <2>1
    <3>2. Before(i) = i
      BY <2>1
    <3>3. QED
      BY <3>1, <3>2
  <2>2. CASE ~(i < k)
    <3>1. i - 1 \in 1..Len(waiters') /\ ~(i - 1 < k) /\ (i - 1) + 1 = i
      BY <1>2, <1>3, <2>2
    <3>2. Before(i - 1) = i
      BY <3>1
    <3>3. QED
      BY <3>1, <3>2
  <2>3. QED
    BY <2>1, <2>2
<1> HIDE DEF Before
<1>7. ~Queued(t)'
  <2>1. \A i \in 1..Len(waiters') : waiters'[i] # t
    <3>1. ASSUME NEW i \in 1..Len(waiters'), waiters'[i] = t PROVE FALSE
      <4>1. waiters[Before(i)] = waiters[k] /\ Before(i) \in 1..Len(waiters)
        BY <1>1, <1>4, <3>1
      <4>2. Before(i) = k
        BY <4>1 DEF QueueIsSound
      <4>3. QED
        BY <1>4, <4>2
    <3>2. QED
      BY <3>1
  <2>2. QED
    BY <2>1 DEF Queued
<1>8. \A u \in Tasks \ {t} : Queued(u)' <=> Queued(u)
  <2> SUFFICES ASSUME NEW u \in Tasks \ {t} PROVE Queued(u)' <=> Queued(u)
    OBVIOUS
  <2>1. ASSUME NEW i \in 1..Len(waiters'), waiters'[i] = u PROVE Queued(u)
    BY <1>4, <2>1 DEF Queued
  <2>2. ASSUME NEW i \in 1..Len(waiters), waiters[i] = u
        PROVE  \E j \in 1..Len(waiters') : waiters'[j] = u
    <3>1. i # k
      BY <1>1, <2>2
    <3>2. PICK j \in 1..Len(waiters') : Before(j) = i
      BY <1>6, <3>1
    <3>3. QED
      BY <1>4, <2>2, <3>2
  <2>3. QED
    BY <2>1, <2>2 DEF Queued
<1>9. \A i, j \in 1..Len(waiters') : waiters'[i] = waiters'[j] => i = j
  BY <1>4, <1>5 DEF QueueIsSound
<1>10. QED
  BY <1>2, <1>7, <1>8, <1>9 DEF QueueIsSound

\* The other steps are those of tasks that do not wait, before or after.
LEMMA QueuedElsewhere ==
  ASSUME QueueIsSound, UNCHANGED waiters,
         \A t \in Tasks : pc'[t] = "waiting" <=> pc[t] = "waiting"
  PROVE  QueueIsSound'
BY DEF QueueIsSound, Queued

LEMMA QueueKept == IInv /\ QueueIsSound /\ [Next]_vars => QueueIsSound'
<1> SUFFICES ASSUME IInv, QueueIsSound, [Next]_vars PROVE QueueIsSound'
  OBVIOUS
<1>1. ASSUME NEW t \in Tasks, NEW c \in ModeCalls, Request(t, c) PROVE QueueIsSound'
  BY <1>1, QueuedRequest
<1>2. ASSUME NEW t \in Tasks, Acquire(t) PROVE QueueIsSound'
  BY <1>2, QueuedAcquire
<1>3. ASSUME NEW t \in Tasks, CancelledWaiting(t) PROVE QueueIsSound'
  BY <1>3, QueuedCancelled
<1>4. ASSUME NEW t \in Tasks,
             \/ ReadWord(t) \/ WriteLands(t) \/ WriteAcknowledged(t)
             \/ NudgeLands(t) \/ NudgeReleased(t) \/ Raises(t)
      PROVE  QueueIsSound'
  <2>1. /\ UNCHANGED waiters /\ pc[t] \in Critical
        /\ \E l \in (Critical \cup {"idle"}) : pc' = [pc EXCEPT ![t] = l] \/ pc' = pc
    BY <1>4 DEF ReadWord, WriteLands, WriteAcknowledged, NudgeLands, NudgeReleased, Raises,
       Finish, Goto, Critical
  <2>2. \A u \in Tasks : pc'[u] = "waiting" <=> pc[u] = "waiting"
    BY <2>1 DEF Critical, IInv, TypeOK
  <2>3. QED
    BY <2>1, <2>2, QueuedElsewhere
<1>5. ASSUME NEW p \in Pollers, PollServed(p) \/ PollCompletes(p) \/ PollFails(p)
      PROVE  QueueIsSound'
  <2>1. UNCHANGED waiters /\ \A t \in Tasks : pc'[t] = pc[t]
    BY <1>5, ModeWritesAssumption DEF PollServed, PollCompletes, PollFails, Goto, IInv, TypeOK
  <2>2. QED
    BY <2>1, QueuedElsewhere
<1>6. CASE UNCHANGED vars
  BY <1>6, QueuedElsewhere DEF vars
<1>7. QED
  BY <1>1, <1>2, <1>3, <1>4, <1>5, <1>6 DEF Next, Resume

(***************************************************************************)
(* The lock is never left behind: while a task waits for it, it is held by *)
(* a task inside its `async with`, which the event loop will resume, or it *)
(* is free and the first of the queue is a waiting task that can take it.  *)
(***************************************************************************)
Served(t) ==
  pc[t] = "waiting" =>
    \/ lock \in Tasks /\ pc[lock] \in Critical
    \/ /\ lock = NoTask /\ waiters # <<>>
       /\ Head(waiters) \in Tasks /\ pc[Head(waiters)] = "waiting"

THEOREM NobodyIsForgotten == Spec => [](QueueIsSound /\ \A t \in Tasks : Served(t))
<1> DEFINE Inv == QueueIsSound /\ \A t \in Tasks : Served(t)
<1>1. Init => QueueIsSound
  BY DEF Init, QueueIsSound, Queued
<1>2. IInv /\ QueueIsSound => Inv
  <2> SUFFICES ASSUME IInv, QueueIsSound, NEW t \in Tasks, pc[t] = "waiting" PROVE Served(t)
    BY DEF Served
  <2>1. PICK i \in 1..Len(waiters) : waiters[i] = t
    BY DEF QueueIsSound, Queued
  <2>2. waiters \in Seq(Tasks) /\ Len(waiters) \in Nat /\ 1 \in 1..Len(waiters)
    BY <2>1 DEF IInv, TypeOK
  <2>3. Head(waiters) = waiters[1] /\ waiters[1] \in Tasks /\ waiters # <<>>
    BY <2>2
  <2>4. pc[Head(waiters)] = "waiting"
    BY <2>2, <2>3 DEF QueueIsSound, Queued
  <2>5. lock \in Tasks => pc[lock] \in Critical
    BY DEF IInv, MutualExclusion
  <2>6. QED
    BY <2>3, <2>4, <2>5 DEF Served, IInv, TypeOK
<1>3. QED
  BY <1>1, <1>2, InvInit, InvNext, QueueKept, PTL DEF Spec
-----------------------------------------------------------------------------
(* The two modes that share a word, and the bits that are neither.         *)

(***************************************************************************)
(* What a step may do to a register: nothing to the bits outside the two   *)
(* masks, and to either mode only what a call of that kind asked for, made *)
(* by the task that holds the lock.                                        *)
(***************************************************************************)
Others(w) == w \ (Abstract!HeatingMask \cup Abstract!HotWaterMask)

Asked(kind, mode) == \E t \in Tasks : lock = t /\ call[t].kind = kind /\ call[t].mode = mode

FieldsKept(r) ==
  /\ Others(regs'[r]) = Others(regs[r])
  /\ Heating(regs'[r]) # Heating(regs[r]) => Asked("heating", Heating(regs'[r]))
  /\ HotWater(regs'[r]) # HotWater(regs[r]) => Asked("hot_water", HotWater(regs'[r]))

\* The masks have no bit in common, so setting one mode keeps the other.
LEMMA SetsOneField ==
  ASSUME NEW c \in ModeCalls, NEW v \in Word, NEW w \in Word, Sets(v, w, c)
  PROVE  /\ Others(v) = Others(w)
         /\ \/ c.kind = "heating" /\ Heating(v) = c.mode /\ HotWater(v) = HotWater(w)
            \/ c.kind = "hot_water" /\ HotWater(v) = c.mode /\ Heating(v) = Heating(w)
<1> DEFINE H == Abstract!HeatingMask
           W == Abstract!HotWaterMask
<1>1. H \cap W = {}
  BY DEF Abstract!HeatingMask, Abstract!HotWaterMask
<1>2. v \cap Mask(c) = c.mode /\ v \ Mask(c) = w \ Mask(c)
  BY DEF Sets, Abstract!Holds, Abstract!Keeps, Mask
<1>3. CASE c.kind = "heating"
  <2>1. Mask(c) = H
    BY <1>3 DEF Mask, Abstract!Mask
  <2> HIDE DEF H, W
  <2>2. v \cap W = w \cap W /\ v \ (H \cup W) = w \ (H \cup W)
    BY <1>1, <1>2, <2>1
  <2> QED
    BY <1>2, <1>3, <2>1, <2>2 DEF H, W, Others, Heating, HotWater
<1>4. CASE c.kind = "hot_water"
  <2>1. Mask(c) = W
    BY <1>4 DEF Mask, Abstract!Mask
  <2> HIDE DEF H, W
  <2>2. v \cap H = w \cap H /\ v \ (H \cup W) = w \ (H \cup W)
    BY <1>1, <1>2, <2>1
  <2> QED
    BY <1>2, <1>4, <2>1, <2>2 DEF H, W, Others, Heating, HotWater
<1>5. c.kind = "heating" \/ c.kind = "hot_water"
  BY DEF ModeCalls, Abstract!Calls, Abstract!HeatingCalls, Abstract!HotWaterCalls
<1>6. QED
  BY <1>3, <1>4, <1>5

LEMMA LandingKeepsFields ==
  ASSUME IInv, NEW t \in Tasks, WriteLands(t), NEW r \in Registers
  PROVE  FieldsKept(r)
<1> DEFINE q == call[t].targets[next[t]]
<1>1. /\ call[t] \in ModeCalls /\ q \in Registers /\ next[t] \in DOMAIN call[t].targets
      /\ word[t][q] \in Word /\ regs[q] \in Word
  BY TargetsSeq DEF IInv, CallActive, TypeOK, WriteLands
<1>2. regs' = [regs EXCEPT ![q] = word[t][q]] /\ pc[t] = "writing"
  BY DEF WriteLands
<1>3. lock = t
  BY <1>2 DEF IInv, MutualExclusion, Critical
<1>4. Sets(word[t][q], regs[q], call[t])
  BY <1>1, <1>2 DEF IInv, WordIsCurrent, Sets
<1> HIDE DEF q
<1>5. CASE r = q
  <2>1. regs'[r] = word[t][q]
    BY <1>2, <1>5 DEF IInv, TypeOK
  <2> QED
    BY <1>1, <1>3, <1>4, <1>5, <2>1, SetsOneField DEF FieldsKept, Asked
<1>6. CASE r # q
  <2>1. regs'[r] = regs[r]
    BY <1>2, <1>6 DEF IInv, TypeOK
  <2> QED
    BY <2>1 DEF FieldsKept
<1>7. QED
  BY <1>5, <1>6

(***************************************************************************)
(* A heating call never touches the hot-water mode of a word it shares,    *)
(* nor the reverse, and no call touches the bits that are neither.         *)
(***************************************************************************)
THEOREM FieldsApart == Spec => [][\A r \in Registers : FieldsKept(r)]_vars
<1> DEFINE A == \A r \in Registers : FieldsKept(r)
<1>1. ASSUME IInv, [Next]_vars PROVE [A]_vars
  <2>1. ASSUME NEW t \in Tasks, WriteLands(t) PROVE A
    BY <1>1, <2>1, LandingKeepsFields
  <2>2. CASE \A t \in Tasks : ~WriteLands(t)
    <3>1. regs' = regs
      BY <1>1, <2>2 DEF Next, Resume, Request, Acquire, ReadWord, WriteAcknowledged,
           NudgeLands, NudgeReleased, Raises, CancelledWaiting, PollServed,
           PollCompletes, PollFails, vars
    <3> QED
      BY <3>1 DEF FieldsKept
  <2> QED
    BY <2>1, <2>2
<1>2. QED
  BY <1>1, InvInit, InvNext, PTL DEF Spec
-----------------------------------------------------------------------------
(* Refinement: every step of the calls is a step of the abstract registers *)
(* or leaves them, the intents, the served targets and the results alone.  *)

LEMMA RefinementInit == Init => Abstract!AInit
<1> SUFFICES ASSUME Init PROVE Abstract!AInit
  OBVIOUS
<1>1. \A t \in Tasks : pc[t] = "idle"
  BY DEF Init
<1>2. intent = [t \in Tasks |-> NoCall]
  BY <1>1 DEF intent
<1>3. applied = [t \in Tasks |-> {}]
  BY <1>1 DEF applied
<1>4. QED
  BY <1>2, <1>3 DEF Init, Abstract!AInit

\* The abstract view of a task depends on its own label, call and index only.
LEMMA SameView ==
  ASSUME NEW t \in Tasks,
         \A u \in Tasks \ {t} : /\ pc'[u] = pc[u] /\ call'[u] = call[u]
                                /\ next'[u] = next[u]
  PROVE  /\ intent' = [intent EXCEPT ![t] = intent'[t]]
         /\ applied' = [applied EXCEPT ![t] = applied'[t]]
<1>1. \A u \in Tasks \ {t} : intent'[u] = intent[u] /\ applied'[u] = applied[u]
  BY DEF intent, applied, Written
<1>2. /\ intent = [u \in Tasks |-> intent[u]] /\ intent' = [u \in Tasks |-> intent'[u]]
      /\ applied = [u \in Tasks |-> applied[u]]
      /\ applied' = [u \in Tasks |-> applied'[u]]
  BY DEF intent, applied
<1>3. QED
  BY <1>1, <1>2

\* A step that changes no task's view and no register is a stutter.
LEMMA StutterView ==
  ASSUME NEW t \in Tasks,
         \A u \in Tasks \ {t} : /\ pc'[u] = pc[u] /\ call'[u] = call[u]
                                /\ next'[u] = next[u],
         intent'[t] = intent[t], applied'[t] = applied[t], UNCHANGED <<regs, outcome>>
  PROVE  UNCHANGED Abstract!avars
<1>1. intent' = intent /\ applied' = applied
  <2>1. [intent EXCEPT ![t] = intent[t]] = intent
    BY DEF intent
  <2>2. [applied EXCEPT ![t] = applied[t]] = applied
    BY DEF applied
  <2>3. QED
    BY <2>1, <2>2, SameView
<1>2. QED
  BY <1>1 DEF Abstract!avars

\* The call of t ends: its view becomes that of an idle task.
LEMMA EndView ==
  ASSUME IInv, NEW t \in Tasks, NEW r \in {"ok", "raised"}, Finish(t, r),
         pc[t] # "idle", UNCHANGED <<regs, call>>,
         \A u \in Tasks \ {t} : next'[u] = next[u],
         r = "ok" => applied[t] = Targets(call[t])
  PROVE  Abstract!End(t, r)
<1>1. /\ pc'[t] = "idle"
      /\ \A u \in Tasks \ {t} : pc'[u] = pc[u]
      /\ outcome' = [outcome EXCEPT ![t] = r]
  BY DEF Finish, Goto, IInv, TypeOK
<1>2. intent[t] = call[t] /\ call[t] \in ModeCalls /\ intent[t] # NoCall
  BY ModeWritesAssumption DEF intent, IInv, CallActive
<1>3. intent'[t] = NoCall /\ applied'[t] = {}
  BY <1>1 DEF intent, applied
<1>4. QED
  BY <1>1, <1>2, <1>3, SameView DEF Abstract!End, Targets

\* At its normal return a call has served all its targets.
LEMMA ServedAll ==
  ASSUME IInv, NEW t \in Tasks,
         \/ pc[t] \in {"nudging", "sleeping"}
         \/ pc[t] = "landed" /\ ~(next[t] < Len(call[t].targets))
  PROVE  applied[t] = Targets(call[t])
<1>1. {j \in DOMAIN call[t].targets : Written(t, j)} = DOMAIN call[t].targets
  BY AllWritten
<1>2. pc[t] \notin {"idle", "waiting", "reading"}
  OBVIOUS
<1>3. QED
  BY <1>1, <1>2 DEF applied, Targets, Abstract!Targets

\* A request is asked of the abstract registers.
LEMMA RefineRequest ==
  ASSUME IInv, NEW t \in Tasks, NEW c \in ModeCalls, Request(t, c)
  PROVE  Abstract!Ask(t, c)
<1>1. /\ pc[t] = "idle" /\ pc'[t] = "waiting"
      /\ call'[t] = c
      /\ \A u \in Tasks \ {t} : /\ pc'[u] = pc[u] /\ call'[u] = call[u]
                                /\ next'[u] = next[u]
      /\ outcome' = [outcome EXCEPT ![t] = "none"]
      /\ regs' = regs
  BY DEF Request, Goto, IInv, TypeOK
<1>2. intent[t] = NoCall /\ intent'[t] = c
  BY <1>1 DEF intent
<1>3. applied' = applied
  <2>1. applied[t] = {} /\ applied'[t] = {}
    BY <1>1 DEF applied
  <2>2. [applied EXCEPT ![t] = applied[t]] = applied
    BY DEF applied
  <2>3. QED
    BY <1>1, <2>1, <2>2, SameView
<1>4. QED
  BY <1>1, <1>2, <1>3, SameView DEF Abstract!Ask

\* Waiting, reading and nudging are invisible.
LEMMA RefineSilent ==
  ASSUME IInv, NEW t \in Tasks, Acquire(t) \/ ReadWord(t) \/ NudgeLands(t)
  PROVE  UNCHANGED Abstract!avars
<1>1. /\ \A u \in Tasks \ {t} : /\ pc'[u] = pc[u] /\ call'[u] = call[u]
                                /\ next'[u] = next[u]
      /\ UNCHANGED <<regs, call, outcome>>
      /\ pc[t] # "idle" /\ pc'[t] # "idle"
  BY DEF Acquire, ReadWord, NudgeLands, Goto, IInv, TypeOK
<1>2. intent'[t] = intent[t]
  BY <1>1 DEF intent
<1>3. applied'[t] = applied[t]
  <2>1. CASE Acquire(t)
    BY <2>1 DEF Acquire, Goto, applied, IInv, TypeOK
  <2>2. CASE NudgeLands(t)
    BY <2>2 DEF NudgeLands, Goto, applied, Written, IInv, TypeOK
  <2>3. CASE ReadWord(t)
    <3>1. applied[t] = {}
      BY <2>3 DEF ReadWord, applied
    <3>2. pc'[t] = "reading" \/ (pc'[t] = "writing" /\ next'[t] = 1)
      BY <2>3 DEF ReadWord, Goto, IInv, TypeOK
    <3>3. CASE pc'[t] = "reading"
      BY <3>1, <3>3 DEF applied
    <3>4. CASE pc'[t] = "writing" /\ next'[t] = 1
      <4>1. /\ call'[t] = call[t]
            /\ DOMAIN call[t].targets = 1..Len(call[t].targets)
            /\ Len(call[t].targets) \in Nat
        BY <1>1, <2>3, TargetsSeq DEF ReadWord, IInv, TypeOK, CallActive
      <4>2. {j \in DOMAIN call'[t].targets : Written(t, j)'} = {}
        BY <4>1, <3>4 DEF Written
      <4>3. QED
        BY <3>1, <3>4, <4>2 DEF applied
    <3>5. QED
      BY <3>2, <3>3, <3>4
  <2>4. QED
    BY <2>1, <2>2, <2>3
<1>4. QED
  BY <1>1, <1>2, <1>3, StutterView

\* A write that takes effect serves one target of its call.
LEMMA RefineWriteLands ==
  ASSUME IInv, NEW t \in Tasks, WriteLands(t)
  PROVE  \E r \in Registers : Abstract!Apply(t, r)
<1> DEFINE r == call[t].targets[next[t]]
           T == call[t].targets
<1>1. /\ call[t] \in ModeCalls
      /\ next[t] \in 1..Len(T)
      /\ DOMAIN T = 1..Len(T) /\ Len(T) \in Nat
      /\ \A i, j \in 1..Len(T) : T[i] = T[j] => i = j
      /\ r \in Registers
  BY TargetsSeq DEF IInv, CallActive, TypeOK, WriteLands
<1>2. /\ regs' = [regs EXCEPT ![r] = word[t][r]]
      /\ pc[t] = "writing" /\ pc'[t] = "landed"
      /\ \A u \in Tasks \ {t} : /\ pc'[u] = pc[u] /\ call'[u] = call[u]
                                /\ next'[u] = next[u]
      /\ UNCHANGED <<call, next, outcome>>
  BY DEF WriteLands, Goto, IInv, TypeOK
<1>3. /\ regs' \in [Registers -> Word] /\ regs'[r] = word[t][r]
      /\ Sets(word[t][r], regs[r], call[t])
      /\ \A q \in Registers \ {r} : regs'[q] = regs[q]
  <2>1. regs \in [Registers -> Word] /\ word[t][r] \in Word
    BY <1>1 DEF IInv, TypeOK
  <2>2. next[t] \in DOMAIN T
    BY <1>1, <1>2, TargetsSeq DEF IInv, CallActive
  <2>3. Sets(word[t][r], regs[r], call[t])
    BY <1>2, <2>2 DEF IInv, WordIsCurrent, Sets
  <2> QED
    BY <1>1, <1>2, <2>1, <2>3
<1>4. intent[t] = call[t] /\ intent'[t] = call[t] /\ intent[t] # NoCall
  BY <1>1, <1>2, ModeWritesAssumption DEF intent
<1>5. intent' = intent
  <2>1. [intent EXCEPT ![t] = intent[t]] = intent
    BY DEF intent
  <2>2. QED
    BY <1>2, <1>4, <2>1, SameView
<1>6. /\ applied[t] = {T[j] : j \in {k \in 1..Len(T) : k < next[t]}}
      /\ applied'[t] = {T[j] : j \in {k \in 1..Len(T) : k < next[t] \/ k = next[t]}}
  BY <1>1, <1>2 DEF applied, Written
<1>7. r \notin applied[t] /\ r \in Abstract!Targets(call[t])
  BY <1>1, <1>6 DEF Abstract!Targets
<1>8. applied'[t] = applied[t] \cup {r}
  BY <1>1, <1>6
<1>9. Abstract!Apply(t, r)
  BY <1>2, <1>3, <1>4, <1>5, <1>7, <1>8, SameView DEF Abstract!Apply, Sets, Word
<1>10. QED
  BY <1>1, <1>9

\* An acknowledgement goes on unseen, or ends the call.
LEMMA RefineWriteAcknowledged ==
  ASSUME IInv, NEW t \in Tasks, WriteAcknowledged(t)
  PROVE  Abstract!End(t, "ok") \/ UNCHANGED Abstract!avars
<1>1. /\ pc[t] = "landed"
      /\ next' = [next EXCEPT ![t] = next[t] + 1]
      /\ UNCHANGED <<regs, call>>
      /\ \A u \in Tasks \ {t} : call'[u] = call[u] /\ next'[u] = next[u]
      /\ next'[t] = next[t] + 1
      /\ next[t] \in Nat
  BY DEF WriteAcknowledged, IInv, TypeOK
<1>2. CASE /\ Finish(t, "ok") /\ ~(next[t] < Len(call[t].targets))
  BY <1>1, <1>2, ServedAll, EndView
<1>3. CASE \E label \in {"writing", "nudging"} :
             pc' = [pc EXCEPT ![t] = label] /\ UNCHANGED <<lock, outcome>>
  <2>1. /\ pc'[t] \in {"writing", "nudging"}
        /\ \A u \in Tasks \ {t} : pc'[u] = pc[u]
        /\ outcome' = outcome
    BY <1>3 DEF IInv, TypeOK
  <2>2. intent'[t] = intent[t]
    BY <1>1, <2>1 DEF intent
  <2>3. /\ DOMAIN call[t].targets = 1..Len(call[t].targets)
        /\ Len(call[t].targets) \in Nat
    BY <1>1, TargetsSeq DEF IInv, CallActive
  <2>4. \A j \in DOMAIN call[t].targets : Written(t, j)' <=> Written(t, j)
    BY <1>1, <2>1, <2>3 DEF Written
  <2>5. applied'[t] = applied[t]
    BY <1>1, <2>1, <2>4 DEF applied
  <2>6. QED
    BY <1>1, <2>1, <2>2, <2>5, StutterView
<1>4. QED
  BY <1>2, <1>3 DEF WriteAcknowledged, Goto

\* The other steps that end a call.
LEMMA RefineEnds ==
  ASSUME IInv, NEW t \in Tasks, NudgeReleased(t) \/ Raises(t) \/ CancelledWaiting(t)
  PROVE  Abstract!End(t, "ok") \/ Abstract!End(t, "raised")
<1>1. CASE NudgeReleased(t)
  BY <1>1, ServedAll, EndView DEF NudgeReleased
<1>2. CASE Raises(t)
  BY <1>2, EndView DEF Raises, Critical
<1>3. CASE CancelledWaiting(t)
  BY <1>3, EndView DEF CancelledWaiting
<1>4. QED
  BY <1>1, <1>2, <1>3

\* Polls are invisible: they read the registers only.
LEMMA RefinePoll ==
  ASSUME IInv, NEW p \in Pollers, PollServed(p) \/ PollCompletes(p) \/ PollFails(p)
  PROVE  UNCHANGED Abstract!avars
<1>1. /\ UNCHANGED <<regs, call, next, outcome>>
      /\ \A t \in Tasks : pc'[t] = pc[t]
  BY ModeWritesAssumption
  DEF PollServed, PollCompletes, PollFails, Goto, IInv, TypeOK
<1>2. QED
  BY <1>1 DEF Abstract!avars, intent, applied, Written

LEMMA RefinementNext == IInv /\ [Next]_vars => [Abstract!ANext]_Abstract!avars
<1> SUFFICES ASSUME IInv, [Next]_vars
             PROVE  Abstract!ANext \/ UNCHANGED Abstract!avars
  OBVIOUS
<1>1. ASSUME NEW t \in Tasks, NEW c \in ModeCalls, Request(t, c) PROVE Abstract!ANext
  BY <1>1, RefineRequest DEF Abstract!ANext, ModeCalls
<1>2. ASSUME NEW t \in Tasks, Acquire(t) \/ ReadWord(t) \/ NudgeLands(t)
      PROVE  UNCHANGED Abstract!avars
  BY <1>2, RefineSilent
<1>3. ASSUME NEW t \in Tasks, WriteLands(t) PROVE Abstract!ANext
  BY <1>3, RefineWriteLands DEF Abstract!ANext
<1>4. ASSUME NEW t \in Tasks, WriteAcknowledged(t)
      PROVE  Abstract!ANext \/ UNCHANGED Abstract!avars
  BY <1>4, RefineWriteAcknowledged DEF Abstract!ANext
<1>5. ASSUME NEW t \in Tasks, NudgeReleased(t) \/ Raises(t) \/ CancelledWaiting(t)
      PROVE  Abstract!ANext
  BY <1>5, RefineEnds DEF Abstract!ANext
<1>6. ASSUME NEW p \in Pollers, PollServed(p) \/ PollCompletes(p) \/ PollFails(p)
      PROVE  UNCHANGED Abstract!avars
  BY <1>6, RefinePoll
<1>7. CASE UNCHANGED vars
  BY <1>7 DEF vars, Abstract!avars, intent, applied, Written
<1>8. QED
  BY <1>1, <1>2, <1>3, <1>4, <1>5, <1>6, <1>7 DEF Next, Resume

(***************************************************************************)
(* The two mode calls implement the abstract registers: on them every      *)
(* write replaces one field of one target register, atomically.            *)
(***************************************************************************)
THEOREM Refinement == Spec => ImplementsModeRegisters
<1>1. Spec => Abstract!AInit /\ [][Abstract!ANext]_Abstract!avars
  BY RefinementInit, RefinementNext, Invariance, PTL DEF Spec
<1>2. QED
  BY <1>1 DEF ImplementsModeRegisters, Abstract!ASpec
=============================================================================
