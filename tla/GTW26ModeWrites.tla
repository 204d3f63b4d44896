--------------------------- MODULE GTW26ModeWrites ---------------------------
(***************************************************************************)
(* GTW26.async_set_heating_mode and async_set_hot_water_mode               *)
(* (gtw26/gtw26.py): read-modify-write cycles on shared registers under    *)
(* _write_lock, the retained copies the components show, and the panel     *)
(* nudge of a generation-4 base controller, raced by polls that take no    *)
(* lock.  A request is sent, takes effect in the controller, and is        *)
(* acknowledged; it can be lost before or after taking effect, and the     *)
(* calling task can be cancelled wherever it waits.                        *)
(***************************************************************************)
EXTENDS Naturals, Sequences

CONSTANTS
  Tasks,             \* tasks that set modes
  Pollers,           \* tasks that poll the mode bundles
  NoTask,            \* the write lock is free
  NoCall,            \* a task has no mode call in progress
  Registers,         \* addresses of the layout's mode registers
  HotWaterRegisters, \* policy.hot_water_addresses, in order
  FoundWords,        \* what the registers may hold before the first call
  HeatingModes, HotWaterModes, \* the modes, each the set of its bits
  NudgesPanel,       \* the policy nudges and the generation is 4
  MaxCalls           \* bound on the calls of a run

VARIABLES
  regs,     \* the controller's mode registers
  panel,    \* the controller's panel-refresh register 13
  lock,     \* holder of _write_lock
  waiters,  \* tasks queued for it, first come first served
  pc,       \* where each task is
  call,     \* call[t]: arguments of t's mode call
  next,     \* next[t]: index of the target it reads or writes next
  word,     \* word[t]: register words a task holds across an await
  shownHeating, shownHotWater, \* the mode fields of the components
  outcome,  \* how t's last mode call ended
  calls     \* number of calls so far

vars == <<regs, panel, lock, waiters, pc, call, next, word,
          shownHeating, shownHotWater, outcome, calls>>

(***************************************************************************)
(* The abstract registers see a call from its request to its return, and a *)
(* target as served from the moment its write takes effect.                *)
(***************************************************************************)
intent == [t \in Tasks |-> IF pc[t] = "idle" THEN NoCall ELSE call[t]]

\* Target i of the call of t has been written.
Written(t, i) == i < next[t] \/ (i = next[t] /\ pc[t] = "landed")

applied ==
  [t \in Tasks |->
     IF pc[t] \in {"idle", "waiting", "reading"} THEN {}
     ELSE {call[t].targets[i] : i \in {j \in DOMAIN call[t].targets : Written(t, j)}}]

Abstract == INSTANCE ModeRegisters WITH result <- outcome

Word       == Abstract!Word
Mask(c)    == Abstract!Mask(c)
ModeCalls  == Abstract!Calls
Targets(c) == Abstract!Targets(c)

\* Slip: the bits of the old mode are left set.
SetMode_Merges(w, c) == w \cup c.mode

\* The word that is written for a word that was read.
SetMode(w, c) == (w \ Mask(c)) \cup c.mode

\* What the components' masked fields make of a word, known mode or not.
Heating(w)  == w \cap Abstract!HeatingMask
HotWater(w) == w \cap Abstract!HotWaterMask

ASSUME ModeWritesAssumption ==
  /\ NoTask \notin Tasks
  /\ Tasks \cap Pollers = {}
  /\ NoCall \notin ModeCalls
  /\ HotWaterRegisters \in Seq(Registers)
  /\ Len(HotWaterRegisters) > 0
  /\ \A i, j \in 1..Len(HotWaterRegisters) :
       HotWaterRegisters[i] = HotWaterRegisters[j] => i = j
  /\ FoundWords \subseteq Word
  /\ HeatingModes \subseteq SUBSET Abstract!HeatingMask
  /\ HotWaterModes \subseteq SUBSET Abstract!HotWaterMask
  /\ NudgesPanel \in BOOLEAN
  /\ MaxCalls \in Nat

HotWaterField == HotWaterRegisters[1]

(***************************************************************************)
(* The facade has been set up and polled once.  The registers may start    *)
(* with different hot-water modes, and with modes the code does not know.  *)
(***************************************************************************)
Init ==
  /\ regs \in [Registers -> FoundWords]
  /\ panel = 0
  /\ lock = NoTask
  /\ waiters = <<>>
  /\ pc = [t \in Tasks \cup Pollers |-> "idle"]
  /\ call = [t \in Tasks |-> NoCall]
  /\ next = [t \in Tasks |-> 1]
  /\ word = [t \in Tasks \cup Pollers |-> regs]
  /\ shownHeating = [r \in Registers |-> Heating(regs[r])]
  /\ shownHotWater = HotWater(regs[HotWaterField])
  /\ outcome = [t \in Tasks |-> "none"]
  /\ calls = 0
-----------------------------------------------------------------------------
\* The labels at which a task is inside `async with self._write_lock`.
Critical == {"reading", "writing", "landed", "nudging", "sleeping"}

Goto(t, label) == pc' = [pc EXCEPT ![t] = label]

shown == <<shownHeating, shownHotWater>>

(***************************************************************************)
(* The arguments have been validated (HOLIDAY and unknown zones are        *)
(* refused before anything happens) and the task asks for _write_lock.     *)
(***************************************************************************)
Request(t, c) ==
  /\ pc[t] = "idle"
  /\ calls < MaxCalls
  /\ calls' = calls + 1
  /\ call' = [call EXCEPT ![t] = c]
  /\ outcome' = [outcome EXCEPT ![t] = "none"]
  /\ waiters' = Append(waiters, t)
  /\ Goto(t, "waiting")
  /\ UNCHANGED <<regs, panel, lock, next, word, shown>>

\* Slip: the head of the queue does not wait for the lock to be free.
Acquire_NoLock(t) ==
  /\ pc[t] = "waiting"
  /\ waiters # <<>> /\ Head(waiters) = t
  /\ lock' = t
  /\ waiters' = Tail(waiters)
  /\ next' = [next EXCEPT ![t] = 1]
  /\ Goto(t, "reading")
  /\ UNCHANGED <<regs, panel, call, word, shown, outcome, calls>>

\* asyncio.Lock hands a free lock to its first waiter.
Acquire(t) ==
  /\ pc[t] = "waiting"
  /\ lock = NoTask
  /\ waiters # <<>> /\ Head(waiters) = t
  /\ lock' = t
  /\ waiters' = Tail(waiters)
  /\ next' = [next EXCEPT ![t] = 1]
  /\ Goto(t, "reading")
  /\ UNCHANGED <<regs, panel, call, word, shown, outcome, calls>>

\* Slip: one register is read and its word serves for all targets.
ReadWord_FirstOnly(t) ==
  /\ pc[t] = "reading"
  /\ LET targets == call[t].targets
         read    == SetMode(regs[targets[1]], call[t])
     IN  word' = [word EXCEPT ![t] =
                    [r \in Registers |-> IF r \in Targets(call[t]) THEN read ELSE @[r]]]
  /\ Goto(t, "writing")
  /\ UNCHANGED <<regs, panel, lock, waiters, call, next, shown, outcome, calls>>

(***************************************************************************)
(* All targets are read before any is written; the new word of a target is *)
(* the word read with the call's field replaced.                           *)
(***************************************************************************)
ReadWord(t) ==
  /\ pc[t] = "reading"
  /\ LET r == call[t].targets[next[t]]
     IN  word' = [word EXCEPT ![t][r] = SetMode(regs[r], call[t])]
  /\ IF next[t] < Len(call[t].targets)
     THEN /\ next' = [next EXCEPT ![t] = @ + 1]
          /\ UNCHANGED pc
     ELSE /\ next' = [next EXCEPT ![t] = 1]
          /\ Goto(t, "writing")
  /\ UNCHANGED <<regs, panel, lock, waiters, call, shown, outcome, calls>>

WriteLands(t) ==
  /\ pc[t] = "writing"
  /\ LET r == call[t].targets[next[t]]
     IN  regs' = [regs EXCEPT ![r] = word[t][r]]
  /\ Goto(t, "landed")
  /\ UNCHANGED <<panel, lock, waiters, call, next, word, shown, outcome, calls>>

\* Slip: the lock is kept.
Finish_KeepsLock(t, r) ==
  /\ Goto(t, "idle")
  /\ UNCHANGED lock
  /\ outcome' = [outcome EXCEPT ![t] = r]

\* The call of t is over: `async with` releases the lock.
Finish(t, r) ==
  /\ Goto(t, "idle")
  /\ lock' = IF lock = t THEN NoTask ELSE lock
  /\ outcome' = [outcome EXCEPT ![t] = r]

\* Slip: the call returns after its first target.
WriteAcknowledged_FirstOnly(t) ==
  /\ pc[t] = "landed"
  /\ LET r == call[t].targets[next[t]]
     IN  /\ shownHeating' = [shownHeating EXCEPT ![r] = Heating(word[t][r])]
         /\ shownHotWater' = IF r = HotWaterField THEN HotWater(word[t][r])
                                                  ELSE shownHotWater
  /\ next' = [next EXCEPT ![t] = @ + 1]
  /\ IF NudgesPanel
     THEN Goto(t, "nudging") /\ UNCHANGED <<lock, outcome>>
     ELSE Finish(t, "ok")
  /\ UNCHANGED <<regs, panel, waiters, call, word, calls>>

(***************************************************************************)
(* The reply arrives: _retain_written_word copies the word into every      *)
(* component field that reads its address, and the call goes on with the   *)
(* next target, the nudge, or its return.                                  *)
(***************************************************************************)
WriteAcknowledged(t) ==
  /\ pc[t] = "landed"
  /\ LET r == call[t].targets[next[t]]
     IN  /\ shownHeating' = [shownHeating EXCEPT ![r] = Heating(word[t][r])]
         /\ shownHotWater' = IF r = HotWaterField THEN HotWater(word[t][r])
                                                  ELSE shownHotWater
  /\ IF next[t] < Len(call[t].targets)
     THEN /\ next' = [next EXCEPT ![t] = @ + 1]
          /\ Goto(t, "writing")
          /\ UNCHANGED <<lock, outcome>>
     ELSE /\ next' = [next EXCEPT ![t] = @ + 1]
          /\ IF NudgesPanel
             THEN Goto(t, "nudging") /\ UNCHANGED <<lock, outcome>>
             ELSE Finish(t, "ok")
  /\ UNCHANGED <<regs, panel, waiters, call, word, calls>>

\* Slip: the register is incremented instead of set.
NudgeLands_Increments(t) ==
  /\ pc[t] = "nudging"
  /\ panel' = panel + 1
  /\ Goto(t, "sleeping")
  /\ UNCHANGED <<regs, lock, waiters, call, next, word, shown, outcome, calls>>

\* _nudge_panel: register 13 is set, and reset half a second later.
NudgeLands(t) ==
  /\ pc[t] = "nudging"
  /\ panel' = 1
  /\ Goto(t, "sleeping")
  /\ UNCHANGED <<regs, lock, waiters, call, next, word, shown, outcome, calls>>

NudgeReleased(t) ==
  /\ pc[t] = "sleeping"
  /\ panel' = 0
  /\ Finish(t, "ok")
  /\ UNCHANGED <<regs, waiters, call, next, word, shown, calls>>

(***************************************************************************)
(* The awaited request fails or the task is cancelled.  From "writing" a   *)
(* write is lost on its way out, from "landed" its reply is lost: the      *)
(* register has changed, nothing is retained, the rest of the call is      *)
(* skipped.  A lost reply to either toggle of the nudge is the same loss.  *)
(***************************************************************************)
Raises(t) ==
  /\ pc[t] \in Critical
  /\ \/ UNCHANGED panel
     \/ pc[t] = "nudging" /\ panel' = 1
     \/ pc[t] = "sleeping" /\ panel' = 0
  /\ Finish(t, "raised")
  /\ UNCHANGED <<regs, waiters, call, next, word, shown, calls>>

\* Cancelled in the lock's queue: the task leaves it.
CancelledWaiting(t) ==
  /\ pc[t] = "waiting"
  /\ \E i \in 1..Len(waiters) :
       /\ waiters[i] = t
       /\ waiters' = SubSeq(waiters, 1, i - 1) \o SubSeq(waiters, i + 1, Len(waiters))
  /\ Finish(t, "raised")
  /\ UNCHANGED <<regs, panel, call, next, word, shown, calls>>
-----------------------------------------------------------------------------
\* A poll reads the mode registers, without the write lock ...
PollServed(p) ==
  /\ pc[p] = "idle"
  /\ word' = [word EXCEPT ![p] = regs]
  /\ Goto(p, "polled")
  /\ UNCHANGED <<regs, panel, lock, waiters, call, next, shown, outcome, calls>>

\* Slip: the hot-water component is not part of the poll.
PollCompletes_NoHotWater(p) ==
  /\ pc[p] = "polled"
  /\ shownHeating' = [r \in Registers |-> Heating(word[p][r])]
  /\ Goto(p, "idle")
  /\ UNCHANGED <<regs, panel, lock, waiters, call, next, word, shownHotWater,
                 outcome, calls>>

\* ... and replaces the components' values when its last request is answered.
PollCompletes(p) ==
  /\ pc[p] = "polled"
  /\ shownHeating' = [r \in Registers |-> Heating(word[p][r])]
  /\ shownHotWater' = HotWater(word[p][HotWaterField])
  /\ Goto(p, "idle")
  /\ UNCHANGED <<regs, panel, lock, waiters, call, next, word, outcome, calls>>

\* A failed poll leaves the components stale.
PollFails(p) ==
  /\ pc[p] = "polled"
  /\ Goto(p, "idle")
  /\ UNCHANGED <<regs, panel, lock, waiters, call, next, word, shown, outcome, calls>>

Resume(t) ==
  \/ Acquire(t) \/ ReadWord(t) \/ WriteLands(t) \/ WriteAcknowledged(t)
  \/ NudgeLands(t) \/ NudgeReleased(t)

Next ==
  \/ \E t \in Tasks :
       \/ \E c \in ModeCalls : Request(t, c)
       \/ Resume(t)
       \/ Raises(t)
       \/ CancelledWaiting(t)
  \/ \E p \in Pollers : PollServed(p) \/ PollCompletes(p) \/ PollFails(p)

Spec == Init /\ [][Next]_vars

(***************************************************************************)
(* A waiting task is resumed when its request is answered or it heads the  *)
(* lock's queue.  Pollers are periodic, and a poll that keeps being        *)
(* repeated succeeds at some point.                                        *)
(***************************************************************************)
Fairness ==
  /\ \A t \in Tasks : WF_vars(Resume(t))
  /\ \A p \in Pollers : WF_vars(PollServed(p)) /\ SF_vars(PollCompletes(p))

FairSpec == Spec /\ Fairness
-----------------------------------------------------------------------------
\* Every variable holds a value of the kind the code gives it.
TypeOK ==
  /\ regs \in [Registers -> Word]
  /\ panel \in {0, 1}
  /\ lock \in Tasks \cup {NoTask}
  /\ waiters \in Seq(Tasks)
  /\ pc \in [Tasks \cup Pollers -> Critical \cup {"idle", "waiting", "polled"}]
  /\ call \in [Tasks -> ModeCalls \cup {NoCall}]
  /\ next \in [Tasks -> Nat \ {0}]
  /\ word \in [Tasks \cup Pollers -> [Registers -> Word]]
  /\ shownHeating \in [Registers -> SUBSET Abstract!HeatingMask]
  /\ shownHotWater \in SUBSET Abstract!HotWaterMask
  /\ outcome \in [Tasks -> {"none", "ok", "raised"}]
  /\ calls \in Nat

(***************************************************************************)
(* _write_lock: the task between its first read and its last write, the    *)
(* nudge included, holds the lock, so there is at most one.                *)
(***************************************************************************)
MutualExclusion == \A t \in Tasks : pc[t] \in Critical <=> lock = t

(***************************************************************************)
(* The value read before an await is still the register's value when the   *)
(* word derived from it is written: no mode call loses another's update,   *)
(* and writing one mode preserves the other mode's bits.                   *)
(***************************************************************************)
WordIsCurrent ==
  \A t \in {u \in Tasks : pc[u] \in {"reading", "writing", "landed"}} :
    \A i \in DOMAIN call[t].targets :
      LET r    == call[t].targets[i]
          held == IF pc[t] = "reading" THEN i < next[t] ELSE TRUE
      IN  held => /\ Abstract!Holds(word[t][r], call[t])
                  /\ Abstract!Keeps(word[t][r], regs[r], call[t])

(***************************************************************************)
(* The calls implement the abstract registers, on which each write         *)
(* replaces one field of one register and nothing else.                    *)
(***************************************************************************)
ImplementsModeRegisters == Abstract!ASpec

(***************************************************************************)
(* A mode call that returns normally has set its mode in every target, so  *)
(* both base registers agree on the hot-water mode, and has left the panel *)
(* register released.                                                      *)
(***************************************************************************)
OkMeansDone ==
  [][\A t \in Tasks :
       outcome'[t] = "ok" /\ outcome[t] # "ok" =>
         /\ \A r \in Targets(call[t]) : Abstract!Holds(regs'[r], call[t])
         /\ NudgesPanel => panel' = 0]_vars

(***************************************************************************)
(* Every call gets its turn and returns: whatever is lost or cancelled,    *)
(* the lock is never left behind.                                          *)
(***************************************************************************)
EveryCallReturns == \A t \in Tasks : pc[t] # "idle" ~> pc[t] = "idle"

(***************************************************************************)
(* Whatever raced, once no more modes are set the polls bring the shown    *)
(* modes back to the controller's.                                         *)
(***************************************************************************)
ShownIsCurrent ==
  /\ \A r \in Registers : shownHeating[r] = Heating(regs[r])
  /\ shownHotWater = HotWater(regs[HotWaterField])

StalenessHeals == <>[]ShownIsCurrent
=============================================================================
