---------------------------- MODULE ModeRegisters ----------------------------
(***************************************************************************)
(* What GTW26.async_set_heating_mode and async_set_hot_water_mode promise  *)
(* about the controller's mode registers (gtw26/gtw26.py:499-547), without *)
(* saying how: a call applies its mode to its target registers one by one, *)
(* each time replacing that mode's field and nothing else; it returns      *)
(* normally only when every target has been served, and may be abandoned   *)
(* at any moment.                                                          *)
(***************************************************************************)
EXTENDS Naturals, Sequences

CONSTANTS
  Tasks,             \* the tasks that set modes
  NoCall,            \* a task has no call in progress
  Registers,         \* addresses of the mode registers
  HotWaterRegisters, \* the ones that hold the hot-water mode, in write order
  FoundWords,        \* what the registers may hold before the first call
  HeatingModes,      \* the heating modes, each the set of its bits
  HotWaterModes      \* the hot-water modes, likewise

VARIABLES
  regs,     \* the controller's mode registers
  intent,   \* intent[t]: the call task t is performing
  applied,  \* applied[t]: targets of that call that have been served
  result    \* result[t]: how t's last call ended

avars == <<regs, intent, applied, result>>

(***************************************************************************)
(* A mode register is the set of its bits that are set.  Five of them are  *)
(* the mode of a heating circuit, two the mode of the hot water; what the  *)
(* others mean is the controller's business.                               *)
(***************************************************************************)
Word == SUBSET (0..15)

HeatingMask  == {0, 1, 2, 3, 5}  \* 0x2F
HotWaterMask == {4, 6}           \* 0x50

Mask(c) == IF c.kind = "heating" THEN HeatingMask ELSE HotWaterMask

\* The mode of call c is in word w; word v is w but for that mode.
Holds(w, c)    == w \cap Mask(c) = c.mode
Keeps(v, w, c) == v \ Mask(c) = w \ Mask(c)

\* HOLIDAY can be read but not set.
Holiday == {0, 5}

HeatingCalls  == [kind : {"heating"}, targets : {<<r>> : r \in Registers},
                  mode : HeatingModes \ {Holiday}]
HotWaterCalls == [kind : {"hot_water"}, targets : {HotWaterRegisters},
                  mode : HotWaterModes]
Calls         == HeatingCalls \cup HotWaterCalls

Targets(c) == {c.targets[i] : i \in DOMAIN c.targets}

AInit ==
  /\ regs \in [Registers -> FoundWords]
  /\ intent = [t \in Tasks |-> NoCall]
  /\ applied = [t \in Tasks |-> {}]
  /\ result = [t \in Tasks |-> "none"]

Ask(t, c) ==
  /\ intent[t] = NoCall
  /\ intent' = [intent EXCEPT ![t] = c]
  /\ result' = [result EXCEPT ![t] = "none"]
  /\ UNCHANGED <<regs, applied>>

Apply(t, r) ==
  /\ intent[t] # NoCall
  /\ r \in Targets(intent[t]) \ applied[t]
  /\ regs' \in [Registers -> Word]
  /\ Holds(regs'[r], intent[t]) /\ Keeps(regs'[r], regs[r], intent[t])
  /\ \A q \in Registers \ {r} : regs'[q] = regs[q]
  /\ applied' = [applied EXCEPT ![t] = @ \cup {r}]
  /\ UNCHANGED <<intent, result>>

End(t, r) ==
  /\ intent[t] # NoCall
  /\ r = "ok" => applied[t] = Targets(intent[t])
  /\ intent' = [intent EXCEPT ![t] = NoCall]
  /\ applied' = [applied EXCEPT ![t] = {}]
  /\ result' = [result EXCEPT ![t] = r]
  /\ UNCHANGED regs

ANext ==
  \E t \in Tasks :
    \/ \E c \in Calls : Ask(t, c)
    \/ \E r \in Registers : Apply(t, r)
    \/ End(t, "ok")
    \/ End(t, "raised")

ASpec == AInit /\ [][ANext]_avars
=============================================================================
