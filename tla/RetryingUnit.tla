---------------------------- MODULE RetryingUnit ----------------------------
(***************************************************************************)
(* RetryingModbusUnit (helpers/modbus.py) shared by several tasks: reads   *)
(* go through retry_on_transient, which executes them up to MaxTries times *)
(* while they fail with a TransientModbusError; writes are executed once.  *)
(* A unit without retries is the case MaxTries = 1.  The list of retried   *)
(* exceptions, which nothing but a printed report reads, is left out.      *)
(*                                                                         *)
(* The actions are those of one request; a module that composes the unit   *)
(* with its user conjoins what the user does when the call ends.           *)
(***************************************************************************)
EXTENDS Naturals

CONSTANTS
  Tasks,
  MaxTries  \* max_tries of the decorator

ASSUME RetryAssumption == MaxTries \in Nat \ {0}

VARIABLES
  pc,       \* "idle", or "sent": a request of the task is under way
  op,       \* the operation the task performs, or performed last
  try,      \* try[t]: the decorator's loop counter i
  requests, \* requests[t]: requests sent in this call
  landed    \* landed[t]: how often this call's write took effect

unit == <<pc, op, try, requests, landed>>

Operations == {"read", "write"}

(***************************************************************************)
(* What a request can fail with.  "not_served" stands for the errors by    *)
(* which a device says it has no such register or path, "busy" for its     *)
(* other exception codes that are worth a retry, "link" for a lost         *)
(* connection, a timeout or a garbled answer, "refused" for the rest.      *)
(***************************************************************************)
TransientModbusError == {"not_served", "busy", "link"}
ModbusErrors         == TransientModbusError \cup {"refused"}

UnitInit ==
  /\ pc = [t \in Tasks |-> "idle"]
  /\ op = [t \in Tasks |-> "read"]
  /\ try = [t \in Tasks |-> 0]
  /\ requests = [t \in Tasks |-> 0]
  /\ landed = [t \in Tasks |-> 0]
-----------------------------------------------------------------------------
\* Slip: the decorator sits on the write methods too.
Decorated_All(o) == o \in Operations

\* The methods under @retry_on_transient(): the four reads.
Decorated(o) == o = "read"

Call(t, o) ==
  /\ pc[t] = "idle"
  /\ pc' = [pc EXCEPT ![t] = "sent"]
  /\ op' = [op EXCEPT ![t] = o]
  /\ try' = [try EXCEPT ![t] = 0]
  /\ requests' = [requests EXCEPT ![t] = 1]
  /\ landed' = [landed EXCEPT ![t] = 0]

\* The call of t returns or raises, and its loop is gone.
Finish(t) ==
  /\ pc[t] = "sent"
  /\ pc' = [pc EXCEPT ![t] = "idle"]
  /\ try' = [try EXCEPT ![t] = 0]
  /\ requests' = [requests EXCEPT ![t] = 0]
  /\ UNCHANGED op

TakesEffect(t) == landed' = [landed EXCEPT ![t] = IF op[t] = "write" THEN @ + 1 ELSE @]

\* A request that is not answered may have been lost before or after it took effect.
MayTakeEffect(t) == TakesEffect(t) \/ UNCHANGED landed

Answered(t) == TakesEffect(t) /\ Finish(t)

\* Slip: the loop gives up one attempt early.
GivesUp_Early(t) == try[t] + 1 >= MaxTries - 1

\* Slip: the loop runs once too often.
GivesUp_Late(t) == try[t] = MaxTries

\* i == max_tries - 1
GivesUp(t) == try[t] = MaxTries - 1

\* The exception leaves the call: no decorator, another type, or the last try.
FailsForGood(t, e) ==
  /\ Decorated(op[t]) /\ e \in TransientModbusError => GivesUp(t)
  /\ MayTakeEffect(t)
  /\ Finish(t)

FailsAndRepeats(t) ==
  /\ pc[t] = "sent"
  /\ Decorated(op[t])
  /\ ~GivesUp(t)
  /\ MayTakeEffect(t)
  /\ try' = [try EXCEPT ![t] = @ + 1]
  /\ requests' = [requests EXCEPT ![t] = @ + 1]
  /\ UNCHANGED <<pc, op>>

\* CancelledError is no Exception: it passes the decorator.
Cancelled(t) == MayTakeEffect(t) /\ Finish(t)

UnitNext(t) ==
  \/ \E o \in Operations : Call(t, o)
  \/ Answered(t)
  \/ \E e \in ModbusErrors : FailsForGood(t, e)
  \/ FailsAndRepeats(t)
  \/ Cancelled(t)

UnitSpec == UnitInit /\ [][\E t \in Tasks : UnitNext(t)]_unit
-----------------------------------------------------------------------------
\* Every variable of the unit holds a value of the kind the code gives it.
UnitTypeOK ==
  /\ pc \in [Tasks -> {"idle", "sent"}]
  /\ op \in [Tasks -> Operations]
  /\ try \in [Tasks -> 0..(MaxTries - 1)]
  /\ requests \in [Tasks -> 0..MaxTries]
  /\ landed \in [Tasks -> Nat]

(***************************************************************************)
(* A write takes effect at most once per call, even when its reply is lost *)
(* and the error is a transient one; only reads are repeated.              *)
(***************************************************************************)
WritesAtMostOnce == \A t \in Tasks : op[t] = "write" => landed[t] <= 1
=============================================================================
