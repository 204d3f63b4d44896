----------------------------- MODULE GTW26Clock -----------------------------
(***************************************************************************)
(* GTW26.async_set_clock (gtw26/gtw26.py): setting the controller's clock  *)
(* while it runs.  The iSystem layout writes one block; the base layout    *)
(* writes the time and the weekday in one block and the date in another,   *)
(* so the clock can tick, the link can fail or the task can be cancelled   *)
(* between the two.  The calls are serialised by _write_lock.              *)
(*                                                                         *)
(* A day has Day ticks and dates are day numbers; the marker bits the base *)
(* layout ORs into each word do not show.                                  *)
(***************************************************************************)
EXTENDS Naturals

CONSTANTS
  Tasks,       \* tasks that set the clock
  NoTask,      \* the write lock is free
  Day,         \* ticks of a day
  Dates,       \* dates the callers set
  MaxCalls,    \* bound on the calls of a run
  MaxTicks     \* bound on the ticks of a run

ASSUME ClockAssumption ==
  /\ NoTask \notin Tasks
  /\ Day \in Nat \ {0}
  /\ Dates \subseteq Nat
  /\ MaxCalls \in Nat /\ MaxTicks \in Nat

VARIABLES
  usesMarker, \* policy.uses_marker of the detected layout: two blocks, not one
  regs,     \* the controller's clock registers
  lock,     \* holder of _write_lock
  pc,       \* where each task is
  moment,   \* moment[t]: the argument of t's call
  shown,    \* the clock fields of the components
  outcome,  \* how t's last call ended
  calls, ticks,
  elapsed,  \* ticks since a call's first block took effect
  midnight, \* a midnight passed between the two blocks of the call at work
  torn      \* the two blocks do not stem from one moment

vars == <<usesMarker, regs, lock, pc, moment, shown, outcome, calls, ticks,
          elapsed, midnight, torn>>

\* datetime.isoweekday, up to a renumbering of the days.
WeekdayOf(date) == date % 7

Moments   == [time : 0..(Day - 1), date : Dates]
Clock(m)  == [time |-> m.time, weekday |-> WeekdayOf(m.date), date |-> m.date]

\* The clock c, n ticks later.
Advance(c, n) ==
  LET days == (c.time + n) \div Day
  IN  [time |-> (c.time + n) % Day, weekday |-> (c.weekday + days) % 7,
       date |-> c.date + days]

Init ==
  /\ usesMarker \in BOOLEAN
  /\ \E m \in Moments : regs = Clock(m)
  /\ lock = NoTask
  /\ pc = [t \in Tasks |-> "idle"]
  /\ moment \in {[t \in Tasks |-> m] : m \in Moments}
  /\ shown = regs
  /\ outcome = [t \in Tasks |-> "none"]
  /\ calls = 0 /\ ticks = 0 /\ elapsed = 0
  /\ midnight = FALSE /\ torn = FALSE
-----------------------------------------------------------------------------
Goto(t, label) == pc' = [pc EXCEPT ![t] = label]
ghosts == <<elapsed, midnight, torn>>

Request(t, m) ==
  /\ pc[t] = "idle"
  /\ calls < MaxCalls
  /\ calls' = calls + 1
  /\ moment' = [moment EXCEPT ![t] = m]
  /\ outcome' = [outcome EXCEPT ![t] = "none"]
  /\ Goto(t, "waiting")
  /\ UNCHANGED <<usesMarker, regs, lock, shown, ticks, ghosts>>

\* Slip: the lock is not waited for.
Acquire_NoLock(t) ==
  /\ pc[t] = "waiting"
  /\ lock' = t
  /\ midnight' = FALSE
  /\ Goto(t, IF usesMarker THEN "time" ELSE "block")
  /\ UNCHANGED <<usesMarker, regs, moment, shown, outcome, calls, ticks, elapsed, torn>>

Acquire(t) ==
  /\ pc[t] = "waiting"
  /\ lock = NoTask
  /\ lock' = t
  /\ midnight' = FALSE
  /\ Goto(t, IF usesMarker THEN "time" ELSE "block")
  /\ UNCHANGED <<usesMarker, regs, moment, shown, outcome, calls, ticks, elapsed, torn>>

\* Slip: the time words of the block are left as they are.
BlockLands_DateOnly(t) ==
  /\ pc[t] = "block"
  /\ regs' = [Clock(moment[t]) EXCEPT !.time = regs.time]
  /\ elapsed' = 0
  /\ torn' = FALSE
  /\ Goto(t, "landed")
  /\ UNCHANGED <<usesMarker, lock, moment, shown, outcome, calls, ticks, midnight>>

\* The single block of the iSystem layout takes effect.
BlockLands(t) ==
  /\ pc[t] = "block"
  /\ regs' = Clock(moment[t])
  /\ elapsed' = 0
  /\ torn' = FALSE
  /\ Goto(t, "landed")
  /\ UNCHANGED <<usesMarker, lock, moment, shown, outcome, calls, ticks, midnight>>

\* Slip: midnight is written as the end of the day.
TimeLands_Midnight24(t) ==
  /\ pc[t] = "time"
  /\ regs' = [regs EXCEPT !.time = IF moment[t].time = 0 THEN Day ELSE moment[t].time,
                          !.weekday = WeekdayOf(moment[t].date)]
  /\ elapsed' = 0
  /\ torn' = TRUE
  /\ Goto(t, "date")
  /\ UNCHANGED <<usesMarker, lock, moment, shown, outcome, calls, ticks, midnight>>

\* The time block, [hour, minute, weekday], takes effect ...
TimeLands(t) ==
  /\ pc[t] = "time"
  /\ regs' = [regs EXCEPT !.time = moment[t].time,
                          !.weekday = WeekdayOf(moment[t].date)]
  /\ elapsed' = 0
  /\ torn' = TRUE
  /\ Goto(t, "date")
  /\ UNCHANGED <<usesMarker, lock, moment, shown, outcome, calls, ticks, midnight>>

\* ... and, once it is acknowledged, the date block, [day, month, year].
DateLands(t) ==
  /\ pc[t] = "date"
  /\ regs' = [regs EXCEPT !.date = moment[t].date]
  /\ torn' = midnight
  /\ Goto(t, "landed")
  /\ UNCHANGED <<usesMarker, lock, moment, shown, outcome, calls, ticks, elapsed, midnight>>

Finish(t, r) ==
  /\ Goto(t, "idle")
  /\ lock' = IF lock = t THEN NoTask ELSE lock
  /\ outcome' = [outcome EXCEPT ![t] = r]

\* The last reply arrives: _retain_written_word keeps the six words written.
Acknowledged(t) ==
  /\ pc[t] = "landed"
  /\ shown' = Clock(moment[t])
  /\ Finish(t, "ok")
  /\ UNCHANGED <<usesMarker, regs, moment, calls, ticks, ghosts>>

(***************************************************************************)
(* A request or its reply is lost, the controller refuses it, or the task  *)
(* is cancelled: what has been written stays, nothing is retained.         *)
(***************************************************************************)
Raises(t) ==
  /\ pc[t] # "idle"
  /\ Finish(t, "raised")
  /\ UNCHANGED <<usesMarker, regs, moment, shown, calls, ticks, ghosts>>

\* The controller's clock runs on its own and turns its date at midnight.
Tick ==
  /\ ticks < MaxTicks
  /\ ticks' = ticks + 1
  /\ elapsed' = elapsed + 1
  /\ regs' = Advance(regs, 1)
  /\ midnight' = (midnight \/ (regs.time = Day - 1 /\ \E t \in Tasks : pc[t] = "date"))
  /\ UNCHANGED <<usesMarker, lock, pc, moment, shown, outcome, calls, torn>>

\* A poll shows the clock the controller reports.
Poll ==
  /\ shown' = regs
  /\ UNCHANGED <<usesMarker, regs, lock, pc, moment, outcome, calls, ticks, ghosts>>

Next ==
  \/ \E t \in Tasks :
       \/ \E m \in Moments : Request(t, m)
       \/ Acquire(t) \/ BlockLands(t) \/ TimeLands(t) \/ DateLands(t)
       \/ Acknowledged(t) \/ Raises(t)
  \/ Tick
  \/ Poll

Spec == Init /\ [][Next]_vars
-----------------------------------------------------------------------------
ClockValues == [time : 0..(Day - 1), weekday : 0..6, date : Nat]
Labels      == {"idle", "waiting", "block", "time", "date", "landed"}

\* Every variable holds a value of the kind the code gives it.
TypeOK ==
  /\ usesMarker \in BOOLEAN
  /\ regs \in ClockValues /\ shown \in ClockValues
  /\ lock \in Tasks \cup {NoTask}
  /\ pc \in [Tasks -> Labels]
  /\ moment \in [Tasks -> Moments]
  /\ outcome \in [Tasks -> {"none", "ok", "raised"}]
  /\ calls \in Nat /\ ticks \in Nat /\ elapsed \in Nat
  /\ midnight \in BOOLEAN /\ torn \in BOOLEAN

(***************************************************************************)
(* The weekday in the controller is the weekday of its date, except after  *)
(* a call that failed between its two blocks or had a midnight pass there. *)
(* Two calls never mix their blocks, a failed call is repaired by the next *)
(* one that succeeds, and a single block cannot be torn at all.            *)
(***************************************************************************)
CalendarConsistent ==
  ~(usesMarker /\ torn) => regs.weekday = WeekdayOf(regs.date)

(***************************************************************************)
(* A call that returns normally has set the clock: the registers hold the  *)
(* moment it was given, advanced by the ticks since its first block took   *)
(* effect, unless a midnight passed between its two blocks.                *)
(***************************************************************************)
OkSetsClock ==
  [][\A t \in Tasks : outcome'[t] = "ok" /\ outcome[t] # "ok" /\ ~midnight =>
       regs = Advance(Clock(moment[t]), elapsed)]_vars
=============================================================================
