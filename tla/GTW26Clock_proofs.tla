-------------------------- MODULE GTW26Clock_proofs --------------------------
(***************************************************************************)
(* Proofs about the clock, for every set of tasks, every length of the day *)
(* and all dates.                                                          *)
(***************************************************************************)
EXTENDS GTW26Clock, TLAPS

AtWork == {"block", "time", "date", "landed"}

(* A call at work holds the lock, in the steps its layout has.             *)
Locked(t) ==
  /\ pc[t] \in AtWork => lock = t
  /\ pc[t] = "block" => ~usesMarker
  /\ pc[t] \in {"time", "date"} => usesMarker

(* Between the two blocks, and before a midnight, the clock shows the time *)
(* of the call and the ticks since, and the call's weekday.                *)
HalfSet(t) ==
  pc[t] = "date" =>
    /\ torn
    /\ ~midnight => /\ regs.time = moment[t].time + elapsed
                    /\ regs.weekday = WeekdayOf(moment[t].date)

(* After the last block it shows the moment of the call, and the ticks     *)
(* since.                                                                  *)
AllSet(t) ==
  pc[t] = "landed" /\ ~midnight => regs = Advance(Clock(moment[t]), elapsed)

Inv ==
  /\ TypeOK
  /\ \A t \in Tasks : Locked(t) /\ HalfSet(t) /\ AllSet(t)
  /\ CalendarConsistent
-----------------------------------------------------------------------------
(* Days and weekdays.                                                      *)

LEMMA Division ==
  \A a \in Nat, d \in Nat : d > 0 =>
    a % d \in 0..(d - 1) /\ a \div d \in Nat /\ a = (a \div d) * d + (a % d)
OBVIOUS

LEMMA DivisionUnique ==
  \A q \in Nat, r \in Nat, d \in Nat : r < d =>
    ((q * d) + r) % d = r /\ ((q * d) + r) \div d = q
OBVIOUS

LEMMA OneMore ==
  ASSUME NEW a \in Nat, NEW d \in Nat \ {0}
  PROVE  /\ ((a % d) + 1) % d = (a + 1) % d
         /\ (a \div d) + (((a % d) + 1) \div d) = (a + 1) \div d
<1>1. PICK q \in Nat, r \in 0..(d - 1) : a = (q * d) + r /\ q = a \div d /\ r = a % d
  <2>1. d \in Nat /\ d > 0
    OBVIOUS
  <2> QED
    BY <2>1, Division
<1>0. d \in Nat /\ q + 1 \in Nat /\ 0 < d
  OBVIOUS
<1>2. CASE r + 1 < d
  <2>1. PICK p \in Nat : p = r + 1 /\ p < d
    BY <1>2
  <2>2. ((q * d) + p) % d = p /\ ((q * d) + p) \div d = q
    BY <1>0, <2>1, DivisionUnique
  <2>3. ((0 * d) + p) % d = p /\ ((0 * d) + p) \div d = 0
    BY <1>0, <2>1, DivisionUnique
  <2>4. a + 1 = (q * d) + p /\ (0 * d) + p = p
    BY <1>1, <2>1
  <2>5. (a + 1) % d = p /\ (a + 1) \div d = q /\ p % d = p /\ p \div d = 0
    BY <2>2, <2>3, <2>4
  <2>6. (a % d) + 1 = p /\ (a \div d) + 0 = q
    BY <1>1, <2>1
  <2> QED
    BY <2>5, <2>6
<1>3. CASE r + 1 = d
  <2>1. (((q + 1) * d) + 0) % d = 0 /\ (((q + 1) * d) + 0) \div d = q + 1
    BY <1>0, DivisionUnique
  <2>2. ((1 * d) + 0) % d = 0 /\ ((1 * d) + 0) \div d = 1
    BY <1>0, DivisionUnique
  <2>3. a + 1 = ((q + 1) * d) + 0 /\ (1 * d) + 0 = d
    BY <1>1, <1>3
  <2>4. (a + 1) % d = 0 /\ (a + 1) \div d = q + 1 /\ d % d = 0 /\ d \div d = 1
    BY <2>1, <2>2, <2>3
  <2>5. (a % d) + 1 = d /\ a \div d = q
    BY <1>1, <1>3
  <2> QED
    BY <2>4, <2>5
<1> QED
  BY <1>1, <1>2, <1>3

LEMMA Weekdays ==
  /\ \A n \in Nat : WeekdayOf(n) \in 0..6 /\ (WeekdayOf(n) + 0) % 7 = WeekdayOf(n)
  /\ \A w, d, e \in Nat : (((w + d) % 7) + e) % 7 = (w + (d + e)) % 7
  /\ \A n, d \in Nat : (WeekdayOf(n) + d) % 7 = WeekdayOf(n + d)
BY DEF WeekdayOf

LEMMA ClockOf ==
  ASSUME NEW m \in Moments
  PROVE  /\ Clock(m) \in ClockValues /\ m.time \in 0..(Day - 1) /\ m.date \in Nat
         /\ Clock(m).weekday = WeekdayOf(Clock(m).date)
BY ClockAssumption, Weekdays DEF Moments, Clock, ClockValues

LEMMA AdvanceType ==
  ASSUME NEW c \in ClockValues, NEW n \in Nat
  PROVE  Advance(c, n) \in ClockValues
<1>1. c.time \in Nat /\ c.weekday \in Nat /\ c.date \in Nat /\ Day \in Nat /\ Day > 0
  BY ClockAssumption DEF ClockValues
<1>2. (c.time + n) % Day \in 0..(Day - 1) /\ (c.time + n) \div Day \in Nat
  BY <1>1, Division
<1>3. \A w \in Nat : w % 7 \in 0..6
  OBVIOUS
<1> QED
  BY <1>1, <1>2, <1>3 DEF Advance, ClockValues

LEMMA AdvanceNone ==
  ASSUME NEW c \in ClockValues
  PROVE  Advance(c, 0) = c
<1>1. c.time \in 0..(Day - 1) /\ c.weekday \in 0..6 /\ c.date \in Nat /\ Day \in Nat
      /\ c = [time |-> c.time, weekday |-> c.weekday, date |-> c.date]
  BY ClockAssumption DEF ClockValues
<1>2. (c.time + 0) % Day = c.time /\ (c.time + 0) \div Day = 0
  BY <1>1
<1>3. (c.weekday + 0) % 7 = c.weekday
  BY <1>1
<1> QED
  BY <1>1, <1>2, <1>3 DEF Advance

LEMMA AdvanceMore ==
  ASSUME NEW c \in ClockValues, NEW n \in Nat
  PROVE  Advance(Advance(c, n), 1) = Advance(c, n + 1)
<1> DEFINE a == c.time + n
           x == (a % Day) + 1
<1>1. a \in Nat /\ c.weekday \in Nat /\ c.date \in Nat /\ Day \in Nat \ {0} /\ Day \in Nat /\ Day > 0
  BY ClockAssumption DEF ClockValues
<1>2. a % Day \in 0..(Day - 1) /\ a \div Day \in Nat /\ x \in Nat /\ x \div Day \in Nat
  BY <1>1, Division
<1>3. x % Day = (a + 1) % Day /\ (a \div Day) + (x \div Day) = (a + 1) \div Day
  BY <1>1, OneMore
<1>4. a + 1 = c.time + (n + 1)
  BY <1>1 DEF ClockValues
<1>5. (((c.weekday + (a \div Day)) % 7) + (x \div Day)) % 7
        = (c.weekday + ((a \div Day) + (x \div Day))) % 7
  <2>1. PICK e \in Nat, f \in Nat : e = a \div Day /\ f = x \div Day
    BY <1>2
  <2>2. PICK w \in Nat : w = c.weekday
    BY <1>1
  <2>3. (((w + e) % 7) + f) % 7 = (w + (e + f)) % 7
    BY Weekdays
  <2> QED
    BY <2>1, <2>2, <2>3
<1>6. (c.date + (a \div Day)) + (x \div Day) = c.date + ((a \div Day) + (x \div Day))
  BY <1>1, <1>2
<1> QED
  BY <1>3, <1>4, <1>5, <1>6 DEF Advance

\* A tick keeps weekday and date together, and changes neither before midnight.
LEMMA AdvanceKeeps ==
  ASSUME NEW c \in ClockValues
  PROVE  /\ c.weekday = WeekdayOf(c.date) =>
              Advance(c, 1).weekday = WeekdayOf(Advance(c, 1).date)
         /\ c.time # Day - 1 =>
              Advance(c, 1) = [time |-> c.time + 1, weekday |-> c.weekday, date |-> c.date]
<1>1. c.time \in 0..(Day - 1) /\ c.weekday \in 0..6 /\ c.date \in Nat /\ Day \in Nat /\ Day > 0
  BY ClockAssumption DEF ClockValues
<1>2. (c.time + 1) \div Day \in Nat
  BY <1>1, Division
<1>3. ASSUME c.time # Day - 1
      PROVE  (c.time + 1) % Day = c.time + 1 /\ (c.time + 1) \div Day = 0
  <2>1. c.time + 1 = (0 * Day) + (c.time + 1) /\ c.time + 1 \in Nat /\ c.time + 1 < Day
    BY <1>1, <1>3
  <2> QED
    BY <1>1, <2>1, DivisionUnique
<1>4. (c.weekday + 0) % 7 = c.weekday /\ c.date + 0 = c.date
  BY <1>1
<1> QED
  BY <1>1, <1>2, <1>3, <1>4, Weekdays DEF Advance
-----------------------------------------------------------------------------
(* The invariant.                                                          *)

LEMMA InvInit == Init => Inv
<1> SUFFICES ASSUME Init PROVE Inv
  OBVIOUS
<1>1. PICK m \in Moments : regs = Clock(m)
  BY DEF Init
<1>2. regs \in ClockValues /\ regs.weekday = WeekdayOf(regs.date)
  BY <1>1, ClockOf
<1>3. TypeOK
  BY <1>2 DEF Init, TypeOK, Labels
<1> QED
  BY <1>2, <1>3 DEF Init, Inv, Locked, HalfSet, AllSet, CalendarConsistent, AtWork

\* A step that leaves the clock, and puts no task to work.
LEMMA Idles ==
  ASSUME Inv, NEW t \in Tasks, TypeOK',
         UNCHANGED <<usesMarker, regs, ghosts>>,
         \A u \in Tasks \ {t} : pc'[u] = pc[u] /\ moment'[u] = moment[u]
                                /\ (lock = u => lock' = u),
         pc'[t] \notin AtWork
  PROVE  Inv'
<1>1. UNCHANGED <<usesMarker, regs, elapsed, midnight, torn>>
  BY DEF ghosts
<1>2. CalendarConsistent'
  BY <1>1 DEF Inv, CalendarConsistent
<1>3. ASSUME NEW u \in Tasks PROVE Locked(u)' /\ HalfSet(u)' /\ AllSet(u)'
  <2>1. CASE u = t
    BY <2>1 DEF Locked, HalfSet, AllSet, AtWork
  <2>2. CASE u # t
    <3>1. pc'[u] = pc[u] /\ moment'[u] = moment[u] /\ (lock = u => lock' = u)
      BY <2>2
    <3>2. Locked(u) /\ HalfSet(u) /\ AllSet(u)
      BY DEF Inv
    <3> QED
      BY <1>1, <3>1, <3>2 DEF Locked, HalfSet, AllSet
  <2> QED
    BY <2>1, <2>2
<1> QED
  BY <1>2, <1>3 DEF Inv

LEMMA TypeStep ==
  ASSUME TypeOK, Next
  PROVE  TypeOK'
<1> USE ClockAssumption
<1>1. ASSUME NEW t \in Tasks, NEW m \in Moments, Request(t, m) PROVE TypeOK'
  BY <1>1 DEF TypeOK, Request, Goto, Labels, ghosts
<1>2. ASSUME NEW t \in Tasks, Acquire(t) PROVE TypeOK'
  BY <1>2 DEF TypeOK, Acquire, Goto, Labels
<1>3. ASSUME NEW t \in Tasks, BlockLands(t) PROVE TypeOK'
  BY <1>3, ClockOf DEF TypeOK, BlockLands, Goto, Labels
<1>4. ASSUME NEW t \in Tasks, TimeLands(t) PROVE TypeOK'
  <2>1. moment[t].time \in 0..(Day - 1) /\ WeekdayOf(moment[t].date) \in 0..6
    BY <1>4, ClockOf, Weekdays DEF TypeOK
  <2>2. regs' \in ClockValues
    BY <1>4, <2>1 DEF TimeLands, TypeOK, ClockValues
  <2> QED
    BY <1>4, <2>2 DEF TypeOK, TimeLands, Goto, Labels
<1>5. ASSUME NEW t \in Tasks, DateLands(t) PROVE TypeOK'
  <2>1. moment[t].date \in Nat
    BY <1>5, ClockOf DEF TypeOK
  <2>2. regs' \in ClockValues
    BY <1>5, <2>1 DEF DateLands, TypeOK, ClockValues
  <2> QED
    BY <1>5, <2>2 DEF TypeOK, DateLands, Goto, Labels
<1>6. ASSUME NEW t \in Tasks, Acknowledged(t) PROVE TypeOK'
  BY <1>6, ClockOf DEF TypeOK, Acknowledged, Finish, Goto, Labels, ghosts
<1>7. ASSUME NEW t \in Tasks, Raises(t) PROVE TypeOK'
  BY <1>7 DEF TypeOK, Raises, Finish, Goto, Labels, ghosts
<1>8. CASE Tick
  BY <1>8, AdvanceType DEF TypeOK, Tick
<1>9. CASE Poll
  BY <1>9 DEF TypeOK, Poll, ghosts
<1> QED
  BY <1>1, <1>2, <1>3, <1>4, <1>5, <1>6, <1>7, <1>8, <1>9 DEF Next

\* The task that holds the lock takes a step; nobody else is at work.
LEMMA OthersIdle ==
  ASSUME Inv, NEW t \in Tasks, lock = t \/ lock = NoTask
  PROVE  \A u \in Tasks \ {t} : pc[u] \notin AtWork
BY ClockAssumption DEF Inv, Locked

LEMMA Works ==
  ASSUME Inv, NEW t \in Tasks, TypeOK', \A u \in Tasks \ {t} : pc[u] \notin AtWork,
         \A u \in Tasks \ {t} : pc'[u] = pc[u],
         Locked(t)', HalfSet(t)', AllSet(t)', CalendarConsistent'
  PROVE  Inv'
<1>1. ASSUME NEW u \in Tasks \ {t} PROVE Locked(u)' /\ HalfSet(u)' /\ AllSet(u)'
  BY <1>1 DEF Locked, HalfSet, AllSet, AtWork
<1> QED
  BY <1>1 DEF Inv

LEMMA InvStep ==
  ASSUME Inv, [Next]_vars
  PROVE  Inv'
<1> USE ClockAssumption
<1>1. ASSUME NEW t \in Tasks, NEW m \in Moments, Request(t, m) PROVE Inv'
  <2>1. TypeOK'
    BY <1>1, TypeStep DEF Next, Inv
  <2>2. pc'[t] \notin AtWork /\ UNCHANGED <<usesMarker, regs, ghosts, lock>>
        /\ \A u \in Tasks \ {t} : pc'[u] = pc[u] /\ moment'[u] = moment[u]
    BY <1>1 DEF Request, Goto, AtWork, Inv, TypeOK
  <2> QED
    BY <2>1, <2>2, Idles
<1>2. ASSUME NEW t \in Tasks, Acquire(t) PROVE Inv'
  <2>1. TypeOK'
    BY <1>2, TypeStep DEF Next, Inv
  <2>2. /\ lock = NoTask /\ pc'[t] = IF usesMarker THEN "time" ELSE "block"
        /\ \A u \in Tasks \ {t} : pc'[u] = pc[u]
        /\ UNCHANGED <<usesMarker, regs, torn>> /\ lock' = t
    BY <1>2 DEF Acquire, Goto, Inv, TypeOK
  <2>3. Locked(t)' /\ HalfSet(t)' /\ AllSet(t)' /\ CalendarConsistent'
    BY <2>2 DEF Locked, HalfSet, AllSet, CalendarConsistent, Inv, AtWork
  <2> QED
    BY <2>1, <2>2, <2>3, OthersIdle, Works
<1>3. ASSUME NEW t \in Tasks, BlockLands(t) PROVE Inv'
  <2>1. TypeOK'
    BY <1>3, TypeStep DEF Next, Inv
  <2>2. /\ lock = t /\ ~usesMarker /\ pc'[t] = "landed" /\ regs' = Clock(moment[t]) /\ elapsed' = 0
        /\ \A u \in Tasks \ {t} : pc'[u] = pc[u]
        /\ UNCHANGED <<usesMarker, lock, moment>> /\ moment[t] \in Moments
    BY <1>3 DEF BlockLands, Goto, Inv, TypeOK, Locked, AtWork
  <2>3. Clock(moment[t]) = Advance(Clock(moment[t]), 0)
    BY <2>2, ClockOf, AdvanceNone
  <2>4. Locked(t)' /\ HalfSet(t)' /\ AllSet(t)'
    BY <2>2, <2>3 DEF Locked, HalfSet, AllSet
  <2>5. CalendarConsistent'
    BY <2>2, ClockOf DEF CalendarConsistent
  <2> QED
    BY <2>1, <2>2, <2>4, <2>5, OthersIdle, Works
<1>4. ASSUME NEW t \in Tasks, TimeLands(t) PROVE Inv'
  <2>1. TypeOK'
    BY <1>4, TypeStep DEF Next, Inv
  <2>2. /\ lock = t /\ usesMarker /\ pc'[t] = "date" /\ elapsed' = 0 /\ torn' = TRUE
        /\ regs'.time = moment[t].time /\ regs'.weekday = WeekdayOf(moment[t].date)
        /\ \A u \in Tasks \ {t} : pc'[u] = pc[u]
        /\ UNCHANGED <<usesMarker, lock, moment>>
        /\ moment[t] \in Moments
    BY <1>4 DEF TimeLands, Goto, Inv, TypeOK, Locked, AtWork, ClockValues
  <2>3. moment[t].time = moment[t].time + 0
    BY <2>2, ClockOf
  <2>4. Locked(t)' /\ HalfSet(t)' /\ AllSet(t)' /\ CalendarConsistent'
    BY <2>2, <2>3 DEF Locked, HalfSet, AllSet, CalendarConsistent
  <2> QED
    BY <2>1, <2>2, <2>4, OthersIdle, Works
<1>5. ASSUME NEW t \in Tasks, DateLands(t) PROVE Inv'
  <2>1. TypeOK'
    BY <1>5, TypeStep DEF Next, Inv
  <2>2. /\ lock = t /\ usesMarker /\ pc'[t] = "landed" /\ torn' = midnight
        /\ regs' = [time |-> regs.time, weekday |-> regs.weekday, date |-> moment[t].date]
        /\ \A u \in Tasks \ {t} : pc'[u] = pc[u]
        /\ UNCHANGED <<usesMarker, lock, moment, elapsed, midnight>>
        /\ moment[t] \in Moments /\ elapsed \in Nat /\ regs \in ClockValues
    BY <1>5 DEF DateLands, Goto, Inv, TypeOK, Locked, AtWork, ClockValues
  <2>3. ASSUME ~midnight
        PROVE  /\ regs.time = moment[t].time + elapsed
               /\ regs.weekday = WeekdayOf(moment[t].date)
    BY <1>5, <2>3 DEF Inv, HalfSet, DateLands
  <2>4. ASSUME ~midnight PROVE regs' = Advance(Clock(moment[t]), elapsed)
    <3>1. /\ moment[t].time + elapsed \in 0..(Day - 1)
          /\ moment[t].date \in Nat /\ WeekdayOf(moment[t].date) \in 0..6
      BY <2>2, <2>3, <2>4, ClockOf, Weekdays DEF ClockValues
    <3>2. /\ (moment[t].time + elapsed) % Day = moment[t].time + elapsed
          /\ (moment[t].time + elapsed) \div Day = 0
      BY <3>1
    <3>3. (WeekdayOf(moment[t].date) + 0) % 7 = WeekdayOf(moment[t].date)
          /\ moment[t].date + 0 = moment[t].date
      <4>1. PICK n \in Nat : n = moment[t].date
        BY <3>1
      <4>2. (WeekdayOf(n) + 0) % 7 = WeekdayOf(n)
        BY Weekdays
      <4> QED
        BY <4>1, <4>2
    <3> QED
      BY <2>2, <2>3, <2>4, <3>2, <3>3 DEF Advance, Clock
  <2>5. Locked(t)' /\ HalfSet(t)' /\ AllSet(t)' /\ CalendarConsistent'
    BY <2>2, <2>3, <2>4 DEF Locked, HalfSet, AllSet, CalendarConsistent
  <2> QED
    BY <2>1, <2>2, <2>5, OthersIdle, Works
<1>6. ASSUME NEW t \in Tasks, Acknowledged(t) \/ Raises(t) PROVE Inv'
  <2>1. TypeOK'
    BY <1>6, TypeStep DEF Next, Inv
  <2>2. pc'[t] \notin AtWork /\ UNCHANGED <<usesMarker, regs, ghosts, moment>>
        /\ \A u \in Tasks \ {t} : pc'[u] = pc[u] /\ (lock = u => lock' = u)
    BY <1>6 DEF Acknowledged, Raises, Finish, Goto, AtWork, Inv, TypeOK
  <2> QED
    BY <2>1, <2>2, Idles
<1>7. CASE Tick
  <2>1. TypeOK'
    BY <1>7, TypeStep DEF Next, Inv
  <2>2. /\ regs \in ClockValues /\ elapsed \in Nat /\ moment \in [Tasks -> Moments]
        /\ UNCHANGED <<usesMarker, lock, pc, moment, torn>>
        /\ elapsed' = elapsed + 1 /\ regs' = Advance(regs, 1)
        /\ midnight' = (midnight \/ (regs.time = Day - 1 /\ \E t \in Tasks : pc[t] = "date"))
    BY <1>7 DEF Tick, Inv, TypeOK
  <2>3. CalendarConsistent'
    BY <2>2, AdvanceKeeps DEF Inv, CalendarConsistent
  <2>4. ASSUME NEW t \in Tasks PROVE Locked(t)'
    BY <2>2 DEF Inv, Locked
  <2>5. ASSUME NEW t \in Tasks, pc[t] = "date", ~midnight'
        PROVE  HalfSet(t)'
    <3>1. ~midnight /\ regs.time # Day - 1 /\ torn
          /\ regs.time = moment[t].time + elapsed /\ regs.weekday = WeekdayOf(moment[t].date)
      BY <2>2, <2>5 DEF Inv, HalfSet
    <3>2. regs'.time = regs.time + 1 /\ regs'.weekday = regs.weekday
      BY <2>2, <3>1, AdvanceKeeps
    <3>3. moment[t].time \in Nat
      BY <2>2, ClockOf
    <3>4. regs'.time = moment[t].time + (elapsed + 1)
      BY <2>2, <3>1, <3>2, <3>3
    <3> QED
      BY <2>2, <3>1, <3>2, <3>4 DEF HalfSet
  <2>6. ASSUME NEW t \in Tasks PROVE HalfSet(t)'
    BY <2>2, <2>5 DEF Inv, HalfSet
  <2>7. ASSUME NEW t \in Tasks PROVE AllSet(t)'
    <3> SUFFICES ASSUME pc[t] = "landed", ~midnight
                 PROVE  regs' = Advance(Clock(moment[t]), elapsed')
      BY <2>2 DEF AllSet
    <3>1. regs = Advance(Clock(moment[t]), elapsed) /\ Clock(moment[t]) \in ClockValues
      BY <2>2, ClockOf DEF Inv, AllSet
    <3> QED
      BY <2>2, <3>1, AdvanceMore
  <2> QED
    BY <2>1, <2>3, <2>4, <2>6, <2>7 DEF Inv
<1>8. CASE Poll
  <2>1. TypeOK'
    BY <1>8, TypeStep DEF Next, Inv
  <2> QED
    BY <1>8, <2>1 DEF Poll, Inv, Locked, HalfSet, AllSet, CalendarConsistent, ghosts
<1>9. CASE UNCHANGED vars
  BY <1>9 DEF vars, Inv, TypeOK, Locked, HalfSet, AllSet, CalendarConsistent
<1> QED
  BY <1>1, <1>2, <1>3, <1>4, <1>5, <1>6, <1>7, <1>8, <1>9 DEF Next
-----------------------------------------------------------------------------
(* The theorems.                                                           *)

(* The inductive invariant: what holding the lock, a half-set clock and a  *)
(* finished call say of the date, the time and the weekday shown.          *)
THEOREM InvHolds == Spec => []Inv
<1>1. Init => Inv
  BY InvInit
<1>2. Inv /\ [Next]_vars => Inv'
  BY InvStep
<1> QED
  BY <1>1, <1>2, PTL DEF Spec

(* The weekday is that of the date, except where a call failed or a        *)
(* midnight passed between its two blocks (async_set_clock).               *)
THEOREM Consistent == Spec => []CalendarConsistent
<1>1. Inv => CalendarConsistent
  BY DEF Inv
<1> QED
  BY <1>1, InvHolds, PTL

(* Type correctness: every clock the registers and the components hold has *)
(* a time of the day and a weekday.                                        *)
THEOREM TypeCorrect == Spec => []TypeOK
<1>1. Inv => TypeOK
  BY DEF Inv
<1> QED
  BY <1>1, InvHolds, PTL

(* A call that returns normally has set the clock to its moment and the    *)
(* ticks since, unless a midnight passed between its blocks.               *)
THEOREM OkIsSet == Spec => OkSetsClock
<1>1. ASSUME Inv, Next, NEW t \in Tasks, outcome'[t] = "ok", outcome[t] # "ok", ~midnight
      PROVE  regs = Advance(Clock(moment[t]), elapsed)
  <2>1. Acknowledged(t)
    <3>1. outcome \in [Tasks -> {"none", "ok", "raised"}]
      BY <1>1 DEF Inv, TypeOK
    <3>2. ASSUME NEW u \in Tasks, NEW m \in Moments, Request(u, m) PROVE FALSE
      BY <1>1, <3>1, <3>2 DEF Request
    <3>3. ASSUME NEW u \in Tasks, Acquire(u) \/ BlockLands(u) \/ TimeLands(u) \/ DateLands(u)
          PROVE  FALSE
      BY <1>1, <3>3 DEF Acquire, BlockLands, TimeLands, DateLands
    <3>4. ASSUME NEW u \in Tasks, Raises(u) PROVE FALSE
      BY <1>1, <3>1, <3>4 DEF Raises, Finish
    <3>5. ASSUME NEW u \in Tasks, Acknowledged(u) PROVE u = t
      BY <1>1, <3>1, <3>5 DEF Acknowledged, Finish
    <3>6. ~Tick /\ ~Poll
      BY <1>1 DEF Tick, Poll
    <3> QED
      BY <1>1, <3>2, <3>3, <3>4, <3>5, <3>6 DEF Next
  <2> QED
    BY <1>1, <2>1 DEF Inv, AllSet, Acknowledged
<1>2. Inv /\ [Next]_vars =>
        [\A t \in Tasks : outcome'[t] = "ok" /\ outcome[t] # "ok" /\ ~midnight =>
           regs = Advance(Clock(moment[t]), elapsed)]_vars
  BY <1>1
<1> QED
  BY <1>2, InvHolds, PTL DEF Spec, OkSetsClock
=============================================================================
