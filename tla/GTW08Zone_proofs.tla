-------------------------- MODULE GTW08Zone_proofs --------------------------
(***************************************************************************)
(* Proofs about the climate zone, for every set of tasks, every length of  *)
(* a week and every bound of the model.                                    *)
(***************************************************************************)
EXTENDS GTW08Zone, FiniteSetTheorems, SequenceTheorems, TLAPS

-----------------------------------------------------------------------------
(* What plans consist of.                                                  *)

RegisterWrites ==
  { w \in [field : Fields, schedule : {0}, day : {0}, value : Nat] :
      /\ w.field = "mode" => w.value \in Modes
      /\ w.field = "selectedSchedule" => w.value \in 0..2 }
DayWrites == [field : {"slots"}, schedule : ScheduleIds, day : Days, value : {Default, Given}]
Writes    == RegisterWrites \cup DayWrites

Target(w) == <<w.field, w.schedule, w.day>>

Distinct(p) == \A i, j \in DOMAIN p : i # j => Target(p[i]) # Target(p[j])

\* Only an override's plan has an end, after the override's own setpoint.
OwnSetpointFirst(r, p) ==
  \A i \in DOMAIN p : p[i].field = "temporaryEnd" =>
    r.op = "set_current_setpoint" /\ i = 2 /\ p[1] = Put("temporaryRoom", r.arg)

Has(p, w) == \E i \in DOMAIN p : p[i] = w

\* A plan has the writes its call promises.
Covers(r, p) ==
  /\ r.op = "set_mode" => Has(p, Put("mode", r.arg))
  /\ r.op = "set_selected_schedule" =>
       Has(p, Put("selectedSchedule", SelectedForWrite(r.arg)))
  /\ r.op = "set_current_schedule" => \A d \in Days : Has(p, PutDay(r.arg, d, Given))
  /\ r.op = "set_day_schedule" => Has(p, PutDay(r.arg, r.day, Given))
  /\ r.op = "enable_holiday_mode" =>
       Has(p, Put("holidayStart", r.arg[1])) /\ Has(p, Put("holidayEnd", r.arg[2]))
  /\ r.op = "disable_holiday_mode" =>
       Has(p, Put("holidayStart", 0)) /\ Has(p, Put("holidayEnd", 0))
  /\ r.op = "repair_invalid_schedules" => p = RepairPlan

Good(r, p) ==
  p \in Seq(Writes) /\ Distinct(p) /\ OwnSetpointFirst(r, p) /\ Covers(r, p)

-----------------------------------------------------------------------------
(* The plans of the calls.                                                 *)

LEMMA Numbers ==
  /\ 0 \in Days /\ Days \subseteq Nat /\ DayCount \in Nat \ {0}
  /\ ScheduleIds = 0..3 /\ Schedules \subseteq ScheduleIds
  /\ Modes = {0, 1, 2} /\ Temps \subseteq Nat /\ Moments \subseteq Nat
BY ZoneAssumption
DEF Days, ScheduleIds, SCHEDULE_1, SCHEDULE_4, Modes, SCHEDULING, MANUAL, ANTI_FROST

LEMMA PutIsWrite ==
  ASSUME NEW f \in Fields \ {"mode", "selectedSchedule"}, NEW v \in Nat
  PROVE  /\ Put(f, v) \in Writes
         /\ Put(f, v).field = f /\ Put(f, v).value = v /\ Target(Put(f, v)) = <<f, 0, 0>>
BY DEF Put, Writes, RegisterWrites, Target

LEMMA PutDayIsWrite ==
  ASSUME NEW s \in ScheduleIds, NEW d \in Days, NEW v \in {Default, Given}
  PROVE  /\ PutDay(s, d, v) \in Writes
         /\ PutDay(s, d, v).field = "slots" /\ Target(PutDay(s, d, v)) = <<"slots", s, d>>
BY DEF PutDay, Writes, DayWrites, Target

LEMMA OnePlan ==
  ASSUME NEW w \in Writes
  PROVE  /\ <<w>> \in Seq(Writes) /\ Distinct(<<w>>) /\ Has(<<w>>, w)
         /\ Len(<<w>>) = 1 /\ <<w>>[1] = w
BY DEF Distinct, Has

LEMMA TwoPlan ==
  ASSUME NEW v \in Writes, NEW w \in Writes, Target(v) # Target(w)
  PROVE  /\ <<v, w>> \in Seq(Writes) /\ Distinct(<<v, w>>)
         /\ Has(<<v, w>>, v) /\ Has(<<v, w>>, w)
         /\ Len(<<v, w>>) = 2 /\ <<v, w>>[1] = v /\ <<v, w>>[2] = w
BY DEF Distinct, Has

LEMMA EmptyPlan == <<>> \in Seq(Writes) /\ Distinct(<<>>) /\ DOMAIN <<>> = {}
BY DEF Distinct

\* A setpoint's plan: nothing, one setpoint register, or an override.
LEMMA SetpointShape ==
  ASSUME NEW v \in Nat, kind \in Kinds, shown["mode"] \in Modes
  PROVE  \/ SetpointPlan(v) = <<>>
         \/ \E f \in {"roomHoliday", "roomManual", "dhwHoliday", "dhwComfort", "dhwReduced"} :
              SetpointPlan(v) = <<Put(f, v)>>
         \/ SetpointPlan(v) = <<Put("temporaryRoom", v), Put("temporaryEnd", 0)>>
<1>1. SetpointPlan(v) \in {<<>>, HeatingSetpoint(v), HotWaterSetpoint(v)}
  BY ZoneAssumption DEF SetpointPlan, IsHotWater, IsCentralHeating
<1>2. \/ HeatingSetpoint(v) = <<>>
      \/ \E f \in {"roomHoliday", "roomManual"} : HeatingSetpoint(v) = <<Put(f, v)>>
      \/ HeatingSetpoint(v) = <<Put("temporaryRoom", v), Put("temporaryEnd", 0)>>
  BY DEF HeatingSetpoint, Modes, SCHEDULING, MANUAL, ANTI_FROST
<1>3. \/ HotWaterSetpoint(v) = <<>>
      \/ \E f \in {"dhwHoliday", "dhwComfort", "dhwReduced"} : HotWaterSetpoint(v) = <<Put(f, v)>>
  BY DEF HotWaterSetpoint, Modes, SCHEDULING, MANUAL, ANTI_FROST
<1>4. QED
  BY <1>1, <1>2, <1>3

LEMMA SetpointGood ==
  ASSUME NEW r, r.op = "set_current_setpoint", r.arg \in Temps,
         kind \in Kinds, shown["mode"] \in Modes
  PROVE  Good(r, SetpointPlan(r.arg))
<1> DEFINE v == r.arg
           p == SetpointPlan(v)
<1>1. v \in Nat
  BY Numbers
<1>2. \/ p = <<>>
      \/ \E f \in {"roomHoliday", "roomManual", "dhwHoliday", "dhwComfort", "dhwReduced"} :
           p = <<Put(f, v)>>
      \/ p = <<Put("temporaryRoom", v), Put("temporaryEnd", 0)>>
  BY <1>1, SetpointShape
<1>3. CASE p = <<>>
  BY <1>3, EmptyPlan DEF Good, OwnSetpointFirst, Covers
<1>4. ASSUME NEW f \in {"roomHoliday", "roomManual", "dhwHoliday", "dhwComfort", "dhwReduced"},
             p = <<Put(f, v)>>
      PROVE  Good(r, p)
  <2>1. Put(f, v) \in Writes /\ Put(f, v).field # "temporaryEnd"
    BY <1>1, PutIsWrite DEF Fields, Setpoints, Times
  <2>2. QED
    BY <1>4, <2>1, OnePlan DEF Good, OwnSetpointFirst, Covers
<1>5. CASE p = <<Put("temporaryRoom", v), Put("temporaryEnd", 0)>>
  <2>1. /\ Put("temporaryRoom", v) \in Writes /\ Put("temporaryEnd", 0) \in Writes
        /\ Target(Put("temporaryRoom", v)) # Target(Put("temporaryEnd", 0))
        /\ Put("temporaryRoom", v).field # "temporaryEnd"
    BY <1>1, PutIsWrite DEF Fields, Setpoints, Times
  <2>2. QED
    BY <1>5, <2>1, TwoPlan DEF Good, OwnSetpointFirst, Covers
<1>6. QED
  BY <1>2, <1>3, <1>4, <1>5

LEMMA SelectGood ==
  ASSUME NEW s \in ScheduleIds
  PROVE  /\ Put("selectedSchedule", SelectedForWrite(s)) \in Writes
         /\ Target(Put("selectedSchedule", SelectedForWrite(s))) = <<"selectedSchedule", 0, 0>>
BY Numbers
DEF Put, Writes, RegisterWrites, Fields, Target, SelectedForWrite, SCHEDULE_1, SCHEDULE_4

LEMMA SimpleGood ==
  ASSUME NEW r, NEW w \in Writes, w.field # "temporaryEnd", Covers(r, <<w>>)
  PROVE  Good(r, <<w>>)
BY OnePlan DEF Good, OwnSetpointFirst

LEMMA HolidayGood ==
  ASSUME NEW r, r.op \in {"enable_holiday_mode", "disable_holiday_mode"},
         NEW a \in Nat, NEW b \in Nat,
         r.op = "enable_holiday_mode" => r.arg[1] = a /\ r.arg[2] = b,
         r.op = "disable_holiday_mode" => a = 0 /\ b = 0
  PROVE  Good(r, HolidayPlan(<<a, b>>))
<1>1. /\ Put("holidayStart", a) \in Writes /\ Put("holidayEnd", b) \in Writes
      /\ Target(Put("holidayStart", a)) # Target(Put("holidayEnd", b))
      /\ Put("holidayStart", a).field # "temporaryEnd"
      /\ Put("holidayEnd", b).field # "temporaryEnd"
  BY PutIsWrite DEF Fields, Times
<1>2. HolidayPlan(<<a, b>>) = <<Put("holidayStart", a), Put("holidayEnd", b)>>
  BY DEF HolidayPlan
<1>3. /\ HolidayPlan(<<a, b>>) \in Seq(Writes) /\ Distinct(HolidayPlan(<<a, b>>))
      /\ Has(HolidayPlan(<<a, b>>), Put("holidayStart", a))
      /\ Has(HolidayPlan(<<a, b>>), Put("holidayEnd", b))
  <2>1. \A v, w \in Writes : Target(v) # Target(w) =>
          /\ <<v, w>> \in Seq(Writes) /\ Distinct(<<v, w>>)
          /\ Has(<<v, w>>, v) /\ Has(<<v, w>>, w)
    BY TwoPlan
  <2>2. QED
    BY <1>1, <1>2, <2>1, Zenon
<1>4. OwnSetpointFirst(r, HolidayPlan(<<a, b>>))
  BY <1>1, <1>2, TwoPlan DEF OwnSetpointFirst
<1>5. Covers(r, HolidayPlan(<<a, b>>))
  BY <1>3 DEF Covers
<1>6. QED
  BY <1>3, <1>4, <1>5 DEF Good

OnlyDays(p) == \A i \in DOMAIN p : p[i].field = "slots"

\* The days of a week program, in order.
Week(s) == [i \in 1..DayCount |-> PutDay(s, i - 1, Given)]

LEMMA WeekIsPlan ==
  ASSUME NEW s \in ScheduleIds
  PROVE  /\ Week(s) \in Seq(Writes) /\ Len(Week(s)) = DayCount
         /\ \A i \in 1..DayCount : /\ Week(s)[i] = PutDay(s, i - 1, Given)
                                   /\ Week(s)[i].field = "slots"
                                   /\ Target(Week(s)[i]) = <<"slots", s, i - 1>>
         /\ \A d \in Days : Has(Week(s), PutDay(s, d, Given))
<1>1. \A i \in 1..DayCount : i - 1 \in Days
  BY Numbers DEF Days
<1>2. \A i \in 1..DayCount : /\ Week(s)[i] = PutDay(s, i - 1, Given)
                             /\ Week(s)[i] \in Writes
                             /\ Week(s)[i].field = "slots"
                             /\ Target(Week(s)[i]) = <<"slots", s, i - 1>>
  BY <1>1, PutDayIsWrite DEF Week
<1>3. Week(s) \in Seq(Writes) /\ Len(Week(s)) = DayCount
  BY <1>2, Numbers DEF Week
<1>4. ASSUME NEW d \in Days PROVE Has(Week(s), PutDay(s, d, Given))
  <2>1. d + 1 \in 1..DayCount /\ (d + 1) - 1 = d
    BY Numbers DEF Days
  <2>2. Week(s)[d + 1] = PutDay(s, d, Given)
    BY <2>1, <1>2
  <2>3. QED
    BY <2>1, <2>2, <1>3 DEF Has
<1>5. QED
  BY <1>2, <1>3, <1>4

\* A week's plan also selects its schedule, unless the component shows it.
LEMMA WeekGood ==
  ASSUME NEW r, r.op = "set_current_schedule", r.arg \in ScheduleIds
  PROVE  /\ Good(r, WeekPlan(r.arg))
         /\ SelectedForRead # r.arg =>
              Has(WeekPlan(r.arg), Put("selectedSchedule", SelectedForWrite(r.arg)))
         /\ SelectedForRead = r.arg => OnlyDays(WeekPlan(r.arg))
<1> DEFINE s == r.arg
           w == Put("selectedSchedule", SelectedForWrite(s))
<1>1. WeekPlan(s) = (IF SelectedForRead # s THEN <<w>> ELSE <<>>) \o Week(s)
  BY DEF WeekPlan, SelectPlan, Week
<1>2. w \in Writes /\ Target(w) = <<"selectedSchedule", 0, 0>> /\ w.field # "temporaryEnd"
  BY SelectGood DEF Put
<1>3. CASE SelectedForRead = s
  <2>1. WeekPlan(s) = Week(s)
    BY <1>1, <1>3, WeekIsPlan
  <2>2. Distinct(Week(s))
    <3>1. DOMAIN Week(s) = 1..DayCount
      BY DEF Week
    <3>2. \A i, j \in 1..DayCount : i # j => <<"slots", s, i - 1>> # <<"slots", s, j - 1>>
      BY Numbers
    <3>3. \A i, j \in 1..DayCount : i # j => Target(Week(s)[i]) # Target(Week(s)[j])
      BY <3>2, WeekIsPlan
    <3>4. QED
      BY <3>1, <3>3 DEF Distinct
  <2>3. OwnSetpointFirst(r, Week(s))
    BY WeekIsPlan DEF OwnSetpointFirst
  <2>4. OnlyDays(Week(s))
    BY WeekIsPlan DEF OnlyDays
  <2>5. QED
    BY <1>3, <2>1, <2>2, <2>3, <2>4, WeekIsPlan DEF Good, Covers
<1>4. CASE SelectedForRead # s
  <2> DEFINE p == <<w>> \o Week(s)
  <2>0. /\ <<w>> \in Seq(Writes) /\ Len(<<w>>) = 1 /\ <<w>>[1] = w
        /\ Week(s) \in Seq(Writes) /\ Len(Week(s)) = DayCount /\ DayCount \in Nat
    BY <1>2, OnePlan, WeekIsPlan, Numbers
  <2>1. /\ p \in Seq(Writes) /\ Len(p) = 1 + DayCount
        /\ \A i \in 1..Len(p) : p[i] = IF i <= 1 THEN <<w>>[i] ELSE Week(s)[i - 1]
    <3>1. p \in Seq(Writes) /\ Len(p) = 1 + DayCount
      BY <2>0, ConcatProperties
    <3>2. \A i \in 1..Len(p) : p[i] = IF i <= Len(<<w>>) THEN <<w>>[i] ELSE Week(s)[i - Len(<<w>>)]
      BY <2>0, ConcatProperties
    <3>3. QED
      BY <2>0, <3>1, <3>2
  <2>2. /\ p[1] = w
        /\ \A i \in 1..DayCount : p[i + 1] = Week(s)[i]
        /\ \A i \in DOMAIN p : i = 1 \/ (i - 1 \in 1..DayCount /\ p[i] = Week(s)[i - 1])
    BY <2>0, <2>1
  <2>3. Distinct(p)
    <3> SUFFICES ASSUME NEW i \in DOMAIN p, NEW j \in DOMAIN p, i # j
                 PROVE  Target(p[i]) # Target(p[j])
      BY DEF Distinct
    <3>1. \A k \in DOMAIN p \ {1} : Target(p[k]) = <<"slots", s, k - 2>>
      BY <2>2, WeekIsPlan
    <3>2. i \in Nat /\ j \in Nat
      BY <2>1
    <3>3. QED
      BY <1>2, <2>2, <3>1, <3>2
  <2>4. OwnSetpointFirst(r, p)
    BY <1>2, <2>2, WeekIsPlan DEF OwnSetpointFirst
  <2>5. ASSUME NEW d \in Days PROVE Has(p, PutDay(s, d, Given))
    <3>1. d + 1 \in 1..DayCount /\ (d + 1) - 1 = d
      BY Numbers DEF Days
    <3>2. Week(s)[d + 1] = PutDay(s, d, Given)
      BY <3>1, WeekIsPlan
    <3>3. p[(d + 1) + 1] = Week(s)[d + 1]
      BY <2>2, <3>1
    <3>4. (d + 1) + 1 \in DOMAIN p
      BY <2>0, <2>1, <3>1
    <3>5. QED
      BY <3>2, <3>3, <3>4 DEF Has
  <2>6. Has(p, w)
    BY <2>0, <2>1, <2>2 DEF Has
  <2>7. QED
    BY <1>1, <1>4, <2>1, <2>3, <2>4, <2>5, <2>6 DEF Good, Covers
<1>5. QED
  BY <1>3, <1>4

\* Position i of the repair is day (i - 1) % DayCount of schedule (i - 1) \div DayCount.
LEMMA Positions ==
  \A n, k \in Nat : n > 0 =>
    /\ k % n \in 0..(n - 1) /\ k \div n \in Nat
    /\ k = n * (k \div n) + (k % n)
    /\ \A m \in Nat : k < m * n => k \div n < m
OBVIOUS

LEMMA RepairIsPlan ==
  /\ RepairPlan \in Seq(Writes) /\ Len(RepairPlan) = 4 * DayCount
  /\ \A i \in 1..(4 * DayCount) : RepairPlan[i].field = "slots" /\ RepairPlan[i].value = Default
  /\ Distinct(RepairPlan)
  /\ \A s \in ScheduleIds, d \in Days : Has(RepairPlan, PutDay(s, d, Default))
<1>0. 4 * DayCount \in Nat /\ DayCount \in Nat /\ DayCount > 0
  BY Numbers
<1>1. ASSUME NEW i \in 1..(4 * DayCount)
      PROVE  /\ (i - 1) \div DayCount \in ScheduleIds /\ (i - 1) % DayCount \in Days
             /\ RepairPlan[i] = PutDay((i - 1) \div DayCount, (i - 1) % DayCount, Default)
             /\ i - 1 = DayCount * ((i - 1) \div DayCount) + ((i - 1) % DayCount)
  <2>1. PICK k \in Nat : k = i - 1
    BY <1>0
  <2>2. k < 4 * DayCount
    BY <1>0, <2>1
  <2>3. k % DayCount \in 0..(DayCount - 1) /\ k \div DayCount \in Nat
        /\ k \div DayCount < 4 /\ k = DayCount * (k \div DayCount) + (k % DayCount)
    BY <1>0, <2>2, Positions
  <2>4. k \div DayCount \in 0..3
    BY <2>3
  <2>5. QED
    BY <2>1, <2>3, <2>4, Numbers DEF RepairPlan, Days
<1>2. \A i \in 1..(4 * DayCount) :
        /\ RepairPlan[i] \in Writes /\ RepairPlan[i].field = "slots"
        /\ RepairPlan[i].value = Default
        /\ Target(RepairPlan[i]) = <<"slots", (i - 1) \div DayCount, (i - 1) % DayCount>>
  <2>1. ASSUME NEW s \in ScheduleIds, NEW d \in Days
        PROVE  /\ PutDay(s, d, Default) \in Writes /\ PutDay(s, d, Default).field = "slots"
               /\ PutDay(s, d, Default).value = Default
               /\ Target(PutDay(s, d, Default)) = <<"slots", s, d>>
    BY PutDayIsWrite DEF PutDay
  <2>2. QED
    BY <1>1, <2>1
<1>3. RepairPlan \in Seq(Writes) /\ Len(RepairPlan) = 4 * DayCount
      /\ DOMAIN RepairPlan = 1..(4 * DayCount)
  BY <1>0, <1>2 DEF RepairPlan
<1>4. Distinct(RepairPlan)
  <2> SUFFICES ASSUME NEW i \in 1..(4 * DayCount), NEW j \in 1..(4 * DayCount),
                      Target(RepairPlan[i]) = Target(RepairPlan[j])
               PROVE  i = j
    BY <1>3 DEF Distinct
  <2>1. /\ (i - 1) \div DayCount = (j - 1) \div DayCount
        /\ (i - 1) % DayCount = (j - 1) % DayCount
    BY <1>2
  <2>2. i - 1 = j - 1
    BY <1>1, <2>1
  <2>3. QED
    BY <2>2
<1>5. ASSUME NEW s \in ScheduleIds, NEW d \in Days PROVE Has(RepairPlan, PutDay(s, d, Default))
  <2>1. s \in 0..3 /\ d \in 0..(DayCount - 1)
    BY Numbers DEF Days
  <2>2. PICK k \in Nat : k = s * DayCount + d
    BY <1>0, <2>1
  <2>3. k \div DayCount = s /\ k % DayCount = d /\ k < 4 * DayCount
    <3>1. \A n \in Nat, a \in 0..3, b \in Nat : n > 0 /\ b < n =>
            /\ (a * n + b) \div n = a /\ (a * n + b) % n = b /\ a * n + b < 4 * n
      OBVIOUS
    <3>2. QED
      BY <1>0, <2>1, <2>2, <3>1
  <2>4. k + 1 \in 1..(4 * DayCount) /\ (k + 1) - 1 = k
    BY <2>3, <1>0
  <2>5. RepairPlan[k + 1] = PutDay(s, d, Default)
    BY <1>1, <2>3, <2>4
  <2>6. QED
    BY <1>3, <2>4, <2>5 DEF Has
<1>6. QED
  BY <1>2, <1>3, <1>4, <1>5

\* Whatever a component shows, the plan of a call is a good one.
LEMMA PlanGood ==
  ASSUME kind \in Kinds, shown["mode"] \in Modes, NEW r \in Requests
  PROVE  Good(r, PlanOf(r))
<1>1. CASE r.op = "set_mode" /\ r.arg \in Modes
  <2>1. Put("mode", r.arg) \in Writes /\ Put("mode", r.arg).field # "temporaryEnd"
    BY <1>1, Numbers DEF Put, Writes, RegisterWrites, Fields
  <2>2. Covers(r, <<Put("mode", r.arg)>>)
    BY <1>1, <2>1, OnePlan DEF Covers
  <2>3. QED
    BY <1>1, <2>1, <2>2, SimpleGood DEF PlanOf
<1>2. CASE r.op = "set_current_setpoint" /\ r.arg \in Temps
  BY <1>2, SetpointGood DEF PlanOf
<1>3. CASE r.op = "set_selected_schedule" /\ r.arg \in ScheduleIds
  <2> DEFINE w == Put("selectedSchedule", SelectedForWrite(r.arg))
  <2>1. w \in Writes /\ w.field # "temporaryEnd"
    BY <1>3, SelectGood DEF Put
  <2>2. Covers(r, <<w>>)
    BY <1>3, <2>1, OnePlan DEF Covers
  <2>3. QED
    BY <1>3, <2>1, <2>2, SimpleGood DEF PlanOf, SelectPlan
<1>4. CASE r.op = "set_current_schedule" /\ r.arg \in ScheduleIds
  BY <1>4, WeekGood DEF PlanOf
<1>5. CASE r.op = "set_day_schedule" /\ r.arg \in ScheduleIds /\ r.day \in Days
  <2> DEFINE w == PutDay(r.arg, r.day, Given)
  <2>1. w \in Writes /\ w.field # "temporaryEnd"
    BY <1>5, PutDayIsWrite
  <2>2. Covers(r, <<w>>)
    BY <1>5, <2>1, OnePlan DEF Covers
  <2>3. QED
    BY <1>5, <2>1, <2>2, SimpleGood DEF PlanOf
<1>6. CASE r.op = "enable_holiday_mode" /\ r.arg \in Moments \X Moments
  <2>1. PICK a \in Moments, b \in Moments : r.arg = <<a, b>>
    BY <1>6
  <2>2. Good(r, HolidayPlan(<<a, b>>))
    BY <1>6, <2>1, HolidayGood, Numbers
  <2>3. QED
    BY <1>6, <2>1, <2>2 DEF PlanOf
<1>7. CASE r.op = "disable_holiday_mode"
  BY <1>7, HolidayGood DEF PlanOf
<1>8. CASE r.op = "repair_invalid_schedules"
  <2>1. OwnSetpointFirst(r, RepairPlan)
    BY RepairIsPlan DEF OwnSetpointFirst
  <2>2. QED
    BY <1>8, <2>1, RepairIsPlan DEF PlanOf, Good, Covers
<1>9. QED
  BY <1>1, <1>2, <1>3, <1>4, <1>5, <1>6, <1>7, <1>8, Numbers DEF Requests

-----------------------------------------------------------------------------
(* The inductive invariant.                                                *)

Typed ==
  /\ TypeOK
  /\ damages \in Nat /\ calls \in Nat
  /\ plan \in [Tasks -> Seq(Writes)] /\ next \in [Tasks -> Nat] /\ value \in [Tasks -> Nat]
  /\ DOMAIN call = Tasks
  /\ repaired \in [Tasks -> Nat] /\ broken \in [Tasks -> Nat]
  /\ alone \in [Tasks -> BOOLEAN] /\ quiet \in [Tasks -> BOOLEAN]
  /\ fresh \in [Tasks -> BOOLEAN]
  /\ cooling => IsCentralHeating(kind)
  /\ poll # NoPoll => poll["mode"] \in Modes

Under(t) == pc[t] \in {"reading", "sent", "landed", "returned"}

(***************************************************************************)
(* A task follows a good plan and carries the value of the write it is at, *)
(* which for the end of an override is a time to come.                     *)
(***************************************************************************)
Follows(t) ==
  /\ Under(t) => Good(call[t], plan[t])
  /\ pc[t] = "reading" => call[t].op = "repair_invalid_schedules"
  /\ pc[t] \in {"sent", "landed"} =>
       IF Write(t).field = "temporaryEnd" THEN value[t] # 0 ELSE value[t] = Write(t).value

\* A call that is alone is the only one under way.
Alone(t) == alone[t] => \A o \in Tasks \ {t} : ~Active(o)

\* What write w was for is in the appliance, but for the end of an override.
Holds(w) ==
  IF w.field = "slots" THEN slots[<<w.schedule, w.day>>] = w.value
  ELSE w.field # "temporaryEnd" => device[w.field] = w.value

Readable(w) == slots[<<w.schedule, w.day>>] # Unreadable

\* The writes of its plan that task t has behind it.
Past(t, i) ==
  /\ pc[t] \in {"reading", "sent"} => i < next[t]
  /\ pc[t] = "landed" => i <= next[t]

Writing(t) ==
  Under(t) /\ alone[t] /\ call[t].op # "repair_invalid_schedules" =>
    \A i \in DOMAIN plan[t] : Past(t, i) => Holds(plan[t][i])

\* A repair on its own has counted the days it found unreadable and wrote.
Repairing(t) ==
  Under(t) /\ alone[t] /\ call[t].op = "repair_invalid_schedules" =>
    /\ \A i \in DOMAIN plan[t] : Past(t, i) => Readable(plan[t][i])
    /\ pc[t] = "sent" => ~Readable(Write(t))
    /\ repaired[t] + Cardinality(UnreadableDays) + (IF pc[t] = "landed" THEN 1 ELSE 0)
         = broken[t]

\* A week's call that began with the appliance's selection has it right or ahead.
Selecting(t) ==
  Under(t) /\ alone[t] /\ fresh[t] =>
    /\ call[t].op = "set_current_schedule"
    /\ IsHotWater(kind) \/ call[t].arg = SCHEDULE_4
    /\ \/ Has(plan[t], Put("selectedSchedule", SelectedForWrite(call[t].arg)))
       \/ OnlyDays(plan[t]) /\ Selection = call[t].arg

IInv ==
  /\ Typed
  /\ \A t \in Tasks : Follows(t) /\ Alone(t) /\ Writing(t) /\ Repairing(t) /\ Selecting(t)

LEMMA InitInv == Init => IInv
<1> SUFFICES ASSUME Init PROVE IInv
  OBVIOUS
<1>1. \A m \in Modes, s \in Schedules \ {SCHEDULE_4} :
        [f \in Fields |-> CASE f = "mode" -> m [] f = "selectedSchedule" -> s [] OTHER -> 0]
          \in [Fields -> Nat]
  BY Numbers
<1>2. /\ device \in [Fields -> Nat] /\ device["mode"] \in Modes
      /\ device["selectedSchedule"] \in 0..2
  BY <1>1, Numbers DEF Init, Fields, SCHEDULE_4
<1>3. /\ shown \in [Shown -> Nat] /\ shown["mode"] \in Modes
      /\ poll \in [Shown -> Nat] /\ poll = NoPoll
  BY <1>2 DEF Init, Shown, Register, NoPoll, Fields
<1>4. TypeOK
  BY <1>2, <1>3, ZoneAssumption DEF Init, TypeOK
<1>5. Typed
  BY <1>3, <1>4 DEF Init, Typed
<1>6. \A t \in Tasks : Follows(t) /\ Alone(t) /\ Writing(t) /\ Repairing(t) /\ Selecting(t)
  BY DEF Init, Follows, Under, Alone, Writing, Repairing, Selecting
<1>7. QED
  BY <1>5, <1>6 DEF IInv

-----------------------------------------------------------------------------
(* Steps of a task.                                                        *)

\* A task under way is in nobody else's way who is alone.
LEMMA OthersKept ==
  ASSUME IInv, NEW t \in Tasks, Active(t), NEW u \in Tasks \ {t},
         pc'[u] = pc[u], call'[u] = call[u], plan'[u] = plan[u],
         next'[u] = next[u], value'[u] = value[u], alone'[u] = alone[u]
  PROVE  Follows(u)' /\ Alone(u)' /\ Writing(u)' /\ Repairing(u)' /\ Selecting(u)'
<1>1. ~alone'[u]
  BY DEF IInv, Typed, Alone
<1>2. Follows(u)'
  BY DEF IInv, Follows, Under, Write
<1>3. QED
  BY <1>1, <1>2 DEF Alone, Writing, Repairing, Selecting

\* The value a task sends is that of its write, or the end of an override.
LEMMA SentValue ==
  ASSUME IInv, NEW t \in Tasks, NEW w \in Writes, Sends(t, w)
  PROVE  /\ value' \in [Tasks -> Nat]
         /\ IF w.field = "temporaryEnd" THEN value'[t] # 0 ELSE value'[t] = w.value
         /\ \A u \in Tasks \ {t} : value'[u] = value[u]
<1>1. w.value \in Nat /\ now + OverrideHours \in Nat \ {0}
  BY ZoneAssumption DEF Writes, RegisterWrites, DayWrites, Default, Given, IInv, Typed, TypeOK
<1>2. QED
  BY <1>1 DEF Sends, IInv, Typed

\* The unreadable days can be counted, and one that is repaired is one less.
LEMMA CountOfDays == IsFiniteSet(UnreadableDays) /\ Cardinality(UnreadableDays) \in Nat
<1>1. IsFiniteSet(0..3) /\ IsFiniteSet(0..(DayCount - 1))
  <2>1. 0 \in Int /\ 3 \in Int /\ DayCount - 1 \in Int
    BY Numbers
  <2>2. QED
    BY <2>1, FS_Interval
<1>2. IsFiniteSet(ScheduleIds \X Days)
  BY <1>1, FS_Product, Numbers DEF Days
<1>3. UnreadableDays \subseteq ScheduleIds \X Days
  BY DEF UnreadableDays
<1>4. QED
  BY <1>2, <1>3, FS_Subset, FS_CardinalityType

LEMMA InvCall ==
  ASSUME IInv, NEW t \in Tasks, NEW r \in Requests, Call(t, r)
  PROVE  IInv'
<1> DEFINE p == PlanOf(r)
<1>1. /\ Good(r, p) /\ p \in Seq(Writes)
  BY PlanGood DEF Good, IInv, Typed, TypeOK
<1>2. /\ call'[t] = r /\ plan'[t] = p /\ repaired'[t] = 0
      /\ Remember(t, r)
      /\ alone' = [u \in Tasks |-> u = t /\ \A o \in Tasks \ {t} : ~Active(o)]
      /\ \A u \in Tasks \ {t} : call'[u] = call[u] /\ plan'[u] = plan[u]
      /\ DOMAIN call' = Tasks
      /\ plan' \in [Tasks -> Seq(Writes)]
      /\ repaired' \in [Tasks -> Nat]
      /\ calls' \in Nat
      /\ quiet' \in [Tasks -> BOOLEAN] /\ fresh' \in [Tasks -> BOOLEAN]
      /\ UNCHANGED <<appliance, shown, poll>>
  BY <1>1 DEF Call, Remember, IInv, Typed
<1>3. /\ pc'[t] \in {"reading", "sent", "returned"}
      /\ pc'[t] = "reading" <=> r.op = "repair_invalid_schedules"
      /\ pc'[t] = "reading" => next'[t] = 0
      /\ pc'[t] = "sent" => /\ p # <<>> /\ next'[t] = 1
                            /\ IF p[1].field = "temporaryEnd" THEN value'[t] # 0
                               ELSE value'[t] = p[1].value
      /\ pc'[t] = "returned" => p = <<>>
      /\ pc' \in [Tasks -> {"idle", "reading", "sent", "landed", "returned"}]
      /\ next' \in [Tasks -> Nat] /\ value' \in [Tasks -> Nat]
      /\ \A u \in Tasks \ {t} : pc'[u] = pc[u] /\ next'[u] = next[u] /\ value'[u] = value[u]
  <2>1. CASE r.op = "repair_invalid_schedules"
    <3>1. /\ pc' = [pc EXCEPT ![t] = "reading"] /\ next' = [next EXCEPT ![t] = 0]
          /\ value' = value
      BY <2>1 DEF Call
    <3>2. QED
      BY <2>1, <3>1 DEF IInv, Typed, TypeOK
  <2>2. CASE r.op # "repair_invalid_schedules" /\ p = <<>>
    <3>1. pc' = [pc EXCEPT ![t] = "returned"] /\ next' = next /\ value' = value
      BY <2>2 DEF Call
    <3>2. QED
      BY <2>2, <3>1 DEF IInv, Typed, TypeOK
  <2>3. CASE r.op # "repair_invalid_schedules" /\ p # <<>>
    <3>1. p[1] \in Writes
      BY <1>1, <2>3
    <3>2. Sends(t, p[1]) /\ pc' = [pc EXCEPT ![t] = "sent"] /\ next' = [next EXCEPT ![t] = 1]
      BY <2>3 DEF Call
    <3>3. QED
      BY <2>3, <3>1, <3>2, SentValue DEF IInv, Typed, TypeOK
  <2>4. QED
    BY <2>1, <2>2, <2>3
<1>4. /\ broken' \in [Tasks -> Nat]
      /\ r.op = "repair_invalid_schedules" /\ alone'[t] =>
           broken'[t] = Cardinality(UnreadableDays)
  BY <1>2, CountOfDays DEF Remember
<1>5. Typed'
  <2>1. kind \in Kinds /\ cooling \in BOOLEAN /\ damages \in Nat /\ TypeOK
    BY DEF IInv, Typed, TypeOK
  <2>2. /\ pc'[t] \in {"sent", "landed"} => next'[t] \in 1..Len(plan'[t])
        /\ pc'[t] = "reading" => next'[t] \in 0..Len(plan'[t])
    BY <1>1, <1>2, <1>3
  <2>3. \A u \in Tasks :
          /\ pc'[u] \in {"sent", "landed"} => next'[u] \in 1..Len(plan'[u])
          /\ pc'[u] = "reading" => next'[u] \in 0..Len(plan'[u])
    BY <1>2, <1>3, <2>1, <2>2 DEF TypeOK
  <2>4. TypeOK'
    BY <1>2, <1>3, <2>1, <2>3 DEF TypeOK, appliance
  <2>5. alone' \in [Tasks -> BOOLEAN]
    BY <1>2
  <2>6. QED
    BY <1>2, <1>3, <1>4, <2>1, <2>4, <2>5 DEF IInv, Typed, appliance, NoPoll
<1>6. Follows(t)' /\ Alone(t)' /\ Writing(t)' /\ Repairing(t)' /\ Selecting(t)'
  <2>0. Selecting(t)'
    <3> SUFFICES ASSUME fresh'[t]
                 PROVE  /\ r.op = "set_current_schedule"
                        /\ IsHotWater(kind) \/ r.arg = SCHEDULE_4
                        /\ \/ Has(p, Put("selectedSchedule", SelectedForWrite(r.arg)))
                           \/ OnlyDays(p) /\ Selection = r.arg
      BY <1>2 DEF Selecting, Selection, SelectedIn, appliance
    <3>1. r.op = "set_current_schedule" /\ Selection = SelectedForRead
      BY <1>2 DEF Remember, Selection, SelectedForRead, SelectedIn
    <3>2. /\ r.arg \in ScheduleIds /\ p = WeekPlan(r.arg)
          /\ IsHotWater(kind) \/ r.arg = SCHEDULE_4
      BY <3>1, Numbers DEF Requests, PlanOf
    <3>3. QED
      BY <3>1, <3>2, WeekGood
  <2>1. Follows(t)'
    BY <1>1, <1>2, <1>3 DEF Follows, Under, Write
  <2>2. Alone(t)'
    BY <1>2, <1>3 DEF Alone, Active
  <2>3. \A i \in DOMAIN plan'[t] : ~Past(t, i)'
    BY <1>1, <1>2, <1>3 DEF Past
  <2>4. UnreadableDays' = UnreadableDays
    BY <1>2 DEF UnreadableDays, appliance
  <2>5. Writing(t)' /\ Repairing(t)'
    BY <1>2, <1>3, <1>4, <2>3, <2>4, CountOfDays DEF Writing, Repairing
  <2>6. QED
    BY <2>0, <2>1, <2>2, <2>5
<1>7. ASSUME NEW u \in Tasks \ {t}
      PROVE  Follows(u)' /\ Alone(u)' /\ Writing(u)' /\ Repairing(u)' /\ Selecting(u)'
  <2>1. ~alone'[u]
    BY <1>2
  <2>2. Follows(u)'
    BY <1>2, <1>3 DEF IInv, Follows, Under, Write
  <2>3. QED
    BY <2>1, <2>2 DEF Alone, Writing, Repairing, Selecting
<1>8. QED
  BY <1>5, <1>6, <1>7 DEF IInv

\* What the write at hand does to the appliance.
LEMMA Landing ==
  ASSUME IInv, NEW t \in Tasks, WriteLands(t)
  PROVE  /\ Write(t) \in Writes /\ next[t] \in 1..Len(plan[t]) /\ plan[t] \in Seq(Writes)
         /\ device' \in [Fields -> Nat] /\ device'["mode"] \in Modes
         /\ device'["selectedSchedule"] \in 0..2
         /\ slots' \in [ScheduleIds \X Days -> {Unreadable, Default, Given}]
         /\ Holds(Write(t))'
         /\ \A v \in Writes : Target(v) # Target(Write(t)) /\ Holds(v) => Holds(v)'
         /\ \A v \in DayWrites : Target(v) # Target(Write(t)) /\ Readable(v) => Readable(v)'
         /\ Write(t).field = "slots" =>
              /\ <<Write(t).schedule, Write(t).day>> \in ScheduleIds \X Days
              /\ slots' = [slots EXCEPT ![<<Write(t).schedule, Write(t).day>>] = Write(t).value]
              /\ Write(t).value # Unreadable
<1> DEFINE w == Write(t)
<1>1. /\ next[t] \in 1..Len(plan[t]) /\ plan[t] \in Seq(Writes) /\ pc[t] = "sent"
      /\ device \in [Fields -> Nat] /\ device["mode"] \in Modes
      /\ device["selectedSchedule"] \in 0..2
      /\ slots \in [ScheduleIds \X Days -> {Unreadable, Default, Given}]
      /\ value[t] \in Nat
      /\ w.field # "temporaryEnd" => value[t] = w.value
  BY DEF WriteLands, IInv, Typed, TypeOK, Follows
<1>2. w \in Writes
  BY <1>1 DEF Write
<1>3. CASE w.field = "slots"
  <2>1. w \in DayWrites
    BY <1>2, <1>3 DEF Writes, RegisterWrites, Fields, Setpoints, Times
  <2>2. /\ <<w.schedule, w.day>> \in ScheduleIds \X Days
        /\ w.value \in {Default, Given}
        /\ slots' = [slots EXCEPT ![<<w.schedule, w.day>>] = w.value]
        /\ UNCHANGED device
    BY <1>1, <1>3, <2>1 DEF WriteLands, DayWrites
  <2>3. /\ slots' \in [ScheduleIds \X Days -> {Unreadable, Default, Given}]
        /\ slots'[<<w.schedule, w.day>>] = w.value
        /\ \A x \in ScheduleIds \X Days : x # <<w.schedule, w.day>> => slots'[x] = slots[x]
    BY <1>1, <2>2
  <2>4. \A v \in DayWrites :
          /\ v.field = "slots" /\ <<v.schedule, v.day>> \in ScheduleIds \X Days
          /\ Target(v) # Target(w) => slots'[<<v.schedule, v.day>>] = slots[<<v.schedule, v.day>>]
    BY <1>3, <2>3 DEF DayWrites, Target
  <2>5. \A v \in Writes : v.field = "slots" => v \in DayWrites
    BY DEF Writes, RegisterWrites, Fields, Setpoints, Times
  <2>6. \A v \in Writes : Target(v) # Target(w) /\ Holds(v) => Holds(v)'
    BY <2>2, <2>4, <2>5 DEF Holds
  <2>7. \A v \in DayWrites : Target(v) # Target(w) /\ Readable(v) => Readable(v)'
    BY <2>4 DEF Readable
  <2>8. Holds(w)'
    <3>1. slots'[<<w.schedule, w.day>>] = w.value
      BY <2>3
    <3>2. UNCHANGED <<plan, next>>
      BY DEF WriteLands
    <3>3. QED
      BY <1>3, <3>1, <3>2 DEF Holds, Write
  <2>9. QED
    BY <1>1, <1>2, <2>2, <2>3, <2>6, <2>7, <2>8 DEF Unreadable, Default, Given
<1>4. CASE w.field # "slots"
  <2>1. w \in RegisterWrites
    BY <1>2, <1>4 DEF Writes, DayWrites
  <2>2. /\ w.field \in Fields /\ w.schedule = 0 /\ w.day = 0
        /\ device' = [device EXCEPT ![w.field] = value[t]]
        /\ UNCHANGED <<slots, plan, next>>
    BY <1>4, <2>1 DEF WriteLands, RegisterWrites
  <2>3. /\ device' \in [Fields -> Nat] /\ device'[w.field] = value[t]
        /\ \A f \in Fields : f # w.field => device'[f] = device[f]
    BY <1>1, <2>2
  <2>4. /\ w.field = "mode" => value[t] \in Modes
        /\ w.field = "selectedSchedule" => value[t] \in 0..2
    BY <1>1, <2>1 DEF RegisterWrites
  <2>5. device'["mode"] \in Modes /\ device'["selectedSchedule"] \in 0..2
    BY <1>1, <2>3, <2>4 DEF Fields
  <2>6. \A v \in RegisterWrites : Target(v) # Target(w) => v.field # w.field /\ v.field \in Fields
    BY <2>2 DEF RegisterWrites, Target
  <2>7. \A v \in Writes : v.field # "slots" => v \in RegisterWrites
    BY DEF Writes, DayWrites
  <2>8. \A v \in Writes : Target(v) # Target(w) /\ Holds(v) => Holds(v)'
    BY <2>2, <2>3, <2>6, <2>7 DEF Holds
  <2>9. \A v \in DayWrites : Readable(v) => Readable(v)'
    BY <2>2 DEF Readable
  <2>10. Holds(w)'
    BY <1>1, <1>4, <2>2, <2>3 DEF Holds, Write
  <2>11. QED
    BY <1>1, <1>2, <1>4, <2>2, <2>3, <2>5, <2>8, <2>9, <2>10
<1>5. QED
  BY <1>3, <1>4

LEMMA InvWriteLands ==
  ASSUME IInv, NEW t \in Tasks, WriteLands(t)
  PROVE  IInv'
<1> DEFINE w == Write(t)
           p == plan[t]
<1>1. /\ pc[t] = "sent" /\ pc' = [pc EXCEPT ![t] = "landed"]
      /\ pc'[t] = "landed" /\ \A u \in Tasks \ {t} : pc'[u] = pc[u]
      /\ UNCHANGED <<kind, cooling, now, damages>>
      /\ UNCHANGED <<shown, poll, call, plan, next, value, repaired, calls>>
      /\ UNCHANGED <<alone, broken, quiet, fresh>>
  BY DEF WriteLands, IInv, Typed, TypeOK, history
<1>2. Active(t) /\ Under(t) /\ Under(t)'
  BY <1>1 DEF Active, Under
<1>3. Good(call[t], p) /\ Distinct(p) /\ p \in Seq(Writes) /\ next[t] \in 1..Len(p)
  BY <1>2, Landing DEF IInv, Follows, Good
<1>4. Typed'
  <2>1. TypeOK'
    BY <1>1, Landing DEF IInv, Typed, TypeOK
  <2>2. QED
    BY <1>1, <2>1 DEF IInv, Typed, NoPoll
<1>5. Follows(t)' /\ Alone(t)'
  BY <1>1, <1>2 DEF IInv, Follows, Under, Alone, Active, Write
<1>6. \A i \in DOMAIN p : i # next[t] => Target(p[i]) # Target(w)
  BY <1>3 DEF Distinct, Write
<1>7. \A i \in DOMAIN p : Past(t, i)' => i = next[t] \/ Past(t, i)
  BY <1>1, <1>3 DEF Past
<1>8. Writing(t)'
  <2> SUFFICES ASSUME alone[t], call[t].op # "repair_invalid_schedules",
                      NEW i \in DOMAIN p, Past(t, i)'
               PROVE  Holds(p[i])'
    BY <1>1 DEF Writing
  <2>1. CASE i = next[t]
    BY <1>1, <2>1, Landing DEF Write
  <2>2. CASE i # next[t]
    <3>1. Holds(p[i]) /\ p[i] \in Writes /\ Target(p[i]) # Target(w)
      BY <1>2, <1>3, <1>6, <1>7, <2>2 DEF IInv, Writing
    <3>2. \A v \in Writes : Target(v) # Target(w) /\ Holds(v) => Holds(v)'
      BY Landing
    <3>3. PICK v \in Writes : v = p[i]
      BY <3>1
    <3>4. Holds(v)'
      BY <3>1, <3>2, <3>3
    <3>5. QED
      BY <1>1, <3>3, <3>4 DEF Holds
  <2>3. QED
    BY <2>1, <2>2
<1>9. Repairing(t)'
  <2> SUFFICES ASSUME alone[t], call[t].op = "repair_invalid_schedules"
               PROVE  /\ \A i \in DOMAIN p : Past(t, i)' => Readable(p[i])'
                      /\ repaired[t] + Cardinality(UnreadableDays)' + 1 = broken[t]
    BY <1>1, <1>2 DEF Repairing, UnreadableDays
  <2>0. /\ \A i \in DOMAIN p : p[i] \in DayWrites /\ p[i].field = "slots"
        /\ w.field = "slots"
    <3>1. p = RepairPlan /\ DOMAIN p = 1..Len(p)
      BY <1>3 DEF Good, Covers
    <3>2. \A i \in DOMAIN p : p[i].field = "slots" /\ p[i] \in Writes
      BY <1>3, <3>1, RepairIsPlan
    <3>3. QED
      BY <1>3, <3>1, <3>2 DEF Writes, RegisterWrites, Fields, Setpoints, Times, Write
  <2>1. /\ \A i \in DOMAIN p : Past(t, i) => Readable(p[i])
        /\ ~Readable(w)
        /\ repaired[t] + Cardinality(UnreadableDays) + 0 = broken[t]
    BY <1>1, <1>2 DEF IInv, Repairing
  <2>2. /\ <<w.schedule, w.day>> \in ScheduleIds \X Days
        /\ slots' = [slots EXCEPT ![<<w.schedule, w.day>>] = w.value]
        /\ w.value # Unreadable
        /\ DOMAIN slots = ScheduleIds \X Days
    BY <2>0, Landing DEF IInv, Typed, TypeOK
  <2>3. UnreadableDays' = UnreadableDays \ {<<w.schedule, w.day>>}
    BY <2>2 DEF UnreadableDays
  <2>4. <<w.schedule, w.day>> \in UnreadableDays
    BY <2>1, <2>2 DEF UnreadableDays, Readable
  <2>5. Cardinality(UnreadableDays)' = Cardinality(UnreadableDays) - 1
    BY <2>3, <2>4, CountOfDays, FS_RemoveElement
  <2>6. repaired[t] \in Nat /\ broken[t] \in Nat
    BY DEF IInv, Typed
  <2>7. ASSUME NEW i \in DOMAIN p, Past(t, i)' PROVE Readable(p[i])'
    <3>1. CASE i = next[t]
      BY <1>1, <2>2, <3>1 DEF Readable, Write
    <3>2. CASE i # next[t]
      <4>1. PICK v \in DayWrites : v = p[i]
        BY <2>0
      <4>2. Readable(v) /\ Target(v) # Target(w)
        BY <1>6, <1>7, <2>1, <2>7, <3>2, <4>1
      <4>3. Readable(v)'
        BY <4>2, Landing
      <4>4. QED
        BY <1>1, <4>1, <4>3 DEF Readable
    <3>3. QED
      BY <3>1, <3>2
  <2>8. QED
    BY <2>1, <2>5, <2>6, <2>7, CountOfDays
<1>10. Selecting(t)'
  <2>1. w.field = "slots" => device' = device
    BY DEF WriteLands
  <2>2. OnlyDays(p) => device' = device
    BY <1>3, <2>1 DEF OnlyDays, Write
  <2>3. QED
    BY <1>1, <1>2, <2>2 DEF IInv, Selecting, Selection, SelectedIn
<1>11. \A u \in Tasks \ {t} : Follows(u)' /\ Alone(u)' /\ Writing(u)' /\ Repairing(u)' /\ Selecting(u)'
  BY <1>1, <1>2, OthersKept
<1>12. QED
  BY <1>4, <1>5, <1>8, <1>9, <1>10, <1>11 DEF IInv

\* What a task does after a write or a day.
LEMMA GoesOn ==
  ASSUME IInv, NEW t \in Tasks, Continue(t), Active(t), next[t] \in 1..Len(plan[t])
  PROVE  /\ pc' \in [Tasks -> {"idle", "reading", "sent", "landed", "returned"}]
         /\ next' \in [Tasks -> Nat] /\ value' \in [Tasks -> Nat]
         /\ \A u \in Tasks \ {t} : pc'[u] = pc[u] /\ next'[u] = next[u] /\ value'[u] = value[u]
         /\ \/ /\ pc'[t] = "reading" /\ call[t].op = "repair_invalid_schedules"
               /\ next'[t] \in 1..Len(plan[t]) /\ next'[t] = next[t] + 1
            \/ /\ pc'[t] = "sent" /\ call[t].op # "repair_invalid_schedules"
               /\ next'[t] \in 1..Len(plan[t]) /\ next'[t] = next[t] + 1
               /\ IF plan[t][next'[t]].field = "temporaryEnd" THEN value'[t] # 0
                  ELSE value'[t] = plan[t][next'[t]].value
            \/ pc'[t] = "returned" /\ next[t] = Len(plan[t])
<1>1. /\ pc \in [Tasks -> {"idle", "reading", "sent", "landed", "returned"}]
      /\ next \in [Tasks -> Nat] /\ value \in [Tasks -> Nat] /\ plan[t] \in Seq(Writes)
  BY DEF IInv, Typed, TypeOK
<1>2. CASE /\ next[t] < Len(plan[t]) /\ next' = [next EXCEPT ![t] = @ + 1]
           /\ call[t].op = "repair_invalid_schedules"
           /\ pc' = [pc EXCEPT ![t] = "reading"]
           /\ UNCHANGED value
  BY <1>1, <1>2
<1>3. CASE /\ next[t] < Len(plan[t]) /\ next' = [next EXCEPT ![t] = @ + 1]
           /\ call[t].op # "repair_invalid_schedules"
           /\ pc' = [pc EXCEPT ![t] = "sent"]
           /\ Sends(t, plan[t][next[t] + 1])
  <2>1. next[t] + 1 \in 1..Len(plan[t]) /\ plan[t][next[t] + 1] \in Writes
    BY <1>1, <1>3
  <2>2. /\ value' \in [Tasks -> Nat]
        /\ IF plan[t][next[t] + 1].field = "temporaryEnd" THEN value'[t] # 0
           ELSE value'[t] = plan[t][next[t] + 1].value
        /\ \A u \in Tasks \ {t} : value'[u] = value[u]
    BY <1>3, <2>1, SentValue
  <2>3. /\ pc' \in [Tasks -> {"idle", "reading", "sent", "landed", "returned"}]
        /\ next' \in [Tasks -> Nat] /\ pc'[t] = "sent" /\ next'[t] = next[t] + 1
        /\ \A u \in Tasks \ {t} : pc'[u] = pc[u] /\ next'[u] = next[u]
    BY <1>1, <1>3
  <2>4. QED
    BY <1>3, <2>1, <2>2, <2>3
<1>4. CASE /\ next[t] = Len(plan[t])
           /\ pc' = [pc EXCEPT ![t] = "returned"]
           /\ UNCHANGED <<next, value>>
  BY <1>1, <1>4
<1>5. QED
  BY <1>2, <1>3, <1>4 DEF Continue

\* A task that goes on has just what it had behind it, and what it was at.
LEMMA PastGoesOn ==
  ASSUME IInv, NEW t \in Tasks, Continue(t), Active(t), next[t] \in 1..Len(plan[t]),
         NEW i \in DOMAIN plan[t], Past(t, i)'
  PROVE  i <= next[t]
BY GoesOn DEF Past, IInv, Typed

LEMMA InvWriteAcknowledged ==
  ASSUME IInv, NEW t \in Tasks, WriteAcknowledged(t)
  PROVE  IInv'
<1> DEFINE w == Write(t)
           p == plan[t]
<1>1. /\ pc[t] = "landed" /\ Continue(t) /\ Active(t) /\ Under(t) /\ next[t] \in 1..Len(p)
      /\ p \in Seq(Writes) /\ w \in Writes /\ value[t] \in Nat
      /\ UNCHANGED <<appliance, poll, call, plan, calls, alone, broken, quiet, fresh>>
  BY DEF WriteAcknowledged, IInv, Typed, TypeOK, Active, Under, Write, history
<1>2. /\ shown' \in [Shown -> Nat] /\ shown'["mode"] \in Modes
  <2>1. CASE w.field = "slots"
    BY <2>1 DEF WriteAcknowledged, IInv, Typed, TypeOK
  <2>2. CASE w.field # "slots"
    <3>1. /\ shown' = [shown EXCEPT ![w.field] = value[t]]
          /\ w.field \in Fields
          /\ w.field = "mode" => w.value \in Modes
      BY <1>1, <2>2 DEF WriteAcknowledged, Writes, RegisterWrites, DayWrites
    <3>2. w.field = "mode" => value[t] \in Modes
      BY <1>1, <3>1 DEF IInv, Follows
    <3>3. QED
      BY <1>1, <3>1, <3>2 DEF IInv, Typed, TypeOK, Shown, Fields
  <2>3. QED
    BY <2>1, <2>2
<1>3. /\ repaired' \in [Tasks -> Nat]
      /\ repaired'[t] = IF call[t].op = "repair_invalid_schedules"
                        THEN repaired[t] + 1 ELSE repaired[t]
      /\ \A u \in Tasks \ {t} : repaired'[u] = repaired[u]
  BY DEF WriteAcknowledged, IInv, Typed
<1>4. Typed'
  <2>1. /\ pc'[t] \in {"sent", "landed"} => next'[t] \in 1..Len(plan'[t])
        /\ pc'[t] = "reading" => next'[t] \in 0..Len(plan'[t])
    BY <1>1, GoesOn
  <2>2. \A u \in Tasks :
          /\ pc'[u] \in {"sent", "landed"} => next'[u] \in 1..Len(plan'[u])
          /\ pc'[u] = "reading" => next'[u] \in 0..Len(plan'[u])
    <3>1. /\ plan' = plan
          /\ \A u \in Tasks \ {t} : pc'[u] = pc[u] /\ next'[u] = next[u]
      BY <1>1, GoesOn
    <3>2. QED
      BY <2>1, <3>1 DEF IInv, Typed, TypeOK
  <2>3. TypeOK'
    BY <1>1, <1>2, <2>2, GoesOn DEF IInv, Typed, TypeOK, appliance
  <2>4. QED
    BY <1>1, <1>3, <2>3, GoesOn DEF IInv, Typed, appliance, NoPoll
<1>5. Follows(t)' /\ Alone(t)'
  <2>1. Follows(t)'
    BY <1>1, GoesOn DEF IInv, Follows, Under, Write
  <2>2. Alone(t)'
    BY <1>1, GoesOn DEF IInv, Alone, Active
  <2>3. QED
    BY <2>1, <2>2
<1>6. \A i \in DOMAIN p : Past(t, i)' => Past(t, i)
  BY <1>1, PastGoesOn DEF Past
<1>7. Writing(t)'
  BY <1>1, <1>6 DEF IInv, Writing, Holds, appliance
<1>8. Repairing(t)'
  <2>1. pc'[t] # "sent" \/ call[t].op # "repair_invalid_schedules"
    BY <1>1, GoesOn
  <2>2. pc'[t] # "landed"
    BY <1>1, GoesOn
  <2>3. UnreadableDays' = UnreadableDays /\ \A i \in DOMAIN p : Readable(p[i])' <=> Readable(p[i])
    BY <1>1 DEF UnreadableDays, Readable, appliance
  <2>4. repaired[t] \in Nat /\ broken[t] \in Nat /\ Cardinality(UnreadableDays) \in Nat
    BY CountOfDays DEF IInv, Typed
  <2> SUFFICES ASSUME alone[t], call[t].op = "repair_invalid_schedules"
               PROVE  /\ \A i \in DOMAIN p : Past(t, i)' => Readable(p[i])
                      /\ (repaired[t] + 1) + Cardinality(UnreadableDays) + 0 = broken[t]
    BY <1>1, <1>3, <2>1, <2>2, <2>3 DEF Repairing
  <2>5. /\ \A i \in DOMAIN p : Past(t, i) => Readable(p[i])
        /\ repaired[t] + Cardinality(UnreadableDays) + 1 = broken[t]
    BY <1>1 DEF IInv, Repairing
  <2>6. QED
    BY <1>6, <2>4, <2>5
<1>9. \A u \in Tasks \ {t} : Follows(u)' /\ Alone(u)' /\ Writing(u)' /\ Repairing(u)' /\ Selecting(u)'
  BY <1>1, GoesOn, OthersKept
<1>10. Selecting(t)'
  BY <1>1 DEF IInv, Selecting, Selection, SelectedIn, appliance
<1>11. QED
  BY <1>4, <1>5, <1>7, <1>8, <1>9, <1>10 DEF IInv

LEMMA InvReadsIdentity ==
  ASSUME IInv, NEW t \in Tasks, ReadsIdentity(t)
  PROVE  IInv'
<1>1. /\ pc[t] = "reading" /\ next[t] = 0 /\ next' = [next EXCEPT ![t] = 1]
      /\ UNCHANGED <<appliance, shown, poll, pc, call, plan, value, repaired, calls, history>>
      /\ Active(t) /\ Under(t) /\ call[t].op = "repair_invalid_schedules"
      /\ plan[t] = RepairPlan
  BY DEF ReadsIdentity, Active, Under, IInv, Follows, Good, Covers
<1>2. /\ next' \in [Tasks -> Nat] /\ next'[t] = 1 /\ 1 \in 1..Len(plan[t])
      /\ \A u \in Tasks \ {t} : next'[u] = next[u]
  BY <1>1, RepairIsPlan, Numbers DEF IInv, Typed
<1>3. Typed'
  <2>1. \A u \in Tasks :
          /\ pc'[u] \in {"sent", "landed"} => next'[u] \in 1..Len(plan'[u])
          /\ pc'[u] = "reading" => next'[u] \in 0..Len(plan'[u])
    BY <1>1, <1>2 DEF IInv, Typed, TypeOK
  <2>2. TypeOK'
    BY <1>1, <2>1 DEF IInv, Typed, TypeOK, appliance
  <2>3. QED
    BY <1>1, <1>2, <2>2 DEF IInv, Typed, appliance, history, NoPoll
<1>4. Follows(t)' /\ Alone(t)' /\ Writing(t)' /\ Selecting(t)'
  BY <1>1 DEF IInv, Follows, Under, Alone, Active, Writing, Write, Selecting, history
<1>5. Repairing(t)'
  <2>1. \A i \in DOMAIN plan[t] : ~Past(t, i)'
    BY <1>1, <1>2 DEF Past, IInv, Typed
  <2>2. UnreadableDays' = UnreadableDays
    BY <1>1 DEF UnreadableDays, appliance
  <2>3. QED
    BY <1>1, <2>1, <2>2 DEF IInv, Repairing, Under, history
<1>6. \A u \in Tasks \ {t} : Follows(u)' /\ Alone(u)' /\ Writing(u)' /\ Repairing(u)' /\ Selecting(u)'
  BY <1>1, <1>2, OthersKept DEF history
<1>7. QED
  BY <1>3, <1>4, <1>5, <1>6 DEF IInv

LEMMA InvReadsDay ==
  ASSUME IInv, NEW t \in Tasks, ReadsDay(t)
  PROVE  IInv'
<1> DEFINE w == Write(t)
           p == plan[t]
<1>1. /\ pc[t] = "reading" /\ Active(t) /\ Under(t) /\ next[t] \in 1..Len(p)
      /\ p \in Seq(Writes) /\ w \in Writes /\ p = RepairPlan /\ w = p[next[t]]
      /\ call[t].op = "repair_invalid_schedules"
      /\ UNCHANGED <<appliance, shown, poll, call, plan, repaired, calls, history>>
  BY DEF ReadsDay, IInv, Typed, TypeOK, Active, Under, Write, Follows, Good, Covers
<1>2. w.field = "slots" /\ w.value = Default
  BY <1>1, RepairIsPlan
<1>3. Readable(w) \/ ~Readable(w)
  OBVIOUS
<1>4. CASE ~Readable(w)
  <2>1. /\ pc' = [pc EXCEPT ![t] = "sent"] /\ Sends(t, w) /\ UNCHANGED next
    <3>1. \/ /\ pc' = [pc EXCEPT ![t] = "sent"] /\ Sends(t, w) /\ UNCHANGED next
          \/ slots[<<w.schedule, w.day>>] # Unreadable
      BY DEF ReadsDay
    <3>2. QED
      BY <1>4, <3>1 DEF Readable
  <2>2. /\ pc' \in [Tasks -> {"idle", "reading", "sent", "landed", "returned"}]
        /\ pc'[t] = "sent" /\ \A u \in Tasks \ {t} : pc'[u] = pc[u]
    BY <2>1 DEF IInv, Typed, TypeOK
  <2>3. /\ value' \in [Tasks -> Nat] /\ value'[t] = w.value
        /\ \A u \in Tasks \ {t} : value'[u] = value[u]
    BY <1>1, <1>2, <2>1, SentValue
  <2>4. Typed'
    <3>1. \A u \in Tasks :
            /\ pc'[u] \in {"sent", "landed"} => next'[u] \in 1..Len(plan'[u])
            /\ pc'[u] = "reading" => next'[u] \in 0..Len(plan'[u])
      BY <1>1, <2>1, <2>2 DEF IInv, Typed, TypeOK
    <3>2. TypeOK'
      BY <1>1, <2>2, <3>1 DEF IInv, Typed, TypeOK, appliance
    <3>3. QED
      BY <1>1, <2>1, <2>3, <3>2 DEF IInv, Typed, appliance, history, NoPoll
  <2>5. Follows(t)' /\ Alone(t)' /\ Writing(t)' /\ Selecting(t)'
    <3>1. Follows(t)'
      BY <1>1, <1>2, <2>1, <2>2, <2>3 DEF IInv, Follows, Under, Write
    <3>2. Alone(t)'
      BY <1>1, <2>2 DEF IInv, Alone, Active, history
    <3>3. Writing(t)' /\ Selecting(t)'
      BY <1>1 DEF Writing, IInv, Selecting, history
    <3>4. QED
      BY <3>1, <3>2, <3>3
  <2>6. Repairing(t)'
    <3>1. \A i \in DOMAIN p : Past(t, i)' => Past(t, i)
      BY <1>1, <2>1, <2>2 DEF Past
    <3>2. ~Readable(Write(t))'
      BY <1>1, <1>4, <2>1 DEF Readable, Write, appliance
    <3>3. UnreadableDays' = UnreadableDays /\ \A i \in DOMAIN p : Readable(p[i])' <=> Readable(p[i])
      BY <1>1 DEF UnreadableDays, Readable, appliance
    <3>4. QED
      BY <1>1, <2>2, <3>1, <3>2, <3>3 DEF IInv, Repairing, Under, history
  <2>7. \A u \in Tasks \ {t} : Follows(u)' /\ Alone(u)' /\ Writing(u)' /\ Repairing(u)' /\ Selecting(u)'
    BY <1>1, <2>1, <2>2, <2>3, OthersKept DEF history
  <2>8. QED
    BY <2>4, <2>5, <2>6, <2>7 DEF IInv
<1>5. CASE Readable(w)
  <2>1. Continue(t)
    <3>1. \/ Continue(t)
          \/ slots[<<w.schedule, w.day>>] = Unreadable
      BY DEF ReadsDay
    <3>2. QED
      BY <1>5, <3>1 DEF Readable
  <2>2. Typed'
    <3>1. /\ pc'[t] \in {"sent", "landed"} => next'[t] \in 1..Len(plan'[t])
          /\ pc'[t] = "reading" => next'[t] \in 0..Len(plan'[t])
      BY <1>1, <2>1, GoesOn
    <3>2. \A u \in Tasks :
            /\ pc'[u] \in {"sent", "landed"} => next'[u] \in 1..Len(plan'[u])
            /\ pc'[u] = "reading" => next'[u] \in 0..Len(plan'[u])
      <4>1. /\ plan' = plan
            /\ \A u \in Tasks \ {t} : pc'[u] = pc[u] /\ next'[u] = next[u]
        BY <1>1, <2>1, GoesOn
      <4>2. QED
        BY <3>1, <4>1 DEF IInv, Typed, TypeOK
    <3>3. /\ pc' \in [Tasks -> {"idle", "reading", "sent", "landed", "returned"}]
          /\ next' \in [Tasks -> Nat] /\ value' \in [Tasks -> Nat]
      BY <1>1, <2>1, GoesOn
    <3>4. TypeOK'
      BY <1>1, <3>2, <3>3 DEF IInv, Typed, TypeOK, appliance
    <3>5. QED
      BY <1>1, <3>3, <3>4 DEF IInv, Typed, appliance, history, NoPoll
  <2>3. pc'[t] \in {"reading", "returned"}
    BY <1>1, <2>1, GoesOn
  <2>4. Follows(t)' /\ Alone(t)' /\ Writing(t)' /\ Selecting(t)'
    <3>1. Follows(t)'
      BY <1>1, <2>3 DEF IInv, Follows, Under
    <3>2. Alone(t)'
      <4>1. \A u \in Tasks \ {t} : pc'[u] = pc[u]
        BY <1>1, <2>1, GoesOn
      <4>2. QED
        BY <1>1, <4>1 DEF IInv, Alone, Active, history
    <3>3. Writing(t)' /\ Selecting(t)'
      BY <1>1 DEF Writing, IInv, Selecting, history
    <3>4. QED
      BY <3>1, <3>2, <3>3
  <2>5. Repairing(t)'
    <3>1. \A i \in DOMAIN p : Past(t, i)' => i <= next[t]
      BY <1>1, <2>1, PastGoesOn
    <3>2. \A i \in DOMAIN p : Past(t, i)' => i = next[t] \/ Past(t, i)
      BY <1>1, <3>1 DEF Past
    <3>3. UnreadableDays' = UnreadableDays /\ \A i \in DOMAIN p : Readable(p[i])' <=> Readable(p[i])
      BY <1>1 DEF UnreadableDays, Readable, appliance
    <3>4. QED
      BY <1>1, <1>5, <2>3, <3>2, <3>3 DEF IInv, Repairing, Under, history
  <2>6. \A u \in Tasks \ {t} : Follows(u)' /\ Alone(u)' /\ Writing(u)' /\ Repairing(u)' /\ Selecting(u)'
    BY <1>1, <2>1, GoesOn, OthersKept DEF history
  <2>7. QED
    BY <2>2, <2>4, <2>5, <2>6 DEF IInv
<1>6. QED
  BY <1>4, <1>5

LEMMA InvRaises ==
  ASSUME IInv, NEW t \in Tasks, Raises(t)
  PROVE  IInv'
<1>1. /\ Active(t) /\ pc' = [pc EXCEPT ![t] = "idle"]
      /\ call' = [call EXCEPT ![t] = NoCall] /\ plan' = [plan EXCEPT ![t] = <<>>]
      /\ next' = [next EXCEPT ![t] = 0] /\ value' = [value EXCEPT ![t] = 0]
      /\ repaired' = [repaired EXCEPT ![t] = 0] /\ broken' = [broken EXCEPT ![t] = 0]
      /\ alone' = [alone EXCEPT ![t] = FALSE] /\ quiet' = [quiet EXCEPT ![t] = FALSE]
      /\ fresh' = [fresh EXCEPT ![t] = FALSE]
      /\ UNCHANGED <<appliance, shown, poll, calls>>
  BY DEF Raises
<1>2. pc'[t] = "idle" /\ ~alone'[t]
  BY <1>1 DEF IInv, Typed, TypeOK
<1>3. \A u \in Tasks \ {t} :
        /\ pc'[u] = pc[u] /\ call'[u] = call[u] /\ plan'[u] = plan[u]
        /\ next'[u] = next[u] /\ value'[u] = value[u] /\ alone'[u] = alone[u]
  BY <1>1 DEF IInv, Typed, TypeOK
<1>4. Typed'
  <2>1. \A u \in Tasks :
          /\ pc'[u] \in {"sent", "landed"} => next'[u] \in 1..Len(plan'[u])
          /\ pc'[u] = "reading" => next'[u] \in 0..Len(plan'[u])
    BY <1>2, <1>3 DEF IInv, Typed, TypeOK
  <2>2. pc' \in [Tasks -> {"idle", "reading", "sent", "landed", "returned"}]
    BY <1>1 DEF IInv, Typed, TypeOK
  <2>3. TypeOK'
    BY <1>1, <2>1, <2>2 DEF IInv, Typed, TypeOK, appliance
  <2>4. /\ plan' \in [Tasks -> Seq(Writes)] /\ DOMAIN call' = Tasks
        /\ next' \in [Tasks -> Nat] /\ value' \in [Tasks -> Nat]
        /\ repaired' \in [Tasks -> Nat] /\ broken' \in [Tasks -> Nat]
        /\ alone' \in [Tasks -> BOOLEAN] /\ quiet' \in [Tasks -> BOOLEAN]
        /\ fresh' \in [Tasks -> BOOLEAN]
    BY <1>1, EmptyPlan DEF IInv, Typed
  <2>5. QED
    BY <1>1, <2>3, <2>4 DEF IInv, Typed, appliance, NoPoll
<1>5. Follows(t)' /\ Alone(t)' /\ Writing(t)' /\ Repairing(t)' /\ Selecting(t)'
  BY <1>2 DEF Follows, Under, Alone, Writing, Repairing, Selecting
<1>6. \A u \in Tasks \ {t} : Follows(u)' /\ Alone(u)' /\ Writing(u)' /\ Repairing(u)' /\ Selecting(u)'
  BY <1>1, <1>3, OthersKept
<1>7. QED
  BY <1>4, <1>5, <1>6 DEF IInv

-----------------------------------------------------------------------------
(* Steps of the poll and of the appliance.                                 *)

LEMMA Elsewhere ==
  ASSUME IInv, Typed',
         UNCHANGED <<kind, cooling, device, slots, pc, call, plan, next, value, repaired>>,
         UNCHANGED <<alone, broken, fresh>>
  PROVE  IInv'
<1>1. ASSUME NEW t \in Tasks
      PROVE  Follows(t)' /\ Alone(t)' /\ Writing(t)' /\ Repairing(t)' /\ Selecting(t)'
  <2>1. Follows(t)' /\ Alone(t)'
    BY DEF IInv, Follows, Under, Write, Alone, Active
  <2>2. Writing(t)'
    BY DEF IInv, Writing, Under, Past, Holds
  <2>3. Repairing(t)'
    BY DEF IInv, Repairing, Under, Past, Readable, Write, UnreadableDays
  <2>4. Selecting(t)'
    BY DEF IInv, Selecting, Under, Selection, SelectedIn
  <2>5. QED
    BY <2>1, <2>2, <2>3, <2>4
<1>2. QED
  BY <1>1 DEF IInv

LEMMA InvPoll ==
  ASSUME IInv, PollServed \/ PollEnds \/ PollFails
  PROVE  IInv'
<1>1. /\ UNCHANGED <<appliance, locals, calls, alone, broken, fresh>>
  BY DEF PollServed, PollEnds, PollFails, history
<1>2. /\ NoPoll \in [Shown -> Nat]
  BY DEF NoPoll
<1>3. CASE PollServed
  <2>1. "mode" \in Shown /\ "mode" # "holiday"
    BY DEF Shown, Fields
  <2>2. \A f \in Shown : Register(f) \in Nat
    BY DEF IInv, Typed, TypeOK, Shown, Register
  <2>3. /\ poll' = [f \in Shown |-> Register(f)] /\ shown' = shown
        /\ quiet' = [t \in Tasks |-> FALSE]
    BY <1>3 DEF PollServed
  <2>4. poll' \in [Shown -> Nat] /\ poll'["mode"] \in Modes
    BY <2>1, <2>2, <2>3 DEF Register, IInv, Typed, TypeOK
  <2>5. Typed'
    BY <1>1, <2>3, <2>4 DEF IInv, Typed, TypeOK, appliance, locals
  <2>6. QED
    BY <1>1, <2>5, Elsewhere DEF appliance, locals
<1>4. CASE PollEnds
  <2>1. shown' = poll /\ poll' = NoPoll /\ poll # NoPoll /\ quiet' = quiet
    BY <1>4 DEF PollEnds, history
  <2>2. Typed'
    BY <1>1, <1>2, <2>1 DEF IInv, Typed, TypeOK, appliance, locals, NoPoll
  <2>3. QED
    BY <1>1, <2>2, Elsewhere DEF appliance, locals
<1>5. CASE PollFails
  <2>1. shown' = shown /\ poll' = NoPoll /\ quiet' = quiet
    BY <1>5 DEF PollFails, history
  <2>2. Typed'
    BY <1>1, <1>2, <2>1 DEF IInv, Typed, TypeOK, appliance, locals, NoPoll
  <2>3. QED
    BY <1>1, <2>2, Elsewhere DEF appliance, locals
<1>6. QED
  BY <1>3, <1>4, <1>5

LEMMA InvTick ==
  ASSUME IInv, Tick
  PROVE  IInv'
<1>1. Typed'
  BY ZoneAssumption DEF Tick, IInv, Typed, TypeOK, locals, history, NoPoll
<1>2. QED
  BY <1>1, Elsewhere DEF Tick, locals, history

LEMMA InvDamage ==
  ASSUME IInv, NEW sd \in Schedules \X Days, Damage(sd)
  PROVE  IInv'
<1>1. /\ damages' = damages + 1 /\ slots' = [slots EXCEPT ![sd] = Unreadable]
      /\ alone' = [t \in Tasks |-> FALSE] /\ broken' = [t \in Tasks |-> 0]
      /\ quiet' = [t \in Tasks |-> FALSE] /\ fresh' = [t \in Tasks |-> FALSE]
      /\ UNCHANGED <<kind, cooling, device, now, shown, poll, locals, calls>>
  BY DEF Damage, Forget
<1>2. Typed'
  <2>1. slots' \in [ScheduleIds \X Days -> {Unreadable, Default, Given}]
    BY <1>1 DEF IInv, Typed, TypeOK
  <2>2. TypeOK'
    BY <1>1, <2>1 DEF IInv, Typed, TypeOK, locals
  <2>3. QED
    BY <1>1, <2>2 DEF IInv, Typed, locals, NoPoll
<1>3. ASSUME NEW t \in Tasks
      PROVE  Follows(t)' /\ Alone(t)' /\ Writing(t)' /\ Repairing(t)' /\ Selecting(t)'
  <2>1. ~alone'[t]
    BY <1>1
  <2>2. QED
    BY <1>1, <2>1
    DEF IInv, Follows, Under, Write, Alone, Writing, Repairing, Selecting, locals
<1>4. QED
  BY <1>2, <1>3 DEF IInv

LEMMA InvNext == IInv /\ [Next]_vars => IInv'
<1> SUFFICES ASSUME IInv, [Next]_vars PROVE IInv'
  OBVIOUS
<1>1. ASSUME NEW t \in Tasks, NEW r \in Requests, Call(t, r) PROVE IInv'
  BY <1>1, InvCall
<1>2. ASSUME NEW t \in Tasks, WriteLands(t) PROVE IInv'
  BY <1>2, InvWriteLands
<1>3. ASSUME NEW t \in Tasks, WriteAcknowledged(t) PROVE IInv'
  BY <1>3, InvWriteAcknowledged
<1>4. ASSUME NEW t \in Tasks, ReadsIdentity(t) PROVE IInv'
  BY <1>4, InvReadsIdentity
<1>5. ASSUME NEW t \in Tasks, ReadsDay(t) PROVE IInv'
  BY <1>5, InvReadsDay
<1>6. ASSUME NEW t \in Tasks, Raises(t) PROVE IInv'
  BY <1>6, InvRaises
<1>7. CASE PollServed \/ PollEnds \/ PollFails
  BY <1>7, InvPoll
<1>8. CASE Tick
  BY <1>8, InvTick
<1>9. ASSUME NEW sd \in Schedules \X Days, Damage(sd) PROVE IInv'
  BY <1>9, InvDamage
<1>10. CASE UNCHANGED vars
  <2>1. Typed'
    BY <1>10 DEF vars, appliance, locals, history, IInv, Typed, TypeOK, NoPoll
  <2>2. QED
    BY <1>10, <2>1, Elsewhere DEF vars, appliance, locals, history
<1>11. QED
  BY <1>1, <1>2, <1>3, <1>4, <1>5, <1>6, <1>7, <1>8, <1>9, <1>10 DEF Next

(* The invariant of the zone: typed state, and every task on a good plan   *)
(* whose writes have landed as far as it has got.                          *)
THEOREM InvHolds == Spec => []IInv
<1>1. IInv /\ [Next]_vars => IInv'
  BY InvNext
<1>2. QED
  BY <1>1, InitInv, PTL DEF Spec

-----------------------------------------------------------------------------
(* What the runs check, for every instance.                                *)

(* Registers, days and plans keep their types: no call, whatever the       *)
(* component shows, sends the appliance a mode or a schedule id it refuses.*)
THEOREM TypeCorrect == Spec => []TypeOK
<1>1. IInv => TypeOK
  BY DEF IInv, Typed
<1>2. QED
  BY <1>1, InvHolds, PTL

\* What a plan that is behind a call has, the appliance has.
LEMMA HasHolds ==
  ASSUME NEW p, NEW w, Has(p, w), \A i \in DOMAIN p : Holds(p[i])
  PROVE  Holds(w)
BY Zenon DEF Has

(* A call that nothing overlapped has done all it promises when it returns:*)
(* async_set_mode, the schedule setters, the holiday calls and the repair. *)
(* A week's schedule is also in force, when the component showed what was, *)
(* or it is the cooling schedule and schedule 1 is selected in its place.  *)
THEOREM OkIsDone == Spec => []OkMeansDone
<1>1. ASSUME IInv, NEW t \in Tasks, pc[t] = "returned", alone[t] PROVE Done(t)
  <2> DEFINE c == call[t]
             p == plan[t]
  <2>1. Under(t) /\ Good(c, p) /\ Covers(c, p) /\ \A i \in DOMAIN p : Past(t, i)
    BY <1>1 DEF IInv, Follows, Under, Good, Past
  <2>2. CASE c.op = "repair_invalid_schedules"
    <3>1. /\ p = RepairPlan /\ \A i \in DOMAIN p : Readable(p[i])
          /\ repaired[t] + Cardinality(UnreadableDays) = broken[t]
      <4>1. repaired[t] \in Nat
        BY <1>1 DEF IInv, Typed
      <4>2. QED
        BY <1>1, <2>1, <2>2, <4>1, CountOfDays DEF IInv, Repairing, Covers
    <3>2. UnreadableDays = {}
      <4>1. ASSUME NEW s \in ScheduleIds, NEW d \in Days PROVE slots[<<s, d>>] # Unreadable
        <5>1. PICK i \in DOMAIN p : p[i] = PutDay(s, d, Default)
          BY <3>1, RepairIsPlan DEF Has
        <5>2. Readable(PutDay(s, d, Default))
          BY <3>1, <5>1
        <5>3. QED
          BY <5>2 DEF Readable, PutDay
      <4>2. QED
        BY <4>1 DEF UnreadableDays
    <3>3. Cardinality(UnreadableDays) = 0 /\ repaired[t] \in Nat
      BY <1>1, <3>2, FS_EmptySet DEF IInv, Typed
    <3>4. QED
      BY <2>2, <3>1, <3>2, <3>3 DEF Done
  <2>3. CASE c.op # "repair_invalid_schedules"
    <3>1. \A i \in DOMAIN p : Holds(p[i])
      BY <1>1, <2>1, <2>3 DEF IInv, Writing
    <3>2. ASSUME NEW f, NEW v, f \notin {"slots", "temporaryEnd"}, Has(p, Put(f, v))
          PROVE  device[f] = v
      <4>1. Holds(Put(f, v))
        BY <3>1, <3>2, HasHolds
      <4>2. QED
        BY <3>2, <4>1 DEF Holds, Put
    <3>3. ASSUME NEW s, NEW d, Has(p, PutDay(s, d, Given)) PROVE slots[<<s, d>>] = Given
      <4>1. Holds(PutDay(s, d, Given))
        BY <3>1, <3>3, HasHolds
      <4>2. QED
        BY <4>1 DEF Holds, PutDay
    <3>4. CASE c.op = "set_mode"
      <4>1. Has(p, Put("mode", c.arg))
        BY <2>1, <3>4 DEF Covers
      <4>2. QED
        BY <3>2, <3>4, <4>1 DEF Done
    <3>5. CASE c.op = "set_selected_schedule"
      <4>1. Has(p, Put("selectedSchedule", SelectedForWrite(c.arg)))
        BY <2>1, <3>5 DEF Covers
      <4>2. QED
        BY <3>2, <3>5, <4>1 DEF Done
    <3>6. CASE c.op = "set_current_schedule"
      <4>1. \A d \in Days : Has(p, PutDay(c.arg, d, Given))
        BY <2>1, <3>6 DEF Covers
      <4>2. ASSUME fresh[t]
            PROVE  \/ Selection = c.arg
                   \/ c.arg = SCHEDULE_4 /\ device["selectedSchedule"] = SCHEDULE_1
        <5>1. /\ IsHotWater(kind) \/ c.arg = SCHEDULE_4
              /\ \/ Has(p, Put("selectedSchedule", SelectedForWrite(c.arg)))
                 \/ Selection = c.arg
          BY <1>1, <2>1, <4>2 DEF IInv, Selecting
        <5>2. CASE Has(p, Put("selectedSchedule", SelectedForWrite(c.arg)))
          <6>1. device["selectedSchedule"] = SelectedForWrite(c.arg)
            BY <3>2, <5>2
          <6>2. IsHotWater(kind) => ~cooling
            BY <1>1 DEF IInv, Typed, IsHotWater, IsCentralHeating
          <6>3. QED
            BY <5>1, <6>1, <6>2 DEF SelectedForWrite, Selection, SelectedIn
        <5>3. QED
          BY <5>1, <5>2
      <4>3. QED
        BY <3>3, <3>6, <4>1, <4>2 DEF Done
    <3>7. CASE c.op = "set_day_schedule"
      <4>1. Has(p, PutDay(c.arg, c.day, Given))
        BY <2>1, <3>7 DEF Covers
      <4>2. QED
        BY <3>3, <3>7, <4>1 DEF Done
    <3>8. CASE c.op = "enable_holiday_mode"
      <4>1. Has(p, Put("holidayStart", c.arg[1])) /\ Has(p, Put("holidayEnd", c.arg[2]))
        BY <2>1, <3>8 DEF Covers
      <4>2. QED
        BY <3>2, <3>8, <4>1 DEF Done
    <3>9. CASE c.op = "disable_holiday_mode"
      <4>1. Has(p, Put("holidayStart", 0)) /\ Has(p, Put("holidayEnd", 0))
        BY <2>1, <3>9 DEF Covers
      <4>2. QED
        BY <3>2, <3>9, <4>1 DEF Done
    <3>10. QED
      BY <2>3, <3>4, <3>5, <3>6, <3>7, <3>8, <3>9 DEF Done
  <2>4. QED
    BY <2>2, <2>3
<1>2. IInv => OkMeansDone
  BY <1>1 DEF OkMeansDone
<1>3. QED
  BY <1>2, InvHolds, PTL

(* The end of an override reaches the zone only behind the setpoint of the *)
(* same async_set_current_setpoint, never behind one a failed call left.   *)
THEOREM ArmsOwn == Spec => ArmsItsOwnSetpoint
<1> DEFINE A == device'["temporaryEnd"] # device["temporaryEnd"] =>
                  \E t \in Tasks :
                    /\ pc[t] = "sent" /\ Write(t).field = "temporaryEnd"
                    /\ alone[t] => device["temporaryRoom"] = call[t].arg
<1>1. ASSUME IInv, [Next]_vars PROVE A
  <2> SUFFICES ASSUME device'["temporaryEnd"] # device["temporaryEnd"] PROVE A
    OBVIOUS
  <2>1. \E t \in Tasks : WriteLands(t)
    <3>1. device' # device
      OBVIOUS
    <3>2. QED
      BY <1>1, <3>1
      DEF Next, vars, appliance, history, Call, WriteAcknowledged, ReadsIdentity, ReadsDay,
          Raises, PollServed, PollEnds, PollFails, Tick, Damage
  <2>2. PICK t \in Tasks : WriteLands(t)
    BY <2>1
  <2>3. /\ pc[t] = "sent" /\ Write(t).field = "temporaryEnd"
        /\ next[t] \in 1..Len(plan[t]) /\ plan[t] \in Seq(Writes)
        /\ Under(t) /\ Good(call[t], plan[t])
    <3>1. pc[t] = "sent" /\ \/ device' = device
                            \/ device' = [device EXCEPT ![Write(t).field] = value[t]]
      BY <2>2 DEF WriteLands
    <3>2. "temporaryEnd" \in Fields /\ device \in [Fields -> Nat]
      BY <1>1 DEF IInv, Typed, TypeOK, Fields, Times
    <3>3. QED
      BY <1>1, <3>1, <3>2 DEF IInv, Typed, TypeOK, Follows, Under
  <2>4. /\ call[t].op = "set_current_setpoint" /\ next[t] = 2
        /\ plan[t][1] = Put("temporaryRoom", call[t].arg) /\ 1 \in DOMAIN plan[t]
    BY <2>3 DEF Good, OwnSetpointFirst, Write
  <2>5. alone[t] => Holds(plan[t][1])
    BY <1>1, <2>3, <2>4 DEF IInv, Writing, Past
  <2>6. alone[t] => device["temporaryRoom"] = call[t].arg
    BY <2>4, <2>5 DEF Holds, Put
  <2>7. QED
    BY <2>3, <2>6
<1>2. QED
  <2>1. IInv /\ [Next]_vars => [A]_vars
    BY <1>1
  <2>2. QED
    BY <2>1, InvHolds, PTL DEF Spec, ArmsItsOwnSetpoint

(* A repair that nothing overlapped writes only a day schedule it has read *)
(* and could not decode, so no readable day loses its slots to it.         *)
THEOREM RepairSpares == Spec => RepairSparesReadableDays
<1> DEFINE A == \A t \in Tasks :
                  pc[t] = "sent" /\ pc'[t] = "landed" /\ call[t].op = "repair_invalid_schedules"
                    /\ alone[t] =>
                      slots[<<Write(t).schedule, Write(t).day>>] = Unreadable
<1>1. IInv => A
  BY DEF IInv, Repairing, Under, Readable
<1>2. IInv /\ [Next]_vars => [A]_vars
  BY <1>1
<1>3. QED
  BY <1>2, InvHolds, PTL DEF Spec, RepairSparesReadableDays

-----------------------------------------------------------------------------
(* Reading back a setpoint.                                                *)

Asked(t) == call[t].op = "set_current_setpoint" /\ call[t].arg \in Temps

\* The writes of its plan whose answers task t has.
Answered(t, i) == pc[t] \in {"sent", "landed"} => i < next[t]

Seen(w) ==
  IF w.field = "temporaryEnd" THEN shown["temporaryEnd"] # 0 ELSE shown[w.field] = w.value

(***************************************************************************)
(* With no poll and no other call, what decided a setpoint's plan is as it *)
(* was, and the component shows what has been answered.                    *)
(***************************************************************************)
Unmoved(t) ==
  Under(t) /\ alone[t] /\ quiet[t] /\ call[t].op = "set_current_setpoint" =>
    /\ poll = NoPoll /\ call[t].arg \in Temps
    /\ plan[t] = SetpointPlan(call[t].arg)
    /\ \A i \in DOMAIN plan[t] : Answered(t, i) => Seen(plan[t][i])

Flagged == shown["holiday"] \in {0, 1} /\ poll["holiday"] \in {0, 1}

BackInv == IInv /\ Flagged /\ \A t \in Tasks : Unmoved(t)

LEMMA InitBack == Init => BackInv
<1> SUFFICES ASSUME Init PROVE BackInv
  OBVIOUS
<1>1. Flagged
  BY DEF Init, Flagged, Shown, Register, NoPoll
<1>2. \A t \in Tasks : Unmoved(t)
  BY DEF Init, Unmoved, Under
<1>3. QED
  BY <1>1, <1>2, InitInv DEF BackInv

LEMMA FlaggedNext == BackInv /\ [Next]_vars => Flagged'
<1> SUFFICES ASSUME BackInv, [Next]_vars PROVE Flagged'
  OBVIOUS
<1>0. "holiday" \in Shown /\ DOMAIN shown = Shown /\ NoPoll["holiday"] = 0
  BY DEF BackInv, IInv, Typed, TypeOK, Shown, NoPoll
<1>1. CASE shown' = shown /\ poll' = poll
  BY <1>1 DEF BackInv, Flagged
<1>2. ASSUME NEW t \in Tasks, WriteAcknowledged(t) PROVE Flagged'
  <2>1. poll' = poll /\ \/ shown' = shown
                        \/ shown' = [shown EXCEPT ![Write(t).field] = value[t]]
    BY <1>2 DEF WriteAcknowledged
  <2>2. Write(t).field # "holiday"
    <3>1. Write(t) \in Writes
      BY <1>2 DEF WriteAcknowledged, BackInv, IInv, Typed, TypeOK, Write
    <3>2. QED
      BY <3>1 DEF Writes, RegisterWrites, DayWrites, Fields, Setpoints, Times
  <2>3. QED
    BY <1>0, <2>1, <2>2 DEF BackInv, Flagged
<1>3. CASE PollServed
  <2>1. poll'["holiday"] = Register("holiday") /\ shown' = shown
    BY <1>0, <1>3 DEF PollServed
  <2>2. QED
    BY <2>1 DEF BackInv, Flagged, Register
<1>4. CASE PollEnds \/ PollFails
  BY <1>0, <1>4 DEF PollEnds, PollFails, BackInv, Flagged
<1>5. QED
  BY <1>1, <1>2, <1>3, <1>4
  DEF Next, vars, Call, WriteLands, ReadsIdentity, ReadsDay, Raises, Tick, Damage

LEMMA UnmovedNext ==
  ASSUME BackInv, [Next]_vars, NEW t \in Tasks
  PROVE  Unmoved(t)'
<1>0. /\ IInv /\ Typed /\ TypeOK /\ Follows(t) /\ Alone(t) /\ Unmoved(t)
      /\ plan[t] \in Seq(Writes)
  BY DEF BackInv, IInv, Typed
<1>1. ASSUME NEW r \in Requests, Call(t, r) PROVE Unmoved(t)'
  <2>1. /\ call'[t] = r /\ plan'[t] = PlanOf(r) /\ (quiet'[t] => poll = NoPoll)
        /\ UNCHANGED <<kind, shown, poll>>
    BY <1>0, <1>1 DEF Call, Remember, Typed, appliance
  <2> SUFFICES ASSUME quiet'[t], r.op = "set_current_setpoint"
               PROVE  /\ poll' = NoPoll' /\ r.arg \in Temps
                      /\ plan'[t] = SetpointPlan(r.arg)'
                      /\ \A i \in DOMAIN plan'[t] : ~Answered(t, i)'
    BY <2>1 DEF Unmoved
  <2>2. r.arg \in Temps /\ PlanOf(r) = SetpointPlan(r.arg)
    BY DEF Requests, PlanOf
  <2>3. SetpointPlan(r.arg)' = SetpointPlan(r.arg)
    BY <2>1 DEF SetpointPlan, HeatingSetpoint, HotWaterSetpoint, IsHotWater, IsCentralHeating
  <2>4. PlanOf(r) \in Seq(Writes)
    BY <1>0, PlanGood DEF Good, TypeOK
  <2>5. \A i \in DOMAIN plan'[t] : ~Answered(t, i)'
    <3>1. CASE PlanOf(r) = <<>>
      BY <2>1, <3>1, EmptyPlan
    <3>2. CASE PlanOf(r) # <<>>
      <4>1. pc' = [pc EXCEPT ![t] = "sent"] /\ next' = [next EXCEPT ![t] = 1]
        BY <1>1, <3>2 DEF Call
      <4>2. pc'[t] = "sent" /\ next'[t] = 1
        BY <1>0, <4>1 DEF Typed, TypeOK
      <4>3. QED
        BY <2>1, <2>4, <4>2 DEF Answered
    <3>3. QED
      BY <3>1, <3>2
  <2>6. poll' = NoPoll'
    BY <2>1 DEF NoPoll
  <2>7. QED
    BY <2>1, <2>2, <2>3, <2>5, <2>6
<1>2. ASSUME NEW u \in Tasks \ {t}, NEW r \in Requests, Call(u, r) PROVE Unmoved(t)'
  BY <1>2 DEF Call, Remember, Unmoved
<1>3. ASSUME NEW u \in Tasks \ {t},
             WriteLands(u) \/ WriteAcknowledged(u) \/ ReadsIdentity(u) \/ ReadsDay(u) \/ Raises(u)
      PROVE  Unmoved(t)'
  <2>1. Active(u) /\ ~alone[t]
    BY <1>0, <1>3
    DEF WriteLands, WriteAcknowledged, ReadsIdentity, ReadsDay, Raises, Active, Alone
  <2>2. ~alone'[t]
    BY <1>0, <1>3, <2>1
    DEF WriteLands, WriteAcknowledged, ReadsIdentity, ReadsDay, Raises, history, Typed
  <2>3. QED
    BY <2>2 DEF Unmoved
<1>4. ASSUME UNCHANGED <<kind, shown, poll, call, plan, next, alone, quiet>>,
             \/ pc'[t] = pc[t]
             \/ pc[t] = "sent" /\ pc'[t] = "landed"
      PROVE  Unmoved(t)'
  <2>1. SetpointPlan(call[t].arg)' = SetpointPlan(call[t].arg)
    BY <1>4 DEF SetpointPlan, HeatingSetpoint, HotWaterSetpoint, IsHotWater, IsCentralHeating
  <2>2. \A i \in DOMAIN plan[t] : Answered(t, i)' => Answered(t, i)
    BY <1>4 DEF Answered
  <2>3. \A i \in DOMAIN plan[t] : Seen(plan[t][i]) => Seen(plan[t][i])'
    BY <1>4 DEF Seen
  <2>4. NoPoll' = NoPoll /\ (Under(t)' => Under(t))
    BY <1>4 DEF NoPoll, Under
  <2>5. QED
    BY <1>0, <1>4, <2>1, <2>2, <2>3, <2>4 DEF Unmoved
<1>5. CASE WriteLands(t)
  BY <1>0, <1>4, <1>5 DEF WriteLands, TypeOK, history
<1>6. CASE WriteAcknowledged(t)
  <2>1. /\ pc[t] = "landed" /\ Continue(t) /\ Active(t) /\ Under(t)
        /\ next[t] \in 1..Len(plan[t]) /\ Write(t) = plan[t][next[t]]
        /\ UNCHANGED <<kind, poll, call, plan, alone, quiet>>
    BY <1>0, <1>6 DEF WriteAcknowledged, appliance, Active, Under, TypeOK, Write, history
  <2> DEFINE v == call[t].arg
             w == Write(t)
  <2> SUFFICES ASSUME alone[t], quiet[t], call[t].op = "set_current_setpoint"
               PROVE  /\ poll' = NoPoll' /\ v \in Temps
                      /\ plan[t] = SetpointPlan(v)'
                      /\ \A i \in DOMAIN plan[t] : Answered(t, i)' => Seen(plan[t][i])'
    BY <2>1 DEF Unmoved
  <2>2. /\ poll = NoPoll /\ v \in Temps /\ v \in Nat /\ plan[t] = SetpointPlan(v)
        /\ \A i \in DOMAIN plan[t] : i < next[t] => Seen(plan[t][i])
    BY <1>0, <2>1, Numbers DEF Unmoved, Answered
  <2>3. \A i \in DOMAIN plan[t] :
          plan[t][i].field \in (Setpoints \cup {"temporaryEnd"}) \ {"mode", "holiday", "slots"}
    <3>1. ASSUME NEW f \in {"roomHoliday", "roomManual", "dhwHoliday", "dhwComfort", "dhwReduced"},
                 plan[t] = <<Put(f, v)>>, NEW i \in DOMAIN plan[t]
          PROVE  plan[t][i].field \in (Setpoints \cup {"temporaryEnd"}) \ {"mode", "holiday", "slots"}
      BY <3>1 DEF Put, Setpoints
    <3>2. ASSUME plan[t] = <<Put("temporaryRoom", v), Put("temporaryEnd", 0)>>,
                 NEW i \in DOMAIN plan[t]
          PROVE  plan[t][i].field \in (Setpoints \cup {"temporaryEnd"}) \ {"mode", "holiday", "slots"}
      BY <3>2 DEF Put, Setpoints
    <3>3. CASE plan[t] = <<>>
      BY <3>3, EmptyPlan
    <3>4. kind \in Kinds /\ shown["mode"] \in Modes
      BY <1>0 DEF TypeOK
    <3>5. QED
      BY <2>2, <3>1, <3>2, <3>3, <3>4, SetpointShape
  <2>4. /\ w.field \in (Setpoints \cup {"temporaryEnd"}) \ {"mode", "holiday", "slots"}
        /\ next[t] \in DOMAIN plan[t]
    BY <1>0, <2>1, <2>3
  <2>5. /\ shown' = [shown EXCEPT ![w.field] = value[t]] /\ w.field \in Shown
        /\ DOMAIN shown = Shown
    BY <1>0, <1>6, <2>4 DEF WriteAcknowledged, Shown, Fields, Times, TypeOK
  <2>6. shown'["mode"] = shown["mode"] /\ shown'["holiday"] = shown["holiday"]
    BY <2>4, <2>5
  <2>7. SetpointPlan(v)' = SetpointPlan(v)
    BY <2>1, <2>6
    DEF SetpointPlan, HeatingSetpoint, HotWaterSetpoint, IsHotWater, IsCentralHeating
  <2>8. ASSUME NEW i \in DOMAIN plan[t], i = next[t] PROVE Seen(plan[t][i])'
    <3>1. /\ plan'[t][i] = w /\ shown'[w.field] = value[t]
          /\ IF w.field = "temporaryEnd" THEN value[t] # 0 ELSE value[t] = w.value
      BY <1>0, <2>1, <2>5, <2>8 DEF Follows
    <3>2. QED
      BY <3>1 DEF Seen
  <2>9. ASSUME NEW i \in DOMAIN plan[t], i < next[t] PROVE Seen(plan[t][i])'
    <3>1. Target(plan[t][i]) # Target(w)
      BY <1>0, <2>1, <2>4, <2>9 DEF Follows, Good, Distinct
    <3>2. plan[t][i] \in RegisterWrites /\ w \in RegisterWrites
      BY <1>0, <2>1, <2>3, <2>4 DEF Writes, DayWrites
    <3>3. plan[t][i].field # w.field
      BY <3>1, <3>2 DEF RegisterWrites, Target
    <3>4. "temporaryEnd" \in Shown /\ plan[t][i].field \in Shown
      BY <3>2 DEF RegisterWrites, Shown, Fields, Times
    <3>5. plan'[t] = plan[t] /\ shown'[plan[t][i].field] = shown[plan[t][i].field]
      BY <2>1, <2>5, <3>3, <3>4
    <3>6. Seen(plan[t][i])
      BY <2>2, <2>9
    <3>7. QED
      BY <3>5, <3>6 DEF Seen
  <2>10. \A i \in DOMAIN plan[t] : Answered(t, i)' => i = next[t] \/ i < next[t]
    <3>1. ASSUME NEW i \in DOMAIN plan[t], Answered(t, i)' PROVE i <= next[t]
      BY <1>0, <2>1, <3>1, GoesOn DEF Answered, Typed
    <3>2. QED
      BY <1>0, <2>1, <3>1
  <2>11. QED
    BY <2>1, <2>2, <2>7, <2>8, <2>9, <2>10 DEF NoPoll
<1>7. CASE ReadsIdentity(t) \/ ReadsDay(t)
  <2>1. call[t].op = "repair_invalid_schedules" /\ call' = call
    BY <1>0, <1>7 DEF ReadsIdentity, ReadsDay, Follows
  <2>2. QED
    BY <2>1 DEF Unmoved
<1>8. CASE Raises(t)
  BY <1>0, <1>8 DEF Raises, TypeOK, Unmoved, Under
<1>9. CASE PollServed
  BY <1>9 DEF PollServed, Unmoved
<1>10. CASE PollEnds \/ PollFails
  <2>1. poll # NoPoll /\ UNCHANGED <<locals, history>>
    BY <1>10 DEF PollEnds, PollFails
  <2>2. QED
    BY <1>0, <2>1 DEF Unmoved, Under, locals, history
<1>11. CASE Tick
  BY <1>4, <1>11 DEF Tick, locals, history
<1>12. ASSUME NEW sd \in Schedules \X Days, Damage(sd) PROVE Unmoved(t)'
  BY <1>12 DEF Damage, Forget, Unmoved
<1>13. CASE UNCHANGED vars
  BY <1>4, <1>13 DEF vars, appliance, locals, history
<1>14. QED
  BY <1>1, <1>2, <1>3, <1>5, <1>6, <1>7, <1>8, <1>9, <1>10, <1>11, <1>12, <1>13 DEF Next

(* What async_set_current_setpoint wrote is what current_setpoint returns, *)
(* for every kind of zone and in every mode, holiday and override, as long *)
(* as no poll or other call comes between and the override has not run out.*)
THEOREM ReadsBack == Spec => []SetpointReadsBack
<1>1. BackInv /\ [Next]_vars => BackInv'
  BY InvNext, FlaggedNext, UnmovedNext DEF BackInv
<1>2. BackInv => SetpointReadsBack
  <2> SUFFICES ASSUME BackInv, NEW t \in Tasks,
                      Returned(t, "set_current_setpoint"), alone[t], quiet[t], plan[t] # <<>>
               PROVE  \/ CurrentSetpoint = call[t].arg
                      \/ shown["mode"] = SCHEDULING /\ shown["temporaryEnd"] < now
    BY DEF SetpointReadsBack
  <2> DEFINE v == call[t].arg
  <2>1. /\ v \in Nat /\ plan[t] = SetpointPlan(v)
        /\ \A i \in DOMAIN plan[t] : Seen(plan[t][i])
        /\ shown["holiday"] \in {0, 1} /\ shown["mode"] \in {SCHEDULING, MANUAL, ANTI_FROST}
        /\ shown["temporaryEnd"] \in Nat /\ now \in Nat
    <3>1. Unmoved(t) /\ pc[t] = "returned" /\ call[t].op = "set_current_setpoint"
      BY DEF BackInv, Returned
    <3>2. v \in Temps /\ plan[t] = SetpointPlan(v) /\ \A i \in DOMAIN plan[t] : Seen(plan[t][i])
      BY <3>1 DEF Unmoved, Under, Answered
    <3>3. shown["temporaryEnd"] \in Nat /\ now \in Nat /\ shown["mode"] \in Modes
      BY DEF BackInv, IInv, Typed, TypeOK, Shown, Fields, Times
    <3>4. QED
      BY <3>2, <3>3, Numbers DEF BackInv, Flagged, Modes
  <2>2. ASSUME NEW f \in Setpoints, plan[t] = <<Put(f, v)>> PROVE shown[f] = v
    BY <2>1, <2>2 DEF Seen, Put, Setpoints
  <2>3. ASSUME plan[t] = <<Put("temporaryRoom", v), Put("temporaryEnd", 0)>>
        PROVE  shown["temporaryRoom"] = v /\ shown["temporaryEnd"] # 0
    BY <2>1, <2>3 DEF Seen, Put
  <2>4. CASE IsCentralHeating(kind) /\ plan[t] = HeatingSetpoint(v)
    <3>1. CASE shown["holiday"] = 1
      <4>1. plan[t] = <<Put("roomHoliday", v)>>
        BY <2>4, <3>1 DEF HeatingSetpoint
      <4>2. CurrentSetpoint = shown["roomHoliday"]
        BY <2>4, <3>1 DEF CurrentSetpoint, IsHotWater, IsCentralHeating
      <4>3. QED
        BY <2>2, <4>1, <4>2 DEF Setpoints
    <3>2. CASE shown["holiday"] = 0 /\ shown["mode"] = MANUAL
      <4>1. plan[t] = <<Put("roomManual", v)>>
        BY <2>4, <3>2 DEF HeatingSetpoint, SCHEDULING, MANUAL, ANTI_FROST
      <4>2. CurrentSetpoint = shown["roomManual"]
        BY <2>4, <3>2
        DEF CurrentSetpoint, IsHotWater, IsCentralHeating, SCHEDULING, MANUAL, ANTI_FROST
      <4>3. QED
        BY <2>2, <4>1, <4>2 DEF Setpoints
    <3>3. CASE shown["holiday"] = 0 /\ shown["mode"] = SCHEDULING
      <4>1. plan[t] = <<Put("temporaryRoom", v), Put("temporaryEnd", 0)>>
        BY <2>4, <3>3 DEF HeatingSetpoint, SCHEDULING, MANUAL, ANTI_FROST
      <4>2. CurrentSetpoint = IF OverrideShown THEN shown["temporaryRoom"] ELSE Scheduled
        BY <2>4, <3>3 DEF CurrentSetpoint, SCHEDULING, MANUAL, ANTI_FROST
      <4>3. QED
        BY <2>1, <2>3, <3>3, <4>1, <4>2 DEF OverrideShown
    <3>4. CASE shown["holiday"] = 0 /\ shown["mode"] = ANTI_FROST
      BY <2>4, <3>4 DEF HeatingSetpoint, SCHEDULING, MANUAL, ANTI_FROST
    <3>5. QED
      BY <2>1, <3>1, <3>2, <3>3, <3>4
  <2>5. CASE IsHotWater(kind) /\ plan[t] = HotWaterSetpoint(v)
    BY <2>1, <2>2, <2>5
    DEF HotWaterSetpoint, CurrentSetpoint, Setpoints, SCHEDULING, MANUAL, ANTI_FROST,
        IsHotWater, IsCentralHeating
  <2>6. \/ IsCentralHeating(kind) /\ plan[t] = HeatingSetpoint(v)
        \/ IsHotWater(kind) /\ plan[t] = HotWaterSetpoint(v)
    BY <2>1, ZoneAssumption DEF SetpointPlan, IsHotWater, IsCentralHeating
  <2>7. QED
    BY <2>4, <2>5, <2>6
<1>3. QED
  BY <1>1, <1>2, InitBack, PTL DEF Spec

=============================================================================
