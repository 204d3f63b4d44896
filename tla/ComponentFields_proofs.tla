----------------------- MODULE ComponentFields_proofs -----------------------
(***************************************************************************)
(* Proofs about what a component's fields hold after a write.  A day of a  *)
(* week program loses nothing in its codec, for registers of every size    *)
(* and number.  Every other field reads back what was written, for every   *)
(* scale, every set of absent words, every validator and every request     *)
(* that meets FieldsAssumption.                                            *)
(***************************************************************************)
EXTENDS GTW26DayCodec, RegisterFields, SequenceTheorems, TLAPS

(***************************************************************************)
(* A day of a week program.                                                *)
(***************************************************************************)

LEMMA ConstantsType == Total \in Nat /\ Total > 0
  BY DayAssumption, Z3 DEF Total

(* A half hour lies in one register, at one of its bits.                   *)
LEMMA DivMod ==
  ASSUME NEW h \in Nat
  PROVE  /\ Register(h) \in Nat
         /\ (h % SlotsPerRegister) \in 0..(SlotsPerRegister - 1)
         /\ h = (SlotsPerRegister * Register(h)) + (h % SlotsPerRegister)
<1>1. SlotsPerRegister \in Nat /\ SlotsPerRegister > 0
  BY DayAssumption
<1>2. \A a, b \in Nat : b > 0 => a % b \in 0..(b - 1) /\ a \div b \in Nat
  OBVIOUS
<1>3. \A a, b \in Nat : b > 0 => a = (b * (a \div b)) + (a % b)
  OBVIOUS
<1> QED BY <1>1, <1>2, <1>3 DEF Register

LEMMA BitType ==
  ASSUME NEW h \in Slots
  PROVE  Register(h) \in 0..(RegistersPerDay - 1) /\ Bit(h) \in 0..(SlotsPerRegister - 1)
<1>1. h \in Nat /\ h < SlotsPerRegister * RegistersPerDay
  BY ConstantsType DEF Slots, Total
<1>2. /\ Register(h) \in Nat
      /\ (h % SlotsPerRegister) \in 0..(SlotsPerRegister - 1)
      /\ h = (SlotsPerRegister * Register(h)) + (h % SlotsPerRegister)
  BY <1>1, DivMod
<1>3. \A k, q, n, r \in Nat : (k * q) + r < k * n => q < n
  <2> SUFFICES ASSUME NEW k \in Nat, NEW q \in Nat, NEW n \in Nat, NEW r \in Nat, 
                      (k * q) + r < k * n, q >= n
               PROVE  FALSE
    OBVIOUS
  <2>1. k * (q - n) \in Nat /\ k * q = (k * n) + (k * (q - n))
    OBVIOUS
  <2>2. k * n \in Nat
    OBVIOUS
  <2> QED BY <2>1, <2>2
<1>4. (h % SlotsPerRegister) \in Nat
  BY <1>2, DayAssumption
<1>5. Register(h) < RegistersPerDay
  BY <1>1, <1>2, <1>3, <1>4, DayAssumption
<1> QED BY <1>2, <1>5, DayAssumption DEF Bit

LEMMA BitInjective ==
  ASSUME NEW g \in Slots, NEW h \in Slots, Register(g) = Register(h), Bit(g) = Bit(h)
  PROVE  g = h
<1>1. g \in Nat /\ h \in Nat
  BY ConstantsType DEF Slots
<1>2. /\ (g % SlotsPerRegister) \in 0..(SlotsPerRegister - 1)
      /\ (h % SlotsPerRegister) \in 0..(SlotsPerRegister - 1)
  BY <1>1, DivMod
<1>3. g % SlotsPerRegister = h % SlotsPerRegister
  BY <1>2, DayAssumption DEF Bit
<1> QED BY <1>1, <1>3, DivMod

(* The times of a period that decode_day appends stand for its slots.      *)
LEMMA PeriodOfSlots ==
  ASSUME NEW a \in Slots, NEW b \in 1..Total, a < b
  PROVE  LET p == <<SlotTime(a), SlotTime(b)>>
         IN  p \in Periods /\ Encodable(p) /\ Low(p) = a /\ High(p) = b
  BY ConstantsType DEF Slots, SlotTime, Periods, TimesOfDay, Encodable, Low, High

LEMMA PeriodType ==
  ASSUME NEW p \in Periods
  PROVE  Low(p) \in Nat /\ High(p) \in Nat
  BY ConstantsType DEF Periods, TimesOfDay, Low, High

LEMMA CoversAppend ==
  ASSUME NEW ps \in Seq(Periods), NEW p \in Periods, NEW h \in Nat
  PROVE  Covers(Append(ps, p), h) <=> Covers(ps, h) \/ (Low(p) <= h /\ h < High(p))
<1>1. Len(Append(ps, p)) = Len(ps) + 1 /\ Append(ps, p)[Len(ps) + 1] = p
  OBVIOUS
<1>2. \A i \in 1..Len(ps) : Append(ps, p)[i] = ps[i]
  OBVIOUS
<1>3. Len(ps) \in Nat
  OBVIOUS
<1>4. 1..(Len(ps) + 1) = 1..Len(ps) \cup {Len(ps) + 1}
  BY <1>3
<1> QED BY <1>1, <1>2, <1>3, <1>4 DEF Covers

(***************************************************************************)
(* The invariant: what each loop has established when it is at its slot or *)
(* period.                                                                 *)
(***************************************************************************)
AllEncodable(ps) == \A i \in 1..Len(ps) : Encodable(ps[i])
Separate(ps) == \A i \in 1..(Len(ps) - 1) : High(ps[i]) < Low(ps[i + 1])

(* decode_day: the slots before `slot` are those of the periods found and  *)
(* of the one that is open; every period found ends before what follows.   *)
Decoding ==
  /\ start # NoSlot => start < slot
  /\ AllEncodable(periods) /\ Separate(periods)
  /\ \A i \in 1..Len(periods) : High(periods[i]) < (IF start = NoSlot THEN slot ELSE start)
  /\ \A h \in 0..(slot - 1) :
       Occupied(words, h) <=> Covers(periods, h) \/ (start # NoSlot /\ start <= h)

(* encode_day: the bits set are the slots of the periods before `index`.   *)
Encoding ==
  /\ index <= Len(periods) + 1
  /\ \A i \in 1..(index - 1) : Encodable(periods[i])
  /\ \A h \in Slots : Occupied(words, h) <=>
       \E i \in 1..(index - 1) : Low(periods[i]) <= h /\ h < High(periods[i])

FromWordsInv ==
  FromWords =>
    /\ phase # "refused"
    /\ phase = "decoding" => words = given.words /\ Decoding /\ index = 1
    /\ phase = "encoding" =>
         /\ AllEncodable(periods) /\ Encoding
         /\ \A h \in Slots : Covers(periods, h) <=> Occupied(given.words, h)

FromPeriodsInv ==
  ~FromWords =>
    /\ phase = "encoding" => /\ periods = given.periods /\ Encoding
                              /\ slot = 0 /\ start = NoSlot
    /\ phase = "decoding" =>
         /\ AllEncodable(given.periods) /\ Decoding
         /\ \A h \in Slots : Occupied(words, h) <=> Covers(given.periods, h)

IInv == TypeOK /\ FromWordsInv /\ FromPeriodsInv /\ WordsSurvive /\ PeriodsSurvive

LEMMA Initially == Init => IInv
<1> SUFFICES ASSUME Init PROVE IInv
  OBVIOUS
<1> USE DEF Init
<1>0. slot = 0 /\ start = NoSlot /\ index = 1 /\ 0 \in 0..Total /\ <<>> \in Seq(Periods)
  BY ConstantsType
<1>1. CASE /\ phase = "decoding" /\ periods = <<>> /\ words \in Words
           /\ given = [from |-> "words", words |-> words]
  <2>1. TypeOK
    BY <1>0, <1>1 DEF TypeOK
  <2>2. Decoding
    BY <1>0, <1>1 DEF Decoding, AllEncodable, Separate
  <2>3. given.from = "words" /\ given.words = words
    BY <1>1
  <2> QED BY <1>0, <1>1, <2>1, <2>2, <2>3
          DEF IInv, FromWordsInv, FromPeriodsInv, FromWords, WordsSurvive, PeriodsSurvive
<1>2. CASE /\ phase = "encoding" /\ words = NoWords /\ periods \in BoundedDays
           /\ given = [from |-> "periods", periods |-> periods]
  <2>1. periods \in Seq(Periods)
    BY <1>2, SeqDef, DayAssumption DEF BoundedDays
  <2>2. words \in Words
    BY <1>2 DEF NoWords, Words
  <2>3. TypeOK
    BY <1>0, <1>2, <2>1, <2>2 DEF TypeOK
  <2>4. \A h \in Slots : ~Occupied(words, h)
    BY <1>2, BitType DEF Occupied, NoWords
  <2>5. Encoding
    BY <1>0, <2>1, <2>4 DEF Encoding
  <2>6. given.from = "periods" /\ given.periods = periods
    BY <1>2
  <2> QED BY <1>0, <1>2, <2>3, <2>5, <2>6
          DEF IInv, FromWordsInv, FromPeriodsInv, FromWords, WordsSurvive, PeriodsSurvive
<1> QED BY <1>1, <1>2 DEF Init

(***************************************************************************)
(* decode_day.                                                             *)
(***************************************************************************)
(* The periods q have, besides those of ps, one of the slots from a to b.  *)
Extended(q, ps, a, b) ==
  /\ q \in Seq(Periods) /\ AllEncodable(q) /\ Separate(q)
  /\ \A i \in 1..Len(q) : High(q[i]) <= b
  /\ \A h \in Nat : Covers(q, h) <=> Covers(ps, h) \/ (a <= h /\ h < b)

(* A period that is closed keeps the list in order and adds its slots.     *)
LEMMA ClosePeriod ==
  ASSUME NEW ps \in Seq(Periods), AllEncodable(ps), Separate(ps),
         NEW a \in Slots, NEW b \in 1..Total, a < b,
         \A i \in 1..Len(ps) : High(ps[i]) < a,
         NEW q, q = Append(ps, <<SlotTime(a), SlotTime(b)>>)
  PROVE  Extended(q, ps, a, b)
<1> DEFINE p == <<SlotTime(a), SlotTime(b)>>
<1>1. p \in Periods /\ Encodable(p) /\ Low(p) = a /\ High(p) = b
  BY PeriodOfSlots
<1>2. a \in Nat /\ b \in Nat
  BY ConstantsType DEF Slots
<1> HIDE DEF p
<1>3. q = Append(ps, p)
  BY DEF p
<1>4. /\ q \in Seq(Periods) /\ Len(q) = Len(ps) + 1 /\ Len(ps) \in Nat
      /\ q[Len(ps) + 1] = p /\ \A i \in 1..Len(ps) : q[i] = ps[i]
  BY <1>1, <1>3
<1>5. \A i \in 1..Len(q) : i \in 1..Len(ps) \/ i = Len(ps) + 1
  BY <1>4
<1>6. AllEncodable(q)
  BY <1>1, <1>4, <1>5 DEF AllEncodable
<1>7. \A i \in 1..Len(ps) : High(ps[i]) \in Nat
  BY PeriodType
<1>8. \A i \in 1..Len(q) : High(q[i]) <= b
  <2> SUFFICES ASSUME NEW i \in 1..Len(q) PROVE High(q[i]) <= b
    OBVIOUS
  <2>1. CASE i \in 1..Len(ps)
    <3>1. q[i] = ps[i] /\ High(ps[i]) \in Nat /\ High(ps[i]) < a
      BY <1>4, <1>7, <2>1
    <3> QED BY <1>2, <3>1
  <2>2. CASE i = Len(ps) + 1
    <3>1. q[i] = p /\ High(p) = b
      BY <1>1, <1>4, <2>2
    <3> QED BY <1>2, <3>1
  <2> QED BY <1>5, <2>1, <2>2
<1>9. Separate(q)
  <2> SUFFICES ASSUME NEW i \in 1..(Len(q) - 1) PROVE High(q[i]) < Low(q[i + 1])
    BY DEF Separate
  <2>1. i \in 1..Len(ps) /\ q[i] = ps[i]
    BY <1>4
  <2>2. CASE i = Len(ps)
    BY <1>1, <1>4, <2>1, <2>2
  <2>3. CASE i # Len(ps)
    <3>1. i \in 1..(Len(ps) - 1) /\ i + 1 \in 1..Len(ps)
      BY <1>4, <2>1, <2>3
    <3> QED BY <1>4, <2>1, <3>1 DEF Separate
  <2> QED BY <2>2, <2>3
<1>10. \A h \in Nat : Covers(q, h) <=> Covers(ps, h) \/ (a <= h /\ h < b)
  BY <1>1, <1>3, CoversAppend
<1> QED BY <1>4, <1>6, <1>8, <1>9, <1>10 DEF Extended

LEMMA DecodingStep ==
  ASSUME TypeOK, Decoding, DecodeSlot
  PROVE  periods' \in Seq(Periods) /\ Decoding'
<1> USE DEF DecodeSlot
<1>1. /\ slot \in Slots /\ slot \in Nat /\ slot' = slot + 1 /\ slot < Total
      /\ slot' \in 0..Total /\ NoSlot \notin Slots /\ Slots \subseteq Nat
  BY ConstantsType DEF TypeOK, Slots, NoSlot
<1>2. \A h \in 0..slot : h \in 0..(slot - 1) \/ h = slot
  BY <1>1
<1>3. periods \in Seq(Periods) /\ start \in Slots \cup {NoSlot}
  BY DEF TypeOK
<1>4. \A i \in 1..Len(periods) : High(periods[i]) \in Nat
  BY <1>3, PeriodType
<1>5. \A h : Occupied(words, h)' <=> Occupied(words', h)
  BY DEF Occupied
<1>6. 0..(slot' - 1) = 0..slot
  BY <1>1
<1>7. CASE EndsPeriod
  <2>1. start \in Slots /\ start < slot /\ slot \in 1..Total
    <3>1. start \in Slots /\ start # NoSlot /\ ~Occupied(words, slot)
      BY <1>3, <1>7 DEF EndsPeriod
    <3>2. start < slot
      BY <3>1 DEF Decoding
    <3> QED BY <1>1, <3>1, <3>2, ConstantsType
  <2>2. periods' = Append(periods, <<SlotTime(start), SlotTime(slot)>>) /\ start' = NoSlot
    BY <1>7 DEF EndsPeriod, StartsPeriod
  <2>3. \A i \in 1..Len(periods) : High(periods[i]) < start
    BY <1>7 DEF EndsPeriod, Decoding
  <2>4. /\ periods' \in Seq(Periods) /\ AllEncodable(periods') /\ Separate(periods')
        /\ \A i \in 1..Len(periods') : High(periods'[i]) <= slot
        /\ \A h \in Nat : Covers(periods', h) <=>
                            Covers(periods, h) \/ (start <= h /\ h < slot)
    <3>1. AllEncodable(periods) /\ Separate(periods)
      BY DEF Decoding
    <3>2. Extended(periods', periods, start, slot)
      BY <1>3, <2>1, <2>2, <2>3, <3>1, ClosePeriod
    <3> QED BY <3>2 DEF Extended
  <2>5. \A i \in 1..Len(periods') : High(periods'[i]) < slot'
    <3> SUFFICES ASSUME NEW i \in 1..Len(periods') PROVE High(periods'[i]) < slot'
      OBVIOUS
    <3>1. periods'[i] \in Periods /\ High(periods'[i]) <= slot
      <4>1. periods' \in Seq(Periods)
        BY <2>4
      <4>2. periods'[i] \in Periods
        BY <4>1
      <4> QED BY <2>4, <4>2
    <3>2. High(periods'[i]) \in Nat
      BY <3>1, PeriodType
    <3> QED BY <1>1, <3>1, <3>2
  <2>6. ~Covers(periods, slot)
    BY <1>1, <1>3, <1>4, <2>1, <2>3 DEF Covers
  <2>7. \A h \in 0..slot : Occupied(words, h) <=> Covers(periods', h)
    <3> SUFFICES ASSUME NEW h \in 0..slot PROVE Occupied(words, h) <=> Covers(periods', h)
      OBVIOUS
    <3>1. h \in Nat /\ (Covers(periods', h) <=> Covers(periods, h) \/ (start <= h /\ h < slot))
      BY <1>1, <2>4
    <3>2. CASE h \in 0..(slot - 1)
      <4>1. h < slot
        BY <1>1, <3>2
      <4>2. Occupied(words, h) <=> Covers(periods, h) \/ (start # NoSlot /\ start <= h)
        BY <3>2 DEF Decoding
      <4>3. start # NoSlot
        BY <1>7 DEF EndsPeriod
      <4> QED BY <3>1, <4>1, <4>2, <4>3
    <3>3. CASE h = slot
      <4>1. ~Occupied(words, slot) /\ ~(slot < slot)
        BY <1>1, <1>7 DEF EndsPeriod
      <4> QED BY <2>6, <3>1, <3>3, <4>1
    <3> QED BY <1>2, <3>2, <3>3
  <2> QED BY <1>6, <2>2, <2>4, <2>5, <2>7 DEF Decoding, AllEncodable, Separate, Covers, Occupied
<1>8. CASE StartsPeriod
  <2>1. periods' = periods /\ start' = slot /\ start = NoSlot
    BY <1>8 DEF EndsPeriod, StartsPeriod
  <2>2. \A h \in 0..slot : Occupied(words, h) <=> Covers(periods, h) \/ slot <= h
    BY <1>1, <1>2, <1>8, <2>1 DEF Decoding, StartsPeriod
  <2>3. start' \in Nat /\ start' # NoSlot /\ start' < slot'
    BY <1>1, <2>1 DEF NoSlot
  <2>4. \A i \in 1..Len(periods) : High(periods[i]) < start'
    BY <2>1 DEF Decoding
  <2> QED BY <1>3, <1>6, <2>1, <2>2, <2>3, <2>4
          DEF Decoding, AllEncodable, Separate, Covers, Occupied
<1>9. CASE ~EndsPeriod /\ ~StartsPeriod
  <2>1. periods' = periods /\ start' = start
    BY <1>9
  <2>2. \A i \in 1..Len(periods) : High(periods[i]) < slot
    BY <1>1, <1>3, <1>4 DEF Decoding
  <2>3. ~Covers(periods, slot)
    BY <1>1, <1>4, <2>2 DEF Covers
  <2>4. Occupied(words, slot) <=> start # NoSlot
    BY <1>9 DEF StartsPeriod, EndsPeriod
  <2>5. start # NoSlot => start <= slot
    BY <1>1, <1>3 DEF Decoding
  <2>6. \A h \in 0..slot : Occupied(words, h) <=>
          Covers(periods, h) \/ (start # NoSlot /\ start <= h)
    BY <1>2, <2>3, <2>4, <2>5 DEF Decoding
  <2>7. start # NoSlot => start < slot'
    BY <1>1, <1>3, <2>5
  <2>8. \A i \in 1..Len(periods) :
          High(periods[i]) < (IF start = NoSlot THEN slot' ELSE start)
    BY <1>1, <1>4, <2>2 DEF Decoding
  <2> QED BY <1>3, <1>6, <2>1, <2>6, <2>7, <2>8
          DEF Decoding, AllEncodable, Separate, Covers, Occupied
<1> QED BY <1>7, <1>8, <1>9

LEMMA DecodedDay ==
  ASSUME TypeOK, Decoding, DecodeEnd
  PROVE  /\ periods' \in Seq(Periods) /\ AllEncodable(periods') /\ Separate(periods')
         /\ \A h \in Slots : Occupied(words, h) <=> Covers(periods', h)
<1>1. /\ slot = Total /\ Total \in 1..Total /\ Slots = 0..(slot - 1) /\ NoSlot \notin Slots
      /\ Slots \subseteq Nat /\ \A h \in Slots : h < Total
  BY ConstantsType DEF DecodeEnd, Slots, NoSlot
<1>2. periods \in Seq(Periods) /\ start \in Slots \cup {NoSlot}
  BY DEF TypeOK
<1>3. CASE start = NoSlot
  <2>1. periods' = periods
    BY <1>3 DEF DecodeEnd
  <2> QED BY <1>1, <1>2, <1>3, <2>1 DEF Decoding
<1>4. CASE start # NoSlot
  <2>1. periods' = Append(periods, <<SlotTime(start), SlotTime(slot)>>)
    BY <1>1, <1>4 DEF DecodeEnd
  <2>2. start \in Slots /\ start < slot
    BY <1>1, <1>2, <1>4
  <2>3. \A i \in 1..Len(periods) : High(periods[i]) < start
    BY <1>4 DEF Decoding
  <2>4. /\ periods' \in Seq(Periods) /\ AllEncodable(periods') /\ Separate(periods')
        /\ \A i \in 1..Len(periods') : High(periods'[i]) <= slot
        /\ \A h \in Nat : Covers(periods', h) <=>
                            Covers(periods, h) \/ (start <= h /\ h < slot)
    <3>1. AllEncodable(periods) /\ Separate(periods)
      BY DEF Decoding
    <3>2. slot \in 1..Total
      BY <1>1
    <3>3. Extended(periods', periods, start, slot)
      BY <1>2, <2>1, <2>2, <2>3, <3>1, <3>2, ClosePeriod
    <3> QED BY <3>3 DEF Extended
  <2>5. \A h \in Slots : Occupied(words, h) <=> Covers(periods, h) \/ start <= h
    BY <1>1, <1>4 DEF Decoding
  <2> QED BY <1>1, <2>4, <2>5
<1> QED BY <1>3, <1>4

(***************************************************************************)
(* encode_day.                                                             *)
(***************************************************************************)
(* Setting the bits of a period sets the period's slots and no other.      *)
LEMMA EncodingStep ==
  ASSUME TypeOK, Encoding, EncodePeriod
  PROVE  words' \in Words /\ index' \in Nat \ {0} /\ Encoding'
<1> DEFINE p == periods[index]
           InPeriod(s) == Low(p) <= s /\ s < High(p)
<1>1. /\ periods \in Seq(Periods) /\ index \in 1..Len(periods) /\ Len(periods) \in Nat
      /\ index' = index + 1 /\ periods' = periods /\ Encodable(p) /\ words \in Words
  BY DEF TypeOK, EncodePeriod
<1>2. words' = [r \in DOMAIN words |->
                  words[r] \cup {Bit(s) : s \in {s \in Slots : Register(s) = r /\ InPeriod(s)}}]
  BY DEF EncodePeriod
<1> HIDE DEF InPeriod
<1>3. words' \in Words
  BY <1>1, <1>2, BitType DEF Words
<1>4. \A h \in Slots : Occupied(words', h) <=> Occupied(words, h) \/ InPeriod(h)
  <2> SUFFICES ASSUME NEW h \in Slots
               PROVE  Occupied(words', h) <=> Occupied(words, h) \/ InPeriod(h)
    OBVIOUS
  <2>1. Register(h) \in DOMAIN words
    BY <1>1, BitType DEF Words
  <2>2. Bit(h) \in {Bit(s) : s \in {s \in Slots : Register(s) = Register(h) /\ InPeriod(s)}}
          <=> InPeriod(h)
    BY BitInjective
  <2> QED BY <1>2, <2>1, <2>2 DEF Occupied
<1>5. \A i \in 1..index : i \in 1..(index - 1) \/ i = index
  BY <1>1
<1>6. 1..(index' - 1) = 1..index /\ 1..(index - 1) \subseteq 1..index /\ index \in 1..index
  BY <1>1
<1>7. \A h \in Slots : Occupied(words', h) <=>
        \E i \in 1..index : Low(periods[i]) <= h /\ h < High(periods[i])
  BY <1>4, <1>5, <1>6 DEF Encoding, InPeriod
<1>8. \A i \in 1..index : Encodable(periods[i])
  BY <1>1, <1>5 DEF Encoding
<1>9. index' <= Len(periods) + 1 /\ index' \in Nat \ {0}
  BY <1>1
<1> QED BY <1>1, <1>3, <1>6, <1>7, <1>8, <1>9 DEF Encoding, Occupied

(* After the last period, the bits set are the slots of them all.          *)
LEMMA EncodedDay ==
  ASSUME TypeOK, Encoding, EncodeEnd
  PROVE  AllEncodable(periods) /\ \A h \in Slots : Occupied(words, h) <=> Covers(periods, h)
<1>1. index = Len(periods) + 1 /\ 1..(index - 1) = 1..Len(periods)
  BY DEF TypeOK, Encoding, EncodeEnd
<1> QED BY <1>1 DEF Encoding, AllEncodable, Covers

(***************************************************************************)
(* The steps, and the theorems.                                            *)
(***************************************************************************)
LEMMA Inductive == IInv /\ [Next]_vars => IInv'
<1> SUFFICES ASSUME IInv, [Next]_vars PROVE IInv'
  OBVIOUS
<1> USE DEF IInv
<1>1. CASE DecodeSlot
  <2>1. /\ UNCHANGED <<given, phase, words, index>> /\ phase = "decoding"
        /\ slot \in Slots /\ slot' \in 0..Total /\ start' \in Slots \cup {NoSlot}
    BY <1>1, ConstantsType DEF DecodeSlot, TypeOK, Slots
  <2>2. Decoding
    BY <2>1 DEF FromWordsInv, FromPeriodsInv
  <2>3. periods' \in Seq(Periods) /\ Decoding'
    BY <1>1, <2>2, DecodingStep
  <2>4. TypeOK'
    BY <2>1, <2>3 DEF TypeOK
  <2> QED BY <2>1, <2>3, <2>4
          DEF FromWordsInv, FromPeriodsInv, FromWords, WordsSurvive, PeriodsSurvive, Occupied, Covers
<1>2. CASE DecodeEnd
  <2>1. /\ UNCHANGED <<given, slot, start, index>> /\ phase = "decoding"
        /\ \/ FromWords /\ phase' = "encoding" /\ words' = NoWords
           \/ ~FromWords /\ phase' = "done" /\ words' = words
    BY <1>2 DEF DecodeEnd
  <2>2. Decoding
    BY <2>1 DEF FromWordsInv, FromPeriodsInv
  <2>3. /\ periods' \in Seq(Periods) /\ AllEncodable(periods') /\ Separate(periods')
        /\ \A h \in Slots : Occupied(words, h) <=> Covers(periods', h)
    BY <1>2, <2>2, DecodedDay
  <2>4. NoWords \in Words /\ \A h \in Slots : ~Occupied(NoWords, h)
    BY BitType DEF NoWords, Words, Occupied
  <2>5. TypeOK'
    BY <2>1, <2>3, <2>4 DEF TypeOK
  <2>6. CASE FromWords
    <3>1. phase' = "encoding" /\ words' = NoWords /\ index = 1 /\ words = given.words
      BY <2>1, <2>6 DEF FromWordsInv
    <3>2. Encoding'
      <4>1. index' = 1 /\ 1..(index' - 1) = {} /\ index' <= Len(periods') + 1
        BY <2>1, <2>3, <3>1
      <4> QED BY <2>4, <3>1, <4>1 DEF Encoding, Occupied
    <3> QED BY <2>1, <2>3, <2>5, <2>6, <3>1, <3>2
            DEF FromWordsInv, FromPeriodsInv, FromWords, WordsSurvive, PeriodsSurvive,
                Occupied, Covers, AllEncodable
  <2>7. CASE ~FromWords
    <3>1. phase' = "done" /\ words' = words
      BY <2>1, <2>7
    <3>2. /\ AllEncodable(given.periods)
          /\ \A h \in Slots : Covers(periods', h) <=> Covers(given.periods, h)
      BY <2>1, <2>3, <2>7 DEF FromPeriodsInv
    <3>3. DOMAIN given.periods = 1..Len(given.periods)
      BY <2>7 DEF TypeOK, FromWords
    <3> QED BY <2>1, <2>3, <2>5, <2>7, <3>1, <3>2, <3>3
            DEF FromWordsInv, FromPeriodsInv, FromWords, WordsSurvive, PeriodsSurvive,
                Covers, AllEncodable, Separate
  <2> QED BY <2>6, <2>7
<1>3. CASE EncodePeriod
  <2>1. UNCHANGED <<given, phase, periods, slot, start>> /\ phase = "encoding"
    BY <1>3 DEF EncodePeriod
  <2>2. Encoding
    BY <2>1 DEF FromWordsInv, FromPeriodsInv
  <2>3. words' \in Words /\ index' \in Nat \ {0} /\ Encoding'
    BY <1>3, <2>2, EncodingStep
  <2>4. TypeOK'
    BY <2>1, <2>3 DEF TypeOK
  <2> QED BY <2>1, <2>3, <2>4
          DEF FromWordsInv, FromPeriodsInv, FromWords, WordsSurvive, PeriodsSurvive, Occupied, Covers,
              AllEncodable
<1>4. CASE EncodeRefuses
  <2>1. /\ UNCHANGED <<given, words, periods, slot, start, index>>
        /\ phase = "encoding" /\ phase' = "refused"
        /\ index \in 1..Len(periods) /\ ~Encodable(periods[index])
    BY <1>4 DEF EncodeRefuses, TypeOK
  <2>2. ~FromWords /\ periods = given.periods /\ periods \in Seq(Periods)
    BY <2>1 DEF FromWordsInv, FromPeriodsInv, AllEncodable, TypeOK
  <2>3. TypeOK'
    BY <2>1 DEF TypeOK
  <2> QED BY <2>1, <2>2, <2>3
          DEF FromWordsInv, FromPeriodsInv, FromWords, WordsSurvive, PeriodsSurvive
<1>5. CASE EncodeEnd
  <2>1. /\ UNCHANGED <<given, words, slot, start, index>> /\ phase = "encoding"
        /\ \/ FromWords /\ phase' = "done" /\ periods' = periods
           \/ ~FromWords /\ phase' = "decoding" /\ periods' = <<>>
    BY <1>5 DEF EncodeEnd
  <2>2. Encoding
    BY <2>1 DEF FromWordsInv, FromPeriodsInv
  <2>3. AllEncodable(periods) /\ \A h \in Slots : Occupied(words, h) <=> Covers(periods, h)
    BY <1>5, <2>2, EncodedDay
  <2>4. <<>> \in Seq(Periods)
    OBVIOUS
  <2>5. TypeOK'
    BY <2>1, <2>4 DEF TypeOK
  <2>6. CASE FromWords
    BY <2>1, <2>3, <2>5, <2>6
       DEF FromWordsInv, FromPeriodsInv, FromWords, WordsSurvive, PeriodsSurvive, Occupied
  <2>7. CASE ~FromWords
    <3>1. phase' = "decoding" /\ periods' = <<>>
      BY <2>1, <2>7
    <3>2. periods = given.periods /\ slot' = 0 /\ start' = NoSlot
      BY <2>1, <2>7 DEF FromPeriodsInv
    <3>3. Decoding'
      BY <3>1, <3>2 DEF Decoding, AllEncodable, Separate
    <3> QED BY <2>1, <2>3, <2>5, <2>7, <3>1, <3>2, <3>3
            DEF FromWordsInv, FromPeriodsInv, FromWords, WordsSurvive, PeriodsSurvive,
                Occupied, Covers, AllEncodable
  <2> QED BY <2>6, <2>7
<1>6. CASE UNCHANGED vars
  BY <1>6 DEF vars, TypeOK, FromWordsInv, FromPeriodsInv, FromWords, WordsSurvive, PeriodsSurvive,
              Decoding, Encoding, AllEncodable, Separate, Covers, Occupied
<1> QED BY <1>1, <1>2, <1>3, <1>4, <1>5, <1>6 DEF Next

LEMMA Invariance == Spec => []IInv
  BY Initially, Inductive, PTL DEF Spec

(* Every variable keeps its type: decode_day finds times of the day only,  *)
(* and encode_day sets bits of the day's registers only.                   *)
THEOREM TypeCorrect == Spec => []TypeOK
<1>1. IInv => TypeOK
  BY DEF IInv
<1> QED BY Invariance, <1>1, PTL

(* A day that is read from a controller and written back is the same half  *)
(* hours: encode_day accepts and undoes whatever decode_day makes.         *)
THEOREM ReadDaysSurvive == Spec => []WordsSurvive
<1>1. IInv => WordsSurvive
  BY DEF IInv
<1> QED BY Invariance, <1>1, PTL

(* Periods that encode_day accepts come back from decode_day as the same   *)
(* half hours, in order and apart.                                         *)
THEOREM WrittenDaysSurvive == Spec => []PeriodsSurvive
<1>1. IInv => PeriodsSurvive
  BY DEF IInv
<1> QED BY Invariance, <1>1, PTL

(***************************************************************************)
(* A field of numbers.                                                     *)
(***************************************************************************)

(* Multiples.                                                              *)

LEMMA Division ==
  \A v \in Int, s \in Nat : s > 0 =>
    /\ v % s \in 0..(s - 1) /\ v \div s \in Int
    /\ v = (v \div s) * s + (v % s)
OBVIOUS

LEMMA MultipleMod ==
  \A k \in Int, s \in Nat : s > 0 => (k * s) % s = 0 /\ (k * s) \div s = k
OBVIOUS

\* Distinct multiples are a step apart.
LEMMA Apart ==
  \A i, j \in Int, s \in Nat : s > 0 /\ i < j => i * s + s <= j * s
<1> SUFFICES ASSUME NEW i \in Int, NEW j \in Int, NEW s \in Nat, s > 0, i < j
             PROVE  i * s + s <= j * s
  OBVIOUS
<1>1. PICK n \in Nat : j = (i + 1) + n
  <2>1. j - (i + 1) \in Nat
    OBVIOUS
  <2> QED
    BY <2>1
<1>2. j * s = i * s + s + n * s
  BY <1>1
<1>3. n * s >= 0
  OBVIOUS
<1> QED
  BY <1>2, <1>3

LEMMA Multiple ==
  \A v \in Int, s \in Nat : s > 0 /\ v % s = 0 => \E k \in Int : v = k * s /\ v \div s = k
BY Division

LEMMA MultipleOfMultiple ==
  ASSUME NEW v \in Int, NEW s \in Nat \ {0}, NEW u \in Nat \ {0}, v % s = 0, s % u = 0
  PROVE  v % u = 0
<1>0. s \in Nat /\ s > 0 /\ s \in Int /\ u \in Nat /\ u > 0
  OBVIOUS
<1>1. PICK i \in Int : v = i * s
  BY <1>0, Multiple
<1>2. PICK j \in Int : s = j * u
  BY <1>0, Multiple
<1>3. i * j \in Int /\ v = (i * j) * u
  BY <1>1, <1>2
<1> QED
  BY <1>3, MultipleMod

(* The word of a multiple.                                                 *)
LEMMA WordOf ==
  ASSUME NEW m \in Nat, NEW u \in Nat \ {0}, m % u = 0
  PROVE  /\ m \div u \in Nat /\ (m \div u) * u = m
         /\ \A k \in Nat : m <= k * u => m \div u <= k
<1>1. PICK n \in Int : m = n * u /\ m \div u = n
  BY Multiple
<1>2. n >= 0
  <2> SUFFICES ASSUME n < 0 PROVE FALSE
    OBVIOUS
  <2>1. n * u + u <= 0 * u
    BY Apart
  <2> QED
    BY <1>1, <2>1
<1>3. \A k \in Nat : m <= k * u => n <= k
  <2> SUFFICES ASSUME NEW k \in Nat, m <= k * u, k < n PROVE FALSE
    BY <1>1
  <2>1. k * u + u <= n * u
    BY <1>1, Apart
  <2>2. k * u \in Int /\ n * u \in Int
    BY <1>1
  <2> QED
    BY <1>1, <2>1, <2>2
<1> QED
  BY <1>1, <1>2, <1>3
-----------------------------------------------------------------------------
(* Rounding.                                                               *)

LEMMA NearestIs ==
  ASSUME NEW v \in Int, NEW s \in Nat \ {0}, NEW m \in Nearest(v, s)
  PROVE  m \in Int /\ m % s = 0 /\ 2 * (v - m) <= s /\ 2 * (m - v) <= s
<1>1. /\ v % s \in Int /\ v \div s \in Int
      /\ v = (v \div s) * s + (v % s)
  BY Division
<1>2. m = v - (v % s) \/ m = v - (v % s) + s
  BY DEF Nearest
<1>3. m = (v \div s) * s \/ m = (v \div s + 1) * s
  BY <1>1, <1>2
<1>4. m % s = 0
  BY <1>1, <1>3, MultipleMod
<1> QED
  BY <1>1, <1>2, <1>4 DEF Nearest

LEMMA NearestExists ==
  ASSUME NEW v \in Int, NEW s \in Nat \ {0}
  PROVE  Nearest(v, s) # {}
<1>1. v % s \in 0..(s - 1)
  BY Division
<1>2. v - (v % s) \in Nearest(v, s) \/ v - (v % s) + s \in Nearest(v, s)
  BY <1>1 DEF Nearest
<1> QED
  BY <1>2

LEMMA NearestStays ==
  ASSUME NEW v \in Int, NEW s \in Nat \ {0}, v % s = 0, NEW m \in Nearest(v, s)
  PROVE  m = v
BY DEF Nearest

\* Rounding does not leave limits that are steps.
LEMMA NearestInside ==
  ASSUME NEW v \in Int, NEW s \in Nat \ {0}, NEW m \in Nearest(v, s),
         NEW low \in Int, NEW high \in Int, low % s = 0, high % s = 0, low <= v, v <= high
  PROVE  low <= m /\ m <= high
<1>1. m \in Int /\ m % s = 0 /\ 2 * (v - m) <= s /\ 2 * (m - v) <= s
  BY NearestIs
<1>2. PICK i \in Int : m = i * s
  BY <1>1, Multiple
<1>3. PICK a \in Int : low = a * s
  BY Multiple
<1>4. PICK b \in Int : high = b * s
  BY Multiple
<1>5. i < a => m + s <= low
  BY <1>2, <1>3, Apart
<1>6. b < i => high + s <= m
  BY <1>2, <1>4, Apart
<1>7. i >= a => m >= low
  BY <1>2, <1>3, Apart
<1>8. i <= b => m <= high
  BY <1>2, <1>4, Apart
<1> QED
  BY <1>1, <1>5, <1>6, <1>7, <1>8
-----------------------------------------------------------------------------
(* Fields.                                                                 *)

LEMMA WordRanges ==
  /\ SIGN_BIT \in Nat \ {0} /\ MAGNITUDE \in Nat /\ LAST_WORD \in Nat
  /\ \A n \in 0..MAGNITUDE : n \in Registers /\ ~(n >= SIGN_BIT)
  /\ \A n \in Nat : n <= LAST_WORD => n \in Registers
<1>1. SIGN_BIT \in Nat \ {0}
  BY DEF SIGN_BIT
<1> QED
  BY <1>1 DEF MAGNITUDE, LAST_WORD, Registers

LEMMA FieldsAreTyped ==
  ASSUME NEW f \in Fields
  PROVE  /\ f.codec \in {"float10", "number", "time_steps"} /\ f.unit \in Nat \ {0}
         /\ f.absent \subseteq Registers /\ f.retains \in {"effective", "request"}
         /\ f.validator.kind \in {"snap_clamp", "int_range", "float10_range", "in_range", "none"}
         /\ f.validator.step \in Nat \ {0} /\ f.validator.low \in Nat /\ f.validator.high \in Nat
         /\ Requests[f] \subseteq Int
BY FieldsAssumption DEF FieldType, Validators

\* What a bounded field sends is what the component retains, and inside the limits.
LEMMA Sent ==
  ASSUME NEW f \in Fields, Bounded(f), NEW v \in Int,
         NEW kept \in Retained(f, v), NEW sent \in Validated(f.validator, kept)
  PROVE  /\ sent \in Int /\ sent = kept /\ Inside(f.validator, sent)
         /\ f.validator.kind # "float10_range" => sent % f.unit = 0
         /\ f.validator.kind = "snap_clamp" /\ Inside(f.validator, v) =>
              2 * (sent - v) <= f.validator.step /\ 2 * (v - sent) <= f.validator.step
<1> DEFINE d == f.validator
<1>0. /\ d.step \in Nat \ {0} /\ d.low \in Nat /\ d.high \in Nat /\ f.unit \in Nat \ {0}
      /\ d.kind \in {"snap_clamp", "int_range", "float10_range", "in_range"}
      /\ d.low <= d.high
      /\ d.kind # "float10_range" => d.step % f.unit = 0 /\ d.low % d.step = 0 /\ d.high % d.step = 0
      /\ d.kind # "in_range" => f.retains = "effective"
  BY FieldsAreTyped, FieldsAssumption DEF Bounded, BoundsAreSound
<1> HIDE DEF d
<1>1. CASE d.kind = "snap_clamp"
  <2>1. ASSUME NEW x \in Int, NEW m \in Nearest(x, d.step)
        PROVE  /\ m \in Int /\ Clamped(d, m) \in Int /\ Clamped(d, m) % d.step = 0
               /\ Inside(d, Clamped(d, m))
               /\ 2 * (m - x) <= d.step /\ 2 * (x - m) <= d.step
    <3>1. m \in Int /\ m % d.step = 0 /\ 2 * (m - x) <= d.step /\ 2 * (x - m) <= d.step
      BY <1>0, <2>1, NearestIs
    <3>2. Clamped(d, m) \in {d.low, d.high, m} /\ Inside(d, Clamped(d, m))
      BY <1>0, <3>1 DEF Clamped, Inside
    <3> QED
      BY <1>0, <1>1, <3>1, <3>2
  <2>2. kept \in {Clamped(d, m) : m \in Nearest(v, d.step)}
    BY <1>0, <1>1 DEF Retained, Validated, d
  <2>3. PICK m \in Nearest(v, d.step) : kept = Clamped(d, m)
    BY <2>2
  <2>4. kept \in Int /\ kept % d.step = 0 /\ Inside(d, kept)
    BY <2>1, <2>3
  <2>5. sent \in {Clamped(d, n) : n \in Nearest(kept, d.step)}
    BY <1>1 DEF Validated, d
  <2>6. PICK n \in Nearest(kept, d.step) : sent = Clamped(d, n)
    BY <2>5
  <2>7. n = kept
    BY <1>0, <2>4, NearestStays
  <2>8. sent = kept
    BY <1>0, <2>4, <2>6, <2>7 DEF Clamped, Inside
  <2>9. sent % f.unit = 0
    BY <1>0, <1>1, <2>4, <2>8, MultipleOfMultiple
  <2>10. Inside(d, v) => 2 * (sent - v) <= d.step /\ 2 * (v - sent) <= d.step
    <3>1. m \in Int /\ 2 * (m - v) <= d.step /\ 2 * (v - m) <= d.step
      BY <2>1
    <3> QED
      BY <1>0, <2>3, <2>8, <3>1 DEF Clamped, Inside
  <2> QED
    BY <2>4, <2>8, <2>9, <2>10 DEF d
<1>2. CASE d.kind = "int_range"
  <2>1. kept \in {m \in Nearest(v, d.step) : Inside(d, m)}
    BY <1>0, <1>2 DEF Retained, Validated, d
  <2>2. kept \in Int /\ kept % d.step = 0
    BY <1>0, <2>1, NearestIs
  <2>3. sent \in Nearest(kept, d.step) /\ Inside(d, sent)
    BY <1>2 DEF Validated, d
  <2>4. sent = kept
    BY <1>0, <2>2, <2>3, NearestStays
  <2>5. sent % f.unit = 0
    BY <1>0, <1>2, <2>2, <2>4, MultipleOfMultiple
  <2> QED
    BY <1>2, <2>2, <2>3, <2>4, <2>5 DEF d
<1>3. CASE d.kind = "float10_range"
  <2>1. kept = v /\ sent = kept /\ Inside(d, sent)
    BY <1>3 DEF Retained, Validated, d
  <2> QED
    BY <1>3, <2>1 DEF d
<1>4. CASE d.kind = "in_range"
  <2>1. kept = v /\ sent = kept /\ Inside(d, sent) /\ sent % d.step = 0
    BY <1>4 DEF Retained, Validated, d
  <2>2. sent % f.unit = 0
    BY <1>0, <1>4, <2>1, MultipleOfMultiple
  <2> QED
    BY <1>4, <2>1, <2>2 DEF d
<1> QED
  BY <1>0, <1>1, <1>2, <1>3, <1>4

\* A value inside the limits has words, and what they decode to is inside, too.
LEMMA EncodedInside ==
  ASSUME NEW f \in Fields, Bounded(f), NEW v \in Int, Inside(f.validator, v)
  PROVE  /\ Encoded(f, v) # {}
         /\ \A w \in Encoded(f, v) :
              /\ Decoded(f, w) \in Nearest(v, f.unit) /\ Decoded(f, w) # Absent
              /\ Inside(f.validator, Decoded(f, w))
<1> DEFINE d == f.validator
<1>0. /\ d.low \in Nat /\ d.high \in Nat /\ f.unit \in Nat \ {0}
      /\ f.codec \in {"float10", "number"} /\ f.absent \subseteq Registers
      /\ d.low <= v /\ v <= d.high /\ d.high <= MAGNITUDE * f.unit
      /\ d.low % f.unit = 0 /\ d.high % f.unit = 0
      /\ \A w \in f.absent : w * f.unit < d.low \/ w * f.unit > d.high
  BY FieldsAreTyped, FieldsAssumption DEF Bounded, BoundsAreSound, Inside
<1> HIDE DEF d
<1>1. ASSUME NEW m \in Nearest(v, f.unit)
      PROVE  /\ m \in Nat /\ d.low <= m /\ m <= d.high
             /\ m \div f.unit \in 0..MAGNITUDE /\ (m \div f.unit) * f.unit = m
             /\ m \div f.unit \notin f.absent
  <2>1. m \in Int /\ m % f.unit = 0
    BY <1>0, <1>1, NearestIs
  <2>2. d.low <= m /\ m <= d.high
    <3>1. d.low \in Int /\ d.high \in Int
      BY <1>0
    <3> QED
      BY <1>0, <1>1, <3>1, NearestInside
  <2>3. m \in Nat /\ m <= MAGNITUDE * f.unit /\ MAGNITUDE \in Nat /\ MAGNITUDE * f.unit \in Nat
    BY <1>0, <2>1, <2>2, WordRanges
  <2>4. m \div f.unit \in Nat /\ (m \div f.unit) * f.unit = m /\ m \div f.unit <= MAGNITUDE
    BY <1>0, <2>1, <2>3, WordOf
  <2>5. m \div f.unit \notin f.absent
    BY <1>0, <2>1, <2>2, <2>4
  <2> QED
    BY <2>2, <2>3, <2>4, <2>5
<1>2. Magnitude(v) = v /\ ~(v < 0)
  BY <1>0 DEF Magnitude
<1>3. Encoded(f, v) = {m \div f.unit : m \in Nearest(v, f.unit)}
  <2>1. \A m \in Nearest(v, f.unit) : m \div f.unit \in 0..MAGNITUDE /\ m \div f.unit \in Registers
    BY <1>1, WordRanges
  <2>2. CASE f.codec = "number"
    BY <2>1, <2>2 DEF Encoded
  <2>3. CASE f.codec = "float10"
    BY <1>2, <2>1, <2>3 DEF Encoded
  <2> QED
    BY <1>0, <2>2, <2>3
<1>4. ASSUME NEW m \in Nearest(v, f.unit) PROVE Decoded(f, m \div f.unit) = m
  <2>1. PICK n \in 0..MAGNITUDE : n = m \div f.unit /\ n \notin f.absent /\ n * f.unit = m
    BY <1>1, <1>4
  <2>2. ~(n >= SIGN_BIT) /\ f.codec # "time_steps"
    BY <1>0, WordRanges
  <2> QED
    BY <2>1, <2>2 DEF Decoded
<1>5. Absent \notin Int
  BY FieldsAssumption
<1> QED
  <2>1. Encoded(f, v) # {}
    BY <1>0, <1>3, NearestExists
  <2>2. ASSUME NEW w \in Encoded(f, v)
        PROVE  /\ Decoded(f, w) \in Nearest(v, f.unit) /\ Decoded(f, w) # Absent
               /\ Inside(d, Decoded(f, w))
    <3>1. PICK m \in Nearest(v, f.unit) : w = m \div f.unit
      BY <1>3, <2>2
    <3>2. Decoded(f, w) = m
      BY <1>4, <3>1
    <3> QED
      BY <1>1, <1>5, <3>2 DEF Inside
  <2> QED
    BY <2>1, <2>2 DEF d

\* A field without limits takes a sound request to the nearest word, or the one below.
LEMMA EncodedUnlimited ==
  ASSUME NEW f \in Fields, ~Bounded(f), NEW v \in Requests[f]
  PROVE  /\ v \in 0..(LAST_WORD * f.unit) => Encoded(f, v) # {}
         /\ \A w \in Encoded(f, v) :
              LET read == Decoded(f, w)
              IN  /\ read # Absent
                  /\ IF f.codec = "time_steps" THEN 0 <= v - read /\ v - read < f.unit
                     ELSE 2 * Magnitude(v - read) <= f.unit
<1>0. /\ f.unit \in Nat \ {0} /\ f.unit \in Nat /\ f.unit > 0 /\ f.codec \in {"number", "time_steps"}
      /\ f.absent \subseteq Registers /\ v \in Int /\ RequestIsSound(f, v) /\ Absent \notin Int
  BY FieldsAreTyped, FieldsAssumption
<1>1. CASE f.codec = "time_steps"
  <2> DEFINE w == v \div f.unit
  <2>1. v \in 0..1439 /\ w \notin f.absent
    BY <1>0, <1>1 DEF RequestIsSound, MinutesPerDay
  <2>2. Encoded(f, v) = {w}
    BY <1>1 DEF Encoded
  <2>3. v % f.unit \in 0..(f.unit - 1) /\ w \in Int /\ v = w * f.unit + (v % f.unit)
    BY <1>0, Division
  <2> HIDE DEF w
  <2>4. PICK p \in Int : p = w * f.unit
    BY <1>0, <2>3
  <2>5. w >= 0
    <3> SUFFICES ASSUME w < 0 PROVE FALSE
      BY <2>3
    <3>1. w * f.unit + f.unit <= 0 * f.unit
      BY <1>0, <2>3, Apart
    <3>2. p + f.unit <= 0
      BY <1>0, <2>4, <3>1
    <3> QED
      BY <1>0, <2>1, <2>3, <2>4, <3>2
  <2>6. p >= 0 /\ p <= v
    <3>1. p >= 0
      BY <1>0, <2>3, <2>4, <2>5
    <3> QED
      BY <1>0, <2>1, <2>3, <2>4, <3>1
  <2>7. (w * f.unit) % 1440 = w * f.unit
    <3>1. p % 1440 = p
      BY <2>1, <2>6
    <3> QED
      BY <2>4, <3>1
  <2>8. Decoded(f, w) = w * f.unit
    BY <1>1, <2>1, <2>7 DEF Decoded, MinutesPerDay
  <2>9. 0 <= v - w * f.unit /\ v - w * f.unit < f.unit
    <3>1. 0 <= v - p /\ v - p < f.unit
      BY <1>0, <2>3, <2>4, <2>6
    <3> QED
      BY <2>4, <3>1
  <2> QED
    BY <1>0, <1>1, <2>2, <2>4, <2>8, <2>9
<1>2. CASE f.codec = "number"
  <2>1. Encoded(f, v) = {m \div f.unit : m \in Nearest(v, f.unit)} \cap Registers
    BY <1>2 DEF Encoded
  <2>2. ASSUME v \in 0..(LAST_WORD * f.unit) PROVE Encoded(f, v) # {}
    <3>1. PICK m \in Nearest(v, f.unit) : TRUE
      BY <1>0, NearestExists
    <3>2. m \in Int /\ m % f.unit = 0
      BY <1>0, NearestIs
    <3>3. 0 % f.unit = 0 /\ (LAST_WORD * f.unit) % f.unit = 0 /\ LAST_WORD * f.unit \in Int
          /\ 0 <= v /\ v <= LAST_WORD * f.unit
      BY <1>0, <2>2, MultipleMod, WordRanges
    <3>4. 0 <= m /\ m <= LAST_WORD * f.unit
      BY <1>0, <3>3, NearestInside
    <3>5. m \div f.unit \in Nat /\ m \div f.unit <= LAST_WORD
      BY <1>0, <3>2, <3>4, WordOf, WordRanges
    <3>6. m \div f.unit \in Registers
      BY <3>5, WordRanges
    <3> QED
      BY <2>1, <3>6
  <2>3. ASSUME NEW w \in Encoded(f, v)
        PROVE  Decoded(f, w) # Absent /\ 2 * Magnitude(v - Decoded(f, w)) <= f.unit
    <3>1. PICK m \in Nearest(v, f.unit) : w = m \div f.unit /\ w \in Registers
      BY <2>1, <2>3
    <3>2. m \in Int /\ m % f.unit = 0 /\ 2 * (v - m) <= f.unit /\ 2 * (m - v) <= f.unit
      BY <1>0, NearestIs
    <3>3. w * f.unit = m
      BY <1>0, <3>1, <3>2, Multiple
    <3>4. w \notin f.absent
      <4> SUFFICES ASSUME w \in f.absent PROVE FALSE
        OBVIOUS
      <4>1. 2 * Magnitude(m - v) > f.unit
        BY <1>0, <1>2, <3>3 DEF RequestIsSound
      <4> QED
        BY <1>0, <3>2, <4>1 DEF Magnitude
    <3>5. Decoded(f, w) = m
      BY <1>2, <3>3, <3>4 DEF Decoded
    <3> QED
      BY <1>0, <3>2, <3>5 DEF Magnitude
  <2> QED
    BY <1>2, <2>2, <2>3
<1> QED
  BY <1>0, <1>1, <1>2
-----------------------------------------------------------------------------
(* The steps.                                                              *)

LEMMA WriteReadsBack ==
  ASSUME field \in Fields, NEW v \in Requests[field], FieldWrite(v)
  PROVE  WrittenReadsBack'
<1> DEFINE d == field.validator
<1>1. PICK kept \in Retained(field, v) : \E sent \in Validated(field.validator, kept) :
               raw' \in Encoded(field, sent) /\ shown' = kept
  BY DEF FieldWrite
<1>2. PICK sent \in Validated(field.validator, kept) :
               raw' \in Encoded(field, sent) /\ shown' = kept
  BY <1>1
<1>3. field' = field /\ request' = v /\ answer' = "written"
  BY DEF FieldWrite
<1>4. v \in Int /\ field.unit \in Nat \ {0} /\ d.step \in Nat \ {0} /\ d.low \in Nat /\ d.high \in Nat
  BY FieldsAreTyped
<1>7. PICK read : read = Decoded(field, raw')
  OBVIOUS
<1>8. Decoded(field, raw)' = read
  BY <1>3, <1>7
<1>9. SUFFICES ReadsBack(Decoded(field, raw))'
  BY <1>3 DEF WrittenReadsBack
<1>5. CASE Bounded(field)
  <2>1. /\ sent \in Int /\ sent = kept /\ Inside(d, sent)
        /\ d.kind # "float10_range" => sent % field.unit = 0
        /\ d.kind = "snap_clamp" /\ Inside(d, v) =>
             2 * (sent - v) <= d.step /\ 2 * (v - sent) <= d.step
    BY <1>4, <1>5, Sent
  <2>2. read \in Nearest(sent, field.unit) /\ read # Absent /\ Inside(d, read)
    BY <1>2, <1>5, <1>7, <2>1, EncodedInside
  <2>3. read \in Int /\ 2 * (sent - read) <= field.unit /\ 2 * (read - sent) <= field.unit
    BY <1>4, <2>1, <2>2, NearestIs
  <2>4. d.kind = "snap_clamp" => read = sent
    BY <1>4, <2>1, <2>2, NearestStays
  <2>5. 2 * Magnitude(shown' - read) <= field.unit
    BY <1>2, <1>4, <2>1, <2>3 DEF Magnitude
  <2>6. d.kind = "snap_clamp" /\ Inside(d, v) => 2 * Magnitude(read - v) <= d.step
    BY <1>4, <2>1, <2>3, <2>4 DEF Magnitude
  <2>7. field.codec # "time_steps"
    BY <1>5, FieldsAssumption DEF BoundsAreSound
  <2> QED
    BY <1>3, <1>5, <1>8, <2>2, <2>5, <2>6, <2>7 DEF ReadsBack
<1>6. CASE ~Bounded(field)
  <2>1. kept = v /\ sent = v
    BY <1>2, <1>6 DEF Bounded, Retained, Validated
  <2>2. /\ read # Absent
        /\ IF field.codec = "time_steps" THEN 0 <= v - read /\ v - read < field.unit
           ELSE 2 * Magnitude(v - read) <= field.unit
    BY <1>2, <1>6, <1>7, <2>1, EncodedUnlimited
  <2> QED
    BY <1>2, <1>3, <1>6, <1>8, <2>1, <2>2 DEF ReadsBack, Bounded
<1> QED
  BY <1>5, <1>6

LEMMA RefusedIsRefusable ==
  ASSUME field \in Fields, NEW v \in Requests[field], FieldRefuses(v)
  PROVE  WrittenReadsBack'
<1> DEFINE d == field.validator
<1>1. /\ field' = field /\ request' = v /\ answer' = "refused"
      /\ \A sent \in Validated(d, v) : Encoded(field, sent) = {}
  BY DEF FieldRefuses
<1>2. v \in Int /\ field.unit \in Nat \ {0} /\ d.step \in Nat \ {0} /\ d.low \in Nat /\ d.high \in Nat
      /\ d.kind \in {"snap_clamp", "int_range", "float10_range", "in_range", "none"}
  BY FieldsAreTyped
<1>3. CASE d.kind = "none"
  <2>1. v \in Validated(d, v) /\ ~Bounded(field)
    BY <1>3 DEF Validated, Bounded
  <2>2. v \notin 0..(LAST_WORD * field.unit)
    BY <1>1, <2>1, EncodedUnlimited
  <2> QED
    BY <1>1, <1>3, <2>2 DEF WrittenReadsBack, Refusable
<1>4. CASE d.kind # "none"
  <2>0. Bounded(field) /\ BoundsAreSound(field)
    BY <1>4, FieldsAssumption DEF Bounded
  <2>1. \A sent \in Validated(d, v) : ~(sent \in Int /\ Inside(d, sent))
    BY <1>1, <2>0, EncodedInside
  <2>2. d.kind # "snap_clamp"
    <3> SUFFICES ASSUME d.kind = "snap_clamp" PROVE FALSE
      OBVIOUS
    <3>1. PICK m \in Nearest(v, d.step) : m \in Int
      BY <1>2, NearestExists, NearestIs
    <3>2. Clamped(d, m) \in Int /\ Inside(d, Clamped(d, m))
      BY <1>2, <2>0, <3>1 DEF Clamped, Inside, BoundsAreSound
    <3>3. Clamped(d, m) \in Validated(d, v)
      BY DEF Validated
    <3> QED
      BY <2>1, <3>2, <3>3
  <2>3. ASSUME d.kind = "in_range" PROVE ~Inside(d, v) \/ v % d.step # 0
    BY <1>2, <2>1, <2>3 DEF Validated
  <2>4. ASSUME d.kind = "float10_range" PROVE ~Inside(d, v)
    BY <1>2, <2>1, <2>4 DEF Validated
  <2>5. ASSUME d.kind = "int_range", Inside(d, v) PROVE FALSE
    <3>1. PICK m \in Nearest(v, d.step) : m \in Int
      BY <1>2, NearestExists, NearestIs
    <3>2. /\ d.low \in Int /\ d.high \in Int /\ d.low % d.step = 0 /\ d.high % d.step = 0
          /\ d.low <= v /\ v <= d.high
      BY <1>2, <2>0, <2>5 DEF BoundsAreSound, Inside
    <3>3. Inside(d, m)
      BY <1>2, <3>1, <3>2, NearestInside DEF Inside
    <3>4. m \in Validated(d, v)
      BY <2>5, <3>3 DEF Validated
    <3> QED
      BY <2>1, <3>1, <3>3, <3>4
  <2>6. Refusable'
    BY <1>1, <1>2, <1>4, <2>2, <2>3, <2>4, <2>5 DEF Refusable
  <2> QED
    BY <1>1, <2>6 DEF WrittenReadsBack
<1> QED
  BY <1>3, <1>4

(* A write of any field that meets the assumption reads back, and only     *)
(* what a validator may refuse is refused (helpers/fields.py).             *)
THEOREM FieldsReadBack == FieldSpec => []WrittenReadsBack
<1> DEFINE FieldInv == field \in Fields /\ WrittenReadsBack
<1>1. FieldInit => FieldInv
  BY DEF FieldInit, WrittenReadsBack
<1>2. FieldInv /\ [FieldNext]_fieldVars => FieldInv'
  <2> SUFFICES ASSUME FieldInv, [FieldNext]_fieldVars PROVE FieldInv'
    OBVIOUS
  <2>1. CASE FieldPoll
    BY <2>1 DEF FieldPoll, WrittenReadsBack
  <2>2. ASSUME NEW v \in Requests[field], FieldWrite(v) PROVE FieldInv'
    BY <2>2, WriteReadsBack DEF FieldWrite
  <2>3. ASSUME NEW v \in Requests[field], FieldRefuses(v) PROVE FieldInv'
    BY <2>3, RefusedIsRefusable DEF FieldRefuses
  <2>4. ASSUME NEW v \in Requests[field], FieldWriteLost(v) PROVE FieldInv'
    BY <2>4 DEF FieldWriteLost, WrittenReadsBack
  <2>5. CASE UNCHANGED fieldVars
    BY <2>5 DEF fieldVars, WrittenReadsBack, ReadsBack, Refusable
  <2> QED
    BY <2>1, <2>2, <2>3, <2>4, <2>5 DEF FieldNext
<1>3. FieldInv => WrittenReadsBack
  OBVIOUS
<1> QED
  BY <1>1, <1>2, <1>3, PTL DEF FieldSpec
=============================================================================
