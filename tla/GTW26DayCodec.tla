--------------------------- MODULE GTW26DayCodec ---------------------------
(***************************************************************************)
(* decode_day and encode_day of the GTW-26: a day's comfort periods as a   *)
(* bitmap of half hours.  Each loop is run one iteration a step, from the  *)
(* words of a day to its periods and back, or from periods that a caller   *)
(* made up to the words and back.                                          *)
(***************************************************************************)
EXTENDS Integers, Sequences

CONSTANTS
  SlotsPerRegister,  \* half hours in a register
  RegistersPerDay,
  MaxPeriods         \* bound on the periods of a caller's day

ASSUME DayAssumption ==
  /\ SlotsPerRegister \in Nat \ {0} /\ RegistersPerDay \in Nat \ {0}
  /\ MaxPeriods \in Nat

Total == SlotsPerRegister * RegistersPerDay
Slots == 0..(Total - 1)

(* A register is the set of its bits that are set.                         *)
Words == [0..(RegistersPerDay - 1) -> SUBSET (0..(SlotsPerRegister - 1))]

Register(h) == h \div SlotsPerRegister
Bit(h) == SlotsPerRegister - 1 - (h % SlotsPerRegister)

Occupied(w, h) == Bit(h) \in w[Register(h)]

(* Times of day in quarter hours, a slot being two: odd ones are not on a  *)
(* half-hour boundary.  The end of the day is midnight again.              *)
TimesOfDay == 0..(2 * Total - 1)
Periods == TimesOfDay \X TimesOfDay

(* Slip: the end of the day is 24 o'clock.                                 *)
SlotTime_NoWrap(h) == 2 * h
SlotTime(h) == IF h = Total THEN 0 ELSE 2 * h

Low(p) == p[1] \div 2
(* Slip: midnight as an end is the start of the day.                       *)
High_Midnight(p) == p[2] \div 2
High(p) == IF p[2] = 0 THEN Total ELSE p[2] \div 2

Encodable(p) == p[1] % 2 = 0 /\ p[2] % 2 = 0 /\ Low(p) < High(p)

(* The slots a list of periods makes comfort.                              *)
Covers(ps, h) == \E i \in 1..Len(ps) : Low(ps[i]) <= h /\ h < High(ps[i])

BoundedDays == UNION {[1..n -> Periods] : n \in 0..MaxPeriods}

NoSlot == -1
NoWords == [r \in 0..(RegistersPerDay - 1) |-> {}]

VARIABLES
  given,   \* what the day was made of: [words] or [periods]
  phase,   \* "decoding", "encoding", "done" or "refused"
  words,   \* what decode_day reads, or encode_day has set so far
  periods, \* what encode_day reads, or decode_day has found so far
  slot, start, \* locals of decode_day
  index        \* the period encode_day is at

vars == <<given, phase, words, periods, slot, start, index>>

FromWords == given.from = "words"

Init ==
  /\ slot = 0 /\ start = NoSlot /\ index = 1
  /\ \/ /\ phase = "decoding" /\ periods = <<>>
        /\ words \in Words
        /\ given = [from |-> "words", words |-> words]
     \/ /\ phase = "encoding" /\ words = NoWords
        /\ periods \in BoundedDays
        /\ given = [from |-> "periods", periods |-> periods]

(* decode_day: `for slot in range(total)`.                                 *)
StartsPeriod == Occupied(words, slot) /\ start = NoSlot
EndsPeriod == ~Occupied(words, slot) /\ start # NoSlot

DecodeSlot ==
  /\ phase = "decoding" /\ slot < Total
  /\ slot' = slot + 1
  /\ start' = IF StartsPeriod THEN slot ELSE IF EndsPeriod THEN NoSlot ELSE start
  /\ periods' = IF EndsPeriod
                THEN Append(periods, <<SlotTime(start), SlotTime(slot)>>)
                ELSE periods
  /\ UNCHANGED <<given, phase, words, index>>

(* decode_day: after the loop, the period that runs to the end of the day. *)
DecodeEnd ==
  /\ phase = "decoding" /\ slot = Total
  /\ periods' = IF start # NoSlot
                THEN Append(periods, <<SlotTime(start), SlotTime(Total)>>)
                ELSE periods
  /\ \/ FromWords /\ phase' = "encoding" /\ words' = NoWords
     \/ ~FromWords /\ phase' = "done" /\ UNCHANGED words
  /\ UNCHANGED <<given, slot, start, index>>

(* encode_day: `for start, end in intervals`.                              *)
EncodePeriod ==
  /\ phase = "encoding" /\ index <= Len(periods)
  /\ Encodable(periods[index])
  /\ words' = [r \in DOMAIN words |-> words[r] \cup
       {Bit(s) : s \in {s \in Slots : Register(s) = r /\ Low(periods[index]) <= s
                                        /\ s < High(periods[index])}}]
  /\ index' = index + 1
  /\ UNCHANGED <<given, phase, periods, slot, start>>

(* Slip: a reversed period is skipped, not refused.                        *)
EncodeRefuses_Misaligned ==
  /\ phase = "encoding" /\ index <= Len(periods) /\ ~Encodable(periods[index])
  /\ IF periods[index][1] % 2 = 0 /\ periods[index][2] % 2 = 0
     THEN index' = index + 1 /\ UNCHANGED phase
     ELSE phase' = "refused" /\ UNCHANGED index
  /\ UNCHANGED <<given, words, periods, slot, start>>
EncodeRefuses ==
  /\ phase = "encoding" /\ index <= Len(periods)
  /\ ~Encodable(periods[index])
  /\ phase' = "refused"
  /\ UNCHANGED <<given, words, periods, slot, start, index>>

EncodeEnd ==
  /\ phase = "encoding" /\ index > Len(periods)
  /\ \/ FromWords /\ phase' = "done" /\ UNCHANGED periods
     \/ ~FromWords /\ phase' = "decoding" /\ periods' = <<>>
  /\ UNCHANGED <<given, words, slot, start, index>>

Next == DecodeSlot \/ DecodeEnd \/ EncodePeriod \/ EncodeRefuses \/ EncodeEnd

Spec == Init /\ [][Next]_vars

(***************************************************************************)
(* Properties.                                                             *)
(***************************************************************************)
TypeOK ==
  /\ phase \in {"decoding", "encoding", "done", "refused"}
  /\ given \in [from : {"words"}, words : Words]
               \cup [from : {"periods"}, periods : Seq(Periods)]
  /\ words \in Words
  /\ periods \in Seq(Periods)
  /\ slot \in 0..Total /\ start \in Slots \cup {NoSlot}
  /\ index \in Nat \ {0}

(* What was read from a controller is written back with every half hour as *)
(* it was, and is never refused.                                           *)
WordsSurvive ==
  FromWords =>
    /\ phase # "refused"
    /\ phase = "done" => \A s \in Slots : Occupied(words, s) <=> Occupied(given.words, s)

(* A caller's periods, whatever their order and overlaps, come back as     *)
(* periods of the same half hours, in order, none touching the next; the   *)
(* words are refused exactly if one of the periods cannot be encoded.      *)
PeriodsSurvive ==
  ~FromWords =>
    /\ phase = "refused" => \E i \in DOMAIN given.periods : ~Encodable(given.periods[i])
    /\ phase = "done" =>
         /\ \A i \in DOMAIN given.periods : Encodable(given.periods[i])
         /\ \A s \in Slots : Covers(periods, s) <=> Covers(given.periods, s)
         /\ \A i \in 1..(Len(periods) - 1) : High(periods[i]) < Low(periods[i + 1])
=============================================================================
