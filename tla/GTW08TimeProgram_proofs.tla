---------------------- MODULE GTW08TimeProgram_proofs ----------------------
(***************************************************************************)
(* Proofs about the slots of a day: for every length of the day, the hour  *)
(* and the step, every number of slots a register has room for, every      *)
(* season that is a range of hours and every forecast.                     *)
(***************************************************************************)
EXTENDS GTW08TimeProgram, FiniteSetTheorems, FunctionTheorems, TLAPS

(***************************************************************************)
(* The sort.                                                               *)
(***************************************************************************)

(* A later hour has a higher rank.                                         *)
LEMMA RankGrows ==
  ASSUME NEW S \in SUBSET Nat, IsFiniteSet(S), NEW g \in S, NEW h \in S, g < h
  PROVE  Rank(S, g) < Rank(S, h)
<1> DEFINE Before(k) == {x \in S : x < k}
<1>1. Before(g) \subseteq Before(h) /\ g \in Before(h) \ Before(g)
  <2>1. \A x, y, z \in Nat : x < y /\ y < z => x < z
    OBVIOUS
  <2>2. ~(g < g)
    OBVIOUS
  <2> QED
    BY <2>1, <2>2
<1>2. IsFiniteSet(Before(h)) /\ Before(g) \in SUBSET Before(h)
  <2>1. Before(h) \in SUBSET S
    OBVIOUS
  <2> QED
    BY <1>1, <2>1, FS_Subset
<1>3. /\ IsFiniteSet(Before(g))
      /\ Cardinality(Before(g)) <= Cardinality(Before(h))
      /\ Cardinality(Before(h)) = Cardinality(Before(g)) => Before(h) = Before(g)
  <2> HIDE DEF Before
  <2> QED
    BY <1>2, FS_Subset
<1>4. Cardinality(Before(g)) \in Nat /\ Cardinality(Before(h)) \in Nat
  <2> HIDE DEF Before
  <2> QED
    BY <1>2, <1>3, FS_CardinalityType
<1>5. Before(h) # Before(g)
  <2> HIDE DEF Before
  <2> QED
    BY <1>1
<1>6. Cardinality(Before(g)) < Cardinality(Before(h))
  <2> HIDE DEF Before
  <2> QED
    BY <1>3, <1>4, <1>5
<1> QED
  BY <1>6 DEF Rank

LEMMA RankType ==
  ASSUME NEW S \in SUBSET Nat, IsFiniteSet(S), NEW h \in S
  PROVE  Rank(S, h) \in 0..(Cardinality(S) - 1)
<1> DEFINE B == {x \in S : x < h}
<1>1. B \in SUBSET S /\ h \notin B
  <2>1. ~(h < h)
    OBVIOUS
  <2> QED
    BY <2>1
<1>2. /\ IsFiniteSet(B)
      /\ Cardinality(B) <= Cardinality(S)
      /\ Cardinality(S) = Cardinality(B) => S = B
  <2> HIDE DEF B
  <2> QED
    BY <1>1, FS_Subset
<1>3. Cardinality(B) \in Nat /\ Cardinality(S) \in Nat
  <2> HIDE DEF B
  <2> QED
    BY <1>2, FS_CardinalityType
<1>4. Cardinality(B) \in 0..(Cardinality(S) - 1)
  <2> HIDE DEF B
  <2>1. S # B
    BY <1>1
  <2> QED
    BY <2>1, <1>2, <1>3
<1> QED
  BY <1>4 DEF Rank

(* As many ranks as hours: every rank is some hour's.                      *)
LEMMA RankTaken ==
  ASSUME NEW S \in SUBSET Nat, IsFiniteSet(S), NEW r \in 0..(Cardinality(S) - 1)
  PROVE  \E h \in S : Rank(S, h) = r
<1> DEFINE n == Cardinality(S)
           T == 0..(n - 1)
           f == [h \in S |-> Rank(S, h)]
<1>1. n \in Nat
  BY FS_CardinalityType
<1>2. IsFiniteSet(T) /\ Cardinality(T) = n
  <2>1. 0 \in Int /\ n - 1 \in Int
    BY <1>1
  <2>2. IsFiniteSet(0..(n - 1)) /\ Cardinality(0..(n - 1)) = IF 0 > n - 1 THEN 0 ELSE (n - 1) - 0 + 1
    <3> HIDE DEF n
    <3> QED
      BY <2>1, FS_Interval
  <2> HIDE DEF n
  <2> QED
    BY <1>1, <2>2
<1>3. f \in [S -> T]
  BY RankType
<1>4. \A g, h \in S : g # h => f[g] # f[h]
  <2> SUFFICES ASSUME NEW g \in S, NEW h \in S, g # h PROVE f[g] # f[h]
    OBVIOUS
  <2>1. Rank(S, g) \in Int /\ Rank(S, h) \in Int
    BY RankType
  <2>2. CASE g < h
    <3>1. Rank(S, g) < Rank(S, h)
      BY <2>2, RankGrows
    <3> QED
      BY <3>1, <2>1
  <2>3. CASE h < g
    <3>1. Rank(S, h) < Rank(S, g)
      BY <2>3, RankGrows
    <3> QED
      BY <3>1, <2>1
  <2>4. g < h \/ h < g
    OBVIOUS
  <2> QED
    BY <2>2, <2>3, <2>4
<1>5. f \in Injection(S, T)
  <2> HIDE DEF f, T
  <2> QED
    BY <1>3, <1>4 DEF Injection, IsInjective
<1>6. f \in Surjection(S, T)
  <2> HIDE DEF f, T
  <2>1. Cardinality(S) = Cardinality(T)
    BY <1>2
  <2> QED
    BY <1>2, <1>5, <2>1, FS_Injection
<1>7. \E h \in S : f[h] = r
  <2>1. r \in T
    OBVIOUS
  <2> HIDE DEF f, T
  <2> QED
    BY <1>6, <2>1 DEF Surjection
<1> QED
  BY <1>7

LEMMA HasFirst ==
  ASSUME NEW S \in SUBSET Nat, IsFiniteSet(S), S # {}
  PROVE  \E h \in S : \A g \in S : h <= g
<1>1. Cardinality(S) \in Nat /\ Cardinality(S) # 0
  BY FS_CardinalityType, FS_EmptySet
<1>2. 0 \in 0..(Cardinality(S) - 1)
  BY <1>1
<1>3. PICK h \in S : Rank(S, h) = 0
  BY <1>2, RankTaken
<1>4. ASSUME NEW g \in S, g < h PROVE FALSE
  <2>1. Rank(S, g) < Rank(S, h) /\ Rank(S, g) \in 0..(Cardinality(S) - 1)
    BY <1>4, RankGrows, RankType
  <2> QED
    BY <2>1, <1>1, <1>3
<1>5. \A g \in S : h <= g
  <2>1. \A x, y \in Nat : ~(x < y) => y <= x
    OBVIOUS
  <2> QED
    BY <1>4, <2>1
<1> QED
  BY <1>5

LEMMA HasFinal ==
  ASSUME NEW S \in SUBSET Nat, IsFiniteSet(S), S # {}
  PROVE  \E h \in S : \A g \in S : g <= h
<1>1. Cardinality(S) \in Nat /\ Cardinality(S) # 0
  BY FS_CardinalityType, FS_EmptySet
<1>2. Cardinality(S) - 1 \in 0..(Cardinality(S) - 1)
  BY <1>1
<1>3. PICK h \in S : Rank(S, h) = Cardinality(S) - 1
  BY <1>2, RankTaken
<1>4. ASSUME NEW g \in S, h < g PROVE FALSE
  <2>1. Rank(S, h) < Rank(S, g) /\ Rank(S, g) \in 0..(Cardinality(S) - 1)
    BY <1>4, RankGrows, RankType
  <2> QED
    BY <2>1, <1>1, <1>3
<1>5. \A g \in S : g <= h
  <2>1. \A x, y \in Nat : ~(x < y) => y <= x
    OBVIOUS
  <2> QED
    BY <1>4, <2>1
<1> QED
  BY <1>5

LEMMA FirstIs ==
  ASSUME NEW S \in SUBSET Nat, IsFiniteSet(S), S # {}
  PROVE  First(S) \in S /\ \A g \in S : First(S) <= g
  BY HasFirst DEF First

LEMMA FinalIs ==
  ASSUME NEW S \in SUBSET Nat, IsFiniteSet(S), S # {}
  PROVE  Final(S) \in S /\ \A g \in S : g <= Final(S)
  BY HasFinal DEF Final

(* Sorted lists every hour of a set once, earlier hours first.             *)
LEMMA SortedIs ==
  ASSUME NEW S \in SUBSET Nat, IsFiniteSet(S)
  PROVE  /\ Cardinality(S) \in Nat
         /\ DOMAIN Sorted(S) = 1..Cardinality(S)
         /\ \A i \in 1..Cardinality(S) : Sorted(S)[i] \in S
         /\ \A i, j \in 1..Cardinality(S) : i < j => Sorted(S)[i] < Sorted(S)[j]
         /\ \A h \in S : \E i \in 1..Cardinality(S) : Sorted(S)[i] = h
<1> DEFINE n == Cardinality(S)
<1>1. n \in Nat
  BY FS_CardinalityType
<1>2. DOMAIN Sorted(S) = 1..n
  BY DEF Sorted
<1>3. ASSUME NEW i \in 1..n
      PROVE  Sorted(S)[i] \in S /\ Rank(S, Sorted(S)[i]) = i - 1
  <2>1. i - 1 \in 0..(Cardinality(S) - 1)
    BY <1>1
  <2>2. \E h \in S : Rank(S, h) = i - 1
    BY <2>1, RankTaken
  <2>3. Sorted(S)[i] = CHOOSE h \in S : Rank(S, h) = i - 1
    BY DEF Sorted
  <2> QED
    BY <2>2, <2>3
<1>4. ASSUME NEW g \in S, NEW h \in S, Rank(S, g) <= Rank(S, h)
      PROVE  g <= h
  <2>1. CASE h < g
    <3>1. Rank(S, h) < Rank(S, g) /\ Rank(S, g) \in 0..(n - 1) /\ Rank(S, h) \in 0..(n - 1)
      BY <2>1, RankGrows, RankType
    <3> QED
      BY <1>1, <3>1, <1>4
  <2>2. g \in Nat /\ h \in Nat
    OBVIOUS
  <2> QED
    BY <2>1, <2>2
<1>5. ASSUME NEW i \in 1..n, NEW j \in 1..n, i < j
      PROVE  Sorted(S)[i] < Sorted(S)[j]
  <2>1. PICK g \in S : g = Sorted(S)[i] /\ Rank(S, g) = i - 1
    BY <1>3
  <2>2. PICK h \in S : h = Sorted(S)[j] /\ Rank(S, h) = j - 1
    BY <1>3
  <2>3. i - 1 <= j - 1 /\ i - 1 # j - 1
    BY <1>1, <1>5
  <2>4. g <= h /\ g # h
    BY <1>4, <2>1, <2>2, <2>3
  <2>5. g \in Nat /\ h \in Nat
    OBVIOUS
  <2> QED
    BY <2>1, <2>2, <2>4, <2>5
<1>6. ASSUME NEW h \in S
      PROVE  \E i \in 1..n : Sorted(S)[i] = h
  <2>1. PICK r \in 0..(n - 1) : r = Rank(S, h)
    BY RankType
  <2>2. r + 1 \in 1..n /\ (r + 1) - 1 = r
    BY <1>1
  <2>3. PICK g \in S : g = Sorted(S)[r + 1] /\ Rank(S, g) = r
    BY <1>3, <2>2
  <2>4. r <= r
    OBVIOUS
  <2>5. g <= h /\ h <= g
    BY <1>4, <2>1, <2>3, <2>4
  <2>6. g = h
    <3>1. g \in Nat /\ h \in Nat
      OBVIOUS
    <3> QED
      BY <2>5, <3>1
  <2> QED
    BY <2>2, <2>3, <2>6
<1> QED
  BY <1>1, <1>2, <1>3, <1>5, <1>6

(***************************************************************************)
(* The accepted blocks and the hours a slot starts in.                     *)
(***************************************************************************)

Hours == 0..(HoursInDay - 1)
Gapless(b) == \A x, y \in b, z \in Hours : x <= z /\ z <= y => z \in b
Blocks == {b \in SUBSET Hours : b # {} /\ Gapless(b)}

LEMMA HoursAreFinite ==
  ASSUME NEW S \in SUBSET Hours
  PROVE  S \in SUBSET Nat /\ IsFiniteSet(S)
<1>1. 0 \in Int /\ HoursInDay - 1 \in Int /\ Hours \subseteq Nat
  BY ProgramAssumption DEF Hours
<1>2. IsFiniteSet(Hours)
  BY <1>1, FS_Interval DEF Hours
<1> QED
  BY <1>1, <1>2, FS_Subset

LEMMA SeasonIsBlock == UsableHours \subseteq Blocks
<1> SUFFICES ASSUME NEW hours \in UsableHours PROVE hours \in Blocks
  OBVIOUS
<1>1. PICK a \in Hours, b \in Hours : a <= b /\ hours = a..b
  BY ProgramAssumption DEF Hours
<1>2. a \in Nat /\ b \in Nat /\ HoursInDay \in Nat /\ Hours \subseteq Nat
  BY ProgramAssumption DEF Hours
<1>3. hours # {}
  <2>1. a \in a..b
    BY <1>1, <1>2
  <2> QED
    BY <1>1, <2>1
<1>4. hours \in SUBSET Hours
  BY <1>1, <1>2 DEF Hours
<1>5. Gapless(hours)
  <2>1. SUFFICES ASSUME NEW x \in a..b, NEW y \in a..b, NEW z \in Hours, x <= z, z <= y
                 PROVE  z \in a..b
    BY <1>1 DEF Gapless
  <2> QED
    BY <1>2, <2>1
<1> QED
  BY <1>3, <1>4, <1>5 DEF Blocks

(* A block of a season is a range of hours too.                            *)
LEMMA BlockIsBlock ==
  ASSUME NEW hours \in Blocks, NEW h \in hours
  PROVE  Block(hours, h) \in Blocks
<1>1. hours \in SUBSET Hours /\ Gapless(hours) /\ Hours \subseteq Nat
  BY ProgramAssumption DEF Blocks, Hours
<1>2. h \in Nat /\ HeatDuration \in Nat /\ HeatDuration # 0
  BY <1>1, ProgramAssumption
<1>3. h \in Block(hours, h)
  BY <1>2 DEF Block
<1>4. Block(hours, h) \subseteq hours
  BY DEF Block
<1>5. Gapless(Block(hours, h))
  <2> SUFFICES ASSUME NEW x \in Block(hours, h), NEW y \in Block(hours, h), NEW z \in Hours,
                      x <= z, z <= y
               PROVE  z \in Block(hours, h)
    BY DEF Gapless
  <2>1. x \in hours /\ y \in hours /\ h <= x /\ y < h + HeatDuration
    BY DEF Block
  <2>2. z \in hours
    BY <1>1, <2>1 DEF Gapless
  <2>3. h <= z /\ z < h + HeatDuration
    <3>1. x \in Nat /\ y \in Nat /\ z \in Nat
      BY <1>1, <2>1
    <3> QED
      BY <1>2, <2>1, <3>1
  <2> QED
    BY <2>2, <2>3 DEF Block
<1> QED
  BY <1>1, <1>3, <1>4, <1>5 DEF Blocks

LEMMA AcceptedAreBlocks ==
  ASSUME NEW hours \in UsableHours, NEW yields, NEW required
  PROVE  AcceptedBlocks(hours, yields, required) \in SUBSET Blocks
<1> DEFINE starts == AcceptableStarts(hours, yields, required)
<1>1. hours \in Blocks /\ hours \in SUBSET Hours
  BY SeasonIsBlock DEF Blocks
<1>2. starts \in SUBSET hours
  BY DEF AcceptableStarts
<1>3. CASE starts = {}
  BY <1>1, <1>3 DEF AcceptedBlocks
<1>4. CASE starts # {}
  <2>1. First(starts) \in starts /\ Final(starts) \in starts
    <3>1. starts \in SUBSET Nat /\ IsFiniteSet(starts)
      <4> HIDE DEF starts
      <4> QED
        BY <1>1, <1>2, HoursAreFinite
    <3> HIDE DEF starts
    <3> QED
      BY <3>1, <1>4, FirstIs, FinalIs
  <2>2. Block(hours, First(starts)) \in Blocks /\ Block(hours, Final(starts)) \in Blocks
    BY <1>1, <1>2, <2>1, BlockIsBlock
  <2> QED
    BY <1>4, <2>2 DEF AcceptedBlocks
<1> QED
  BY <1>3, <1>4

Heats(blocks) == {First(b) : b \in blocks}
Left(blocks) == Hours \ UNION blocks

LEMMA SlotHoursAre ==
  ASSUME NEW blocks \in SUBSET Blocks
  PROVE  /\ SlotHours(blocks) = Heats(blocks) \cup GroupStarts(Left(blocks))
         /\ SlotHours(blocks) \in SUBSET Hours
         /\ Heats(blocks) \subseteq UNION blocks
         /\ GroupStarts(Left(blocks)) \subseteq Left(blocks)
         /\ UNION blocks \subseteq Hours
<1>1. ASSUME NEW b \in blocks PROVE First(b) \in b /\ b \subseteq Hours
  <2>1. b \in SUBSET Hours /\ b # {}
    BY DEF Blocks
  <2> QED
    BY <2>1, HoursAreFinite, FirstIs
<1>2. Heats(blocks) \subseteq UNION blocks /\ UNION blocks \subseteq Hours
  BY <1>1 DEF Heats
<1>3. GroupStarts(Left(blocks)) \subseteq Left(blocks)
  BY DEF GroupStarts
<1>4. SlotHours(blocks) = Heats(blocks) \cup GroupStarts(Left(blocks))
  BY DEF SlotHours, Heats, Left, Hours
<1> QED
  BY <1>2, <1>3, <1>4 DEF Left

(* Before an hour that is left over, its group starts.                     *)
LEMMA GroupHasStart ==
  ASSUME NEW S \in SUBSET Hours, NEW now \in S
  PROVE  \E k \in GroupStarts(S) : k <= now /\ \A g \in k..now : g \in S
<1> DEFINE Back == {k \in 0..now : \A g \in k..now : g \in S}
<1>1. now \in Nat /\ S \in SUBSET Nat /\ Hours \subseteq Nat
  BY ProgramAssumption DEF Hours
<1>2. now \in Back
  <2>1. \A g \in now..now : g = now
    BY <1>1
  <2> QED
    BY <1>1, <2>1
<1>3. Back \in SUBSET Nat /\ IsFiniteSet(Back)
  <2>1. now \in Int /\ 0 \in Int
    BY <1>1
  <2>2. IsFiniteSet(0..now)
    BY <2>1, FS_Interval
  <2>3. Back \in SUBSET (0..now)
    OBVIOUS
  <2>4. Back \in SUBSET Nat
    BY <1>1
  <2> HIDE DEF Back
  <2> QED
    BY <2>2, <2>3, <2>4, FS_Subset
<1>4. PICK k \in Back : \A g \in Back : k <= g
  <2> HIDE DEF Back
  <2> QED
    BY <1>2, <1>3, HasFirst
<1>5. k \in 0..now /\ \A g \in k..now : g \in S
  BY <1>4
<1>6. k \in S
  <2>1. k \in k..now
    BY <1>1, <1>5
  <2> QED
    BY <1>5, <2>1
<1>7. ASSUME k - 1 \in S PROVE FALSE
  <2>1. k - 1 \in Nat /\ k \in Nat
    BY <1>1, <1>7, <1>5
  <2>2. \A g \in (k - 1)..now : g \in S
    <3> SUFFICES ASSUME NEW g \in (k - 1)..now PROVE g \in S
      OBVIOUS
    <3>1. g = k - 1 \/ g \in k..now
      BY <1>1, <2>1
    <3> QED
      BY <1>5, <1>7, <3>1
  <2>3. k - 1 \in 0..now
    BY <1>1, <1>5, <2>1
  <2>4. k - 1 \in Back
    BY <2>2, <2>3
  <2>5. k <= k - 1
    <3> HIDE DEF Back
    <3> QED
      BY <1>4, <2>4
  <2> QED
    BY <2>1, <2>5
<1>8. k \in GroupStarts(S)
  BY <1>6, <1>7 DEF GroupStarts
<1> QED
  BY <1>1, <1>5, <1>8

(* At every hour a slot has started, and the one that started last is a    *)
(* block's exactly in the hours of the blocks.                             *)
LEMMA LastStartDecides ==
  ASSUME NEW blocks \in SUBSET Blocks, NEW now \in Hours
  PROVE  /\ \E h \in SlotHours(blocks) : h <= now
         /\ \A h \in SlotHours(blocks) :
              h <= now /\ (\A g \in SlotHours(blocks) : g <= now => g <= h)
                => (h \in Heats(blocks) <=> now \in UNION blocks)
<1>1. Hours \subseteq Nat /\ now \in Nat
  BY ProgramAssumption DEF Hours
<1>2. CASE now \in UNION blocks
  <2>1. PICK b \in blocks : now \in b
    BY <1>2
  <2>2. b \in SUBSET Hours /\ Gapless(b) /\ b # {}
    BY DEF Blocks
  <2>3. First(b) \in b /\ First(b) <= now
    BY <2>1, <2>2, HoursAreFinite, FirstIs
  <2>4. First(b) \in SlotHours(blocks)
    BY DEF SlotHours
  <2>5. ASSUME NEW h \in SlotHours(blocks), h <= now,
               \A g \in SlotHours(blocks) : g <= now => g <= h
        PROVE  h \in Heats(blocks)
    <3>1. First(b) <= h
      BY <2>3, <2>4, <2>5
    <3>2. h \in Hours
      BY SlotHoursAre
    <3>3. h \in b
      BY <2>1, <2>2, <2>3, <2>5, <3>1, <3>2 DEF Gapless
    <3>4. h \notin Left(blocks)
      BY <3>3 DEF Left
    <3> QED
      BY <3>4, SlotHoursAre
  <2> QED
    BY <1>2, <2>3, <2>4, <2>5
<1>3. CASE now \notin UNION blocks
  <2>1. now \in Left(blocks) /\ Left(blocks) \in SUBSET Hours
    BY <1>3 DEF Left
  <2>2. PICK k \in GroupStarts(Left(blocks)) : k <= now /\ \A g \in k..now : g \in Left(blocks)
    BY <2>1, GroupHasStart
  <2>3. k \in SlotHours(blocks) /\ k \in Hours
    BY SlotHoursAre
  <2>4. ASSUME NEW h \in SlotHours(blocks), h <= now,
               \A g \in SlotHours(blocks) : g <= now => g <= h
        PROVE  h \notin Heats(blocks)
    <3>1. k <= h
      BY <2>2, <2>3, <2>4
    <3>2. h \in Nat /\ k \in Nat
      BY <1>1, <2>3, SlotHoursAre
    <3>3. h \in k..now
      BY <1>1, <2>4, <3>1, <3>2
    <3>4. h \in Left(blocks)
      BY <2>2, <3>3
    <3> QED
      BY <3>4, SlotHoursAre DEF Left
  <2> QED
    BY <1>3, <2>2, <2>3, <2>4
<1> QED
  BY <1>2, <1>3

(***************************************************************************)
(* Times, steps and hours.                                                 *)
(***************************************************************************)

LEMMA Quotient ==
  ASSUME NEW d \in Nat, d # 0, NEW v \in Nat
  PROVE  /\ v \div d \in Nat /\ v % d \in 0..(d - 1)
         /\ (v \div d) * d <= v /\ v < (v \div d) * d + d
  BY Z3

LEMMA QuotientIs ==
  ASSUME NEW d \in Nat, d # 0, NEW q \in Nat
  PROVE  (q * d) \div d = q
  BY Z3

LEMMA QuotientBelow ==
  ASSUME NEW d \in Nat, d # 0, NEW n \in Nat, NEW v \in Nat, v < n * d
  PROVE  v \div d < n
<1>1. v \div d \in Nat /\ (v \div d) * d <= v
  BY Quotient
<1>2. \A q, m, e \in Nat : m <= q => m * e <= q * e
  BY Z3
<1>3. PICK q \in Nat : q = v \div d
  BY <1>1
<1>4. CASE n <= q
  <2>1. n * d <= q * d
    BY <1>2, <1>4
  <2>2. n * d \in Nat /\ q * d \in Nat
    OBVIOUS
  <2>3. q * d <= v
    BY <1>1, <1>3
  <2>4. \A x, y, z \in Nat : x <= y /\ y <= z /\ z < x => FALSE
    OBVIOUS
  <2> QED
    BY <2>1, <2>2, <2>3, <2>4
<1> QED
  BY <1>3, <1>4

LEMMA SmallModulo ==
  ASSUME NEW d \in Nat, d # 0, NEW v \in Nat, v < d
  PROVE  v % d = v
  BY Z3

LEMMA Multiples ==
  /\ \A x, y \in Nat : x * y \in Nat /\ x * y = y * x
  /\ \A x, y \in Nat : x # 0 /\ y # 0 => x * y # 0
  /\ \A x, y, z \in Nat : (x * y) * z = x * (y * z)
  /\ \A x, y, z \in Nat : x < y /\ z # 0 => x * z < y * z
<1>1. \A x, y \in Nat : x * y \in Nat /\ x * y = y * x
  BY Z3
<1>2. \A x, y \in Nat : x # 0 /\ y # 0 => x * y # 0
  BY Z3
<1>3. \A x, y, z \in Nat : (x * y) * z = x * (y * z)
  BY Z3
<1>4. \A x, y, z \in Nat : x < y /\ z # 0 => x * z < y * z
  BY Z3
<1> QED
  BY <1>1, <1>2, <1>3, <1>4

LEMMA Units ==
  /\ MinutesPerStep \in Nat \ {0} /\ StepsPerHour \in Nat \ {0} /\ HoursInDay \in Nat \ {0}
  /\ StepsPerDay \in Nat \ {0} /\ MinutesPerHour \in Nat \ {0}
  /\ MinutesPerStep * StepsPerDay = HoursInDay * MinutesPerHour
  /\ MinutesPerStep * StepsPerDay = StepsPerDay * MinutesPerStep
  /\ MinutesPerStep * StepsPerDay \in Nat \ {0}
  /\ DayMinutes = 0..(MinutesPerStep * StepsPerDay - 1) /\ DayMinutes \subseteq Nat
<1>1. MinutesPerStep \in Nat \ {0} /\ StepsPerHour \in Nat \ {0} /\ HoursInDay \in Nat \ {0}
  BY ProgramAssumption
<1>2. StepsPerDay \in Nat \ {0} /\ MinutesPerHour \in Nat \ {0}
  BY <1>1, Multiples DEF StepsPerDay, MinutesPerHour
<1>3. MinutesPerStep * StepsPerDay = HoursInDay * MinutesPerHour
  BY <1>1, <1>2, Multiples DEF StepsPerDay, MinutesPerHour
<1>4. MinutesPerStep * StepsPerDay \in Nat \ {0}
  BY <1>1, <1>2, Multiples
<1>5. DayMinutes = 0..(MinutesPerStep * StepsPerDay - 1) /\ DayMinutes \subseteq Nat
  BY <1>4 DEF DayMinutes
<1> QED
  BY <1>1, <1>2, <1>3, <1>4, <1>5, Multiples

LEMMA StepsAreTimes ==
  ASSUME NEW k \in Nat
  PROVE  FromSteps(k) \in DayMinutes
<1>1. PICK r \in Nat : r = k % StepsPerDay /\ r < StepsPerDay
  <2>1. k % StepsPerDay \in 0..(StepsPerDay - 1)
    BY Units, Quotient
  <2> QED
    BY <2>1, Units
<1>2. r * MinutesPerStep < StepsPerDay * MinutesPerStep
  BY <1>1, Units, Multiples
<1>3. FromSteps(k) = r * MinutesPerStep /\ r * MinutesPerStep \in Nat
  BY <1>1, Units, Multiples DEF FromSteps
<1>4. FromSteps(k) \in Nat /\ FromSteps(k) < MinutesPerStep * StepsPerDay
  BY <1>2, <1>3, Units
<1> QED
  BY <1>4, Units

(* A time is kept as the step it lies in.                                  *)
LEMMA StepOfTime ==
  ASSUME NEW time \in DayMinutes
  PROVE  /\ ToSteps(time) \in Nat
         /\ FromSteps(ToSteps(time)) <= time
         /\ time < FromSteps(ToSteps(time)) + MinutesPerStep
<1>1. time \in Nat /\ time < StepsPerDay * MinutesPerStep
  BY Units
<1>2. PICK q \in Nat : q = time \div MinutesPerStep /\ q < StepsPerDay
  BY <1>1, Units, Quotient, QuotientBelow
<1>3. q * MinutesPerStep <= time /\ time < q * MinutesPerStep + MinutesPerStep
  BY <1>1, <1>2, Units, Quotient
<1>4. q % StepsPerDay = q
  BY <1>2, Units, SmallModulo
<1> QED
  BY <1>2, <1>3, <1>4 DEF ToSteps, FromSteps

LEMMA HourOfTime ==
  ASSUME NEW time \in DayMinutes
  PROVE  Hour(time) \in Hours /\ Hour(time) * MinutesPerHour <= time
<1>1. time \in Nat /\ time < HoursInDay * MinutesPerHour
  BY Units
<1>2. PICK q \in Nat : q = time \div MinutesPerHour /\ q < HoursInDay /\ q * MinutesPerHour <= time
  BY <1>1, Units, Quotient, QuotientBelow
<1> QED
  BY <1>2, Units DEF Hour, Hours

(* A whole hour is a whole number of steps.                                *)
LEMMA WholeHour ==
  ASSUME NEW h \in Hours
  PROVE  /\ h * MinutesPerHour \in DayMinutes
         /\ Hour(h * MinutesPerHour) = h
         /\ FromSteps(ToSteps(h * MinutesPerHour)) = h * MinutesPerHour
<1>1. h \in Nat /\ h < HoursInDay
  BY Units DEF Hours
<1>2. h * MinutesPerHour \in Nat /\ h * MinutesPerHour < HoursInDay * MinutesPerHour
  BY <1>1, Units, Multiples
<1>3. h * MinutesPerHour \in DayMinutes
  BY <1>2, Units
<1>4. Hour(h * MinutesPerHour) = h
  BY <1>1, Units, QuotientIs DEF Hour
<1>5. PICK q \in Nat : q = h * StepsPerHour
  BY <1>1, Units, Multiples
<1>6. h * MinutesPerHour = q * MinutesPerStep
  BY <1>1, <1>5, Units, Multiples DEF MinutesPerHour
<1>7. ToSteps(h * MinutesPerHour) = q
  BY <1>6, Units, QuotientIs DEF ToSteps
<1>8. q < StepsPerDay
  <2>1. h * StepsPerHour < HoursInDay * StepsPerHour
    BY <1>1, Units, Multiples
  <2>2. HoursInDay * StepsPerHour = StepsPerDay
    BY Units, Multiples DEF StepsPerDay
  <2> QED
    BY <1>5, <2>1, <2>2
<1>9. FromSteps(q) = q * MinutesPerStep
  BY <1>8, Units, SmallModulo DEF FromSteps
<1> QED
  BY <1>3, <1>4, <1>6, <1>7, <1>9

(***************************************************************************)
(* The generated day.                                                      *)
(***************************************************************************)

Day(blocks) ==
  [i \in DOMAIN Sorted(SlotHours(blocks)) |-> Timeslot(blocks, Sorted(SlotHours(blocks))[i])]

LEMMA GenerateIsDay ==
  ASSUME NEW hours, NEW yields, NEW required
  PROVE  Generate(hours, yields, required) = Day(AcceptedBlocks(hours, yields, required))
  BY DEF Generate, Day

LEMMA TimeslotIs ==
  ASSUME NEW blocks \in SUBSET Blocks, NEW h \in Hours
  PROVE  /\ Timeslot(blocks, h) \in Timeslots
         /\ Timeslot(blocks, h).switchTime = h * MinutesPerHour
         /\ Timeslot(blocks, h).setpoint = IF h \in Heats(blocks) THEN "comfort" ELSE "eco"
  BY WholeHour DEF Timeslot, Timeslots, Setpoints, Slot, Heats

LEMMA DayIs ==
  ASSUME NEW blocks \in SUBSET Blocks
  PROVE  /\ Day(blocks) \in Seq(Timeslots)
         /\ \A i \in DOMAIN Day(blocks) :
              \E h \in SlotHours(blocks) :
                h = Sorted(SlotHours(blocks))[i] /\ Day(blocks)[i] = Timeslot(blocks, h)
<1> DEFINE S == SlotHours(blocks)
<1>1. S \in SUBSET Hours /\ S \in SUBSET Nat /\ IsFiniteSet(S)
  BY SlotHoursAre, HoursAreFinite
<1>2. /\ Cardinality(S) \in Nat /\ DOMAIN Sorted(S) = 1..Cardinality(S)
      /\ \A i \in 1..Cardinality(S) : Sorted(S)[i] \in S
  <2> HIDE DEF S
  <2> QED
    BY <1>1, SortedIs
<1>3. Day(blocks) = [i \in 1..Cardinality(S) |-> Timeslot(blocks, Sorted(S)[i])]
  BY <1>2 DEF Day
<1>4. \A i \in 1..Cardinality(S) : Timeslot(blocks, Sorted(S)[i]) \in Timeslots
  BY <1>1, <1>2, TimeslotIs
<1>5. Day(blocks) \in [1..Cardinality(S) -> Timeslots]
  BY <1>3, <1>4
<1>6. Day(blocks) \in Seq(Timeslots)
  BY <1>2, <1>5
<1> QED
  BY <1>2, <1>3, <1>6

(* The current slot of a generated day.                                    *)
LEMMA CurrentOfDay ==
  ASSUME NEW blocks \in SUBSET Blocks, NEW now \in DayMinutes
  PROVE  \E h \in SlotHours(blocks) :
           /\ h <= Hour(now)
           /\ \A g \in SlotHours(blocks) : g <= Hour(now) => g <= h
           /\ CurrentTimeslot(Day(blocks), now) = Timeslot(blocks, h)
<1> DEFINE S == SlotHours(blocks)
           n == Cardinality(S)
           s == Sorted(S)
           list == Day(blocks)
           started == {i \in DOMAIN list : Hour(list[i].switchTime) <= Hour(now)}
<1>1. S \in SUBSET Hours /\ S \in SUBSET Nat /\ IsFiniteSet(S)
  BY SlotHoursAre, HoursAreFinite
<1>2. /\ n \in Nat /\ DOMAIN s = 1..n
      /\ \A i \in 1..n : s[i] \in S
      /\ \A i, j \in 1..n : i < j => s[i] < s[j]
      /\ \A h \in S : \E i \in 1..n : s[i] = h
  <2> HIDE DEF S
  <2> QED
    BY <1>1, SortedIs
<1>3. DOMAIN list = 1..n
  BY <1>2 DEF Day
<1>4. \A i \in 1..n : list[i] = Timeslot(blocks, s[i]) /\ Hour(list[i].switchTime) = s[i]
  <2> SUFFICES ASSUME NEW i \in 1..n
               PROVE  list[i] = Timeslot(blocks, s[i]) /\ Hour(list[i].switchTime) = s[i]
    OBVIOUS
  <2>1. list[i] = Timeslot(blocks, s[i])
    BY <1>2 DEF Day
  <2>2. PICK h \in Hours : h = s[i]
    BY <1>1, <1>2
  <2>3. Timeslot(blocks, h).switchTime = h * MinutesPerHour /\ Hour(h * MinutesPerHour) = h
    BY TimeslotIs, WholeHour
  <2> HIDE DEF list, s, n
  <2> QED
    BY <2>1, <2>2, <2>3
<1>5. started = {i \in 1..n : s[i] <= Hour(now)}
  <2> HIDE DEF list, s, n
  <2> QED
    BY <1>3, <1>4
<1>6. Hour(now) \in Hours /\ Hour(now) \in Nat
  BY HourOfTime, HoursAreFinite
<1>7. \E i \in 1..n : s[i] <= Hour(now)
  <2>1. PICK h \in S : h <= Hour(now)
    BY <1>6, LastStartDecides
  <2>2. PICK i \in 1..n : s[i] = h
    BY <1>2
  <2> QED
    BY <2>1, <2>2
<1>8. started # {} /\ started \in SUBSET Nat /\ IsFiniteSet(started)
  <2>1. started \in SUBSET (1..n) /\ started # {}
    <3> HIDE DEF s, n, list
    <3> QED
      BY <1>5, <1>7
  <2>2. 1 \in Int /\ n \in Int /\ 1..n \subseteq Nat
    BY <1>2
  <2>3. IsFiniteSet(1..n)
    <3> HIDE DEF n
    <3> QED
      BY <2>2, FS_Interval
  <2> HIDE DEF started, n
  <2> QED
    BY <2>1, <2>2, <2>3, FS_Subset
<1>9. PICK k \in started : /\ \A j \in started : j <= k
                           /\ CurrentTimeslot(list, now) = list[k]
  <2>1. \E k \in started : \A j \in started : j <= k
    <3> HIDE DEF started
    <3> QED
      BY <1>8, HasFinal
  <2>2. CurrentTimeslot(list, now) = list[CHOOSE i \in started : \A j \in started : j <= i]
    BY <1>8 DEF CurrentTimeslot
  <2> HIDE DEF started
  <2> QED
    BY <2>1, <2>2
<1>10. k \in 1..n /\ s[k] <= Hour(now)
  <2> HIDE DEF list, s, n
  <2> QED
    BY <1>5, <1>9
<1>11. ASSUME NEW g \in S, g <= Hour(now) PROVE g <= s[k]
  <2>1. PICK j \in 1..n : s[j] = g
    BY <1>2
  <2>2. j \in started
    <3> HIDE DEF list, s, n
    <3> QED
      BY <1>5, <1>11, <2>1
  <2>3. j <= k
    <3> HIDE DEF started
    <3> QED
      BY <1>9, <2>2
  <2>4. j = k \/ j < k
    BY <1>2, <1>10, <2>3
  <2>5. s[j] \in Nat /\ s[k] \in Nat
    BY <1>1, <1>2, <1>10
  <2>6. CASE j = k
    BY <2>1, <2>5, <2>6
  <2>7. CASE j < k
    <3>1. s[j] < s[k]
      BY <1>2, <1>10, <2>7
    <3> QED
      BY <2>1, <2>5, <3>1
  <2> QED
    BY <2>4, <2>6, <2>7
<1> QED
  <2>1. s[k] \in S /\ CurrentTimeslot(list, now) = Timeslot(blocks, s[k])
    BY <1>2, <1>4, <1>9, <1>10
  <2> QED
    BY <1>10, <1>11, <2>1

LEMMA DayHeats ==
  ASSUME NEW blocks \in SUBSET Blocks, NEW now \in DayMinutes
  PROVE  /\ CurrentTimeslot(Day(blocks), now).setpoint =
              IF Hour(now) \in UNION blocks THEN "comfort" ELSE "eco"
         /\ CurrentTimeslot(Day(blocks), now).switchTime <= now
<1>1. PICK h \in SlotHours(blocks) :
        /\ h <= Hour(now)
        /\ \A g \in SlotHours(blocks) : g <= Hour(now) => g <= h
        /\ CurrentTimeslot(Day(blocks), now) = Timeslot(blocks, h)
  BY CurrentOfDay
<1>2. Hour(now) \in Hours /\ Hour(now) * MinutesPerHour <= now /\ h \in Hours
  BY HourOfTime, SlotHoursAre
<1>3. h \in Heats(blocks) <=> Hour(now) \in UNION blocks
  BY <1>1, <1>2, LastStartDecides
<1>4. /\ Timeslot(blocks, h).switchTime = h * MinutesPerHour
      /\ Timeslot(blocks, h).setpoint = IF h \in Heats(blocks) THEN "comfort" ELSE "eco"
  BY <1>2, TimeslotIs
<1>5. h * MinutesPerHour <= now
  <2>1. Hour(now) \in Nat /\ h \in Nat /\ now \in Nat
    BY <1>2, HoursAreFinite, Units
  <2>2. \A x, y, z \in Nat : x <= y => x * z <= y * z
    BY Z3
  <2>3. h * MinutesPerHour <= Hour(now) * MinutesPerHour
    BY <1>1, <2>1, <2>2, Units
  <2>4. h * MinutesPerHour \in Nat /\ Hour(now) * MinutesPerHour \in Nat
    BY <2>1, Units, Multiples
  <2>5. \A x, y, z \in Nat : x <= y /\ y <= z => x <= z
    OBVIOUS
  <2> QED
    BY <1>2, <2>1, <2>3, <2>4, <2>5
<1> QED
  BY <1>1, <1>3, <1>4, <1>5

(***************************************************************************)
(* The register.                                                           *)
(***************************************************************************)

LEMMA EncodedReads ==
  ASSUME NEW list \in Seq(Timeslots), Fits(list)
  PROVE  /\ Encode(list).count = Len(list) /\ Encode(list).nan = FALSE
         /\ Parsable(Encode(list))
         /\ Decode(Encode(list)) = [i \in 1..Len(list) |->
              Slot(list[i].setpoint, FromSteps(ToSteps(list[i].switchTime)))]
<1> DEFINE n == Len(list)
           encoded == [i \in 1..n |->
             [setpoint |-> list[i].setpoint, steps |-> ToSteps(list[i].switchTime)]]
<1>1. n \in Nat /\ DOMAIN list = 1..n /\ \A i \in 1..n : list[i] \in Timeslots
  OBVIOUS
<1>2. Encode(list) = [count |-> n, slots |-> encoded, nan |-> FALSE]
  BY <1>1 DEF Encode, Raw
<1>3. Encode(list).count = n /\ Encode(list).nan = FALSE /\ Encode(list).slots = encoded
  <2> HIDE DEF n, encoded
  <2> QED
    BY <1>2
<1>4. \A i \in 1..n : /\ encoded[i].setpoint = list[i].setpoint
                      /\ encoded[i].steps = ToSteps(list[i].switchTime)
  OBVIOUS
<1>5. Parsable(Encode(list))
  <2>1. n <= MaxSlots
    BY DEF Fits
  <2>2. \A i \in 1..n : list[i].setpoint \in Setpoints
    BY <1>1 DEF Timeslots
  <2> HIDE DEF encoded, n
  <2> QED
    BY <1>3, <1>4, <2>1, <2>2 DEF Parsable
<1>6. Decode(Encode(list)) =
        [i \in 1..n |-> Slot(encoded[i].setpoint, FromSteps(encoded[i].steps))]
  <2> HIDE DEF encoded, n
  <2> QED
    BY <1>3 DEF Decode
<1>7. \A i \in 1..n : Slot(encoded[i].setpoint, FromSteps(encoded[i].steps)) =
                      Slot(list[i].setpoint, FromSteps(ToSteps(list[i].switchTime)))
  <2> HIDE DEF encoded, n
  <2> QED
    BY <1>4
<1>8. Decode(Encode(list)) =
        [i \in 1..n |-> Slot(list[i].setpoint, FromSteps(ToSteps(list[i].switchTime)))]
  <2> HIDE DEF encoded, n
  <2> QED
    BY <1>6, <1>7
<1> QED
  BY <1>3, <1>5, <1>8

LEMMA FoundReads ==
  ASSUME NEW r \in FoundRaws
  PROVE  /\ r.count \in Nat /\ r.nan \in BOOLEAN
         /\ Parsable(r) => \A i \in DOMAIN Decode(r) : Decode(r)[i] \in Timeslots
<1>1. CASE r = NoProgram
  BY <1>1 DEF NoProgram, Decode
<1>2. ASSUME NEW n \in 0..(MaxSlots + 1), NEW s \in Setpoints \cup {"unknown"},
             NEW k \in 0..(StepsPerDay + 1),
             r = Raw(n, [i \in 1..MaxSlots |-> [setpoint |-> s, steps |-> k]])
      PROVE  /\ r.count \in Nat /\ r.nan \in BOOLEAN
             /\ Parsable(r) => \A i \in DOMAIN Decode(r) : Decode(r)[i] \in Timeslots
  <2>1. MaxSlots \in Nat /\ n \in Nat /\ k \in Nat
    BY ProgramAssumption, Units
  <2>2. r.count = n /\ r.nan = FALSE
        /\ r.slots = [i \in 1..MaxSlots |-> [setpoint |-> s, steps |-> k]]
    BY <1>2 DEF Raw
  <2>3. ASSUME Parsable(r), NEW i \in 1..n PROVE Decode(r)[i] \in Timeslots
    <3>1. n <= MaxSlots /\ r.slots[i].setpoint \in Setpoints
      BY <2>2, <2>3 DEF Parsable
    <3>2. i \in 1..MaxSlots
      BY <2>1, <3>1
    <3>3. r.slots[i].setpoint = s /\ r.slots[i].steps = k
      BY <2>2, <3>2
    <3>4. Decode(r)[i] = Slot(s, FromSteps(k))
      BY <2>2, <3>3 DEF Decode
    <3>5. FromSteps(k) \in DayMinutes /\ s \in Setpoints
      BY <2>1, <3>1, <3>3, StepsAreTimes
    <3> QED
      BY <3>4, <3>5 DEF Slot, Timeslots
  <2>4. DOMAIN Decode(r) = 1..n
    BY <2>2 DEF Decode
  <2> QED
    BY <2>1, <2>2, <2>3, <2>4
<1>3. \/ r = NoProgram
      \/ \E n \in 0..(MaxSlots + 1), s \in Setpoints \cup {"unknown"}, k \in 0..(StepsPerDay + 1) :
           r = Raw(n, [i \in 1..MaxSlots |-> [setpoint |-> s, steps |-> k]])
  BY DEF FoundRaws
<1> QED
  BY <1>1, <1>2, <1>3

(* The switch times of a generated day are whole hours: it is read back    *)
(* as it was written.                                                      *)
LEMMA DayReadsBack ==
  ASSUME NEW blocks \in SUBSET Blocks, Fits(Day(blocks))
  PROVE  Decode(Encode(Day(blocks))) = Day(blocks)
<1> DEFINE list == Day(blocks)
<1>1. list \in Seq(Timeslots)
  BY DayIs
<1>2. Decode(Encode(list)) = [i \in 1..Len(list) |->
        Slot(list[i].setpoint, FromSteps(ToSteps(list[i].switchTime)))]
  <2>1. Fits(list)
    OBVIOUS
  <2> HIDE DEF list
  <2> QED
    BY <1>1, <2>1, EncodedReads
<1>3. ASSUME NEW i \in DOMAIN list
      PROVE  Slot(list[i].setpoint, FromSteps(ToSteps(list[i].switchTime))) = list[i]
  <2>1. PICK h \in Hours : list[i] = Timeslot(blocks, h)
    BY DayIs, SlotHoursAre
  <2>2. /\ Timeslot(blocks, h).switchTime = h * MinutesPerHour
        /\ FromSteps(ToSteps(h * MinutesPerHour)) = h * MinutesPerHour
    BY TimeslotIs, WholeHour
  <2>3. Timeslot(blocks, h) = Slot(Timeslot(blocks, h).setpoint, h * MinutesPerHour)
    BY DEF Timeslot, Slot
  <2> HIDE DEF list
  <2> QED
    BY <2>1, <2>2, <2>3
<1>4. Decode(Encode(list)) = [i \in 1..Len(list) |-> list[i]]
  <2>1. DOMAIN list = 1..Len(list)
    <3> HIDE DEF list
    <3> QED
      BY <1>1
  <2> HIDE DEF list
  <2> QED
    BY <1>2, <1>3, <2>1
<1>5. list = [i \in 1..Len(list) |-> list[i]]
  <2> HIDE DEF list
  <2> QED
    BY <1>1
<1> QED
  BY <1>4, <1>5

(***************************************************************************)
(* The invariant: what was written last is what the register holds, and    *)
(* the component has it as it was given or as it is decoded.               *)
(***************************************************************************)

IsGenerated(list) ==
  \E hours \in UsableHours, required \in 1..(HeatDuration * MaxYield) :
    \E yields \in [hours -> 0..MaxYield] :
      /\ list = Generate(hours, yields, required)
      /\ heated = UNION AcceptedBlocks(hours, yields, required)

Asked(list) == [kind |-> "asked", list |-> list]

RegisterInv ==
  IF asked = Found
  THEN register \in FoundRaws /\ heated = NotGenerated
  ELSE /\ asked = Asked(asked.list)
       /\ asked.list \in Seq(Timeslots) /\ Fits(asked.list)
       /\ register = Encode(asked.list)
       /\ heated # NotGenerated => IsGenerated(asked.list)

ComponentInv ==
  IF fresh
  THEN Parsable(register) /\ slots = Decode(register)
  ELSE slots = IF asked = Found THEN <<>> ELSE asked.list

IInv == fresh \in BOOLEAN /\ RegisterInv /\ ComponentInv

LEMMA Initially == ProgramInit => IInv
  BY DEF ProgramInit, IInv, RegisterInv, ComponentInv

LEMMA ListsAreSlots ==
  ASSUME NEW list \in Lists, Fits(list)
  PROVE  list \in Seq(Timeslots)
<1>1. CASE list = [i \in 1..(MaxSlots + 1) |-> Slot("eco", 0)]
  <2>1. Len(list) = MaxSlots + 1
    BY <1>1, ProgramAssumption
  <2> QED
    BY <2>1, ProgramAssumption DEF Fits
<1>2. CASE \E n \in 0..MaxListed : list \in [1..n -> Timeslots]
  BY <1>2, ProgramAssumption
<1>3. \/ \E n \in 0..MaxListed : list \in [1..n -> Timeslots]
      \/ list = [i \in 1..(MaxSlots + 1) |-> Slot("eco", 0)]
  <2> DEFINE short == {[1..n -> Timeslots] : n \in 0..MaxListed}
  <2>1. (\E L \in short : list \in L) \/ list = [i \in 1..(MaxSlots + 1) |-> Slot("eco", 0)]
    BY DEF Lists
  <2>2. \A L \in short : \E n \in 0..MaxListed : L = [1..n -> Timeslots]
    OBVIOUS
  <2> QED
    BY <2>1, <2>2
<1> QED
  BY <1>1, <1>2, <1>3

LEMMA GeneratedIsSlots ==
  ASSUME NEW hours \in UsableHours, NEW yields, NEW required
  PROVE  Generate(hours, yields, required) \in Seq(Timeslots)
  BY AcceptedAreBlocks, DayIs, GenerateIsDay

(* A write leaves the register with the list and the component with it.    *)
LEMMA Writing ==
  ASSUME NEW list \in Seq(Timeslots), SetTimeSlots(list),
         heated' # NotGenerated => IsGenerated(list)'
  PROVE  IInv'
<1>1. /\ register' = Encode(list) /\ slots' = list /\ fresh' = FALSE
      /\ asked' = Asked(list) /\ Fits(list)
  BY DEF SetTimeSlots, Asked
<1>2. asked' # Found /\ asked'.list = list
  BY <1>1 DEF Asked, Found
<1>3. heated' # NotGenerated => IsGenerated(asked.list)'
  BY <1>2 DEF IsGenerated
<1>4. RegisterInv'
  BY <1>1, <1>2, <1>3 DEF RegisterInv
<1>5. ComponentInv'
  BY <1>1, <1>2 DEF ComponentInv
<1> QED
  BY <1>1, <1>4, <1>5 DEF IInv

LEMMA Inductive == IInv /\ [ProgramNext]_programVars => IInv'
<1> SUFFICES ASSUME IInv, [ProgramNext]_programVars PROVE IInv'
  OBVIOUS
<1>1. CASE Update
  <2>1. Parsable(register) /\ slots' = Decode(register) /\ fresh' = TRUE
        /\ register' = register /\ asked' = asked /\ heated' = heated
    BY <1>1 DEF Update
  <2>2. RegisterInv'
    BY <2>1 DEF IInv, RegisterInv, IsGenerated
  <2>3. ComponentInv'
    BY <2>1 DEF ComponentInv
  <2> QED
    BY <2>1, <2>2, <2>3 DEF IInv
<1>2. CASE WriteListed
  <2>1. PICK list \in Lists : SetTimeSlots(list)
    BY <1>2 DEF WriteListed
  <2>2. heated' = NotGenerated
    BY <1>2 DEF WriteListed
  <2>3. list \in Seq(Timeslots)
    BY <2>1, ListsAreSlots DEF SetTimeSlots
  <2> QED
    BY <2>1, <2>2, <2>3, Writing
<1>3. CASE WriteGenerated
  <2>1. PICK hours \in UsableHours, required \in 1..(HeatDuration * MaxYield) :
          \E yields \in [hours -> 0..MaxYield] :
            /\ SetTimeSlots(Generate(hours, yields, required))
            /\ heated' = UNION AcceptedBlocks(hours, yields, required)
    BY <1>3 DEF WriteGenerated
  <2>2. PICK yields \in [hours -> 0..MaxYield] :
            /\ SetTimeSlots(Generate(hours, yields, required))
            /\ heated' = UNION AcceptedBlocks(hours, yields, required)
    BY <2>1
  <2>3. PICK list \in Seq(Timeslots) : list = Generate(hours, yields, required)
    BY GeneratedIsSlots
  <2>4. IsGenerated(list)'
    BY <2>2, <2>3 DEF IsGenerated
  <2> QED
    BY <2>2, <2>3, <2>4, Writing
<1>4. CASE UNCHANGED programVars
  BY <1>4 DEF programVars, IInv, RegisterInv, ComponentInv, IsGenerated
<1> QED
  BY <1>1, <1>2, <1>3, <1>4 DEF ProgramNext

LEMMA Invariance == ProgramSpec => []IInv
<1> QED
  BY Initially, Inductive, PTL DEF ProgramSpec

(* ProgramTypeOK: every slot a component has is a time of the day with a   *)
(* setpoint, whatever the register was found to hold.                      *)
LEMMA SlotsAreTyped == IInv => ProgramTypeOK
<1> SUFFICES ASSUME IInv PROVE ProgramTypeOK
  OBVIOUS
<1>1. CASE asked = Found
  <2>1. register \in FoundRaws
    BY <1>1 DEF IInv, RegisterInv
  <2>2. CASE fresh
    BY <2>1, <2>2, FoundReads DEF IInv, ComponentInv, ProgramTypeOK
  <2>3. CASE ~fresh
    <3>1. slots = <<>>
      BY <1>1, <2>3 DEF IInv, ComponentInv
    <3> QED
      BY <2>1, <3>1, FoundReads DEF IInv, ProgramTypeOK
  <2> QED
    BY <2>2, <2>3
<1>2. CASE asked # Found
  <2>1. PICK list \in Seq(Timeslots) : list = asked.list
    BY <1>2 DEF IInv, RegisterInv
  <2>2. Fits(list) /\ register = Encode(list)
    BY <1>2, <2>1 DEF IInv, RegisterInv
  <2>3. register.count \in Nat /\ register.nan \in BOOLEAN
    <3>1. Len(list) \in Nat
      OBVIOUS
    <3>2. register.count = Len(list) /\ register.nan = FALSE
      BY <2>2, EncodedReads
    <3> QED
      BY <3>1, <3>2
  <2>4. DOMAIN list = 1..Len(list) /\ \A i \in 1..Len(list) : list[i] \in Timeslots
    OBVIOUS
  <2>5. \A i \in DOMAIN slots : slots[i] \in Timeslots
    <3>1. CASE fresh
      <4>1. slots = [i \in 1..Len(list) |->
                       Slot(list[i].setpoint, FromSteps(ToSteps(list[i].switchTime)))]
        BY <2>2, <3>1, EncodedReads DEF IInv, ComponentInv
      <4>2. ASSUME NEW i \in 1..Len(list)
            PROVE  Slot(list[i].setpoint, FromSteps(ToSteps(list[i].switchTime))) \in Timeslots
        <5>1. list[i].setpoint \in Setpoints /\ list[i].switchTime \in DayMinutes
          BY <2>4 DEF Timeslots
        <5>2. FromSteps(ToSteps(list[i].switchTime)) \in DayMinutes
          BY <5>1, StepOfTime, StepsAreTimes
        <5> QED
          BY <5>1, <5>2 DEF Slot, Timeslots
      <4> QED
        BY <4>1, <4>2
    <3>2. CASE ~fresh
      BY <1>2, <2>1, <2>4, <3>2 DEF IInv, ComponentInv
    <3> QED
      BY <3>1, <3>2
  <2> QED
    BY <2>3, <2>5 DEF IInv, ProgramTypeOK
<1> QED
  BY <1>1, <1>2

THEOREM TypeCorrect == ProgramSpec => []ProgramTypeOK
<1> QED
  BY Invariance, SlotsAreTyped, PTL

LEMMA ReadsToTheStep == IInv => WrittenIsRead
<1> SUFFICES ASSUME IInv, asked # Found
             PROVE  /\ Parsable(register)
                    /\ fresh => /\ Len(slots) = Len(asked.list)
                                /\ \A i \in DOMAIN slots :
                                     /\ slots[i].setpoint = asked.list[i].setpoint
                                     /\ slots[i].switchTime <= asked.list[i].switchTime
                                     /\ asked.list[i].switchTime < slots[i].switchTime + MinutesPerStep
  BY DEF WrittenIsRead
<1>1. PICK list \in Seq(Timeslots) : list = asked.list
  BY DEF IInv, RegisterInv
<1>2. Fits(list) /\ register = Encode(list)
  BY <1>1 DEF IInv, RegisterInv
<1>3. Parsable(register)
  BY <1>2, EncodedReads
<1>4. ASSUME fresh
      PROVE  /\ Len(slots) = Len(list)
             /\ \A i \in DOMAIN slots :
                  /\ slots[i].setpoint = list[i].setpoint
                  /\ slots[i].switchTime <= list[i].switchTime
                  /\ list[i].switchTime < slots[i].switchTime + MinutesPerStep
  <2>1. slots = [i \in 1..Len(list) |->
                   Slot(list[i].setpoint, FromSteps(ToSteps(list[i].switchTime)))]
    BY <1>2, <1>4, EncodedReads DEF IInv, ComponentInv
  <2>2. Len(list) \in Nat /\ DOMAIN slots = 1..Len(list) /\ Len(slots) = Len(list)
    BY <2>1
  <2>3. ASSUME NEW i \in 1..Len(list)
        PROVE  /\ slots[i].setpoint = list[i].setpoint
               /\ slots[i].switchTime <= list[i].switchTime
               /\ list[i].switchTime < slots[i].switchTime + MinutesPerStep
    <3>1. list[i].switchTime \in DayMinutes
      <4>1. list[i] \in Timeslots
        OBVIOUS
      <4> QED
        BY <4>1 DEF Timeslots
    <3>2. slots[i] = Slot(list[i].setpoint, FromSteps(ToSteps(list[i].switchTime)))
      BY <2>1
    <3>3. slots[i].setpoint = list[i].setpoint
          /\ slots[i].switchTime = FromSteps(ToSteps(list[i].switchTime))
      BY <3>2 DEF Slot
    <3> QED
      BY <3>1, <3>3, StepOfTime
  <2> QED
    BY <2>2, <2>3
<1> QED
  BY <1>1, <1>3, <1>4

(* WrittenIsRead: a list that is accepted for writing can be read again,   *)
(* slot by slot, each time taken back to the step it lies in.              *)
THEOREM WrittenReads == ProgramSpec => []WrittenIsRead
<1> QED
  BY Invariance, ReadsToTheStep, PTL

LEMMA GeneratedIsInForce ==
  ASSUME IInv, heated # NotGenerated
  PROVE  \E blocks \in SUBSET Blocks : slots = Day(blocks) /\ heated = UNION blocks
<1>1. asked # Found /\ asked.list \in Seq(Timeslots) /\ Fits(asked.list)
      /\ register = Encode(asked.list) /\ IsGenerated(asked.list)
  BY DEF IInv, RegisterInv
<1>2. PICK hours \in UsableHours, required \in 1..(HeatDuration * MaxYield) :
        \E yields \in [hours -> 0..MaxYield] :
          /\ asked.list = Generate(hours, yields, required)
          /\ heated = UNION AcceptedBlocks(hours, yields, required)
  BY <1>1 DEF IsGenerated
<1>3. PICK yields \in [hours -> 0..MaxYield] :
          /\ asked.list = Generate(hours, yields, required)
          /\ heated = UNION AcceptedBlocks(hours, yields, required)
  BY <1>2
<1>4. PICK blocks \in SUBSET Blocks : blocks = AcceptedBlocks(hours, yields, required)
  BY AcceptedAreBlocks
<1>5. asked.list = Day(blocks) /\ heated = UNION blocks
  BY <1>3, <1>4, GenerateIsDay
<1>6. slots = Day(blocks)
  <2>1. CASE fresh
    <3>1. slots = Decode(Encode(Day(blocks))) /\ Fits(Day(blocks))
      BY <1>1, <1>5, <2>1 DEF IInv, ComponentInv
    <3> QED
      BY <3>1, DayReadsBack
  <2>2. CASE ~fresh
    BY <1>1, <1>5, <2>2 DEF IInv, ComponentInv
  <2> QED
    BY <2>1, <2>2
<1> QED
  BY <1>5, <1>6

LEMMA InForceHeats == IInv => GeneratedHeats /\ (heated # NotGenerated => CurrentHasStarted)
<1> SUFFICES ASSUME IInv, heated # NotGenerated, NEW now \in DayMinutes
             PROVE  /\ CurrentTimeslot(slots, now).setpoint =
                         IF Hour(now) \in heated THEN "comfort" ELSE "eco"
                    /\ CurrentTimeslot(slots, now).switchTime <= now
  BY DEF GeneratedHeats, CurrentHasStarted
<1>1. PICK blocks \in SUBSET Blocks : slots = Day(blocks) /\ heated = UNION blocks
  BY GeneratedIsInForce
<1> QED
  BY <1>1, DayHeats

(* GeneratedHeats: with a generated program a comfort slot is in force in  *)
(* exactly the hours that were accepted, and an eco slot in all others.    *)
THEOREM GeneratedHeat == ProgramSpec => []GeneratedHeats
<1>1. IInv => GeneratedHeats
  BY InForceHeats
<1> QED
  BY <1>1, Invariance, PTL

(***************************************************************************)
(* What is true of the current slot of any program.                        *)
(***************************************************************************)

LEMMA SlotsAreNumbered == IInv => \E n \in Nat : DOMAIN slots = 1..n
<1> SUFFICES ASSUME IInv PROVE \E n \in Nat : DOMAIN slots = 1..n
  OBVIOUS
<1>1. CASE fresh
  <2>1. slots = Decode(register) /\ register.count \in Nat
    BY <1>1, SlotsAreTyped DEF IInv, ComponentInv, ProgramTypeOK
  <2>2. DOMAIN slots = 1..0 \/ DOMAIN slots = 1..register.count
    BY <2>1 DEF Decode
  <2> QED
    BY <2>1, <2>2
<1>2. CASE ~fresh /\ asked = Found
  <2>1. slots = <<>>
    BY <1>2 DEF IInv, ComponentInv
  <2>2. DOMAIN slots = 1..0
    BY <2>1
  <2> QED
    BY <2>2
<1>3. CASE ~fresh /\ asked # Found
  <2>1. PICK list \in Seq(Timeslots) : slots = list
    BY <1>3 DEF IInv, ComponentInv, RegisterInv
  <2>2. Len(list) \in Nat /\ DOMAIN list = 1..Len(list)
    OBVIOUS
  <2> QED
    BY <2>1, <2>2
<1> QED
  BY <1>1, <1>2, <1>3

(* A slot of an earlier hour has started.                                  *)
LEMMA EarlierHour ==
  ASSUME NEW t \in DayMinutes, NEW now \in DayMinutes, Hour(t) < Hour(now)
  PROVE  t <= now
<1>1. t \in Nat /\ now \in Nat /\ MinutesPerHour \in Nat \ {0}
  BY Units
<1>2. PICK q \in Nat : q = Hour(t) /\ t < q * MinutesPerHour + MinutesPerHour
  BY <1>1, Quotient DEF Hour
<1>3. PICK p \in Nat : p = Hour(now) /\ p * MinutesPerHour <= now
  BY <1>1, Quotient DEF Hour
<1>4. q * MinutesPerHour + MinutesPerHour <= p * MinutesPerHour
  <2>1. \A i, j, k \in Nat : i < j => (i * k) + k <= j * k
    <3>1. \A i, j, k \in Nat : i < j => (i + 1) * k <= j * k
      OBVIOUS
    <3>2. \A i, k \in Nat : (i + 1) * k = (i * k) + k
      OBVIOUS
    <3> QED
      BY <3>1, <3>2
  <2> QED
    BY <1>1, <1>2, <1>3, <2>1
<1>5. PICK x \in Nat, y \in Nat : x = q * MinutesPerHour /\ y = p * MinutesPerHour
  BY <1>1, <1>2, <1>3
<1> QED
  BY <1>1, <1>2, <1>3, <1>4, <1>5

LEMMA CurrentIsOne ==
  ASSUME IInv, NEW now \in DayMinutes, CurrentTimeslot(slots, now) # NoTimeslot
  PROVE  \E i \in DOMAIN slots : /\ CurrentTimeslot(slots, now) = slots[i]
                                 /\ Hour(slots[i].switchTime) <= Hour(now)
<1> DEFINE started == {i \in DOMAIN slots : Hour(slots[i].switchTime) <= Hour(now)}
<1>1. started # {}
  BY DEF CurrentTimeslot
<1>2. PICK n \in Nat : DOMAIN slots = 1..n
  BY SlotsAreNumbered
<1>3. started \in SUBSET Nat /\ IsFiniteSet(started)
  <2>1. IsFiniteSet(1..n)
    BY FS_Interval
  <2>2. started \subseteq 1..n
    BY <1>2
  <2>3. 1..n \subseteq Nat
    OBVIOUS
  <2> HIDE DEF started
  <2> QED
    BY <2>1, <2>2, <2>3, FS_Subset
<1>4. \E k \in started : \A j \in started : j <= k
  <2> HIDE DEF started
  <2> QED
    BY <1>1, <1>3, HasFinal
<1>5. PICK k \in started : k = CHOOSE i \in started : \A j \in started : j <= i
  <2> HIDE DEF started
  <2> QED
    BY <1>4
<1>6. CurrentTimeslot(slots, now) = slots[k]
  BY <1>1, <1>5 DEF CurrentTimeslot
<1> QED
  BY <1>6

(* A slot begins in the present hour, but has not begun yet.               *)
BeginsThisHour(now) ==
  \E i \in DOMAIN slots :
    Hour(slots[i].switchTime) = Hour(now) /\ now < slots[i].switchTime

(***************************************************************************)
(* get_current_timeslot, for every program a register can hold: the slot   *)
(* it returns has started, unless one begins later within the present      *)
(* hour.  That is all there is to the violation of CurrentHasStarted.      *)
(***************************************************************************)
THEOREM HasStartedUnlessThisHour ==
  ProgramSpec => [](\A now \in DayMinutes :
               CurrentTimeslot(slots, now) # NoTimeslot /\ ~BeginsThisHour(now) =>
                 CurrentTimeslot(slots, now).switchTime <= now)
<1> DEFINE A == \A now \in DayMinutes :
                  CurrentTimeslot(slots, now) # NoTimeslot /\ ~BeginsThisHour(now) =>
                    CurrentTimeslot(slots, now).switchTime <= now
<1>1. ASSUME IInv PROVE A
  <2> SUFFICES ASSUME NEW now \in DayMinutes, CurrentTimeslot(slots, now) # NoTimeslot,
                      ~BeginsThisHour(now)
               PROVE  CurrentTimeslot(slots, now).switchTime <= now
    OBVIOUS
  <2>1. PICK i \in DOMAIN slots : /\ CurrentTimeslot(slots, now) = slots[i]
                                  /\ Hour(slots[i].switchTime) <= Hour(now)
    BY <1>1, CurrentIsOne
  <2>2. slots[i].switchTime \in DayMinutes
    BY <1>1, SlotsAreTyped DEF ProgramTypeOK, Timeslots
  <2>3. PICK t \in DayMinutes : t = slots[i].switchTime
    BY <2>2
  <2>4. t \in Nat /\ now \in Nat /\ Hour(t) \in Nat /\ Hour(now) \in Nat
    BY Units, HourOfTime, HoursAreFinite
  <2>5. CASE Hour(t) < Hour(now)
    BY <2>1, <2>3, <2>5, EarlierHour
  <2>6. CASE Hour(t) = Hour(now)
    BY <2>1, <2>3, <2>4, <2>6 DEF BeginsThisHour
  <2> QED
    BY <2>1, <2>3, <2>4, <2>5, <2>6
<1> QED
  BY <1>1, Invariance, PTL

(* What CurrentHasStarted says of any program, and is violated for, holds  *)
(* of a generated one: its slots start on the hour, so finding the current *)
(* slot by its hour finds one that has started.                            *)
THEOREM GeneratedHasStarted == ProgramSpec => [](heated # NotGenerated => CurrentHasStarted)
<1>1. IInv => (heated # NotGenerated => CurrentHasStarted)
  BY InForceHeats
<1> QED
  BY <1>1, Invariance, PTL

(***************************************************************************)
(* The room a generated day needs.                                         *)
(***************************************************************************)

LEMMA TwoBlocks ==
  ASSUME NEW hours \in UsableHours, NEW yields, NEW required
  PROVE  \E b, c \in Blocks : AcceptedBlocks(hours, yields, required) = {b, c}
<1> DEFINE blocks == AcceptedBlocks(hours, yields, required)
<1>1. \E b, c \in blocks : blocks = {b, c}
  BY DEF AcceptedBlocks
<1>2. blocks \in SUBSET Blocks
  BY AcceptedAreBlocks
<1> QED
  BY <1>1, <1>2

(* A group of hours that are left starts at midnight or behind a block.    *)
LEMMA GroupFollows ==
  ASSUME NEW blocks \in SUBSET Blocks, NEW h \in GroupStarts(Left(blocks)), h # 0
  PROVE  \E b \in blocks : h = Final(b) + 1
<1>1. Hours \subseteq Nat /\ h \in Hours /\ h \notin UNION blocks /\ h - 1 \notin Left(blocks)
  BY ProgramAssumption DEF GroupStarts, Left, Hours
<1>2. h - 1 \in Hours
  BY <1>1, ProgramAssumption DEF Hours
<1>3. PICK b \in blocks : h - 1 \in b
  BY <1>1, <1>2 DEF Left
<1>4. b \in SUBSET Hours /\ b # {} /\ Gapless(b) /\ h \notin b
  BY <1>1 DEF Blocks
<1>5. Final(b) \in b /\ h - 1 <= Final(b)
  BY <1>3, <1>4, HoursAreFinite, FinalIs
<1>6. CASE h <= Final(b)
  <2>1. h - 1 <= h
    BY <1>1
  <2>2. h \in b
    BY <1>1, <1>3, <1>4, <1>5, <1>6, <2>1 DEF Gapless
  <2> QED
    BY <1>4, <2>2
<1>7. CASE ~(h <= Final(b))
  <2>1. h \in Nat /\ Final(b) \in Nat
    BY <1>1, <1>4, <1>5
  <2>2. h = Final(b) + 1
    BY <1>5, <1>7, <2>1
  <2> QED
    BY <2>2
<1> QED
  BY <1>6, <1>7

LEMMA FiveAtMost ==
  ASSUME NEW v, NEW w, NEW x, NEW y, NEW z
  PROVE  IsFiniteSet({v, w, x, y, z}) /\ Cardinality({v, w, x, y, z}) <= 5
<1> DEFINE T == {v, w, x, y, z}
           f == [i \in 1..5 |-> <<v, w, x, y, z>>[i]]
<1>1. f \in [1..5 -> T] /\ \A t \in T : \E i \in 1..5 : f[i] = t
  <2>1. f[1] = v /\ f[2] = w /\ f[3] = x /\ f[4] = y /\ f[5] = z
    OBVIOUS
  <2>2. \A i \in 1..5 : i = 1 \/ i = 2 \/ i = 3 \/ i = 4 \/ i = 5
    OBVIOUS
  <2>3. \A i \in 1..5 : f[i] \in T
    <3> HIDE DEF f
    <3> QED
      BY <2>1, <2>2
  <2>4. 1 \in 1..5 /\ 2 \in 1..5 /\ 3 \in 1..5 /\ 4 \in 1..5 /\ 5 \in 1..5
    OBVIOUS
  <2>5. f \in [1..5 -> T]
    <3>1. f = [i \in 1..5 |-> f[i]]
      OBVIOUS
    <3> HIDE DEF f, T
    <3> QED
      BY <2>3, <3>1
  <2>6. \A t \in T : \E i \in 1..5 : f[i] = t
    <3> HIDE DEF f
    <3> QED
      BY <2>1, <2>4
  <2> QED
    BY <2>5, <2>6
<1>2. f \in Surjection(1..5, T)
  <2> HIDE DEF f, T
  <2> QED
    BY <1>1 DEF Surjection
<1>3. IsFiniteSet(1..5) /\ Cardinality(1..5) = 5
  <2>1. 1 \in Int /\ 5 \in Int
    OBVIOUS
  <2>2. IsFiniteSet(1..5) /\ Cardinality(1..5) = IF 1 > 5 THEN 0 ELSE 5 - 1 + 1
    BY <2>1, FS_Interval
  <2> QED
    BY <2>2
<1>4. IsFiniteSet(T) /\ Cardinality(T) <= Cardinality(1..5)
  <2> HIDE DEF f, T
  <2> QED
    BY <1>2, <1>3, FS_Surjection
<1> QED
  BY <1>3, <1>4

LEMMA DayLength ==
  ASSUME NEW blocks \in SUBSET Blocks
  PROVE  Len(Day(blocks)) = Cardinality(SlotHours(blocks))
<1> DEFINE S == SlotHours(blocks)
<1>1. S \in SUBSET Nat /\ IsFiniteSet(S)
  BY SlotHoursAre, HoursAreFinite
<1>2. Cardinality(S) \in Nat /\ DOMAIN Sorted(S) = 1..Cardinality(S)
  <2> HIDE DEF S
  <2> QED
    BY <1>1, SortedIs
<1>3. Day(blocks) = [i \in 1..Cardinality(S) |-> Timeslot(blocks, Sorted(S)[i])]
  BY <1>2 DEF Day
<1> QED
  BY <1>2, <1>3

(***************************************************************************)
(* generate_dhw_day_schedule needs no more than five slots, whatever the   *)
(* forecast: a day's register, which has room for six, never refuses what  *)
(* it generates.                                                           *)
(***************************************************************************)
THEOREM GeneratedFits ==
  ASSUME NEW hours \in UsableHours, NEW yields, NEW required, MaxSlots >= 5
  PROVE  Fits(Generate(hours, yields, required))
<1>1. PICK b \in Blocks, c \in Blocks : AcceptedBlocks(hours, yields, required) = {b, c}
  BY TwoBlocks
<1> DEFINE blocks == {b, c}
           T == {0, First(b), First(c), Final(b) + 1, Final(c) + 1}
<1>2. blocks \in SUBSET Blocks
  OBVIOUS
<1>3. SlotHours(blocks) \subseteq T
  <2> SUFFICES ASSUME NEW h \in SlotHours(blocks) PROVE h \in T
    OBVIOUS
  <2>1. h \in Heats(blocks) \/ h \in GroupStarts(Left(blocks))
    BY <1>2, SlotHoursAre
  <2>2. CASE h \in Heats(blocks)
    BY <2>2 DEF Heats
  <2>3. CASE h \in GroupStarts(Left(blocks)) /\ h # 0
    <3>1. \E a \in blocks : h = Final(a) + 1
      <4> HIDE DEF blocks
      <4> QED
        BY <1>2, <2>3, GroupFollows
    <3> QED
      BY <3>1
  <2>4. CASE h = 0
    BY <2>4
  <2> QED
    BY <2>1, <2>2, <2>3, <2>4
<1>4. Cardinality(SlotHours(blocks)) <= Cardinality(T) /\ Cardinality(T) <= 5
  <2>1. IsFiniteSet(T) /\ Cardinality(T) <= 5
    BY FiveAtMost
  <2> HIDE DEF T
  <2> QED
    BY <1>3, <2>1, FS_Subset
<1>5. Cardinality(SlotHours(blocks)) \in Nat /\ Cardinality(T) \in Nat
  <2>1. IsFiniteSet(T)
    BY FiveAtMost
  <2>2. IsFiniteSet(SlotHours(blocks))
    <3> HIDE DEF T
    <3> QED
      BY <1>3, <2>1, FS_Subset
  <2> HIDE DEF T
  <2> QED
    BY <2>1, <2>2, FS_CardinalityType
<1>6. Len(Day(blocks)) <= MaxSlots
  <2>1. Len(Day(blocks)) = Cardinality(SlotHours(blocks))
    BY <1>2, DayLength
  <2>2. \A i, j, k \in Nat : i <= j /\ j <= 5 /\ k >= 5 => i <= k
    OBVIOUS
  <2>3. MaxSlots \in Nat
    BY ProgramAssumption
  <2> HIDE DEF T, blocks
  <2> QED
    BY <1>4, <1>5, <2>1, <2>2, <2>3
<1> QED
  BY <1>1, <1>6, GenerateIsDay DEF Fits

=============================================================================
