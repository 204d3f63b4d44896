-------------------------- MODULE GTW26Probe_proofs --------------------------
(***************************************************************************)
(* Proofs about the probe, for every controller, entry point and sequence  *)
(* of answers.                                                             *)
(***************************************************************************)
EXTENDS GTW26Probe, FiniteSetTheorems, SequenceTheorems, TLAPS

\* The blocks that have been read are the first ones of the order.
FirstBlocks(base, n) == {ProbeOrder(base)[i] : i \in 1..n}
Read                 == {b \in Blocks : outcome[b] # Unread}

(***************************************************************************)
(* The answers recorded are answers of the controller, the blocks read a   *)
(* prefix of the order, and a verdict is drawn from all of them.           *)
(***************************************************************************)
Inv ==
  /\ TypeOK
  /\ \A b \in Blocks : outcome[b] # Unread => outcome[b] \in Answers(b)
  /\ \E n \in 0..Len(order) : Read = FirstBlocks(baseOnly, n)
  /\ status = "returned" =>
       /\ Read = FirstBlocks(baseOnly, Len(order))
       /\ verdict = Detection(baseOnly, outcome, device.code)
-----------------------------------------------------------------------------
(* Blocks and their order.                                                 *)

LEMMA BlockSets ==
  /\ BaseBlocks = {"3+4", "108+3", "457+1"}
  /\ ISystemBlocks = {"600+1", "679+6"}
  /\ Blocks = {"3+4", "108+3", "457+1", "600+1", "679+6"}
  /\ TypeBlock \in BaseBlocks
<1>1. DOMAIN BaseIdentityBlocks = {1, 2, 3} /\ DOMAIN ISystemIdentityBlocks = {1, 2}
  BY DEF BaseIdentityBlocks, ISystemIdentityBlocks
<1>2. BaseBlocks = {"3+4", "108+3", "457+1"}
  BY <1>1 DEF BaseBlocks, RangeOf, BaseIdentityBlocks
<1>3. ISystemBlocks = {"600+1", "679+6"}
  BY <1>1 DEF ISystemBlocks, RangeOf, ISystemIdentityBlocks
<1> QED
  BY <1>2, <1>3 DEF Blocks, TypeBlock

LEMMA Orders ==
  \A base \in BOOLEAN :
    LET o == ProbeOrder(base)
    IN  /\ Len(o) = IF base THEN 3 ELSE 5
        /\ o[1] = "3+4" /\ o[2] = "108+3" /\ o[3] = "457+1"
        /\ ~base => o[4] = "600+1" /\ o[5] = "679+6"
<1>1. /\ BaseIdentityBlocks \in Seq(Blocks) /\ Len(BaseIdentityBlocks) = 3
      /\ ISystemIdentityBlocks \in Seq(Blocks) /\ Len(ISystemIdentityBlocks) = 2
  BY BlockSets DEF BaseIdentityBlocks, ISystemIdentityBlocks
<1>2. /\ BaseIdentityBlocks[1] = "3+4" /\ BaseIdentityBlocks[2] = "108+3"
      /\ BaseIdentityBlocks[3] = "457+1"
      /\ ISystemIdentityBlocks[1] = "600+1" /\ ISystemIdentityBlocks[2] = "679+6"
  BY DEF BaseIdentityBlocks, ISystemIdentityBlocks
<1>3. PICK s \in Seq(Blocks), t \in Seq(Blocks) :
             s = BaseIdentityBlocks /\ t = ISystemIdentityBlocks
  BY <1>1
<1>4. /\ Len(s \o t) = 5
      /\ \A i \in 1..5 : (s \o t)[i] = IF i <= 3 THEN s[i] ELSE t[i - 3]
  <2>1. Len(s) = 3 /\ Len(t) = 2
    BY <1>1, <1>3
  <2>2. /\ Len(s \o t) = Len(s) + Len(t)
        /\ \A i \in 1..(Len(s) + Len(t)) :
             (s \o t)[i] = IF i <= Len(s) THEN s[i] ELSE t[i - Len(s)]
    BY ConcatProperties
  <2> QED
    BY <2>1, <2>2
<1>5. ProbeOrder(FALSE) = s \o t /\ ProbeOrder(TRUE) = s
  BY <1>3 DEF ProbeOrder
<1>6. /\ (s \o t)[1] = s[1] /\ (s \o t)[2] = s[2] /\ (s \o t)[3] = s[3]
      /\ (s \o t)[4] = t[1] /\ (s \o t)[5] = t[2]
  BY <1>4
<1> QED
  BY <1>1, <1>2, <1>3, <1>4, <1>5, <1>6

LEMMA FirstBlocksGrow ==
  ASSUME NEW base \in BOOLEAN, NEW n \in 0..Len(ProbeOrder(base))
  PROVE  /\ IsFiniteSet(FirstBlocks(base, n)) /\ Cardinality(FirstBlocks(base, n)) = n
         /\ n < Len(ProbeOrder(base)) =>
              /\ ProbeOrder(base)[n + 1] \in Blocks
              /\ FirstBlocks(base, n + 1) = FirstBlocks(base, n) \cup {ProbeOrder(base)[n + 1]}
<1> DEFINE F(k) == FirstBlocks(base, k)
           o == ProbeOrder(base)
           m == Len(o)
           Good(k) == IsFiniteSet(F(k)) /\ Cardinality(F(k)) = k
<1>1. /\ m \in {3, 5}
      /\ o[1] = "3+4" /\ o[2] = "108+3" /\ o[3] = "457+1"
      /\ m = 5 => o[4] = "600+1" /\ o[5] = "679+6"
  BY Orders
<1> HIDE DEF o, m
<1>2. \A k \in 0..(m - 1) : F(k + 1) = F(k) \cup {o[k + 1]}
  <2> SUFFICES ASSUME NEW k \in 0..(m - 1) PROVE F(k + 1) = F(k) \cup {o[k + 1]}
    OBVIOUS
  <2>1. 1..(k + 1) = (1..k) \cup {k + 1}
    BY <1>1
  <2> QED
    BY <2>1 DEF FirstBlocks, o
<1>3. \A k \in 0..(m - 1) : o[k + 1] \in Blocks
  BY <1>1, BlockSets
<1>4. \A k \in 0..(m - 1) : o[k + 1] \notin F(k)
  <2> SUFFICES ASSUME NEW k \in 0..(m - 1), NEW i \in 1..k PROVE o[k + 1] # o[i]
    BY DEF FirstBlocks, o
  <2>1. k \in {0, 1, 2, 3, 4} /\ i \in {1, 2, 3, 4} /\ (k >= 3 => m = 5)
    BY <1>1
  <2> QED
    BY <1>1, <2>1
<1>5. Good(0)
  <2>1. F(0) = {}
    BY DEF FirstBlocks
  <2> QED
    BY <2>1, FS_EmptySet
<1>6. ASSUME NEW k \in 0..(m - 1), Good(k) PROVE Good(k + 1)
  <2>1. Cardinality(F(k) \cup {o[k + 1]}) = Cardinality(F(k)) + 1
        /\ IsFiniteSet(F(k) \cup {o[k + 1]})
    BY <1>4, <1>6, FS_AddElement
  <2> QED
    BY <1>2, <1>6, <2>1
<1> HIDE DEF Good, F
<1>7. Good(1) /\ Good(2) /\ Good(3)
  <2>1. 0 \in 0..(m - 1) /\ 1 \in 0..(m - 1) /\ 2 \in 0..(m - 1)
    BY <1>1
  <2>2. Good(0 + 1)
    BY <1>5, <1>6, <2>1
  <2>3. Good(1 + 1)
    BY <1>6, <2>1, <2>2
  <2>4. Good(2 + 1)
    BY <1>6, <2>1, <2>3
  <2> QED
    BY <2>2, <2>3, <2>4
<1>8. m = 5 => Good(4) /\ Good(5)
  <2> SUFFICES ASSUME m = 5 PROVE Good(4) /\ Good(5)
    OBVIOUS
  <2>1. Good(3 + 1)
    BY <1>6, <1>7
  <2>2. Good(4 + 1)
    BY <1>6, <2>1
  <2> QED
    BY <2>1, <2>2
<1>9. Good(n)
  <2>1. n \in {0, 1, 2, 3, 4, 5} /\ (n > 3 => m = 5)
    <3>1. n \in 0..m
      BY DEF m, o
    <3> QED
      BY <1>1, <3>1
  <2> QED
    BY <1>5, <1>7, <1>8, <2>1
<1> QED
  BY <1>2, <1>3, <1>9 DEF Good, F, m, o

LEMMA AllBlocks ==
  /\ FirstBlocks(TRUE, Len(ProbeOrder(TRUE))) = BaseBlocks
  /\ FirstBlocks(FALSE, Len(ProbeOrder(FALSE))) = Blocks
<1>1. 1..3 = {1, 2, 3} /\ 1..5 = {1, 2, 3, 4, 5}
  OBVIOUS
<1>2. PICK s, t : s = ProbeOrder(TRUE) /\ t = ProbeOrder(FALSE)
  OBVIOUS
<1>3. /\ Len(s) = 3 /\ s[1] = "3+4" /\ s[2] = "108+3" /\ s[3] = "457+1"
      /\ Len(t) = 5 /\ t[1] = "3+4" /\ t[2] = "108+3" /\ t[3] = "457+1"
      /\ t[4] = "600+1" /\ t[5] = "679+6"
  BY <1>2, Orders
<1>4. {s[i] : i \in {1, 2, 3}} = {s[1], s[2], s[3]}
  OBVIOUS
<1>5. {t[i] : i \in {1, 2, 3, 4, 5}} = {t[1], t[2], t[3], t[4], t[5]}
  OBVIOUS
<1>6. /\ FirstBlocks(TRUE, 3) = {s[i] : i \in {1, 2, 3}}
      /\ FirstBlocks(FALSE, 5) = {t[i] : i \in {1, 2, 3, 4, 5}}
  BY <1>1, <1>2 DEF FirstBlocks
<1>7. /\ FirstBlocks(TRUE, 3) = {"3+4", "108+3", "457+1"}
      /\ FirstBlocks(FALSE, 5) = {"3+4", "108+3", "457+1", "600+1", "679+6"}
  BY <1>3, <1>4, <1>5, <1>6
<1>8. Len(ProbeOrder(TRUE)) = 3 /\ Len(ProbeOrder(FALSE)) = 5
  BY <1>2, <1>3
<1> QED
  BY <1>7, <1>8, BlockSets

\* How many blocks have been read, and which.
LEMMA NumReadIs ==
  ASSUME NEW n \in 0..Len(order), Read = FirstBlocks(baseOnly, n)
  PROVE  NumRead = n
<1>1. baseOnly \in BOOLEAN
  BY DEF baseOnly
<1> QED
  BY <1>1, FirstBlocksGrow DEF NumRead, Read, order

LEMMA DetectionType ==
  ASSUME NEW base \in BOOLEAN, NEW o, NEW code
  PROVE  Detection(base, o, code) \in
           [success : BOOLEAN, layout : Layouts \cup {None},
            generation : Generations \cup {None}, reason : {None, "NOT_A_GTW26", "UNKNOWN_MODEL"}]
<1>1. BaseGenerations(code) \in Generations \cup {None}
  BY DEF BaseGenerations, Generations
<1> QED
  BY <1>1 DEF Detection, Failure, Detected, Layouts, Generations
-----------------------------------------------------------------------------
LEMMA InvInit == Init => Inv
<1> SUFFICES ASSUME Init PROVE Inv
  OBVIOUS
<1>1. TypeOK
  BY DEF Init, TypeOK, NoVerdict
<1>2. Read = FirstBlocks(baseOnly, 0)
  BY DEF Init, Read, FirstBlocks
<1>3. Len(order) \in Nat
  BY Orders DEF order, baseOnly
<1>4. 0 \in 0..Len(order)
  BY <1>3
<1> QED
  BY <1>1, <1>2, <1>4 DEF Init, Inv

LEMMA InvStep ==
  ASSUME Inv, [Next]_vars
  PROVE  Inv'
<1>0. baseOnly \in BOOLEAN /\ Len(order) \in Nat
  BY Orders DEF baseOnly, order
<1>1. CASE ReadBlock
  <2>1. PICK n \in 0..Len(order) : Read = FirstBlocks(baseOnly, n)
    BY DEF Inv
  <2>2. NumRead = n
    BY <2>1, NumReadIs
  <2>3. n < Len(order) /\ n + 1 \in 0..Len(order)
    BY <1>0, <1>1, <2>2 DEF ReadBlock
  <2> DEFINE b == order[n + 1]
  <2>4. /\ b \in Blocks
        /\ FirstBlocks(baseOnly, n + 1) = FirstBlocks(baseOnly, n) \cup {b}
    BY <1>0, <2>3, FirstBlocksGrow DEF order
  <2>5. PICK a \in Answers(b) : outcome' = [outcome EXCEPT ![b] = a]
    BY <1>1, <2>2 DEF ReadBlock
  <2>6. UNCHANGED <<device, entry, status, verdict>> /\ status = "probing"
    BY <1>1 DEF ReadBlock
  <2> HIDE DEF b
  <2>7. outcome \in [Blocks -> Outcomes \cup {Unread}] /\ a \in Outcomes /\ a # Unread
    BY <2>5 DEF Inv, TypeOK, Answers, Outcomes, Unread
  <2>8. TypeOK'
    BY <2>4, <2>5, <2>6, <2>7 DEF Inv, TypeOK
  <2>9. \A c \in Blocks : outcome'[c] # Unread => outcome'[c] \in Answers(c)
    BY <2>4, <2>5, <2>7 DEF Inv
  <2>10. Read' = Read \cup {b}
    BY <2>4, <2>5, <2>7 DEF Read
  <2>11. baseOnly' = baseOnly /\ order' = order /\ \A c \in Blocks : Answers(c)' = Answers(c)
    BY <2>6 DEF baseOnly, order, Answers, Implements
  <2>12. Read' = FirstBlocks(baseOnly, n + 1)
    BY <2>1, <2>4, <2>10
  <2> QED
    BY <2>3, <2>6, <2>8, <2>9, <2>11, <2>12 DEF Inv
<1>2. CASE LinkFails
  BY <1>2 DEF LinkFails, Inv, TypeOK, Read, baseOnly, order, Answers, Implements
<1>3. CASE Conclude
  <2>1. PICK n \in 0..Len(order) : Read = FirstBlocks(baseOnly, n)
    BY DEF Inv
  <2>2. n = Len(order)
    BY <1>3, <2>1, NumReadIs DEF Conclude
  <2>3. UNCHANGED <<device, entry, outcome>>
    BY <1>3 DEF Conclude
  <2>4. \/ status' = "raised" /\ verdict' = verdict
        \/ status' = "returned" /\ verdict' = Detection(baseOnly, outcome, device.code)
    BY <1>3 DEF Conclude
  <2>5. TypeOK'
    BY <1>0, <2>3, <2>4, DetectionType DEF Inv, TypeOK
  <2>6. baseOnly' = baseOnly /\ order' = order /\ Read' = Read
        /\ \A c \in Blocks : Answers(c)' = Answers(c)
    BY <2>3 DEF baseOnly, order, Read, Answers, Implements
  <2> QED
    BY <2>1, <2>2, <2>3, <2>4, <2>5, <2>6 DEF Inv
<1>4. CASE UNCHANGED vars
  BY <1>4 DEF vars, Inv, TypeOK, Read, baseOnly, order, Answers, Implements
<1> QED
  BY <1>1, <1>2, <1>3, <1>4 DEF Next
-----------------------------------------------------------------------------
(* The theorems.                                                           *)

THEOREM InvHolds == Spec => []Inv
<1>1. Init => Inv
  BY InvInit
<1>2. Inv /\ [Next]_vars => Inv'
  BY InvStep
<1> QED
  BY <1>1, <1>2, PTL DEF Spec

\* What a detection that was returned rests on.
LEMMA Verdicts ==
  ASSUME Inv, Returned
  PROVE  /\ verdict = Detection(baseOnly, outcome, device.code)
         /\ device.layouts \subseteq Layouts /\ device.code \in TypeCodes
         /\ \A b \in BaseBlocks : outcome[b] \in Answers(b)
         /\ ~baseOnly => \A b \in ISystemBlocks : outcome[b] \in Answers(b)
<1>1. /\ verdict = Detection(baseOnly, outcome, device.code)
      /\ Read = FirstBlocks(baseOnly, Len(order))
      /\ device \in Devices
      /\ \A b \in Read : outcome[b] \in Answers(b)
  BY DEF Inv, Returned, TypeOK, Read
<1>2. baseOnly \in BOOLEAN
  BY DEF baseOnly
<1>3. BaseBlocks \subseteq Read /\ (~baseOnly => ISystemBlocks \subseteq Read)
  BY <1>1, <1>2, AllBlocks, BlockSets DEF order
<1> QED
  BY <1>1, <1>3 DEF Devices

(* The base layout's blocks stand for it, but for the one of the type code,*)
(* which an iSystem controller may answer too.                             *)
LEMMA WhatBlocksShow ==
  /\ \A b \in BaseBlocks \ {TypeBlock} : Implements(b) <=> "base" \in device.layouts
  /\ \A b \in ISystemBlocks : Implements(b) <=> "isystem" \in device.layouts
  /\ "base" \in device.layouts => \A b \in BaseBlocks : Implements(b)
  BY BlockSets DEF Implements, TypeBlock

(* A layout that is reported is implemented by the controller, and a base  *)
(* layout comes with the generation of its type code (_async_probe).       *)
THEOREM ReportedExists == Spec => []ReportedLayoutExists
<1>1. Inv => ReportedLayoutExists
  <2> SUFFICES ASSUME Inv, Returned, verdict.success
               PROVE  /\ verdict.layout \in device.layouts
                      /\ verdict.layout = "base" => verdict.generation = BaseGenerations(device.code)
                      /\ verdict.generation \in {None, BaseGenerations(device.code)}
    BY DEF ReportedLayoutExists
  <2>1. /\ verdict = Detection(baseOnly, outcome, device.code)
        /\ AllSucceed(BaseBlocks, outcome) => "base" \in device.layouts
        /\ ~baseOnly /\ AllSucceed(ISystemBlocks, outcome) => "isystem" \in device.layouts
    <3>1. "3+4" \in BaseBlocks \ {TypeBlock} /\ "600+1" \in ISystemBlocks
      BY BlockSets DEF TypeBlock
    <3>2. \A b : outcome[b] \in Answers(b) /\ outcome[b] = "success" => Implements(b)
      BY DEF Answers
    <3> QED
      BY <3>1, <3>2, Verdicts, WhatBlocksShow DEF AllSucceed
  <2>2. \/ /\ ~baseOnly /\ AllSucceed(ISystemBlocks, outcome)
           /\ verdict.layout = "isystem" /\ verdict.generation \in {None, BaseGenerations(device.code)}
        \/ /\ AllSucceed(BaseBlocks, outcome)
           /\ verdict.layout = "base" /\ verdict.generation = BaseGenerations(device.code)
    BY <2>1 DEF Detection, Failure, Detected
  <2> QED
    BY <2>1, <2>2
<1> QED
  BY <1>1, InvHolds, PTL

(* Definite answers give the true verdict (_async_probe).                  *)
THEOREM DefiniteIdentify == Spec => []DefiniteAnswersIdentify
<1>1. Inv => DefiniteAnswersIdentify
  <2> SUFFICES ASSUME Inv, Returned, \A b \in Blocks : outcome[b] # "error"
               PROVE  DefiniteAnswersIdentify
    BY DEF DefiniteAnswersIdentify
  <2>1. /\ verdict = Detection(baseOnly, outcome, device.code)
        /\ device.layouts \subseteq Layouts /\ device.code \in TypeCodes
        /\ \A b \in BaseBlocks : outcome[b] = "success" <=> Implements(b)
        /\ ~baseOnly => \A b \in ISystemBlocks : outcome[b] = "success" <=> Implements(b)
    BY Verdicts DEF Blocks, Answers
  <2>2. /\ outcome[TypeBlock] = "success" <=> Implements(TypeBlock)
        /\ AllSucceed(BaseBlocks, outcome) <=> "base" \in device.layouts
        /\ ~baseOnly => (AllSucceed(ISystemBlocks, outcome) <=> "isystem" \in device.layouts)
        /\ "base" \in device.layouts => Implements(TypeBlock)
    <3>1. /\ TypeBlock \in BaseBlocks /\ "3+4" \in BaseBlocks \ {TypeBlock}
          /\ "600+1" \in ISystemBlocks
      BY BlockSets DEF TypeBlock
    <3> QED
      BY <2>1, <3>1, WhatBlocksShow DEF AllSucceed
  <2>3. /\ BaseGenerations(device.code) = None <=> device.code \in {"generationless", "unlisted"}
        /\ InModelCodes(device.code) <=> device.code # "unlisted"
    BY <2>1 DEF TypeCodes, BaseGenerations, InModelCodes, None
  <2>4. "isystem" # None /\ "base" # None
    BY DEF None
  <2> DEFINE base == "base" \in device.layouts
             known == Implements(TypeBlock)
             isystem == ~baseOnly /\ "isystem" \in device.layouts
             code == device.code
             gen == IF known THEN BaseGenerations(code) ELSE None
  <2>5. verdict = IF known /\ code = "generationless" THEN Failure("UNKNOWN_MODEL", gen)
                  ELSE IF isystem THEN Detected("isystem", gen)
                  ELSE IF base /\ code # "unlisted" THEN Detected("base", gen)
                  ELSE Failure("NOT_A_GTW26", gen)
    <3>1. CASE known /\ code = "generationless"
      <4>1. /\ outcome[TypeBlock] = "success" /\ BaseGenerations(device.code) = None
            /\ device.code \in TypeCodes \ {"unlisted"}
        BY <2>1, <2>2, <2>3, <3>1
      <4>2. Detection(baseOnly, outcome, device.code) = Failure("UNKNOWN_MODEL", None)
        BY <4>1 DEF Detection, InModelCodes
      <4> QED
        BY <2>1, <3>1, <4>1, <4>2
    <3>2. CASE ~(known /\ code = "generationless") /\ isystem
      <4>1. /\ outcome[TypeBlock] = "success" <=> known
            /\ ~(known /\ device.code \in TypeCodes \ {"unlisted"} /\ gen = None)
        BY <2>1, <2>2, <2>3, <3>2
      <4>2. ~baseOnly /\ AllSucceed(ISystemBlocks, outcome)
        BY <2>2, <3>2
      <4>3. gen = IF outcome[TypeBlock] = "success" THEN BaseGenerations(device.code) ELSE None
        BY <4>1
      <4> HIDE DEF gen
      <4>4. Detection(baseOnly, outcome, device.code) = Detected("isystem", gen)
        BY <4>1, <4>2, <4>3 DEF Detection, InModelCodes
      <4> QED
        BY <2>1, <3>2, <4>4
    <3>3. CASE ~(known /\ code = "generationless") /\ ~isystem /\ base /\ code # "unlisted"
      BY <2>1, <2>2, <2>3, <3>3 DEF Detection
    <3>4. CASE ~(known /\ code = "generationless") /\ ~isystem /\ ~(base /\ code # "unlisted")
      BY <2>1, <2>2, <2>3, <3>4 DEF Detection
    <3> QED
      BY <3>1, <3>2, <3>3, <3>4
  <2>6. /\ verdict.layout = IF known /\ code = "generationless" THEN None
                            ELSE IF isystem THEN "isystem"
                            ELSE IF base /\ code # "unlisted" THEN "base" ELSE None
        /\ verdict.success = ~(verdict.layout = None)
        /\ (verdict.reason = "UNKNOWN_MODEL") = (known /\ code = "generationless")
    BY <2>4, <2>5 DEF Failure, Detected, None
  <2> QED
    BY <2>6 DEF DefiniteAnswersIdentify
<1> QED
  BY <1>1, InvHolds, PTL

(* Type correctness of the probe.                                          *)
THEOREM TypeCorrect == Spec => []TypeOK
<1>1. Inv => TypeOK
  BY DEF Inv
<1> QED
  BY <1>1, InvHolds, PTL
=============================================================================
