------------------------- MODULE MCComponentFields -------------------------
(***************************************************************************)
(* The fields of the components for TLC: a day of a GTW-26 week program    *)
(* goes through the loops of GTW26DayCodec, a day of a GTW-08 time program *)
(* through GTW08TimeProgram, every other field of a table through          *)
(* RegisterFields.  A behaviour is of one field.                           *)
(***************************************************************************)
EXTENDS GTW26DayCodec, GTW08TimeProgram, RegisterFields

VARIABLE codec  \* "day", "program" or "field"

\* The points of rounding and their neighbours, around a limit.
Around(v) == {v + d : d \in {-110, -26, -25, -5, -1, 0, 4, 5, 25}}

(* A bound on the values of fields without limits: what the appliance's    *)
(* manual allows, times of the day, and what no register can hold.         *)
Unlimited == Around(1950) \cup {0, 4, 5, 9, 10, 1439, -3, -1, 655361}

MCRequests ==
  [f \in ComponentFields |->
     IF Bounded(f) THEN Around(f.validator.low) \cup Around(f.validator.high)
                        \cup {(f.validator.low + f.validator.high) \div 2 + 7}
     ELSE {v \in Unlimited : RequestIsSound(f, v)}]

MCFirstWords == {0, 100, SIGN_BIT + 15, 255} \cup NO_SENSOR

(* The state of the codecs a behaviour is not about.                       *)
NoDay ==
  /\ phase = "done" /\ words = NoWords /\ periods = <<>>
  /\ given = [from |-> "words", words |-> words]
  /\ slot = 0 /\ start = NoSlot /\ index = 1
NoListing ==
  /\ register = NoProgram /\ slots = <<>> /\ fresh = FALSE
  /\ asked = Found /\ heated = NotGenerated
NoField ==
  /\ field = (CHOOSE f \in ComponentFields : TRUE)
  /\ raw = 0 /\ shown = 0 /\ request = 0 /\ answer = "polled"

ComponentsInit ==
  \/ codec = "day" /\ Init /\ NoListing /\ NoField
  \/ codec = "program" /\ ProgramInit /\ NoDay /\ NoField
  \/ codec = "field" /\ FieldInit /\ NoDay /\ NoListing

ComponentsNext ==
  /\ UNCHANGED codec
  /\ \/ codec = "day" /\ Next /\ UNCHANGED <<programVars, fieldVars>>
     \/ codec = "program" /\ ProgramNext /\ UNCHANGED <<vars, fieldVars>>
     \/ codec = "field" /\ FieldNext /\ UNCHANGED <<vars, programVars>>

ComponentsSpec ==
  ComponentsInit /\ [][ComponentsNext]_<<vars, programVars, fieldVars, codec>>
=============================================================================
