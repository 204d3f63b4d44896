--------------------------- MODULE RegisterFields ---------------------------
(***************************************************************************)
(* One writable numeric field of a component (helpers/fields.py): what a   *)
(* request becomes in the field's validator, which word the field encodes  *)
(* it as, what the component retains (gtw26/model.py, gtw08/model.py) and  *)
(* what the next poll decodes.                                             *)
(*                                                                         *)
(* Values are integers: hundredths of a degree or of a count, minutes of   *)
(* the day.  The code's floats put a value half way between two steps on   *)
(* either of them, so such a value may be rounded both ways.               *)
(***************************************************************************)
EXTENDS Integers

CONSTANTS
  Fields,    \* the fields, records of FieldType
  Requests,  \* Requests[f]: the values field f is asked to take
  FirstWords,\* the words a register may hold before the first write
  Absent     \* None: the value of a register that holds none

SIGN_BIT  == 32768
MAGNITUDE == SIGN_BIT - 1
NO_SENSOR == {65535, 36044}
LAST_WORD == (2 * SIGN_BIT) - 1
Registers == 0..LAST_WORD

(***************************************************************************)
(* A field scales its register by unit, reads the words of absent as None, *)
(* and has a validator, which rounds to steps or not, and moves a value    *)
(* into its limits, refuses it, or takes it as it is.                      *)
(***************************************************************************)
Validators == [kind : {"snap_clamp", "int_range", "float10_range", "in_range", "none"},
               step : Nat \ {0}, low : Nat, high : Nat]
FieldType  == [codec : {"float10", "number", "time_steps"}, unit : Nat \ {0},
               absent : SUBSET Registers, validator : Validators,
               retains : {"effective", "request"}]

VARIABLES
  field,   \* the field under consideration
  raw,     \* its register on the controller
  shown,   \* the value the component holds
  request, \* the last value asked for and not lost
  answer   \* "polled", or how the last write ended: "written", "refused" or "lost"

fieldVars == <<field, raw, shown, request, answer>>
-----------------------------------------------------------------------------
(* Validators.                                                             *)

\* round(value / step) * step
Nearest(v, s) ==
  {m \in {v - (v % s), v - (v % s) + s} : 2 * (v - m) <= s /\ 2 * (m - v) <= s}

Inside(d, v) == d.low <= v /\ v <= d.high

\* min(max(value, low), high)
Clamped(d, v) == IF v < d.low THEN d.low ELSE IF v > d.high THEN d.high ELSE v

\* The values validator d may return for v, none if it raises ValueError.
Validated(d, v) ==
  CASE d.kind = "snap_clamp"    -> {Clamped(d, m) : m \in Nearest(v, d.step)}
    [] d.kind = "int_range"     -> {m \in Nearest(v, d.step) : Inside(d, m)}
    [] d.kind = "float10_range" -> {m \in {v} : Inside(d, m)}
    [] d.kind = "in_range"      -> {m \in {v} : Inside(d, m) /\ m % d.step = 0}
    [] OTHER                    -> {v}

\* Slip: GTW-26 components retain what was asked for, too.
Retained_Request(f, v) == {v}

\* Gtw26Component.write retains what the validator returns, RemehaComponent.write the request.
Retained(f, v) == IF f.retains = "effective" THEN Validated(f.validator, v) ELSE {v}
-----------------------------------------------------------------------------
(* Words.                                                                  *)

Magnitude(v) == IF v < 0 THEN -v ELSE v

\* The words field f may encode v as, none if it raises ValueError.
Encoded(f, v) ==
  CASE f.codec = "time_steps" -> {v \div f.unit}
    [] f.codec = "float10" ->
         {IF v < 0 THEN n + SIGN_BIT ELSE n :
            n \in {m \div f.unit : m \in Nearest(Magnitude(v), f.unit)} \cap 0..MAGNITUDE}
    [] OTHER -> {m \div f.unit : m \in Nearest(v, f.unit)} \cap Registers

MinutesPerDay == 1440

Decoded(f, w) ==
  CASE w \in f.absent -> Absent
    [] w \notin f.absent /\ f.codec = "time_steps" -> (w * f.unit) % MinutesPerDay
    [] w \notin f.absent /\ f.codec = "float10" /\ w >= SIGN_BIT -> -((w - SIGN_BIT) * f.unit)
    [] OTHER -> w * f.unit
-----------------------------------------------------------------------------
FieldInit ==
  /\ field \in Fields
  /\ raw \in FirstWords
  /\ shown = Decoded(field, raw)
  /\ request = 0
  /\ answer = "polled"

\* The component validates the request itself, the write of its base class once more.
FieldWrite(v) ==
  /\ request' = v
  /\ \E kept \in Retained(field, v) :
       \E sent \in Validated(field.validator, kept) :
         /\ raw' \in Encoded(field, sent)
         /\ shown' = kept
  /\ answer' = "written"
  /\ UNCHANGED field

FieldRefuses(v) ==
  /\ \A sent \in Validated(field.validator, v) : Encoded(field, sent) = {}
  /\ request' = v
  /\ answer' = "refused"
  /\ UNCHANGED <<field, raw, shown>>

\* The link fails: the register may hold the new word, the component keeps what it showed.
FieldWriteLost(v) ==
  /\ \E kept \in Retained(field, v) :
       \E sent \in Validated(field.validator, kept) : raw' \in Encoded(field, sent) \cup {raw}
  /\ answer' = "lost"
  /\ UNCHANGED <<field, shown, request>>

FieldPoll ==
  /\ shown' = Decoded(field, raw)
  /\ answer' = "polled"
  /\ UNCHANGED <<field, raw, request>>

FieldNext ==
  \/ FieldPoll
  \/ \E v \in Requests[field] : FieldWrite(v) \/ FieldRefuses(v) \/ FieldWriteLost(v)

FieldSpec == FieldInit /\ [][FieldNext]_fieldVars
-----------------------------------------------------------------------------
(* The fields of the components, in hundredths.                            *)

snap_clamp(step, low, high) ==
  [kind |-> "snap_clamp", step |-> step, low |-> low, high |-> high]
int_clamp(low, high)     == snap_clamp(100, low, high)
int_range(low, high)     == [kind |-> "int_range", step |-> 100, low |-> low, high |-> high]
float10_range(low, high) == [kind |-> "float10_range", step |-> 10, low |-> low, high |-> high]
in_range(low, high)      == [kind |-> "in_range", step |-> 100, low |-> low, high |-> high]
unvalidated              == [kind |-> "none", step |-> 1, low |-> 0, high |-> 0]

float10(validator, none) ==
  [codec |-> "float10", unit |-> 10, absent |-> NO_SENSOR \cup none,
   validator |-> validator, retains |-> "effective"]
integer(validator) ==
  [codec |-> "number", unit |-> 100, absent |-> {},
   validator |-> validator, retains |-> "effective"]
scaled(unit, nan, validator) ==
  [codec |-> "number", unit |-> unit, absent |-> {nan},
   validator |-> validator, retains |-> "request"]
time_steps ==
  [codec |-> "time_steps", unit |-> 10, absent |-> {w \in Registers : w % 256 = 255},
   validator |-> unvalidated, retains |-> "request"]

GTW26ClimateZone ==
  { float10(snap_clamp(50, 500, 3000), {}), float10(snap_clamp(10, 0, 400), {}),
    float10(snap_clamp(50, 1000, 3000), {}), float10(snap_clamp(50, 5000, 9500), {}),
    float10(snap_clamp(50, 300, 2000), {}) }
GTW26HotWater ==
  { float10(snap_clamp(100, 1000, 8000), {}), integer(int_clamp(0, 1500)),
    integer(int_range(0, 1500)) }
GTW26Settings ==
  { float10(float10_range(0, 1000), {}), float10(snap_clamp(50, 1500, 3050), {}),
    float10(float10_range(3000, 5000), {}), float10(float10_range(5000, 9500), {}) }
GTW26Config ==
  { integer(int_clamp(0, 1000)), float10(snap_clamp(100, 400, 1600), {}),
    float10(snap_clamp(10, 0, 1000), {101}), float10(snap_clamp(50, 1000, 5000), {}),
    float10(snap_clamp(50, 2000, 12000), {}) }
GTW08ClimateZone ==
  { scaled(10, 65535, in_range(500, 3000)), scaled(10, 65535, unvalidated),
    scaled(1, 65535, unvalidated), scaled(10, 255, unvalidated) }
GTW08Appliance  == { scaled(1, 65535, unvalidated) }
GTW08SilentMode == { time_steps }

ComponentFields ==
  GTW26ClimateZone \cup GTW26HotWater \cup GTW26Settings \cup GTW26Config
  \cup GTW08ClimateZone \cup GTW08Appliance \cup GTW08SilentMode
-----------------------------------------------------------------------------
(* What the fields must be for a write to read back: limits that are steps,*)
(* steps that the register can hold, no legal value on an absent word, and *)
(* no rounding behind the back of a component that retains the request;    *)
(* where the code sets no limits, the caller keeps off the absent words.   *)

Bounded(f) == f.validator.kind # "none"

BoundsAreSound(f) ==
  LET d == f.validator
  IN  /\ f.codec # "time_steps"
      /\ f.retains = "effective" \/ d.kind = "in_range"
      /\ d.low <= d.high /\ d.high <= MAGNITUDE * f.unit
      /\ d.low % f.unit = 0 /\ d.high % f.unit = 0
      /\ \A w \in f.absent : w * f.unit < d.low \/ w * f.unit > d.high
      /\ d.kind # "float10_range" =>
           d.step % f.unit = 0 /\ d.low % d.step = 0 /\ d.high % d.step = 0

RequestIsSound(f, v) ==
  /\ f.codec = "time_steps" => v \in 0..(MinutesPerDay - 1) /\ v \div f.unit \notin f.absent
  /\ f.codec = "number" => \A w \in f.absent : 2 * Magnitude(w * f.unit - v) > f.unit

ASSUME FieldsAssumption ==
  /\ Fields \subseteq FieldType
  /\ FirstWords \subseteq Registers /\ Absent \notin Int
  /\ \A f \in Fields :
       /\ Requests[f] \subseteq Int
       /\ IF Bounded(f) THEN BoundsAreSound(f)
          ELSE f.codec # "float10" /\ \A v \in Requests[f] : RequestIsSound(f, v)
-----------------------------------------------------------------------------
(***************************************************************************)
(* A value that was written reads back: present, within the field's        *)
(* limits, as near to what the component shows meanwhile as the register   *)
(* can hold it, and within half a step of a request that was legal.  Only  *)
(* what lies outside the limits, or between the steps of a validator that  *)
(* does not round, is refused.                                             *)
(***************************************************************************)
ReadsBack(read) ==
  /\ read # Absent
  /\ IF field.codec = "time_steps"
       THEN 0 <= shown - read /\ shown - read < field.unit
       ELSE 2 * Magnitude(shown - read) <= field.unit
  /\ Bounded(field) => Inside(field.validator, read)
  /\ field.validator.kind = "snap_clamp" /\ Inside(field.validator, request) =>
       2 * Magnitude(read - request) <= field.validator.step

Refusable ==
  LET d == field.validator
  IN  CASE d.kind = "snap_clamp" -> FALSE
        [] d.kind = "none"       -> request \notin 0..(LAST_WORD * field.unit)
        [] d.kind = "in_range"   -> ~Inside(d, request) \/ request % d.step # 0
        [] OTHER                 -> ~Inside(d, request)

WrittenReadsBack ==
  /\ answer = "written" => ReadsBack(Decoded(field, raw))
  /\ answer = "refused" => Refusable
=============================================================================
