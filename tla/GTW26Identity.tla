---------------------------- MODULE GTW26Identity ----------------------------
(***************************************************************************)
(* How a GTW-26 probe turns the answers to its identity blocks into a      *)
(* register layout: the pure part of gtw26/system_discovery_table.py.      *)
(* Register contents are abstracted to what the decision looks at: whether *)
(* a block answered, and which class of code register 457 holds.           *)
(***************************************************************************)
EXTENDS Naturals, Sequences

\* RegisterLayout and ControllerGeneration; "none" is Python's None.
Layouts     == {"base", "isystem"}
Generations == {"gen3", "gen4"}
None        == "none"

\* The address ranges probed, in the order they are read.
BaseIdentityBlocks    == <<"3+4", "108+3", "457+1">>
ISystemIdentityBlocks == <<"600+1", "679+6">>
TypeBlock             == "457+1"

RangeOf(s)    == {s[i] : i \in DOMAIN s}
BaseBlocks    == RangeOf(BaseIdentityBlocks)
ISystemBlocks == RangeOf(ISystemIdentityBlocks)
Blocks        == BaseBlocks \cup ISystemBlocks

(***************************************************************************)
(* ProbeBlock.outcome: a block answered, was refused by an exception that  *)
(* says the address or function does not exist, or was refused by any      *)
(* other register-level exception, such as a busy server.                  *)
(***************************************************************************)
Outcomes == {"success", "unsupported", "error"}
Unread   == "unread"

(***************************************************************************)
(* The classes of type code register 457 can hold.  "generation3" (20, 22) *)
(* and "generation4" (24) name a generation, "generationless" is in        *)
(* MODEL_CODES but names none, "unlisted" is not in MODEL_CODES at all.    *)
(***************************************************************************)
TypeCodes == {"generation3", "generation4", "generationless", "unlisted"}

\* Slip: the raw type code is reported where a generation is expected.
BaseGenerations_Raw(code) == code

BaseGenerations(code) ==
  CASE code = "generation3" -> "gen3"
    [] code = "generation4" -> "gen4"
    [] OTHER                -> None

\* Slip: any code without a generation counts as a known model.
InModelCodes_Any(code) == code \in TypeCodes

InModelCodes(code) == code \in TypeCodes \ {"unlisted"}

\* The sequence of blocks one probe reads; base_only skips the iSystem blocks.
ProbeOrder(baseOnly) ==
  IF baseOnly THEN BaseIdentityBlocks
  ELSE BaseIdentityBlocks \o ISystemIdentityBlocks

\* Slip: every answer that is not a definite refusal counts as support.
AllSucceed_NotRefused(blocks, outcome) == \A b \in blocks : outcome[b] # "unsupported"

AllSucceed(blocks, outcome) == \A b \in blocks : outcome[b] = "success"

Failure(reason, gen) == [success |-> FALSE, layout |-> None, generation |-> gen,
                         reason |-> reason]
Detected(lay, gen)   == [success |-> TRUE, layout |-> lay, generation |-> gen,
                         reason |-> None]

(***************************************************************************)
(* The verdict of _async_probe.  `code` is what register 457 holds; it is  *)
(* known to the probe only when block 457 answered.                        *)
(***************************************************************************)
Detection(baseOnly, outcome, code) ==
  LET known           == outcome[TypeBlock] = "success"
      generation      == IF known THEN BaseGenerations(code) ELSE None
      isystemDetected == ~baseOnly /\ AllSucceed(ISystemBlocks, outcome)
      baseDetected    == generation # None /\ AllSucceed(BaseBlocks, outcome)
  IN  IF known /\ InModelCodes(code) /\ generation = None
        THEN Failure("UNKNOWN_MODEL", generation)
      ELSE IF isystemDetected THEN Detected("isystem", generation)
      ELSE IF baseDetected    THEN Detected("base", generation)
      ELSE Failure("NOT_A_GTW26", generation)

\* Everything one complete probe can conclude.
DetectionResults(baseOnly) ==
  {Detection(baseOnly, outcome, code) :
      outcome \in [Blocks -> Outcomes], code \in TypeCodes}
=============================================================================
