----------------------------- MODULE GTW26Probe -----------------------------
(***************************************************************************)
(* One run of async_detect, async_detect_base or async_probe: the identity *)
(* blocks are read one at a time from a controller that may be busy, time  *)
(* out or be unreachable at any read, and the answers collected so far are *)
(* frozen into a verdict when the last block has been read.                *)
(***************************************************************************)
EXTENDS GTW26Identity, FiniteSets

VARIABLES
  device,    \* the controller behind the unit: the layouts it answers, its code
  entry,     \* which entry point was called
  outcome,   \* the ProbeBlock outcomes recorded so far
  status,    \* "probing", then "raised" or "returned"
  verdict    \* the detection that was returned

vars == <<device, entry, outcome, status, verdict>>

Entries == {"async_detect", "async_detect_base", "async_probe"}
baseOnly == entry = "async_detect_base"
NoVerdict == [success |-> FALSE, layout |-> None, generation |-> None, reason |-> None]

(***************************************************************************)
(* What can be on the other end.  `layouts` are the identity register sets *)
(* it implements: an iSystem controller may or may not also answer the     *)
(* base identity blocks (tests/gtw26/test_system_discovery_table.py seeds  *)
(* both), or only the one of the type code, which its own register windows *)
(* cover; a device that is no GTW-26 implements neither.                   *)
(***************************************************************************)
Devices == [layouts : SUBSET Layouts, code : TypeCodes, showsType : BOOLEAN]

Implements(b) ==
  \/ b \in BaseBlocks    /\ "base" \in device.layouts
  \/ b \in ISystemBlocks /\ "isystem" \in device.layouts
  \/ b = TypeBlock       /\ "isystem" \in device.layouts /\ device.showsType

NumRead == Cardinality({b \in Blocks : outcome[b] # Unread})
order   == ProbeOrder(baseOnly)

Init ==
  /\ device \in Devices
  /\ entry \in Entries
  /\ outcome = [b \in Blocks |-> Unread]
  /\ status = "probing"
  /\ verdict = NoVerdict

(***************************************************************************)
(* The answers the controller gives for block b: a block it implements is  *)
(* served or refused with a transient exception; one it does not implement *)
(* is refused for good, or also with a transient exception.                *)
(***************************************************************************)
Answers(b) == IF Implements(b) THEN {"success", "error"} ELSE {"unsupported", "error"}

\* _async_read_blocks: the next block is answered and its outcome recorded.
ReadBlock ==
  /\ status = "probing"
  /\ NumRead < Len(order)
  /\ LET b == order[NumRead + 1]
     IN  \E a \in Answers(b) : outcome' = [outcome EXCEPT ![b] = a]
  /\ UNCHANGED <<device, entry, status, verdict>>

\* ModbusConnectionError and ModbusTimeoutError abandon the probe.
LinkFails ==
  /\ status = "probing"
  /\ NumRead < Len(order)
  /\ status' = "raised"
  /\ UNCHANGED <<device, entry, outcome, verdict>>

(***************************************************************************)
(* All blocks have been read.  async_detect and async_detect_base return   *)
(* the detection whatever it says; async_probe raises GTW26ProbeError when *)
(* it is a failure.                                                        *)
(***************************************************************************)
Conclude ==
  /\ status = "probing"
  /\ NumRead = Len(order)
  /\ LET d == Detection(baseOnly, outcome, device.code)
     IN  IF entry = "async_probe" /\ ~d.success
         THEN status' = "raised" /\ UNCHANGED verdict
         ELSE status' = "returned" /\ verdict' = d
  /\ UNCHANGED <<device, entry, outcome>>

Next == ReadBlock \/ LinkFails \/ Conclude

Spec == Init /\ [][Next]_vars
-----------------------------------------------------------------------------
Returned == status = "returned"

TypeOK ==
  /\ device \in Devices
  /\ entry \in Entries
  /\ outcome \in [Blocks -> Outcomes \cup {Unread}]
  /\ status \in {"probing", "raised", "returned"}
  /\ verdict \in [success : BOOLEAN, layout : Layouts \cup {None},
                  generation : Generations \cup {None},
                  reason : {None, "NOT_A_GTW26", "UNKNOWN_MODEL"}]

(***************************************************************************)
(* However many answers were transient refusals, a layout that is reported *)
(* is one the controller implements, and a base layout comes with the      *)
(* generation its type code names, which decides later whether the panel   *)
(* is nudged.                                                              *)
(***************************************************************************)
ReportedLayoutExists ==
  Returned /\ verdict.success =>
    /\ verdict.layout \in device.layouts
    /\ verdict.layout = "base" => verdict.generation = BaseGenerations(device.code)
    /\ verdict.generation \in {None, BaseGenerations(device.code)}

(***************************************************************************)
(* When no answer was transient the verdict is the true one: a controller  *)
(* that shows the code of a model without a generation is UNKNOWN_MODEL, or*)
(* else an iSystem controller is not reported as anything else by a full   *)
(* probe, a base controller is recognised exactly when its code names a    *)
(* generation, and nothing else is.                                        *)
(***************************************************************************)
DefiniteAnswersIdentify ==
  Returned /\ (\A b \in Blocks : outcome[b] # "error") =>
    LET rejected == Implements(TypeBlock) /\ device.code = "generationless"
        layout   == IF rejected THEN None
                    ELSE IF ~baseOnly /\ "isystem" \in device.layouts THEN "isystem"
                    ELSE IF "base" \in device.layouts /\ device.code # "unlisted"
                         THEN "base"
                    ELSE None
    IN  /\ verdict.layout = layout
        /\ verdict.success = (layout # None)
        /\ rejected = (verdict.reason = "UNKNOWN_MODEL")
=============================================================================
