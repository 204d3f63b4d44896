--------------------------- MODULE MCGTW08Gateway ---------------------------
(***************************************************************************)
(* Installations for GTW08Gateway: each of the things that can be wrong,   *)
(* with as little else as shows it.                                        *)
(***************************************************************************)
EXTENDS GTW08Gateway

Installation(gtw08, boards, functions, damaged0, shown, others) ==
  [gtw08 |-> gtw08, boards |-> boards, functions |-> functions,
   damaged |-> damaged0, table |-> shown, others |-> others]

Damages == {{}, {<<1, 1>>}, {<<1, 2>>, <<2, 1>>}, {<<2, 2>>}}

MCInstallations ==
  { Installation(TRUE, <<"EHC", "MK", "GTW08">>, f, d, t, {}) :
      f \in {<<"DIRECT", "DIRECT">>, <<"DISABLED", "DIRECT">>}, d \in Damages, t \in TableStates }
  \cup
  { Installation(TRUE, b, <<"DIRECT">>, {}, "intact", {}) :
      b \in { <<"CU_HW", "EHC", "GTW08">>, <<"MK", "GTW08">>, <<"EHC", "old_gateway">>,
              <<"unset", "EHC", "GTW08">>, <<"EHC", "unlisted", "GTW08">> } }
  \cup
  { Installation(TRUE, <<"EHC", "GTW08">>, <<"DIRECT", "unlisted">>, {<<1, 1>>}, "intact", {}),
    Installation(FALSE, <<>>, <<>>, {}, "none", {}),
    Installation(TRUE, <<"EHC", "GTW08">>, <<"DIRECT">>, {}, "intact", Tasks \ {Client}) }
=============================================================================
