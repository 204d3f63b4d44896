---------------------------- MODULE MCGTW08Zone ----------------------------
(* The zone with its tasks interchangeable.                                *)
EXTENDS GTW08Zone, TLC

Symmetry == Permutations(Tasks)
=============================================================================
