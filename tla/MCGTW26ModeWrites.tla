-------------------------- MODULE MCGTW26ModeWrites --------------------------
(***************************************************************************)
(* The base layout's policy (gtw26/const.py:244-255) for TLC: two          *)
(* registers, one for the heating mode of each zone, both for hot water;   *)
(* two values per mode field show a lost or spilled update.                *)
(***************************************************************************)
EXTENDS GTW26ModeWrites

BaseHotWater == <<17, 26>>

\* AUTO and HOLIDAY; AUTO and PERM.
MCHeatingModes  == {{3}, {0, 5}}
MCHotWaterModes == {{}, {4}}

\* Either mode of each, and modes the code does not know, with and without a
\* bit that belongs to neither.
MCFoundWords == {{3, 7}, {0, 4, 5, 7}, {1, 2, 6}}
=============================================================================
