---------------------------- MODULE MCWorkbench ----------------------------
(* Small instances of Workbench for TLC. *)
EXTENDS Workbench, TLC

CONSTANTS r1, r2, a1, a2

MCSymmetry == Permutations(Run) \cup Permutations(Act)
=============================================================================
