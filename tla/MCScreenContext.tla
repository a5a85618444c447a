-------------------------- MODULE MCScreenContext --------------------------
(* Small instances of ScreenContext for TLC. *)
EXTENDS ScreenContext, TLC

CONSTANTS s1, s2, c1, t1

MCSymmetry == Permutations(Shot)
=============================================================================
