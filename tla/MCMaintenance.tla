--------------------------- MODULE MCMaintenance ---------------------------
(* Small instances of Maintenance for TLC. *)
EXTENDS Maintenance, TLC

CONSTANTS h1, h2

Symmetry == Permutations(Handler)
=============================================================================
