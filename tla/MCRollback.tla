----------------------------- MODULE MCRollback -----------------------------
(* Small instances of Rollback for TLC. *)
EXTENDS Rollback

CONSTANTS p1, p2, p3, c1, c2, h1, h2
=============================================================================
