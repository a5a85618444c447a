---------------------------- MODULE MCRepairLoop ----------------------------
(* Small instances of RepairLoop for TLC. *)
EXTENDS RepairLoop

CONSTANTS s1, s2, v1, v2
=============================================================================
