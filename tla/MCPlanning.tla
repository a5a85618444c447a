----------------------------- MODULE MCPlanning -----------------------------
(* Small instances of Planning for TLC. *)
EXTENDS Planning

(* One that is preferred for hard goals, one that is for easy ones. *)
TwoOnline == {"openai", "groq"}
=============================================================================
