---------------------------- MODULE BoundedRetry ----------------------------
(***************************************************************************)
(* What a repair loop promises: it attempts a repair at most MaxAttempts   *)
(* times, stops at the first success, and always says how it ended.        *)
(***************************************************************************)
EXTENDS Naturals

CONSTANT MaxAttempts

VARIABLES
  attempts,    \* attempts made so far
  verdict      \* "working", or how the loop ended

vars == <<attempts, verdict>>

TypeOK ==
  /\ attempts \in 0 .. MaxAttempts
  /\ verdict \in {"working", "repaired", "gaveUp"}

Init == attempts = 0 /\ verdict = "working"

(* One more attempt: it repairs, it is the last one, or there will be more. *)
Attempt ==
  /\ verdict = "working"
  /\ attempts < MaxAttempts
  /\ attempts' = attempts + 1
  /\ \/ verdict' \in {"repaired", "gaveUp"}
     \/ verdict' = "working" /\ attempts' < MaxAttempts

Next == Attempt

Spec == Init /\ [][Next]_vars
=============================================================================
