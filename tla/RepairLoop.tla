----------------------------- MODULE RepairLoop -----------------------------
(***************************************************************************)
(* The automatic repair rounds of companion/auto_loop.go: a round captures *)
(* the workspace, runs the repair commands until one fails, repeats the    *)
(* preflight, captures again and decides whether another round is worth    *)
(* it.  Other writers (an editor, another request) change the workspace    *)
(* meanwhile.                                                              *)
(*                                                                         *)
(* A preflight report is abstracted to its failureSignature, the names and *)
(* summaries of the failed checks; "ok" is the one without any.  The       *)
(* workspace is abstracted to a version, and its capture to the version it *)
(* saw, or to NoManifest: the loop drops the error of Capture and goes on  *)
(* with a nil manifest.                                                    *)
(***************************************************************************)
EXTENDS Naturals, Sequences

CONSTANTS
  MaxRounds,   \* Runtime.AutoRepairRounds
  Signature,   \* failure signatures of a preflight report
  Version,     \* contents of the workspace
  NoManifest,  \* the nil manifest of a failed Capture
  MaxEdits     \* bound on the writes of others

ASSUME MaxRoundsAssumption == MaxRounds \in Nat \ {0}

ASSUME SignatureAssumption == "ok" \notin Signature

ASSUME NoManifestAssumption == NoManifest \notin Version

VARIABLES
  pc,          \* next statement of the loop
  tree,        \* the workspace
  base,        \* before: the capture at the start of the round
  step,        \* the next repair command of this round
  current,     \* the latest preflight report
  previous,    \* previousFailure
  rounds,      \* the RepairRound records
  signatures,  \* history: the report after each round, after the initial one
  edits        \* number of writes by others

vars == <<pc, tree, base, step, current, previous, rounds, signatures, edits>>

Report == Signature \cup {"ok"}

Capture == Version \cup {NoManifest}

Commands == <<"gofmt", "goimports", "tidy", "lint", "test", "vet">>

Rewriting == {"gofmt", "goimports", "tidy"}

Optional == {"gofmt", "goimports", "lint"}

Reason == {"", "no changes", "same signature", "max rounds"}

Round == [status : {"completed", "failed"}, changed : BOOLEAN, reason : Reason]

TypeOK ==
  /\ pc \in {"capture", "commands", "preflight", "decide", "done"}
  /\ tree \in Version
  /\ base \in Capture
  /\ step \in 1 .. Len(Commands) + 1
  /\ current \in Report
  /\ previous \in Signature
  /\ rounds \in Seq(Round)
  /\ signatures \in Seq(Report)
  /\ edits \in Nat

(* The loop is entered with a failed preflight report only. *)
Init ==
  /\ pc = "capture"
  /\ tree \in Version
  /\ base = NoManifest
  /\ step = 1
  /\ current \in Signature
  /\ previous = current
  /\ rounds = <<>>
  /\ signatures = <<current>>
  /\ edits = 0

CaptureBefore ==
  /\ pc = "capture"
  /\ base' \in {tree, NoManifest}
  /\ step' = 1
  /\ pc' \in {"commands", "preflight"}   \* collectGoFiles may fail
  /\ UNCHANGED <<tree, current, previous, rounds, signatures, edits>>

(* A tool that is not installed, or has no Go file to work on, is skipped. *)
SkipCommand ==
  /\ pc = "commands"
  /\ step <= Len(Commands)
  /\ Commands[step] \in Optional
  /\ step' = step + 1
  /\ UNCHANGED <<pc, tree, base, current, previous, rounds, signatures, edits>>

(* A mistake the properties must notice: a command that fails is repeated. *)
RunCommandRepeats ==
  /\ pc = "commands"
  /\ step <= Len(Commands)
  /\ tree' \in IF Commands[step] \in Rewriting THEN Version ELSE {tree}
  /\ step' \in {step, step + 1}
  /\ UNCHANGED <<pc, base, current, previous, rounds, signatures, edits>>

(* The first command that fails ends the list. *)
RunCommand ==
  /\ pc = "commands"
  /\ step <= Len(Commands)
  /\ tree' \in IF Commands[step] \in Rewriting THEN Version ELSE {tree}
  /\ step' \in {step + 1, Len(Commands) + 1}
  /\ UNCHANGED <<pc, base, current, previous, rounds, signatures, edits>>

CommandsDone ==
  /\ pc = "commands"
  /\ step = Len(Commands) + 1
  /\ pc' = "preflight"
  /\ UNCHANGED <<tree, base, step, current, previous, rounds, signatures, edits>>

Preflight ==
  /\ pc = "preflight"
  /\ current' \in Report
  /\ signatures' = Append(signatures, current')
  /\ pc' = "decide"
  /\ UNCHANGED <<tree, base, step, previous, rounds, edits>>

(* Compare of a nil manifest is the empty Diff. *)
Changed(after) == base # NoManifest /\ after # NoManifest /\ base # after

(* Mistakes: a case of the switch that is left out. *)
TerminationIgnoresSignature(changed, number) ==
  IF current = "ok" THEN ""
  ELSE IF ~changed THEN "no changes"
  ELSE IF number = MaxRounds THEN "max rounds"
  ELSE ""

TerminationIgnoresLimit(changed, number) ==
  IF current = "ok" THEN ""
  ELSE IF ~changed THEN "no changes"
  ELSE IF current = previous THEN "same signature"
  ELSE ""

(* The switch of the loop: the first case that holds gives the reason. *)
Termination(changed, number) ==
  IF current = "ok" THEN ""
  ELSE IF ~changed THEN "no changes"
  ELSE IF current = previous THEN "same signature"
  ELSE IF number = MaxRounds THEN "max rounds"
  ELSE ""

(* A mistake: the rounds are counted from zero but compared as if from one. *)
DecideOffByOne ==
  /\ pc = "decide"
  /\ \E after \in {tree, NoManifest} :
       LET changed == Changed(after)
           reason  == Termination(changed, Len(rounds))
       IN  /\ rounds' = Append(rounds, [status  |-> IF current = "ok" THEN "completed" ELSE "failed",
                                        changed |-> changed,
                                        reason  |-> reason])
           /\ pc' = IF current = "ok" \/ reason # "" \/ Len(rounds) = MaxRounds
                      THEN "done" ELSE "capture"
  /\ previous' = IF current = "ok" THEN previous ELSE current
  /\ UNCHANGED <<tree, base, step, current, signatures, edits>>

(* The capture after the round, its record, and the decision to go on. *)
Decide ==
  /\ pc = "decide"
  /\ \E after \in {tree, NoManifest} :
       LET changed == Changed(after)
           reason  == Termination(changed, Len(rounds) + 1)
       IN  /\ rounds' = Append(rounds, [status  |-> IF current = "ok" THEN "completed" ELSE "failed",
                                        changed |-> changed,
                                        reason  |-> reason])
           /\ pc' = IF current = "ok" \/ reason # "" \/ Len(rounds) + 1 = MaxRounds
                      THEN "done" ELSE "capture"
  /\ previous' = IF current = "ok" THEN previous ELSE current
  /\ UNCHANGED <<tree, base, step, current, signatures, edits>>

(* Somebody else writes the workspace. *)
Edit ==
  /\ pc # "done"
  /\ edits < MaxEdits
  /\ edits' = edits + 1
  /\ tree' \in Version \ {tree}
  /\ UNCHANGED <<pc, base, step, current, previous, rounds, signatures>>

Loop == CaptureBefore \/ SkipCommand \/ RunCommand \/ CommandsDone \/ Preflight \/ Decide

Next == Loop \/ Edit

Spec == Init /\ [][Next]_vars

(* The loop runs in the goroutine of its request and every command ends. *)
FairSpec == Spec /\ WF_vars(Loop)
-----------------------------------------------------------------------------
(***************************************************************************)
(* Another round is started only after progress: the round before it       *)
(* failed, changed the workspace, and failed differently from the round    *)
(* before that (auto_loop.go:71-103; docs/RESUME_ALIGNMENT.md:54).         *)
(***************************************************************************)
ContinuesOnlyOnProgress ==
  \A i \in 1 .. Len(rounds) : i < Len(rounds) \/ pc # "done" =>
    /\ rounds[i].status = "failed"
    /\ rounds[i].reason = ""
    /\ rounds[i].changed
    /\ signatures[i + 1] # signatures[i]

(***************************************************************************)
(* When the loop is over, the report it returns is the one of its last     *)
(* round, and a failure always comes with the reason why no further round  *)
(* was tried: "max rounds" only after all of them.                         *)
(***************************************************************************)
EndsWithReason ==
  pc = "done" =>
    LET last == rounds[Len(rounds)]
    IN  /\ current = signatures[Len(rounds) + 1]
        /\ (last.status = "completed") <=> (current = "ok")
        /\ (last.reason = "") <=> (current = "ok")
        /\ last.reason = "max rounds" => Len(rounds) = MaxRounds

(***************************************************************************)
(* The abstract specification: at most MaxRounds attempts, and a verdict.  *)
(***************************************************************************)
Abstract == INSTANCE BoundedRetry WITH
  MaxAttempts <- MaxRounds,
  attempts    <- Len(rounds),
  verdict     <- IF pc # "done" THEN "working"
                 ELSE IF current = "ok" THEN "repaired" ELSE "gaveUp"

ImplementsRetry == Abstract!Spec

(* Under fairness of the loop alone, it ends. *)
LoopEnds == <>(pc = "done")
=============================================================================
