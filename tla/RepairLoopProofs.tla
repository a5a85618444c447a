-------------------------- MODULE RepairLoopProofs --------------------------
(***************************************************************************)
(* Theorems about RepairLoop for every number of rounds, every set of      *)
(* failure signatures and every interference by other writers.             *)
(***************************************************************************)
EXTENDS RepairLoop, TLAPS

(* What Append does, element by element. *)
LEMMA AppendProperties ==
  ASSUME NEW S, NEW s \in Seq(S), NEW e \in S
  PROVE  /\ Append(s, e) \in Seq(S)
         /\ Len(Append(s, e)) = Len(s) + 1
         /\ Append(s, e)[Len(s) + 1] = e
         /\ \A i \in 1 .. Len(s) : Append(s, e)[i] = s[i]
OBVIOUS

(* The repair of a round has six commands. *)
LEMMA CommandCount == Len(Commands) = 6
BY DEF Commands

(* The record Decide appends, whatever the capture after the round saw. *)
LEMMA RecordType ==
  \A after, n :
    [status  |-> IF current = "ok" THEN "completed" ELSE "failed",
     changed |-> Changed(after),
     reason  |-> Termination(Changed(after), n)] \in Round
<1>1. \A c, n : Termination(c, n) \in Reason
  BY DEF Termination, Reason
<1>2. \A a : Changed(a) \in BOOLEAN
  BY DEF Changed
<1>3. QED BY <1>1, <1>2 DEF Round

(***************************************************************************)
(* Type correctness of the repair loop.                                    *)
(***************************************************************************)
THEOREM RepairTypeCorrect == Spec => []TypeOK
<1>1. Init => TypeOK
  BY CommandCount DEF Init, TypeOK, Report, Capture
<1>2. TypeOK /\ [Next]_vars => TypeOK'
  <2> SUFFICES ASSUME TypeOK, [Next]_vars PROVE TypeOK'
    OBVIOUS
  <2> USE DEF TypeOK
  <2>1. CASE CaptureBefore
    BY <2>1, CommandCount DEF CaptureBefore, Capture
  <2>2. CASE SkipCommand
    BY <2>2, CommandCount DEF SkipCommand
  <2>3. CASE RunCommand
    BY <2>3, CommandCount DEF RunCommand
  <2>4. CASE CommandsDone
    BY <2>4 DEF CommandsDone
  <2>5. CASE Preflight
    BY <2>5, AppendProperties DEF Preflight
  <2>6. CASE Decide
    <3>1. PICK r \in Round : rounds' = Append(rounds, r)
      BY <2>6, RecordType DEF Decide
    <3>2. previous' \in Signature
      BY <2>6 DEF Decide, Report
    <3>3. QED BY <2>6, <3>1, <3>2, AppendProperties DEF Decide
  <2>7. CASE Edit
    BY <2>7 DEF Edit
  <2>8. CASE UNCHANGED vars
    BY <2>8 DEF vars
  <2>9. QED BY <2>1, <2>2, <2>3, <2>4, <2>5, <2>6, <2>7, <2>8 DEF Next, Loop
<1>3. QED BY <1>1, <1>2, PTL DEF Spec

(***************************************************************************)
(* The strengthening: the history of reports is one longer than the list   *)
(* of rounds, two while a round waits for its decision; previousFailure is *)
(* the report the round started from; and only a loop that is over may     *)
(* have used up its rounds.                                                *)
(***************************************************************************)
HistoryShape ==
  /\ Len(signatures) = IF pc = "decide" THEN Len(rounds) + 2 ELSE Len(rounds) + 1
  /\ current = signatures[Len(signatures)]
  /\ pc # "done" => previous = signatures[Len(rounds) + 1]

RoundsBounded ==
  /\ pc # "done" => Len(rounds) < MaxRounds
  /\ pc = "done" => Len(rounds) \in 1 .. MaxRounds

IInv == TypeOK /\ HistoryShape /\ RoundsBounded /\ ContinuesOnlyOnProgress /\ EndsWithReason

(* The invariant at the start. *)
LEMMA InitInvariant == Init => IInv
<1> SUFFICES ASSUME Init PROVE IInv
  OBVIOUS
<1>1. TypeOK
  BY CommandCount DEF Init, TypeOK, Report, Capture
<1>2. Len(rounds) = 0 /\ Len(signatures) = 1 /\ signatures[1] = current
  BY DEF Init
<1>3. QED
  BY <1>1, <1>2, MaxRoundsAssumption
  DEF Init, IInv, HistoryShape, RoundsBounded, ContinuesOnlyOnProgress, EndsWithReason

(* The steps between two decisions. *)
LEMMA QuietStepPreserves ==
  ASSUME IInv, TypeOK',
         CaptureBefore \/ SkipCommand \/ RunCommand \/ CommandsDone \/ Edit \/ UNCHANGED vars
  PROVE  IInv'
<1>1. UNCHANGED <<rounds, signatures, current, previous>>
  BY DEF CaptureBefore, SkipCommand, RunCommand, CommandsDone, Edit, vars
<1>2. \/ pc' = pc
      \/ {pc, pc'} \subseteq {"capture", "commands", "preflight"}
  BY DEF CaptureBefore, SkipCommand, RunCommand, CommandsDone, Edit, vars
<1>3. QED
  BY <1>1, <1>2
  DEF IInv, HistoryShape, RoundsBounded, ContinuesOnlyOnProgress, EndsWithReason

(* A preflight appends a signature. *)
LEMMA PreflightPreserves ==
  ASSUME IInv, TypeOK', Preflight
  PROVE  IInv'
<1> USE DEF IInv
<1>1. /\ Len(signatures') = Len(signatures) + 1
      /\ signatures'[Len(signatures) + 1] = current'
      /\ \A i \in 1 .. Len(signatures) : signatures'[i] = signatures[i]
  BY AppendProperties DEF Preflight, TypeOK
<1>2. /\ pc = "preflight" /\ pc' = "decide"
      /\ UNCHANGED <<rounds, previous>>
  BY DEF Preflight
<1>3. HistoryShape' /\ RoundsBounded' /\ EndsWithReason'
  BY <1>1, <1>2 DEF HistoryShape, RoundsBounded, EndsWithReason, TypeOK
<1>4. ContinuesOnlyOnProgress'
  <2> SUFFICES ASSUME NEW i \in 1 .. Len(rounds)
               PROVE  /\ rounds[i].status = "failed"
                      /\ rounds[i].reason = ""
                      /\ rounds[i].changed
                      /\ signatures'[i + 1] # signatures'[i]
    BY <1>2 DEF ContinuesOnlyOnProgress
  <2>1. {i, i + 1} \subseteq 1 .. Len(signatures)
    BY <1>2 DEF HistoryShape, TypeOK
  <2>2. QED BY <1>1, <1>2, <2>1 DEF ContinuesOnlyOnProgress
<1>5. QED BY <1>3, <1>4

(* A decision appends a round with its reason. *)
LEMMA DecidePreserves ==
  ASSUME IInv, TypeOK', Decide
  PROVE  IInv'
<1> USE DEF IInv
<1> DEFINE n == Len(rounds) + 1
<1>1. PICK after \in {tree, NoManifest} :
        /\ rounds' = Append(rounds, [status  |-> IF current = "ok" THEN "completed" ELSE "failed",
                                     changed |-> Changed(after),
                                     reason  |-> Termination(Changed(after), n)])
        /\ pc' = IF current = "ok" \/ Termination(Changed(after), n) # "" \/ n = MaxRounds
                   THEN "done" ELSE "capture"
  BY DEF Decide
<1>2. /\ pc = "decide"
      /\ UNCHANGED <<signatures, current>>
      /\ previous' = IF current = "ok" THEN previous ELSE current
  BY DEF Decide
<1>3. /\ Len(rounds') = n
      /\ \A i \in 1 .. Len(rounds) : rounds'[i] = rounds[i]
      /\ rounds'[n].status = IF current = "ok" THEN "completed" ELSE "failed"
      /\ rounds'[n].changed = Changed(after)
      /\ rounds'[n].reason = Termination(Changed(after), n)
  <2> DEFINE r == [status  |-> IF current = "ok" THEN "completed" ELSE "failed",
                   changed |-> Changed(after),
                   reason  |-> Termination(Changed(after), n)]
  <2>2. r \in Round
    BY RecordType
  <2>3. rounds \in Seq(Round) /\ rounds' = Append(rounds, r)
    BY <1>1 DEF TypeOK
  <2>4. /\ r.status = IF current = "ok" THEN "completed" ELSE "failed"
        /\ r.changed = Changed(after)
        /\ r.reason = Termination(Changed(after), n)
    OBVIOUS
  <2> HIDE DEF r
  <2>5. QED BY <2>2, <2>3, <2>4, AppendProperties
<1>4. /\ Len(signatures) = n + 1
      /\ current = signatures[n + 1]
      /\ previous = signatures[n]
      /\ n \in 1 .. MaxRounds
  BY <1>2, MaxRoundsAssumption DEF HistoryShape, RoundsBounded, TypeOK
<1>5. pc' = "capture" =>
        /\ n < MaxRounds
        /\ current # "ok" /\ Changed(after) /\ current # previous
        /\ Termination(Changed(after), n) = ""
  <2> SUFFICES ASSUME pc' = "capture"
               PROVE  /\ n < MaxRounds
                      /\ current # "ok" /\ Changed(after) /\ current # previous
                      /\ Termination(Changed(after), n) = ""
    OBVIOUS
  <2>1. current # "ok" /\ Termination(Changed(after), n) = "" /\ n # MaxRounds
    BY <1>1
  <2>2. n < MaxRounds
    <3>1. n \in 1 .. MaxRounds /\ n # MaxRounds
      BY <2>1, <1>4
    <3> HIDE DEF n
    <3>2. QED BY <3>1, MaxRoundsAssumption
  <2>3. Changed(after) /\ current # previous
    BY <2>1 DEF Termination
  <2>4. QED BY <2>1, <2>2, <2>3
<1>6. pc' \in {"done", "capture"}
  BY <1>1
<1>7. HistoryShape' /\ RoundsBounded'
  BY <1>2, <1>3, <1>4, <1>5, <1>6 DEF HistoryShape, RoundsBounded
<1>8. ContinuesOnlyOnProgress'
  <2> SUFFICES ASSUME NEW i \in 1 .. n, i < n \/ pc' # "done"
               PROVE  /\ rounds'[i].status = "failed"
                      /\ rounds'[i].reason = ""
                      /\ rounds'[i].changed
                      /\ signatures[i + 1] # signatures[i]
    BY <1>2, <1>3 DEF ContinuesOnlyOnProgress
  <2>1. CASE i < n
    <3>1. i \in 1 .. Len(rounds) /\ pc # "done"
      BY <2>1, <1>2 DEF TypeOK
    <3>2. QED BY <3>1, <1>3 DEF ContinuesOnlyOnProgress
  <2>2. CASE i = n
    <3>1. current # "ok" /\ Changed(after) /\ current # previous
          /\ Termination(Changed(after), n) = ""
      <4>1. pc' = "capture"
        <5>1. i = n /\ n \in 1 .. MaxRounds
          BY <2>2, <1>4
        <5> HIDE DEF n
        <5>2. QED BY <5>1, <1>6, MaxRoundsAssumption
      <4>2. QED BY <4>1, <1>5
    <3>2. rounds'[n].status = "failed" /\ rounds'[n].reason = "" /\ rounds'[n].changed
      BY <3>1, <1>3
    <3>3. signatures[n + 1] # signatures[n]
      BY <3>1, <1>4
    <3>4. QED BY <2>2, <3>2, <3>3
  <2>3. i < n \/ i = n
    BY <1>4
  <2>4. QED BY <2>1, <2>2, <2>3
<1>9. EndsWithReason'
  <2>1. Termination(Changed(after), n) = "max rounds" => n = MaxRounds
    BY DEF Termination
  <2>2. pc' = "done" => (Termination(Changed(after), n) = "" <=> current = "ok")
    BY <1>1 DEF Termination
  <2>3. QED BY <1>2, <1>3, <1>4, <2>1, <2>2 DEF EndsWithReason
<1>10. QED BY <1>7, <1>8, <1>9

(* Every step preserves the invariant. *)
LEMMA StepPreserves ==
  ASSUME IInv, TypeOK', [Next]_vars
  PROVE  IInv'
BY QuietStepPreserves, PreflightPreserves, DecidePreserves DEF Next, Loop

(* The invariant holds in every behaviour. *)
LEMMA Invariance == Spec => []IInv
BY InitInvariant, StepPreserves, RepairTypeCorrect, PTL DEF Spec

(***************************************************************************)
(* Another round is started only after progress.                           *)
(***************************************************************************)
THEOREM RepairProgresses == Spec => []ContinuesOnlyOnProgress
<1>1. IInv => ContinuesOnlyOnProgress
  BY DEF IInv
<1>2. QED BY Invariance, <1>1, PTL

(***************************************************************************)
(* A loop that is over returns the report of its last round, and gives a   *)
(* reason exactly when that report still has a failure.                    *)
(***************************************************************************)
THEOREM RepairEndsWithReason == Spec => []EndsWithReason
<1>1. IInv => EndsWithReason
  BY DEF IInv
<1>2. QED BY Invariance, <1>1, PTL

(***************************************************************************)
(* The repair loop implements bounded retry: at most MaxRounds attempts,   *)
(* none after a success, and no change of the verdict.                     *)
(***************************************************************************)
THEOREM RepairImplementsRetry == Spec => ImplementsRetry
<1> DEFINE done == pc = "done"
<1>1. Init => Abstract!Init
  BY DEF Init, Abstract!Init
<1>2. IInv /\ TypeOK' /\ RoundsBounded' /\ [Next]_vars => [Abstract!Next]_(Abstract!vars)
  <2> SUFFICES ASSUME IInv, TypeOK', RoundsBounded', [Next]_vars
               PROVE  [Abstract!Next]_(Abstract!vars)
    OBVIOUS
  <2> USE DEF Abstract!Next, Abstract!Attempt, Abstract!vars
  <2>1. CASE Decide
    <3>1. pc = "decide" /\ current' = current /\ Len(rounds') = Len(rounds) + 1
          /\ pc' \in {"done", "capture"}
      <4>1. PICK r \in Round : rounds' = Append(rounds, r)
        BY <2>1, RecordType DEF Decide
      <4>2. QED BY <2>1, <4>1, AppendProperties DEF Decide, IInv, TypeOK
    <3>2. Len(rounds) < MaxRounds /\ (pc' = "capture" => Len(rounds') < MaxRounds)
      BY <3>1 DEF IInv, RoundsBounded
    <3>3. QED BY <3>1, <3>2
  <2>2. CASE ~Decide
    <3>1. pc # "done" \/ UNCHANGED vars
      BY <2>2 DEF Next, Loop, CaptureBefore, SkipCommand, RunCommand, CommandsDone,
                  Preflight, Edit
    <3>2. rounds' = rounds /\ (pc # "done" => pc' # "done")
      BY <2>2 DEF Next, Loop, CaptureBefore, SkipCommand, RunCommand, CommandsDone,
                  Preflight, Edit, vars
    <3>3. QED BY <3>1, <3>2 DEF vars
  <2>3. QED BY <2>1, <2>2
<1>3. IInv => RoundsBounded
  BY DEF IInv
<1>4. QED
  BY <1>1, <1>2, <1>3, Invariance, RepairTypeCorrect, PTL
  DEF Spec, ImplementsRetry, Abstract!Spec
=============================================================================
