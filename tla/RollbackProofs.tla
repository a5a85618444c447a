--------------------------- MODULE RollbackProofs ---------------------------
(***************************************************************************)
(* Theorems about the operators of Snapshot and about Rollback, for every  *)
(* set of paths, contents and handlers.                                    *)
(***************************************************************************)
EXTENDS Rollback, TLAPS

-----------------------------------------------------------------------------
(* The operators of snapshot/manifest.go. *)

(* A manifest is recorded for the candidate paths only. *)
LEMMA RecordedType == \A m : Recorded(m) \subseteq Candidate
BY DEF Recorded

(***************************************************************************)
(* Capture returns a manifest (manifest.go:41-96).                         *)
(***************************************************************************)
LEMMA CaptureType ==
  ASSUME NEW w \in Workspace, NEW hidden
  PROVE  Capture(w, hidden) \in Manifest
BY CandidateAssumption DEF Capture, Manifest, Workspace

(***************************************************************************)
(* Compare returns an empty Diff exactly for equal manifests, which is     *)
(* when the rollback action reports that there is nothing to do            *)
(* (manifest.go:122-158, service.go:1417-1432).                            *)
(***************************************************************************)
THEOREM CompareDetectsEveryChange ==
  ASSUME NEW m \in Manifest, NEW n \in Manifest
  PROVE  Changed(Compare(m, n)) = {} <=> m = n
<1>1. ASSUME m = n PROVE Changed(Compare(m, n)) = {}
  BY <1>1 DEF Changed, Compare
<1>2. ASSUME Changed(Compare(m, n)) = {} PROVE m = n
  <2>1. ASSUME NEW p \in Candidate PROVE m[p] = n[p]
    BY <1>2 DEF Changed, Compare, Recorded
  <2>2. QED BY <2>1 DEF Manifest
<1>3. QED BY <1>1, <1>2

(***************************************************************************)
(* Undisturbed and without errors, Restore brings every candidate file     *)
(* back to its content at the before capture and leaves every other file   *)
(* alone (manifest.go:161-186; TestRestore of manifest_test.go on one      *)
(* workspace).                                                             *)
(***************************************************************************)
THEOREM RestoreInvertsEveryChange ==
  ASSUME NEW old \in Workspace, NEW new \in Workspace
  PROVE  LET m == Capture(old, {})
             r == Restore(new, m, Compare(m, Capture(new, {})), {})
         IN  \A p \in Path : r[p] = IF p \in Candidate THEN old[p] ELSE new[p]
<1> DEFINE m == Capture(old, {})
           n == Capture(new, {})
           r == Restore(new, m, Compare(m, n), {})
<1> SUFFICES ASSUME NEW p \in Path
             PROVE  r[p] = IF p \in Candidate THEN old[p] ELSE new[p]
  OBVIOUS
<1>1. \A q \in Candidate : m[q] = old[q] /\ n[q] = new[q]
  BY DEF Capture
<1>2. CASE p \notin Candidate
  BY <1>2 DEF Restore, Compare, Recorded
<1>3. CASE p \in Candidate /\ old[p] # Absent
  <2>1. p \in Recorded(m)
    BY <1>1, <1>3 DEF Recorded
  <2>2. QED BY <2>1, <1>1, <1>3 DEF Restore
<1>4. CASE p \in Candidate /\ old[p] = Absent
  <2>1. p \notin Recorded(m)
    BY <1>1, <1>4 DEF Recorded
  <2>2. p \in Compare(m, n).added <=> new[p] # Absent
    BY <2>1, <1>1, <1>4 DEF Compare, Recorded
  <2>3. QED BY <2>1, <2>2, <1>4 DEF Restore
<1>5. QED BY <1>2, <1>3, <1>4

-----------------------------------------------------------------------------
(* The state machine. *)

(* A manifest without records is one. *)
LEMMA EmptyType == EmptyManifest \in Manifest
BY DEF EmptyManifest, Manifest

(***************************************************************************)
(* Type correctness of the rollback state machine.                         *)
(***************************************************************************)
THEOREM RollbackTypeCorrect == Spec => []TypeOK
<1> USE DEF TypeOK
<1>1. Init => TypeOK
  BY CandidateAssumption DEF Init, EmptyManifest, Manifest
<1>2. TypeOK /\ [Next]_vars => TypeOK'
  <2> SUFFICES ASSUME TypeOK, [Next]_vars PROVE TypeOK'
    OBVIOUS
  <2> USE CandidateAssumption, DamagedAssumption
  <2>1. ASSUME NEW p \in Candidate, RunScan(p) PROVE TypeOK'
    BY <2>1 DEF RunScan, Record, Manifest, Workspace, fileVars, histVars
  <2>2. ASSUME NEW h \in Handler, Start(h) PROVE TypeOK'
    BY <2>2, EmptyType DEF Start, Ends, Goto, runVars, fileVars
  <2>3. ASSUME NEW h \in Handler, NEW p \in Candidate, Scan(h, p) PROVE TypeOK'
    <3>1. \A readable : Record(seen[h], ws, p, readable) \in Manifest
      BY DEF Record, Manifest, Workspace
    <3>2. QED BY <2>3, <3>1 DEF Scan, runVars, fileVars, histVars
  <2>4. ASSUME NEW h \in Handler, NEW p \in Candidate, Remove(h, p) PROVE TypeOK'
    BY <2>4 DEF Remove, runVars, fileVars, histVars, Workspace
  <2>5. ASSUME NEW h \in Handler, NEW p \in Candidate,
               Truncate(h, p) \/ Rewrite(h, p) \/ RewriteStale(h, p)
        PROVE  TypeOK'
    <3>1. UNCHANGED <<pc, before, unread, original, seen, dirty, spoiled, edits>>
      BY <2>5 DEF Truncate, Rewrite, RewriteStale, runVars, histVars
    <3>2. ws' \in Workspace
      BY <2>5 DEF Truncate, Rewrite, RewriteStale, Overwritten, Workspace, Manifest
    <3>3. todo' \in [Handler -> SUBSET Candidate] /\ opened' \in [Handler -> SUBSET Candidate]
          /\ stale' \in [Handler -> SUBSET Candidate]
      BY <2>5 DEF Truncate, Rewrite, RewriteStale
    <3>4. QED BY <3>1, <3>2, <3>3
  <2>6. ASSUME NEW h \in Handler, ScanFails(h) \/ Finish(h)
        PROVE  TypeOK'
    BY <2>6, EmptyType DEF ScanFails, Finish, Ends, Goto, runVars, fileVars, histVars
  <2>12. ASSUME NEW h \in Handler, RewriteFails(h)
         PROVE  TypeOK'
    <3>1. ws' \in Workspace /\ spoiled' \in [Handler -> SUBSET Path]
      BY <2>12 DEF RewriteFails, Overwritten, Workspace, Manifest
    <3>2. QED BY <2>12, <3>1, EmptyType DEF RewriteFails, Ends, Goto, runVars
  <2>7. ASSUME NEW h \in Handler, Decide(h) PROVE TypeOK'
    <3>1. Compare(before, seen[h]).added \in SUBSET Candidate
      BY DEF Compare, Recorded
    <3>2. QED BY <2>7, <3>1, EmptyType DEF Decide, Ends, Goto, runVars, fileVars, histVars
  <2>8. ASSUME NEW h \in Handler, BeginRewrite(h) PROVE TypeOK'
    BY <2>8, RecordedType, EmptyType DEF BeginRewrite, Goto, runVars, fileVars, histVars
  <2>9. ASSUME NEW p \in Path, NEW c \in Content \cup {Absent}, Edit(p, c) PROVE TypeOK'
    BY <2>9 DEF Edit, runVars, Workspace
  <2>10. CASE UNCHANGED vars
    BY <2>10 DEF vars
  <2>11. QED BY <2>1, <2>2, <2>3, <2>4, <2>5, <2>6, <2>7, <2>8, <2>9, <2>10,
                <2>12 DEF Next, Step
<1>3. QED BY <1>1, <1>2, PTL DEF Spec

(***************************************************************************)
(* The strengthening of CompletedMeansRestored.  A path is good for h when *)
(* it is back at its recorded content, or damaged by a rollback that is    *)
(* writing it or has failed to since h started.  While h is on its way, a  *)
(* settled path (readable, removable and not written by others since h     *)
(* started) is good or still to be handled: in "scan", it is as h recorded *)
(* it, or h recorded something that Compare will tell from the record; in  *)
(* "remove", either it is in the before manifest or h will remove it; in   *)
(* "rewrite", h will write it.  The other rollbacks only ever move a path  *)
(* towards its recorded content, because their own lists of removals and   *)
(* writes are drawn from the same before manifest; the exception, a write  *)
(* into a file that others have changed since it was opened, spoils only a *)
(* path that is not good and that h has seen to differ.                    *)
(***************************************************************************)
Settled(h) == Candidate \ (Flaky \cup Stuck \cup dirty[h])

Restored(p) == ws[p] = before[p]

Culprit(h, p) == p \in spoiled[h] \/ \E g \in Handler : p \in opened[g]

Good(h, p) == Restored(p) \/ (ws[p] = Damaged /\ Culprit(h, p))

BeforeFinal ==
  /\ \A h \in Handler : pc[h] # "idle" => unread = {}
  /\ \A p \in Candidate \ (unread \cup Flaky) : before[p] = original[p]

TodoSound ==
  \A h \in Handler :
    /\ pc[h] = "remove" => \A p \in todo[h] : before[p] = Absent /\ seen[h][p] # Absent
    /\ pc[h] = "rewrite" => \A p \in todo[h] : before[p] # Absent
    /\ \A p \in opened[h] \cup stale[h] : before[p] # Absent /\ pc[h] = "rewrite"
    /\ stale[h] \subseteq dirty[h] /\ opened[h] \cup stale[h] \subseteq todo[h]
    /\ \A p, q \in opened[h] \cup stale[h] : p = q
    /\ opened[h] \cap stale[h] = {}

Progress ==
  \A h \in Handler : \A p \in Settled(h) :
    /\ pc[h] = "scan" => \/ p \in todo[h] \/ seen[h][p] = ws[p] \/ Good(h, p)
                         \/ before[p] # Absent /\ seen[h][p] # before[p]
    /\ pc[h] = "remove" => before[p] # Absent \/ p \in todo[h] \/ Good(h, p)
    /\ pc[h] = "rewrite" => p \in todo[h] \/ Good(h, p)
    /\ pc[h] = "completed" => Good(h, p)

IInv == TypeOK /\ BeforeFinal /\ TodoSound /\ Progress

(* The invariant at the start. *)
LEMMA InitInvariant == Init => IInv
<1> SUFFICES ASSUME Init PROVE BeforeFinal /\ TodoSound /\ Progress
  BY CandidateAssumption DEF IInv, Init, TypeOK, EmptyManifest, Manifest
<1> QED BY DEF Init, BeforeFinal, TodoSound, Progress

(* The run's capture: no handler has started. *)
LEMMA RunScanPreserves ==
  ASSUME IInv, TypeOK', NEW q \in Candidate, RunScan(q)
  PROVE  IInv'
<1> USE DEF IInv
<1>1. \A h \in Handler : pc[h] = "idle" /\ pc'[h] = "idle"
  BY DEF RunScan, BeforeFinal
<1>2. BeforeFinal'
  <2>1. q \notin Flaky => before' = [before EXCEPT ![q] = ws[q]]
    BY DEF RunScan, Record
  <2>2. \A p \in Candidate : p # q => before'[p] = before[p] /\ original'[p] = original[p]
    BY DEF RunScan, Record, TypeOK, Manifest
  <2>3. original'[q] = ws[q] /\ unread' = unread \ {q}
    BY DEF RunScan, TypeOK, Manifest
  <2>4. q \notin Flaky => before'[q] = ws[q]
    BY <2>1 DEF TypeOK, Manifest
  <2>5. QED BY <1>1, <2>2, <2>3, <2>4 DEF BeforeFinal
<1>3. TodoSound' /\ Progress'
  <2>1. UNCHANGED <<opened, stale, dirty>>
    BY DEF RunScan, fileVars, histVars
  <2>2. QED BY <1>1, <2>1 DEF TodoSound, Progress
<1>4. QED BY <1>2, <1>3

(* The steps of a handler that leave the workspace alone. *)
LEMMA ReadStepPreserves ==
  ASSUME IInv, TypeOK', NEW h \in Handler,
         \/ Start(h) \/ ScanFails(h) \/ Finish(h) \/ Decide(h) \/ BeginRewrite(h)
         \/ \E p \in Candidate : Scan(h, p)
  PROVE  IInv'
<1> USE DEF IInv
<1>1. UNCHANGED <<ws, before, unread, original, opened, stale>>
  BY DEF Start, ScanFails, Finish, Decide, BeginRewrite, Scan, runVars, fileVars
<1>2. \A g \in Handler : g # h =>
        /\ pc'[g] = pc[g] /\ todo'[g] = todo[g] /\ seen'[g] = seen[g]
        /\ dirty'[g] = dirty[g] /\ spoiled'[g] = spoiled[g]
  <2>1. CASE Start(h)
    BY <2>1 DEF Start, Ends, Goto, TypeOK
  <2>2. CASE ScanFails(h) \/ Finish(h)
    BY <2>2 DEF ScanFails, Finish, Ends, Goto, histVars, TypeOK
  <2>3. CASE Decide(h)
    BY <2>3 DEF Decide, Ends, Goto, histVars, TypeOK
  <2>4. CASE BeginRewrite(h)
    BY <2>4 DEF BeginRewrite, Goto, histVars, TypeOK
  <2>5. CASE \E p \in Candidate : Scan(h, p)
    BY <2>5 DEF Scan, histVars, TypeOK
  <2>6. QED BY <2>1, <2>2, <2>3, <2>4, <2>5
<1>3. unread = {} /\ pc'[h] # "idle"
  BY DEF Start, ScanFails, Finish, Decide, BeginRewrite, Scan, Ends, Goto, TypeOK, BeforeFinal
<1>4. BeforeFinal'
  BY <1>1, <1>2, <1>3 DEF BeforeFinal
<1> DEFINE Mine ==
           /\ pc'[h] = "remove" => \A p \in todo'[h] : before[p] = Absent /\ seen'[h][p] # Absent
           /\ pc'[h] = "rewrite" => \A p \in todo'[h] : before[p] # Absent
           /\ \A p \in Settled(h)' :
                /\ pc'[h] = "scan" => \/ p \in todo'[h] \/ seen'[h][p] = ws[p] \/ Good(h, p)'
                                      \/ before[p] # Absent /\ seen'[h][p] # before[p]
                /\ pc'[h] = "remove" => before[p] # Absent \/ p \in todo'[h] \/ Good(h, p)'
                /\ pc'[h] = "rewrite" => p \in todo'[h] \/ Good(h, p)'
                /\ pc'[h] = "completed" => Good(h, p)'
<1>14. opened[h] \cup stale[h] # {} => pc'[h] = "rewrite" /\ dirty' = dirty
  <2>1. opened[h] \cup stale[h] # {} => pc[h] = "rewrite"
    BY DEF TodoSound
  <2>2. CASE Finish(h)
    \* With nothing left to write, nothing is open.
    <3>1. opened[h] \cup stale[h] \subseteq todo[h]
      BY DEF TodoSound
    <3>2. QED BY <2>2, <3>1 DEF Finish
  <2>3. QED BY <2>1, <2>2 DEF Start, ScanFails, Decide, BeginRewrite, Scan, TypeOK
<1>5. SUFFICES Mine
  <2>1. \A g \in Handler : \A p : g # h => (Good(g, p)' <=> Good(g, p))
    BY <1>1, <1>2 DEF Good, Restored, Culprit
  <2>2. TodoSound'
    <3>1. ASSUME NEW g \in Handler
          PROVE  /\ \A p \in opened[g] \cup stale[g] : before[p] # Absent /\ pc'[g] = "rewrite"
                 /\ stale[g] \subseteq dirty'[g]
      BY <1>2, <1>14 DEF TodoSound
    <3>2. ASSUME NEW g \in Handler
          PROVE  opened[g] \cup stale[g] \subseteq todo'[g]
      <4>1. CASE g # h
        BY <4>1, <1>2 DEF TodoSound
      <4>2. CASE g = h
        \* An open file keeps the handler where it is.
        <5>1. opened[h] \cup stale[h] # {} => ~ (Start(h) \/ ScanFails(h) \/ Decide(h) \/ BeginRewrite(h))
                                            /\ ~ \E p \in Candidate : Scan(h, p)
          BY DEF TodoSound, Start, ScanFails, Decide, BeginRewrite, Scan
        <5>2. opened[h] \cup stale[h] # {} => ~ Finish(h)
          BY DEF TodoSound, Finish
        <5>3. QED BY <4>2, <5>1, <5>2
      <4>3. QED BY <4>1, <4>2
    <3>3. \A g \in Handler : /\ \A p, q \in opened[g] \cup stale[g] : p = q
                              /\ opened[g] \cap stale[g] = {}
      BY DEF TodoSound
    <3>4. QED BY <1>1, <1>2, <1>5, <3>1, <3>2, <3>3 DEF TodoSound
  <2>3. \A g \in Handler : g # h => Settled(g)' = Settled(g)
    BY <1>2 DEF Settled
  <2>4. Progress'
    BY <1>1, <1>2, <1>5, <2>1, <2>3 DEF Progress
  <2>5. QED BY <1>4, <2>2, <2>4
<1>15. ~ Start(h) => /\ \A p : Good(h, p)' <=> Good(h, p)
                     /\ Settled(h)' = Settled(h)
  <2> SUFFICES ASSUME ~ Start(h) PROVE UNCHANGED <<spoiled, dirty>>
    BY <1>1 DEF Good, Restored, Culprit, Settled
  <2> QED BY DEF ScanFails, Finish, Decide, BeginRewrite, Scan, histVars
<1>6. CASE Start(h)
  BY <1>6 DEF Start, Ends, Goto, TypeOK, Settled
<1>7. CASE ScanFails(h)
  BY <1>7 DEF ScanFails, Ends, Goto, TypeOK
<1>8. CASE Finish(h)
  <2>1. pc'[h] = "completed" /\ pc[h] = "rewrite" /\ todo[h] = {}
    BY <1>8 DEF Finish, Ends, Goto, TypeOK
  <2>2. Settled(h)' = Settled(h) /\ \A p : Good(h, p)' <=> Good(h, p)
    BY <1>8, <1>15 DEF Finish, Start
  <2>3. QED BY <2>1, <2>2 DEF Progress
<1>9. CASE BeginRewrite(h)
  <2>1. pc'[h] = "rewrite" /\ pc[h] = "remove" /\ todo[h] = {} /\ todo'[h] = Recorded(before)
    BY <1>9 DEF BeginRewrite, Goto, TypeOK
  <2>2. Settled(h)' = Settled(h) /\ \A p : Good(h, p)' <=> Good(h, p)
    BY <1>9, <1>15 DEF BeginRewrite, Start
  <2>3. QED BY <2>1, <2>2 DEF Progress, Recorded, Settled
<1>10. CASE Decide(h)
  <2>1. pc[h] = "scan" /\ todo[h] = {}
    BY <1>10 DEF Decide
  <2>2. \A p \in Settled(h) : \/ seen[h][p] = ws[p] \/ Good(h, p)
                              \/ before[p] # Absent /\ seen[h][p] # before[p]
    BY <2>1 DEF Progress
  <2>6. Settled(h)' = Settled(h) /\ \A p : Good(h, p)' <=> Good(h, p)
    BY <2>1, <1>15 DEF Start
  <2>3. CASE Changed(Compare(before, seen[h])) = {}
    <3>1. before = seen[h]
      BY <2>3, CompareDetectsEveryChange DEF TypeOK
    <3>2. pc'[h] = "completed"
      BY <1>10, <2>3 DEF Decide, Ends, Goto, TypeOK
    <3>3. \A p \in Settled(h) : Good(h, p)
      BY <2>2, <3>1 DEF Good, Restored
    <3>5. QED BY <3>2, <3>3, <2>6
  <2>4. CASE Changed(Compare(before, seen[h])) # {}
    <3>1. pc'[h] = "remove" /\ todo'[h] = Recorded(seen[h]) \ Recorded(before)
          /\ seen' = seen
      BY <1>10, <2>4 DEF Decide, Goto, TypeOK, Compare
    <3>2. \A p \in Settled(h) : before[p] # Absent \/ p \in todo'[h] \/ Good(h, p)
      BY <2>2, <3>1 DEF Restored, Good, Recorded, Settled
    <3>4. \A p \in todo'[h] : before[p] = Absent /\ seen'[h][p] # Absent
      BY <2>1, <3>1 DEF Recorded
    <3>5. QED BY <3>1, <3>2, <3>4, <2>6
  <2>5. QED BY <2>3, <2>4
<1>11. ASSUME NEW q \in Candidate, Scan(h, q)
       PROVE  Mine
  <2>1. pc[h] = "scan" /\ pc' = pc /\ todo'[h] = todo[h] \ {q}
    BY <1>11 DEF Scan, TypeOK
  <2>2. q \notin Flaky => seen'[h] = [seen[h] EXCEPT ![q] = ws[q]]
    BY <1>11 DEF Scan, Record, TypeOK
  <2>3. \A p \in Candidate : p # q => seen'[h][p] = seen[h][p]
    BY <1>11 DEF Scan, Record, TypeOK, Manifest
  <2>4. q \notin Flaky => seen'[h][q] = ws[q]
    BY <2>2 DEF TypeOK, Manifest
  <2>5. Settled(h)' = Settled(h) /\ \A p : Good(h, p)' <=> Good(h, p)
    BY <2>1, <1>15 DEF Start
  <2>6. QED BY <2>1, <2>3, <2>4, <2>5 DEF Settled, Progress
<1>12. QED BY <1>6, <1>7, <1>8, <1>9, <1>10, <1>11

(***************************************************************************)
(* What the steps of Restore have in common: the handler's list shrinks,   *)
(* a good path stays good for everybody, and a path changes only to become *)
(* good, or when it is known to differ from its record.                    *)
(***************************************************************************)
LEMMA TowardsRecordPreserves ==
  ASSUME IInv, TypeOK', NEW h \in Handler,
         UNCHANGED <<before, unread, original, dirty>>,
         \A g \in Handler : g # h =>
           /\ pc'[g] = pc[g] /\ todo'[g] = todo[g] /\ seen'[g] = seen[g]
           /\ opened'[g] = opened[g] /\ stale'[g] = stale[g],
         pc[h] # "idle" /\ (pc'[h] = "failed" \/ (pc' = pc /\ seen' = seen)),
         todo'[h] \subseteq todo[h],
         \A p \in todo[h] \ todo'[h] :
           pc'[h] = "failed" \/ Good(h, p)' \/ p \in dirty[h] \/ p \in Stuck,
         \A p \in opened'[h] \cup stale'[h] : p \in todo'[h] /\ pc'[h] = "rewrite",
         \A p, q \in opened'[h] \cup stale'[h] : p = q,
         opened'[h] \cap stale'[h] = {} /\ stale'[h] \subseteq stale[h],
         \A g \in Handler, p \in Candidate \ Stuck :
           /\ Good(g, p) => Good(g, p)'
           /\ ws'[p] = ws[p] \/ Good(g, p)' \/ (before[p] # Absent /\ ws[p] # before[p])
  PROVE  IInv'
<1> USE DEF IInv
<1>1. BeforeFinal'
  BY DEF BeforeFinal
<1>2. TodoSound'
  <2> SUFFICES ASSUME NEW g \in Handler
               PROVE  /\ pc'[g] = "remove" => \A p \in todo'[g] : before[p] = Absent /\ seen'[g][p] # Absent
                      /\ pc'[g] = "rewrite" => \A p \in todo'[g] : before[p] # Absent
                      /\ \A p \in opened'[g] \cup stale'[g] : before[p] # Absent /\ pc'[g] = "rewrite"
                      /\ stale'[g] \subseteq dirty[g]
                      /\ opened'[g] \cup stale'[g] \subseteq todo'[g]
                      /\ \A p, q \in opened'[g] \cup stale'[g] : p = q
                      /\ opened'[g] \cap stale'[g] = {}
    BY DEF TodoSound
  <2>1. CASE g # h
    BY <2>1 DEF TodoSound
  <2>2. CASE g = h /\ pc'[h] = "failed"
    BY <2>2 DEF TodoSound
  <2>3. CASE g = h /\ pc' = pc /\ seen' = seen
    BY <2>3 DEF TodoSound
  <2>4. QED BY <2>1, <2>2, <2>3
<1>3. Progress'
  <2> SUFFICES ASSUME NEW g \in Handler, NEW p \in Settled(g)
               PROVE  /\ pc'[g] = "scan" => \/ p \in todo'[g] \/ seen'[g][p] = ws'[p] \/ Good(g, p)'
                                            \/ before[p] # Absent /\ seen'[g][p] # before[p]
                      /\ pc'[g] = "remove" => before[p] # Absent \/ p \in todo'[g] \/ Good(g, p)'
                      /\ pc'[g] = "rewrite" => p \in todo'[g] \/ Good(g, p)'
                      /\ pc'[g] = "completed" => Good(g, p)'
    BY DEF Progress, Settled
  <2>1. p \in Candidate \ Stuck /\ p \notin dirty[g]
    BY DEF Settled
  <2>2. CASE g = h /\ pc'[h] = "failed"
    BY <2>2
  <2>3. CASE g # h \/ (g = h /\ pc' = pc /\ seen' = seen)
    <3>1. pc'[g] = pc[g] /\ seen'[g] = seen[g]
      BY <2>3
    <3>2. Good(g, p) => Good(g, p)'
      BY <2>1
    <3>3. p \in todo[g] => p \in todo'[g] \/ Good(g, p)' \/ pc'[g] = "failed"
      BY <2>1, <2>3
    <3>4. ws'[p] = ws[p] \/ Good(g, p)' \/ (before[p] # Absent /\ ws[p] # before[p])
      BY <2>1
    <3>5. /\ pc[g] = "scan" => \/ p \in todo[g] \/ seen[g][p] = ws[p] \/ Good(g, p)
                               \/ before[p] # Absent /\ seen[g][p] # before[p]
          /\ pc[g] = "remove" => before[p] # Absent \/ p \in todo[g] \/ Good(g, p)
          /\ pc[g] = "rewrite" => p \in todo[g] \/ Good(g, p)
          /\ pc[g] = "completed" => Good(g, p)
      BY DEF Progress
    <3>6. QED BY <3>1, <3>2, <3>3, <3>4, <3>5
  <2>4. QED BY <2>2, <2>3
<1>4. QED BY <1>1, <1>2, <1>3

(* A path on the list of removals is not in the before manifest. *)
LEMMA RemovePreserves ==
  ASSUME IInv, TypeOK', NEW h \in Handler, NEW q \in Candidate, Remove(h, q)
  PROVE  IInv'
<1> USE DEF IInv
<1>1. UNCHANGED <<pc, before, unread, original, seen, dirty, opened, stale, spoiled>>
  BY DEF Remove, runVars, fileVars, histVars
<1>2. \A g \in Handler : todo'[g] = IF g = h THEN todo[h] \ {q} ELSE todo[g]
  BY DEF Remove, TypeOK
<1>3. \A p \in Path : p # q => ws'[p] = ws[p]
  BY DEF Remove, TypeOK, Workspace
<1>4. q \notin Stuck => Restored(q)'
  BY <1>1, CandidateAssumption DEF Remove, TypeOK, Workspace, TodoSound, Restored
<1>5. \A g \in Handler, p \in Candidate \ Stuck :
        /\ Good(g, p) => Good(g, p)'
        /\ ws'[p] = ws[p] \/ Good(g, p)'
  BY <1>1, <1>3, <1>4, CandidateAssumption DEF Good, Restored, Culprit
<1>6. pc[h] = "remove"
  BY DEF Remove
<1>7. opened[h] \cup stale[h] = {}
  BY <1>6 DEF TodoSound
<1>8. \A p \in todo[h] \ todo'[h] : Good(h, p)' \/ p \in Stuck
  BY <1>2, <1>4 DEF Good
<1>9. QED BY <1>1, <1>2, <1>5, <1>6, <1>7, <1>8, TowardsRecordPreserves

(* The opening damages a file, and says by whom. *)
LEMMA TruncatePreserves ==
  ASSUME IInv, TypeOK', NEW h \in Handler, NEW q \in Candidate, Truncate(h, q)
  PROVE  IInv'
<1> USE DEF IInv
<1>1. UNCHANGED <<pc, before, unread, original, seen, todo, dirty, stale, spoiled>>
  BY DEF Truncate, runVars, histVars
<1>2. \A g \in Handler : opened'[g] = IF g = h THEN {q} ELSE opened[g]
  BY DEF Truncate, TypeOK
<1>3. pc[h] = "rewrite" /\ q \in todo[h] /\ opened[h] = {} /\ stale[h] = {}
  BY DEF Truncate
<1>4. ws'[q] = Damaged /\ \A p \in Path : p # q => ws'[p] = ws[p]
  BY CandidateAssumption DEF Truncate, TypeOK, Workspace
<1>5. \A g \in Handler : \A p : Culprit(g, p) => Culprit(g, p)'
  BY <1>1, <1>2, <1>3 DEF Culprit
<1>6. \A g \in Handler : Good(g, q)'
  BY <1>2, <1>4 DEF Good, Culprit
<1>7. \A g \in Handler, p \in Candidate \ Stuck :
        /\ Good(g, p) => Good(g, p)'
        /\ ws'[p] = ws[p] \/ Good(g, p)'
  BY <1>1, <1>4, <1>5, <1>6, CandidateAssumption DEF Good, Restored
<1>8. QED BY <1>1, <1>2, <1>3, <1>7, TowardsRecordPreserves

(* The write into a file nobody else wrote since it was opened. *)
LEMMA RewritePreserves ==
  ASSUME IInv, TypeOK', NEW h \in Handler, NEW q \in Candidate, Rewrite(h, q)
  PROVE  IInv'
<1> USE DEF IInv
<1>1. UNCHANGED <<pc, before, unread, original, seen, dirty, stale, spoiled>>
  BY DEF Rewrite, runVars, histVars
<1>2. \A g \in Handler : /\ opened'[g] = IF g = h THEN {} ELSE opened[g]
                         /\ todo'[g] = IF g = h THEN todo[h] \ {q} ELSE todo[g]
  BY DEF Rewrite, TypeOK
<1>3. pc[h] = "rewrite" /\ q \in opened[h]
  BY DEF Rewrite
<1>4. ws'[q] = before[q] /\ \A p \in Path : p # q => ws'[p] = ws[p]
  BY CandidateAssumption DEF Rewrite, TypeOK, Workspace
<1>5. opened[h] = {q} /\ stale[h] = {}
  BY <1>3 DEF TodoSound
<1>6. \A g \in Handler : \A p : p # q /\ Culprit(g, p) => Culprit(g, p)'
  BY <1>1, <1>2, <1>5 DEF Culprit
<1>7. \A g \in Handler : Good(g, q)'
  BY <1>1, <1>4 DEF Good, Restored
<1>8. \A g \in Handler, p \in Candidate \ Stuck :
        /\ Good(g, p) => Good(g, p)'
        /\ ws'[p] = ws[p] \/ Good(g, p)'
  BY <1>1, <1>4, <1>6, <1>7, CandidateAssumption DEF Good, Restored
<1>9. QED BY <1>1, <1>2, <1>3, <1>5, <1>7, <1>8, TowardsRecordPreserves

(***************************************************************************)
(* A write into a file that others have written since it was opened leaves *)
(* a good file good: it finds the recorded content, or the damage of a     *)
(* rollback that has opened it since.                                      *)
(***************************************************************************)
LEMMA StaleWriteIsHarmless ==
  ASSUME TypeOK, TodoSound, NEW h \in Handler, NEW q \in stale[h],
         NEW c \in Overwritten(q), ws' = [ws EXCEPT ![q] = c],
         UNCHANGED <<before, spoiled>>,
         \A g \in Handler : opened'[g] = opened[g]
  PROVE  \A g \in Handler, p \in Candidate \ Stuck :
           /\ Good(g, p) => Good(g, p)'
           /\ ws'[p] = ws[p] \/ Good(g, p)' \/ (before[p] # Absent /\ ws[p] # before[p])
<1>1. q \in Candidate /\ before[q] # Absent
  BY DEF TypeOK, TodoSound
<1>2. ws'[q] = c /\ \A p \in Path : p # q => ws'[p] = ws[p]
  BY <1>1, CandidateAssumption DEF TypeOK, Workspace
<1>3. \A g \in Handler : \A p : Culprit(g, p)' <=> Culprit(g, p)
  BY DEF Culprit
<1>4. c = ws[q] \/ (ws[q] # before[q] /\ ws[q] # Absent /\ c \in {before[q], Damaged})
  BY DEF Overwritten
<1>5. ASSUME NEW g \in Handler
      PROVE  /\ Good(g, q) => Good(g, q)'
             /\ ws'[q] = ws[q] \/ Good(g, q)' \/ (before[q] # Absent /\ ws[q] # before[q])
  BY <1>1, <1>2, <1>3, <1>4 DEF Good, Restored
<1>6. QED BY <1>2, <1>3, <1>5, CandidateAssumption DEF Good, Restored

LEMMA RewriteStalePreserves ==
  ASSUME IInv, TypeOK', NEW h \in Handler, NEW q \in Candidate, RewriteStale(h, q)
  PROVE  IInv'
<1> USE DEF IInv
<1>1. UNCHANGED <<pc, before, unread, original, seen, dirty, opened, spoiled>>
  BY DEF RewriteStale, runVars, histVars
<1>2. \A g \in Handler : /\ stale'[g] = IF g = h THEN {} ELSE stale[g]
                         /\ todo'[g] = IF g = h THEN todo[h] \ {q} ELSE todo[g]
  BY DEF RewriteStale, TypeOK
<1>3. pc[h] = "rewrite" /\ q \in stale[h] /\ q \in dirty[h]
  BY DEF RewriteStale, TodoSound
<1>4. opened[h] = {}
  BY <1>3 DEF TodoSound
<1>5. PICK c \in Overwritten(q) : ws' = [ws EXCEPT ![q] = c]
  BY DEF RewriteStale
<1>6. \A g \in Handler, p \in Candidate \ Stuck :
        /\ Good(g, p) => Good(g, p)'
        /\ ws'[p] = ws[p] \/ Good(g, p)' \/ (before[p] # Absent /\ ws[p] # before[p])
  BY <1>1, <1>3, <1>5, StaleWriteIsHarmless
<1>7. QED BY <1>1, <1>2, <1>3, <1>4, <1>6, TowardsRecordPreserves

(* A write that fails leaves a good file good for everybody. *)
LEMMA RewriteFailsPreserves ==
  ASSUME IInv, TypeOK', NEW h \in Handler, RewriteFails(h)
  PROVE  IInv'
<1> USE DEF IInv
<1>1. UNCHANGED <<before, unread, original, dirty>>
  BY DEF RewriteFails, runVars
<1>2. /\ pc[h] = "rewrite" /\ pc'[h] = "failed" /\ todo'[h] = {}
      /\ opened'[h] = {} /\ stale'[h] = {}
  BY DEF RewriteFails, Ends, Goto, TypeOK
<1>3. \A g \in Handler : g # h =>
        /\ pc'[g] = pc[g] /\ todo'[g] = todo[g] /\ seen'[g] = seen[g]
        /\ opened'[g] = opened[g] /\ stale'[g] = stale[g]
  BY DEF RewriteFails, Ends, Goto, TypeOK
<1>4. \A g \in Handler, p \in Candidate \ Stuck :
        /\ Good(g, p) => Good(g, p)'
        /\ ws'[p] = ws[p] \/ Good(g, p)' \/ (before[p] # Absent /\ ws[p] # before[p])
  <2>1. CASE /\ opened[h] \cup stale[h] = {}
             /\ UNCHANGED <<ws, spoiled>>
    <3>1. \A g \in Handler : opened'[g] = opened[g]
      BY <1>2, <1>3, <2>1
    <3>2. QED BY <1>1, <2>1, <3>1 DEF Good, Restored, Culprit
  <2>2. ASSUME NEW q \in opened[h], NEW c \in {ws[q], before[q]},
               ws' = [ws EXCEPT ![q] = c],
               spoiled' = [g \in Handler |-> spoiled[g] \cup {q}]
        PROVE  \A g \in Handler, p \in Candidate \ Stuck :
                 /\ Good(g, p) => Good(g, p)'
                 /\ ws'[p] = ws[p] \/ Good(g, p)'
    <3>1. q \in Candidate /\ opened[h] = {q}
      BY DEF TodoSound, TypeOK
    <3>2. ws'[q] = c /\ \A p \in Path : p # q => ws'[p] = ws[p]
      BY <2>2, <3>1, CandidateAssumption DEF TypeOK, Workspace
    <3>3. \A g \in Handler : \A p : Culprit(g, p) => Culprit(g, p)'
      BY <1>3, <2>2, <3>1 DEF Culprit
    <3>4. QED BY <1>1, <3>2, <3>3, CandidateAssumption DEF Good, Restored
  <2>3. ASSUME NEW q \in stale[h], NEW c \in Overwritten(q),
               ws' = [ws EXCEPT ![q] = c], UNCHANGED spoiled
        PROVE  \A g \in Handler, p \in Candidate \ Stuck :
                 /\ Good(g, p) => Good(g, p)'
                 /\ ws'[p] = ws[p] \/ Good(g, p)' \/ (before[p] # Absent /\ ws[p] # before[p])
    <3>1. opened[h] = {}
      BY DEF TodoSound
    <3>2. \A g \in Handler : opened'[g] = opened[g]
      BY <1>2, <1>3, <3>1
    <3>3. QED BY <1>1, <2>3, <3>2, StaleWriteIsHarmless
  <2>4. QED BY <2>1, <2>2, <2>3 DEF RewriteFails
<1>5. QED BY <1>1, <1>2, <1>3, <1>4, TowardsRecordPreserves

(* Another writer changes one file. *)
LEMMA EditPreserves ==
  ASSUME IInv, TypeOK', NEW q \in Path, NEW c \in Content \cup {Absent}, Edit(q, c)
  PROVE  IInv'
<1> USE DEF IInv
<1>1. UNCHANGED <<pc, before, unread, original, seen, todo, spoiled>>
  BY DEF Edit, runVars
<1>2. \A p \in Path : p # q => ws'[p] = ws[p]
  BY DEF Edit, TypeOK, Workspace
<1>3. \A h \in Handler : /\ dirty'[h] = dirty[h] \cup {q}
                         /\ opened'[h] = opened[h] \ {q}
                         /\ stale'[h] = stale[h] \cup (opened[h] \cap {q})
  BY DEF Edit
<1>4. BeforeFinal' /\ TodoSound'
  BY <1>1, <1>3 DEF BeforeFinal, TodoSound
<1>5. \A h \in Handler : Settled(h)' = Settled(h) \ {q}
  BY <1>3 DEF Settled
<1>6. \A h \in Handler, p \in Candidate : p # q => (Good(h, p) => Good(h, p)')
  BY <1>1, <1>2, <1>3, CandidateAssumption DEF Good, Restored, Culprit
<1>7. Progress'
  BY <1>1, <1>2, <1>5, <1>6, CandidateAssumption DEF Progress, Settled
<1>8. QED BY <1>4, <1>7

(* Every step preserves the invariant. *)
LEMMA StepPreserves ==
  ASSUME IInv, TypeOK', [Next]_vars
  PROVE  IInv'
<1>1. CASE UNCHANGED vars
  BY <1>1 DEF vars, IInv, BeforeFinal, TodoSound, Progress, Settled, Good, Restored, Culprit
<1>2. CASE Next
  BY <1>2, RunScanPreserves, ReadStepPreserves, RemovePreserves, TruncatePreserves,
     RewritePreserves, RewriteStalePreserves, RewriteFailsPreserves, EditPreserves
     DEF Next, Step
<1>3. QED BY <1>1, <1>2

(***************************************************************************)
(* A rollback that reports "completed" has restored every candidate file   *)
(* that could be read and removed and that nobody else wrote since it      *)
(* started, with any number of concurrent rollbacks, failed attempts,      *)
(* damaged files and writers; only another rollback that is writing the    *)
(* file, or failed to meanwhile, keeps one from it.                        *)
(***************************************************************************)
THEOREM RollbackCorrect == Spec => []CompletedMeansRestored
<1>1. IInv => CompletedMeansRestored
  BY DEF IInv, BeforeFinal, Progress, CompletedMeansRestored, Settled, Good, Restored, Culprit
<1>2. QED BY InitInvariant, StepPreserves, RollbackTypeCorrect, <1>1, PTL DEF Spec

(***************************************************************************)
(* A rollback never touches a file outside the snapshot, nor one that      *)
(* neither the before manifest nor a capture in progress has seen.         *)
(***************************************************************************)
THEOREM RollbackSparesBystanders == Spec => BystandersSurvive
<1> DEFINE A == \A p \in Path : ws'[p] # ws[p] /\ edits' = edits =>
                  /\ p \in Candidate
                  /\ \/ before[p] # Absent
                     \/ \E h \in Handler : pc[h] = "remove" /\ seen[h][p] # Absent
<1>1. IInv /\ [Next]_vars => [A]_vars
  <2> SUFFICES ASSUME IInv, Next, NEW p \in Path, ws'[p] # ws[p], edits' = edits
               PROVE  /\ p \in Candidate
                      /\ \/ before[p] # Absent
                         \/ \E h \in Handler : pc[h] = "remove" /\ seen[h][p] # Absent
    OBVIOUS
  <2> USE DEF IInv
  <2>1. ~ \E q \in Path, c \in Content \cup {Absent} : Edit(q, c)
    BY DEF Edit, TypeOK
  <2>2. PICK h \in Handler :
          \/ \E q \in Candidate : Remove(h, q) \/ Truncate(h, q) \/ Rewrite(h, q)
          \/ \E q \in Candidate : RewriteStale(h, q)
          \/ RewriteFails(h)
    BY <2>1 DEF Next, Step, RunScan, Start, Scan, ScanFails, Decide, BeginRewrite, Finish
  <2>3. CASE \E q \in Candidate : Remove(h, q) \/ Truncate(h, q) \/ Rewrite(h, q)
    BY <2>3 DEF Remove, Truncate, Rewrite, TypeOK, Workspace, TodoSound
  <2>4. CASE \E q \in Candidate : RewriteStale(h, q)
    BY <2>4 DEF RewriteStale, TypeOK, Workspace, TodoSound
  <2>5. CASE RewriteFails(h)
    <3>1. PICK q \in opened[h] \cup stale[h] : \E c : ws' = [ws EXCEPT ![q] = c]
      BY <2>5 DEF RewriteFails
    <3>2. q = p
      BY <3>1 DEF TypeOK, Workspace
    <3>3. QED BY <3>1, <3>2 DEF TodoSound, TypeOK
  <2>6. QED BY <2>2, <2>3, <2>4, <2>5
<1>2. Spec => []IInv
  BY InitInvariant, StepPreserves, RollbackTypeCorrect, PTL DEF Spec
<1>3. QED BY <1>1, <1>2, PTL DEF Spec, BystandersSurvive
=============================================================================
