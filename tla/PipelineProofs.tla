--------------------------- MODULE PipelineProofs ---------------------------
(***************************************************************************)
(* Proofs about Pipeline, for any number of runs, files and faults.  Every *)
(* part of the invariant PipelineInv is kept because a step of one run     *)
(* leaves the others alone: it changes their trees only by putting files   *)
(* of its own in the place of theirs (TreeStep, LocalStep).                *)
(***************************************************************************)
EXTENDS Pipeline, TLAPS

-----------------------------------------------------------------------------
(* What the operators of the module return. *)
LEMMA CaptureType ==
  ASSUME NEW tree \in Tree
  PROVE  /\ Snap!Capture(tree, {}) \in Snap!Manifest
         /\ \A f \in Tracked : Snap!Capture(tree, {})[f] = tree[f]
BY FileAssumption DEF Snap!Capture, Snap!Manifest, Tree

(* The scope of a validation is a set of packages. *)
LEMMA ScopeType ==
  ASSUME NEW target, NEW chosen \in SUBSET Indexed, NEW written \in SUBSET File
  PROVE  Scope(target, chosen, written) \in SUBSET Package
BY FileAssumption DEF Scope, PackagesOf, Package

(* A bundle consists of files; that of a patch has passed the guard. *)
LEMMA BundleType ==
  ASSUME NEW target \in Mode \ {""}, NEW chosen \in SUBSET Indexed,
         NEW proposed \in Proposals \cup {Fallback(target)}
  PROVE  /\ Bundle(target, chosen, proposed) \in SUBSET File
         /\ target = "current_repo_patch" =>
              \/ Bundle(target, chosen, proposed) \subseteq Allowed(chosen)
              \/ Bundle(target, chosen, proposed) = PatchNotes
BY FileAssumption DEF Bundle, Proposals, Fallback, Allowed, Mode

(* The content that a write of a bundle leaves. *)
LEMMA WrittenType ==
  ASSUME NEW r \in Run, NEW sound \in BOOLEAN
  PROVE  /\ Written(r, sound) \in Content
         /\ Written(r, sound).by = r
         /\ Written(r, sound).phase = "codegen"
         /\ Written(r, sound).sound = sound
BY DEF Written, Content

(* The tree a repair leaves behind. *)
LEMMA RepairedType ==
  ASSUME NEW r \in Run, NEW healed, NEW rewritten,
         Workspace(r, Isolated(r)) \in Tree,
         rewritten \subseteq {f \in GoFile \cup {Module} : Workspace(r, Isolated(r))[f] # Absent}
  PROVE  /\ Repaired(r, rewritten, healed) \in Tree
         /\ \A f \in File : 
              IF f \in rewritten
                THEN /\ Repaired(r, rewritten, healed)[f] \in Content
                     /\ Repaired(r, rewritten, healed)[f].by = r
                     /\ Repaired(r, rewritten, healed)[f].phase = "repair"
                     /\ Workspace(r, Isolated(r))[f].sound => Repaired(r, rewritten, healed)[f].sound
                ELSE Repaired(r, rewritten, healed)[f] = Workspace(r, Isolated(r))[f]
<1> DEFINE w == Workspace(r, Isolated(r))
           new(f) == [by |-> r, phase |-> "repair", sound |-> f \in healed \/ w[f].sound]
<1>1. ASSUME NEW f \in File, f \in rewritten
      PROVE  new(f) \in Content
  <2>1. w[f] \in Content
    BY <1>1 DEF Tree
  <2>2. (f \in healed \/ w[f].sound) \in BOOLEAN
    OBVIOUS
  <2> QED
    BY <2>2 DEF Content
<1>2. Repaired(r, rewritten, healed) = [f \in File |-> IF f \in rewritten THEN new(f) ELSE w[f]]
  BY DEF Repaired
<1>3. \A f \in File : w[f] \in Content \cup {Absent}
  BY DEF Tree
<1> HIDE DEF w
<1>4. \A f \in File : /\ new(f).by = r
                      /\ new(f).phase = "repair"
                      /\ w[f].sound => new(f).sound
  OBVIOUS
<1> HIDE DEF new
<1>5. Repaired(r, rewritten, healed) \in Tree
  BY <1>1, <1>2, <1>3 DEF Tree
<1>6. \A f \in File : Repaired(r, rewritten, healed)[f] = IF f \in rewritten THEN new(f) ELSE w[f]
  BY <1>2
<1> QED
  BY <1>1, <1>4, <1>5, <1>6 DEF w
-----------------------------------------------------------------------------
(* What a step of run q may do to the trees. *)
Mine(q, content) == content \in Content /\ content.by = q

Effect(q) ==
  /\ repo' \in Tree
  /\ out' \in [Id -> Tree]
  /\ \A f \in File : repo'[f] = repo[f] \/ Mine(q, repo'[f])
  /\ \A i \in Id : \A f \in File :
       out'[i][f] = out[i][f] \/ out'[i][f] = Absent \/ Mine(q, out'[i][f])
  /\ \A i \in Id \ {id[q]} : out'[i] = out[i]

(* A step that leaves the trees alone has an admissible effect. *)
LEMMA NoEffect ==
  ASSUME TypeOK, NEW q \in Run, UNCHANGED trees
  PROVE  Effect(q)
BY DEF TypeOK, Effect, trees

(* So has one that puts only contents of its own run into a tree. *)
LEMMA PutEffect ==
  ASSUME TypeOK, NEW q \in Run, NEW isolated \in BOOLEAN, NEW tree \in Tree,
         \A f \in File : tree[f] = Workspace(q, isolated)[f] \/ Mine(q, tree[f]),
         Put(q, isolated, tree)
  PROVE  Effect(q)
<1>1. repo \in Tree /\ out \in [Id -> Tree] /\ id[q] \in Id
  BY DEF TypeOK
<1>2. CASE isolated
  <2>1. out' = [out EXCEPT ![id[q]] = tree] /\ repo' = repo
    BY <1>2 DEF Put
  <2>2. \A f \in File : tree[f] = out[id[q]][f] \/ Mine(q, tree[f])
    BY <1>2 DEF Workspace
  <2>3. out' \in [Id -> Tree]
    BY <1>1, <2>1
  <2>4. \A i \in Id : out'[i] = IF i = id[q] THEN tree ELSE out[i]
    BY <1>1, <2>1
  <2> QED
    BY <1>1, <2>1, <2>2, <2>3, <2>4 DEF Effect
<1>3. CASE ~isolated
  <2>1. repo' = tree /\ out' = out
    BY <1>3 DEF Put
  <2>2. \A f \in File : tree[f] = repo[f] \/ Mine(q, tree[f])
    BY <1>3 DEF Workspace
  <2> QED
    BY <1>1, <2>1, <2>2 DEF Effect
<1> QED
  BY <1>2, <1>3

(* The workspace of a run is a tree. *)
LEMMA WorkspaceType ==
  ASSUME TypeOK, NEW q \in Run, NEW isolated \in BOOLEAN
  PROVE  Workspace(q, isolated) \in Tree
BY DEF TypeOK, Workspace

(* One file of a bundle is put into a tree. *)
LEMMA WriteOne ==
  ASSUME NEW q \in Run, NEW tree \in Tree, NEW g \in File, NEW content, Mine(q, content)
  PROVE  /\ [tree EXCEPT ![g] = content] \in Tree
         /\ \A f \in File : \/ [tree EXCEPT ![g] = content][f] = tree[f]
                            \/ Mine(q, [tree EXCEPT ![g] = content][f])
BY DEF Tree, Mine

(* A write of a bundle puts one file of its run in the place of another. *)
LEMMA WriteEffect ==
  ASSUME TypeOK, NEW q \in Run, NEW isolated \in BOOLEAN, NEW f \in File, NEW sound \in BOOLEAN,
         Put(q, isolated, [Workspace(q, isolated) EXCEPT ![f] = Written(q, sound)])
  PROVE  Effect(q)
<1> DEFINE w == Workspace(q, isolated)
           content == Written(q, sound)
           new == [w EXCEPT ![f] = content]
<1>1. w \in Tree
  BY WorkspaceType
<1>2. Mine(q, content)
  BY WrittenType, Zenon DEF Mine
<1>3. Put(q, isolated, new)
  OBVIOUS
<1> HIDE DEF content, w
<1>4. new \in Tree /\ \A g \in File : new[g] = w[g] \/ Mine(q, new[g])
  BY <1>1, <1>2, WriteOne
<1> HIDE DEF new
<1> USE DEF w
<1> QED
  BY <1>3, <1>4, PutEffect

(* No step does more to the trees than Effect allows. *)
LEMMA TreeStep ==
  ASSUME TypeOK, NEW q \in Run, Step(q)
  PROVE  Effect(q)
<1>1. CASE Generate(q)
  <2>1. repo' = repo /\ (out' = Cleaned(q) \/ out' = out)
    BY <1>1 DEF Generate
  <2>2. NoFiles \in Tree /\ \A f \in File : NoFiles[f] = Absent
    BY DEF NoFiles, Tree
  <2>3. repo \in Tree /\ out \in [Id -> Tree] /\ id[q] \in Id
    BY DEF TypeOK
  <2>4. CASE out' = Cleaned(q)
    <3>1. out' \in [Id -> Tree]
      BY <2>2, <2>3, <2>4 DEF Cleaned
    <3>2. \A i \in Id : out'[i] = IF i = id[q] THEN NoFiles ELSE out[i]
      BY <2>3, <2>4 DEF Cleaned
    <3> QED
      BY <2>1, <2>2, <2>3, <3>1, <3>2 DEF Effect
  <2> QED
    BY <2>1, <2>3, <2>4 DEF Effect
<1>2. CASE Write(q)
  <2> DEFINE isolated == mode[q] = "isolated_workspace"
  <2>1. PICK f \in pending[q], sound \in BOOLEAN :
          Put(q, isolated, [Workspace(q, isolated) EXCEPT ![f] = Written(q, sound)])
    BY <1>2 DEF Write
  <2>2. f \in File /\ isolated \in BOOLEAN
    BY DEF TypeOK
  <2> HIDE DEF isolated
  <2> QED
    BY <2>1, <2>2, WriteEffect
<1>3. CASE WriteFails(q)
  <2> DEFINE isolated == mode[q] = "isolated_workspace"
  <2>1. CASE UNCHANGED trees
    BY <2>1, NoEffect
  <2>2. CASE \E f \in pending[q] :
               Put(q, isolated, [Workspace(q, isolated) EXCEPT ![f] = Written(q, f \notin GoFile)])
    <3>1. PICK f \in pending[q] :
            Put(q, isolated, [Workspace(q, isolated) EXCEPT ![f] = Written(q, f \notin GoFile)])
      BY <2>2
    <3> DEFINE sound == f \notin GoFile
    <3>2. f \in File /\ isolated \in BOOLEAN /\ sound \in BOOLEAN
      BY DEF TypeOK
    <3> HIDE DEF isolated, sound
    <3>3. Put(q, isolated, [Workspace(q, isolated) EXCEPT ![f] = Written(q, sound)])
      BY <3>1 DEF sound
    <3> QED
      BY <3>2, <3>3, WriteEffect
  <2> QED
    BY <1>3, <2>1, <2>2 DEF WriteFails
<1>4. CASE Repair(q)
  <2> DEFINE w == Workspace(q, Isolated(q))
  <2>1. PICK rewritten \in SUBSET {f \in GoFile \cup {Module} : w[f] # Absent} :
          \E healed \in SUBSET rewritten : Put(q, Isolated(q), Repaired(q, rewritten, healed))
    BY <1>4 DEF Repair
  <2>2. PICK healed \in SUBSET rewritten : Put(q, Isolated(q), Repaired(q, rewritten, healed))
    BY <2>1
  <2>3. Isolated(q) \in BOOLEAN
    BY DEF Isolated
  <2>4. w \in Tree
    BY <2>3, WorkspaceType
  <2> DEFINE new == Repaired(q, rewritten, healed)
  <2>5. new \in Tree /\ \A g \in File : new[g] = w[g] \/ Mine(q, new[g])
    BY <2>4, RepairedType DEF Mine
  <2> QED
    BY <2>2, <2>3, <2>5, PutEffect
<1>5. CASE UNCHANGED trees
  BY <1>5, NoEffect
<1> QED
  BY <1>1, <1>2, <1>3, <1>4, <1>5
  DEF Step, SnapshotBefore, NoCodegen, Wrote, Preflight, Recheck, SkipDocker, Docker, Finish
-----------------------------------------------------------------------------
(* Another repair round begins only while there are rounds left. *)
Rounds ==
  \A r \in Run :
    /\ pc[r] \in {"idle", "codegen", "write", "preflight"} => round[r] = 0
    /\ pc[r] = "repair" => round[r] < MaxRounds

(* The count of what went wrong keeps its type. *)
LEMMA FaultType ==
  ASSUME faults \in 0 .. MaxFaults, NEW wrong \in BOOLEAN, Fault(wrong)
  PROVE  faults' \in 0 .. MaxFaults
BY BoundAssumption DEF Fault

(* What a code generation chooses. *)
LEMMA GenerateSplit ==
  ASSUME NEW q \in Run, Generate(q)
  PROVE  \E target \in Mode \ {""} :
           \E chosen \in Candidates(target), proposed \in Proposals \cup {Fallback(target)} :
             /\ mode' = [mode EXCEPT ![q] = target]
             /\ candidates' = [candidates EXCEPT ![q] = chosen]
             /\ pending' = [pending EXCEPT ![q] = Bundle(target, chosen, proposed)]
             /\ files' = [files EXCEPT ![q] = Bundle(target, chosen, proposed)]
BY DEF Generate

(* The verdict of a check and where the run goes with it. *)
LEMMA CheckSplit ==
  ASSUME NEW q \in Run, Preflight(q) \/ Recheck(q)
  PROVE  \E result \in {"passed", "failed"}, next \in {"repair", "docker"} :
           /\ verdict' = [verdict EXCEPT ![q] = result]
           /\ Fault(result = "failed" /\ Unsound(q) = {})
           /\ pc' = [pc EXCEPT ![q] = next]
           /\ result = "passed" => next = "docker"
           /\ next = "repair" => IF pc[q] = "preflight" THEN MaxRounds > 0 ELSE round[q] < MaxRounds
<1>1. CASE Preflight(q)
  <2>1. PICK result \in Checked(q) :
          /\ verdict' = [verdict EXCEPT ![q] = result]
          /\ Fault(result = "failed" /\ Unsound(q) = {})
          /\ pc' = [pc EXCEPT ![q] = IF result = "failed" /\ MaxRounds > 0 THEN "repair" ELSE "docker"]
    BY <1>1 DEF Preflight, Goto
  <2>2. result \in {"passed", "failed"} /\ pc[q] = "preflight"
    BY <1>1 DEF Preflight, Checked
  <2> QED
    BY <2>1, <2>2
<1>2. CASE Recheck(q)
  <2>1. PICK result \in Checked(q) :
          /\ verdict' = [verdict EXCEPT ![q] = result]
          /\ Fault(result = "failed" /\ Unsound(q) = {})
          /\ \/ result = "failed" /\ round[q] < MaxRounds /\ pc' = [pc EXCEPT ![q] = "repair"]
             \/ pc' = [pc EXCEPT ![q] = "docker"]
    BY <1>2 DEF Recheck, Goto
  <2>2. result \in {"passed", "failed"} /\ pc[q] = "recheck"
    BY <1>2 DEF Recheck, Checked
  <2> QED
    BY <2>1, <2>2
<1> QED
  BY <1>1, <1>2

(* The variables that are not trees keep their types. *)
LEMMA TypeStep ==
  ASSUME TypeOK, Rounds, NEW q \in Run, Step(q)
  PROVE  TypeOK' /\ Rounds'
<1> USE DEF Goto, report, bundle, checks, trees
<1>0. repo' \in Tree /\ out' \in [Id -> Tree]
  BY TreeStep DEF Effect
<1>1. CASE SnapshotBefore(q)
  <2>1. before' \in [Run -> Snap!Manifest \cup {NoManifest}]
    <3>1. Snap!Capture(repo, {}) \in Snap!Manifest
      BY CaptureType DEF TypeOK
    <3> HIDE DEF report, bundle, checks, trees
    <3> QED
      BY <1>1, <3>1 DEF SnapshotBefore, TypeOK
  <2>2. faults' \in 0 .. MaxFaults
    BY <1>1, FaultType DEF SnapshotBefore, TypeOK
  <2> QED
    BY <1>0, <1>1, <2>1, <2>2 DEF SnapshotBefore, TypeOK, Rounds, Phase
<1>2. CASE NoCodegen(q)
  BY <1>0, <1>2 DEF NoCodegen, TypeOK, Rounds, Phase
<1>3. CASE Generate(q)
  <2>1. PICK target \in Mode \ {""} :
          \E chosen \in Candidates(target), proposed \in Proposals \cup {Fallback(target)} :
            /\ mode' = [mode EXCEPT ![q] = target]
            /\ candidates' = [candidates EXCEPT ![q] = chosen]
            /\ pending' = [pending EXCEPT ![q] = Bundle(target, chosen, proposed)]
            /\ files' = [files EXCEPT ![q] = Bundle(target, chosen, proposed)]
    BY <1>3, GenerateSplit
  <2>2. PICK chosen \in Candidates(target), proposed \in Proposals \cup {Fallback(target)} :
            /\ mode' = [mode EXCEPT ![q] = target]
            /\ candidates' = [candidates EXCEPT ![q] = chosen]
            /\ pending' = [pending EXCEPT ![q] = Bundle(target, chosen, proposed)]
            /\ files' = [files EXCEPT ![q] = Bundle(target, chosen, proposed)]
    BY <2>1
  <2>3. chosen \in SUBSET Indexed
    BY DEF Candidates
  <2>4. Bundle(target, chosen, proposed) \in SUBSET File
    BY <2>3, BundleType
  <2>5. /\ mode' \in [Run -> Mode]
        /\ candidates' \in [Run -> SUBSET Indexed]
        /\ pending' \in [Run -> SUBSET File]
        /\ files' \in [Run -> SUBSET File]
    BY <2>2, <2>3, <2>4 DEF TypeOK
  <2>6. /\ pc[q] = "codegen" /\ pc' = [pc EXCEPT ![q] = "write"]
        /\ codegen' = [codegen EXCEPT ![q] = "writing"]
        /\ UNCHANGED <<id, before, targets, checks, faults>>
    BY <1>3 DEF Generate
  <2>7. codegen' \in [Run -> {"skipped", "writing", "completed", "failed"}] /\ pc' \in [Run -> Phase]
    BY <2>6 DEF TypeOK, Phase
  <2>8. Rounds'
    BY <2>6 DEF Rounds, TypeOK
  <2> QED
    BY <1>0, <2>5, <2>6, <2>7, <2>8 DEF TypeOK
<1>4. CASE Write(q)
  <2>1. pending' \in [Run -> SUBSET File]
    <3>1. PICK f : pending' = [pending EXCEPT ![q] = @ \ {f}]
      BY <1>4, Zenon DEF Write
    <3> QED
      BY <3>1 DEF TypeOK
  <2>2. faults' \in 0 .. MaxFaults
    <3>1. Fault(TRUE) \/ Fault(FALSE)
      BY <1>4, Zenon DEF Write, Fault
    <3> QED
      BY <3>1, FaultType DEF TypeOK
  <2> QED
    BY <1>0, <1>4, <2>1, <2>2 DEF Write, TypeOK, Rounds, Phase
<1>5. CASE Wrote(q)
  <2>1. Scope(mode[q], candidates[q], files[q]) \in SUBSET Package
    BY ScopeType DEF TypeOK
  <2> QED
    BY <1>0, <1>5, <2>1 DEF Wrote, TypeOK, Rounds, Phase
<1>6. CASE WriteFails(q)
  <2>1. Scope(mode[q], candidates[q], {}) \in SUBSET Package
    BY ScopeType DEF TypeOK
  <2>2. faults' \in 0 .. MaxFaults
    BY <1>6, FaultType DEF WriteFails, TypeOK
  <2> QED
    BY <1>0, <1>6, <2>1, <2>2 DEF WriteFails, TypeOK, Rounds, Phase
<1>7. CASE Preflight(q) \/ Recheck(q)
  <2>1. PICK result \in {"passed", "failed"}, next \in {"repair", "docker"} :
          /\ verdict' = [verdict EXCEPT ![q] = result]
          /\ Fault(result = "failed" /\ Unsound(q) = {})
          /\ pc' = [pc EXCEPT ![q] = next]
          /\ next = "repair" => IF pc[q] = "preflight" THEN MaxRounds > 0 ELSE round[q] < MaxRounds
    BY <1>7, CheckSplit
  <2>2. faults' \in 0 .. MaxFaults
    BY <2>1, FaultType DEF TypeOK
  <2>3. UNCHANGED <<report, bundle, round, sandbox, after, offered>>
    BY <1>7 DEF Preflight, Recheck
  <2>4. pc' \in [Run -> Phase] /\ verdict' \in [Run -> {"none", "passed", "failed"}]
    BY <2>1 DEF TypeOK, Phase
  <2>5. Rounds'
    BY <2>1, <2>3 DEF Rounds, TypeOK
  <2> QED
    BY <1>0, <2>2, <2>3, <2>4, <2>5 DEF TypeOK
<1>8. CASE Repair(q)
  <2>1. pc[q] = "repair" /\ pc' = [pc EXCEPT ![q] = "recheck"]
    BY <1>8 DEF Repair
  <2>2. round' = [round EXCEPT ![q] = @ + 1]
    BY <1>8 DEF Repair
  <2>3. round[q] < MaxRounds /\ round[q] \in 0 .. MaxRounds
    BY <2>1 DEF Rounds, TypeOK
  <2>4. round' \in [Run -> 0 .. MaxRounds]
    <3>1. round[q] + 1 \in 0 .. MaxRounds
      BY <2>3, BoundAssumption
    <3> QED
      BY <2>2, <3>1 DEF TypeOK
  <2>5. pc' \in [Run -> Phase]
    BY <2>1 DEF TypeOK, Phase
  <2>6. Rounds'
    BY <2>1, <2>2, <2>3 DEF Rounds, TypeOK
  <2> QED
    BY <1>0, <1>8, <2>4, <2>5, <2>6 DEF Repair, TypeOK
<1>10. CASE SkipDocker(q)
  BY <1>0, <1>10 DEF SkipDocker, TypeOK, Rounds, Phase
<1>11. CASE Docker(q)
  <2>1. PICK result \in {"unavailable", "failed", "completed"} :
          /\ sandbox' = [sandbox EXCEPT ![q] = result]
          /\ Fault(result # "completed" /\ Unsound(q) = {})
    BY <1>11 DEF Docker
  <2>2. faults' \in 0 .. MaxFaults
    BY <2>1, FaultType DEF TypeOK
  <2> QED
    BY <1>0, <1>11, <2>1, <2>2 DEF Docker, TypeOK, Rounds, Phase
<1>12. CASE Finish(q)
  <2>1. /\ after' \in [Run -> BOOLEAN]
        /\ offered' \in [Run -> SUBSET {"rollback", "repair"}]
    <3>1. \E saved \in BOOLEAN : after' = [after EXCEPT ![q] = saved]
      BY <1>12, Zenon DEF Finish
    <3>2. PICK some : offered' = [offered EXCEPT ![q] = {a \in {"rollback", "repair"} : a \in some}]
      <4>1. PICK saved \in BOOLEAN : offered' = [offered EXCEPT ![q] =
               {a \in {"rollback", "repair"} :
                  IF a = "repair" THEN verdict[q] = "failed"
                  ELSE saved /\ Difference(q, Snap!Capture(repo, {})) # {}}]
        BY <1>12, Zenon DEF Finish
      <4> DEFINE chosen == {a \in {"rollback", "repair"} :
                              IF a = "repair" THEN verdict[q] = "failed"
                              ELSE saved /\ Difference(q, Snap!Capture(repo, {})) # {}}
      <4>2. chosen = {a \in {"rollback", "repair"} : a \in chosen}
        OBVIOUS
      <4>3. offered' = [offered EXCEPT ![q] = chosen]
        BY <4>1
      <4> HIDE DEF chosen
      <4> QED
        BY <4>2, <4>3
    <3>3. after' \in [Run -> BOOLEAN]
      BY <3>1 DEF TypeOK
    <3>4. offered' \in [Run -> SUBSET {"rollback", "repair"}]
      BY <3>2 DEF TypeOK
    <3> QED
      BY <3>3, <3>4
  <2>2. faults' \in 0 .. MaxFaults
    <3>1. Fault(TRUE) \/ Fault(FALSE)
      BY <1>12, Zenon DEF Finish, Fault
    <3> QED
      BY <3>1, FaultType DEF TypeOK
  <2> QED
    BY <1>0, <1>12, <2>1, <2>2 DEF Finish, TypeOK, Rounds, Phase
<1> QED
  BY <1>1, <1>2, <1>3, <1>4, <1>5, <1>6, <1>7, <1>8, <1>10, <1>11, <1>12 DEF Step

(* The types at the start. *)
LEMMA TypeInit == Init => TypeOK /\ Rounds
<1> SUFFICES ASSUME Init PROVE TypeOK /\ Rounds
  OBVIOUS
<1>1. NoFiles \in Tree
  BY DEF NoFiles, Tree
<1>2. repo \in Tree
  BY DEF Init, Tree, Content
<1>3. out \in [Id -> Tree] /\ id \in [Run -> Id]
  BY <1>1 DEF Init
<1>4. pc \in [Run -> Phase] /\ mode \in [Run -> Mode]
  BY DEF Init, Phase, Mode
<1>5. before \in [Run -> Snap!Manifest \cup {NoManifest}]
  BY DEF Init
<1>6. /\ candidates \in [Run -> SUBSET Indexed]
      /\ pending \in [Run -> SUBSET File]
      /\ files \in [Run -> SUBSET File]
      /\ targets \in [Run -> SUBSET Package]
  BY DEF Init
<1>7. /\ codegen \in [Run -> {"skipped", "writing", "completed", "failed"}]
      /\ verdict \in [Run -> {"none", "passed", "failed"}]
      /\ sandbox \in [Run -> {"none", "no go changes", "unavailable", "completed", "failed"}]
  BY DEF Init
<1>8. /\ round \in [Run -> 0 .. MaxRounds]
      /\ faults \in 0 .. MaxFaults
  <2>1. 0 \in 0 .. MaxRounds /\ 0 \in 0 .. MaxFaults
    BY BoundAssumption
  <2> QED
    BY <2>1 DEF Init
<1>9. /\ after \in [Run -> BOOLEAN]
      /\ offered \in [Run -> SUBSET {"rollback", "repair"}]
  BY DEF Init
<1>10. Rounds
  BY DEF Init, Rounds
<1> QED
  BY <1>2, <1>3, <1>4, <1>5, <1>6, <1>7, <1>8, <1>9, <1>10 DEF TypeOK

(* The types are inductive together with the bound on the rounds. *)
LEMMA TypeKept == TypeOK /\ Rounds /\ [Next]_vars => (TypeOK /\ Rounds)'
<1> SUFFICES ASSUME TypeOK, Rounds, [Next]_vars PROVE (TypeOK /\ Rounds)'
  OBVIOUS
<1>1. CASE Next
  BY <1>1, TypeStep DEF Next
<1>2. CASE UNCHANGED vars
  BY <1>2 DEF vars, trees, report, bundle, checks, TypeOK, Rounds
<1> QED
  BY <1>1, <1>2

(* Every variable keeps its type; a repair starts only while rounds are    *)
(* left.                                                                   *)
THEOREM TypeCorrect == Spec => []TypeOK
  BY TypeInit, TypeKept, PTL DEF Spec
-----------------------------------------------------------------------------
(* What run q does to the variables of another run: nothing. *)
LEMMA LocalStep ==
  ASSUME TypeOK, NEW q \in Run, Step(q), NEW r \in Run \ {q}
  PROVE  /\ pc'[r] = pc[r] /\ id' = id /\ before'[r] = before[r] /\ mode'[r] = mode[r]
         /\ candidates'[r] = candidates[r] /\ pending'[r] = pending[r] /\ files'[r] = files[r]
         /\ codegen'[r] = codegen[r] /\ targets'[r] = targets[r] /\ verdict'[r] = verdict[r]
         /\ after'[r] = after[r] /\ offered'[r] = offered[r]
<1> USE DEF TypeOK, Goto, report, bundle, checks
<1>1. CASE SnapshotBefore(q)
  BY <1>1 DEF SnapshotBefore
<1>2. CASE NoCodegen(q)
  BY <1>2 DEF NoCodegen
<1>3. CASE Generate(q)
  <2> HIDE DEF TypeOK, report, bundle, checks
  <2>0. PICK target \in Mode \ {""} :
          \E chosen \in Candidates(target), proposed \in Proposals \cup {Fallback(target)} :
            /\ mode' = [mode EXCEPT ![q] = target]
            /\ candidates' = [candidates EXCEPT ![q] = chosen]
            /\ pending' = [pending EXCEPT ![q] = Bundle(target, chosen, proposed)]
            /\ files' = [files EXCEPT ![q] = Bundle(target, chosen, proposed)]
    BY <1>3, GenerateSplit
  <2> USE DEF TypeOK, report, bundle, checks
  <2>1. mode'[r] = mode[r] /\ candidates'[r] = candidates[r] /\ pending'[r] = pending[r]
        /\ files'[r] = files[r]
    BY <2>0
  <2>2. /\ pc' = [pc EXCEPT ![q] = "write"] /\ codegen' = [codegen EXCEPT ![q] = "writing"]
        /\ UNCHANGED <<id, before, targets, checks>>
    BY <1>3 DEF Generate
  <2> QED
    BY <2>1, <2>2
<1>4. CASE Write(q)
  <2>1. PICK f : pending' = [pending EXCEPT ![q] = @ \ {f}]
    BY <1>4, Zenon DEF Write
  <2>2. UNCHANGED <<pc, report, files, codegen, targets, checks>>
    BY <1>4 DEF Write
  <2> QED
    BY <2>1, <2>2
<1>5. CASE Wrote(q)
  BY <1>5 DEF Wrote
<1>6. CASE WriteFails(q)
  BY <1>6 DEF WriteFails
<1>7. CASE Preflight(q)
  BY <1>7 DEF Preflight
<1>8. CASE Repair(q)
  BY <1>8 DEF Repair
<1>9. CASE Recheck(q)
  BY <1>9 DEF Recheck
<1>10. CASE SkipDocker(q)
  BY <1>10 DEF SkipDocker
<1>11. CASE Docker(q)
  BY <1>11 DEF Docker
<1>12. CASE Finish(q)
  <2>1. PICK saved, some : /\ after' = [after EXCEPT ![q] = saved]
                          /\ offered' = [offered EXCEPT ![q] = some]
    BY <1>12, Zenon DEF Finish
  <2>2. pc' = [pc EXCEPT ![q] = "done"] /\ UNCHANGED <<trees, report, bundle, verdict, round, sandbox>>
    BY <1>12 DEF Finish
  <2> QED
    BY <2>1, <2>2
<1> QED
  BY <1>1, <1>2, <1>3, <1>4, <1>5, <1>6, <1>7, <1>8, <1>9, <1>10, <1>11, <1>12 DEF Step

(* ... and to the files of another run: at most it takes them away. *)
LEMMA OthersTrees ==
  ASSUME TypeOK, NEW q \in Run, Step(q), NEW r \in Run \ {q}
  PROVE  /\ By(r, repo') \subseteq By(r, repo)
         /\ \A f \in By(r, repo') : repo'[f] = repo[f]
         /\ \A i \in Id : /\ By(r, out'[i]) \subseteq By(r, out[i])
                          /\ \A f \in By(r, out'[i]) : out'[i][f] = out[i][f]
<1>1. Effect(q)
  BY TreeStep
<1> QED
  BY <1>1 DEF Effect, Mine, By
-----------------------------------------------------------------------------
(* The control state of a run and what its report says of the bundle. *)
OrderOf(r) ==
  /\ pc[r] \in {"idle", "codegen"} => mode[r] = "" /\ codegen[r] = "skipped"
  /\ pc[r] = "idle" => before[r] = NoManifest
  /\ pc[r] = "write" => mode[r] # "" /\ codegen[r] = "writing"
  /\ pc[r] \notin {"idle", "codegen", "write"} => codegen[r] # "writing"
  /\ codegen[r] = "skipped" => mode[r] = ""
  /\ codegen[r] \in {"skipped", "failed"} => files[r] = {}
  /\ codegen[r] = "completed" => targets[r] = Scope(mode[r], candidates[r], files[r])
  /\ pending[r] \subseteq files[r]
  /\ verdict[r] = "passed" => pc[r] \in {"docker", "after", "done"}
  /\ pc[r] # "done" => ~ after[r]
  /\ after[r] => before[r] # NoManifest

Order == \A r \in Run : OrderOf(r)

(* Order is inductive. *)
LEMMA OrderStep ==
  ASSUME TypeOK, Order, NEW q \in Run, Step(q)
  PROVE  Order'
<1>1. ASSUME NEW r \in Run \ {q} PROVE OrderOf(r)'
  <2>1. OrderOf(r)
    BY DEF Order
  <2>2. /\ pc'[r] = pc[r] /\ id' = id /\ before'[r] = before[r] /\ mode'[r] = mode[r]
        /\ candidates'[r] = candidates[r] /\ pending'[r] = pending[r] /\ files'[r] = files[r]
        /\ codegen'[r] = codegen[r] /\ targets'[r] = targets[r] /\ verdict'[r] = verdict[r]
        /\ after'[r] = after[r]
    BY LocalStep
  <2> QED
    BY <2>1, <2>2 DEF OrderOf
<1>2. OrderOf(q)'
  <2> USE DEF TypeOK, Goto, report, bundle, checks
  <2>0. OrderOf(q)
    BY DEF Order
  <2>1. CASE SnapshotBefore(q)
    BY <2>0, <2>1 DEF SnapshotBefore, OrderOf
  <2>2. CASE NoCodegen(q)
    BY <2>0, <2>2 DEF NoCodegen, OrderOf
  <2>3. CASE Generate(q)
    <3>1. PICK target \in Mode \ {""} :
            \E chosen \in Candidates(target), proposed \in Proposals \cup {Fallback(target)} :
              /\ mode' = [mode EXCEPT ![q] = target]
              /\ candidates' = [candidates EXCEPT ![q] = chosen]
              /\ pending' = [pending EXCEPT ![q] = Bundle(target, chosen, proposed)]
              /\ files' = [files EXCEPT ![q] = Bundle(target, chosen, proposed)]
      BY <2>3, GenerateSplit
    <3>2. PICK chosen \in Candidates(target), proposed \in Proposals \cup {Fallback(target)} :
              /\ mode' = [mode EXCEPT ![q] = target]
              /\ candidates' = [candidates EXCEPT ![q] = chosen]
              /\ pending' = [pending EXCEPT ![q] = Bundle(target, chosen, proposed)]
              /\ files' = [files EXCEPT ![q] = Bundle(target, chosen, proposed)]
      BY <3>1
    <3>3. chosen \in SUBSET Indexed
      BY DEF Candidates
    <3>4. /\ mode'[q] = target /\ target # ""
          /\ pending'[q] = files'[q]
      BY <3>2, <3>3, BundleType
    <3>5. pc[q] = "codegen" /\ codegen'[q] = "writing" /\ pc'[q] = "write"
      BY <2>3 DEF Generate
    <3>6. UNCHANGED <<before, targets, checks>>
      BY <2>3 DEF Generate
    <3> QED
      BY <2>0, <3>4, <3>5, <3>6 DEF OrderOf
  <2>4. CASE Write(q)
    <3>1. PICK f : pending' = [pending EXCEPT ![q] = @ \ {f}]
      BY <2>4, Zenon DEF Write
    <3>2. UNCHANGED <<pc, report, files, codegen, targets, checks>>
      BY <2>4 DEF Write
    <3>3. pending'[q] \subseteq pending[q]
      BY <3>1
    <3> QED
      BY <2>0, <3>2, <3>3 DEF OrderOf
  <2>5. CASE Wrote(q)
    BY <2>0, <2>5 DEF Wrote, OrderOf
  <2>6. CASE WriteFails(q)
    BY <2>0, <2>6 DEF WriteFails, OrderOf
  <2>7. CASE Preflight(q) \/ Recheck(q)
    <3>1. PICK result \in {"passed", "failed"}, next \in {"repair", "docker"} :
            /\ verdict' = [verdict EXCEPT ![q] = result]
            /\ pc' = [pc EXCEPT ![q] = next]
            /\ result = "passed" => next = "docker"
      BY <2>7, CheckSplit
    <3>2. pc[q] \in {"preflight", "recheck"} /\ UNCHANGED <<report, bundle, after>>
      BY <2>7 DEF Preflight, Recheck
    <3>3. verdict'[q] = result /\ pc'[q] = next
      BY <3>1
    <3> QED
      BY <2>0, <3>1, <3>2, <3>3 DEF OrderOf
  <2>8. CASE Repair(q)
    BY <2>0, <2>8 DEF Repair, OrderOf
  <2>10. CASE SkipDocker(q)
    BY <2>0, <2>10 DEF SkipDocker, OrderOf
  <2>11. CASE Docker(q)
    BY <2>0, <2>11 DEF Docker, OrderOf
  <2>12. CASE Finish(q)
    <3>1. \E saved \in BOOLEAN : /\ saved => before[q] # NoManifest
                                /\ after' = [after EXCEPT ![q] = saved]
      BY <2>12, Zenon DEF Finish
    <3>2. after'[q] => before[q] # NoManifest
      BY <3>1
    <3>3. /\ pc[q] = "after" /\ pc'[q] = "done"
          /\ UNCHANGED <<report, bundle, verdict>>
      BY <2>12 DEF Finish
    <3> QED
      BY <2>0, <3>2, <3>3 DEF OrderOf
  <2> QED
    BY <2>1, <2>2, <2>3, <2>4, <2>5, <2>6, <2>7, <2>8, <2>10, <2>11, <2>12 DEF Step
<1> QED
  BY <1>1, <1>2 DEF Order
-----------------------------------------------------------------------------
(* A run's own steps on the trees, file by file. *)
Generated(r, content) ==
  Mine(r, content) /\ content.phase = "codegen"

(* f is put, as generated by q, into the tree the bundle of q goes to. *)
PutFile(q, f, content) ==
  /\ Generated(q, content)
  /\ f \notin GoFile => content.sound
  /\ IF mode[q] = "isolated_workspace"
       THEN /\ repo' = repo
            /\ out' = [out EXCEPT ![id[q]] = [out[id[q]] EXCEPT ![f] = content]]
       ELSE /\ out' = out
            /\ repo' = [repo EXCEPT ![f] = content]

(* A write of a bundle puts one of its pending files. *)
LEMMA WriteSplit ==
  ASSUME TypeOK, NEW q \in Run, Write(q)
  PROVE  \E f \in pending[q], content \in Content :
           PutFile(q, f, content) /\ pending' = [pending EXCEPT ![q] = @ \ {f}]
<1> DEFINE isolated == mode[q] = "isolated_workspace"
           w == Workspace(q, isolated)
<1>1. PICK f \in pending[q], sound \in BOOLEAN :
        /\ f \notin GoFile => sound
        /\ Put(q, isolated, [w EXCEPT ![f] = Written(q, sound)])
        /\ pending' = [pending EXCEPT ![q] = @ \ {f}]
  BY Zenon DEF Write
<1>2. Generated(q, Written(q, sound)) /\ Written(q, sound).sound = sound
  BY <1>1, WrittenType, Zenon DEF Generated, Mine
<1>3. f \notin GoFile => Written(q, sound).sound
  BY <1>1, <1>2, Zenon
<1> DEFINE content == Written(q, sound)
<1>4. /\ Generated(q, content)
      /\ f \notin GoFile => content.sound
      /\ Put(q, isolated, [w EXCEPT ![f] = content])
  BY <1>1, <1>2, <1>3, Zenon
<1> HIDE DEF content
<1>5. PutFile(q, f, content)
  <2>1. Put(q, isolated, [w EXCEPT ![f] = content])
    BY <1>4
  <2>2. IF mode[q] = "isolated_workspace"
          THEN /\ repo' = repo
               /\ out' = [out EXCEPT ![id[q]] = [out[id[q]] EXCEPT ![f] = content]]
          ELSE /\ out' = out
               /\ repo' = [repo EXCEPT ![f] = content]
    BY <2>1 DEF Put, Workspace
  <2> QED
    BY <1>4, <2>2, Zenon DEF PutFile
<1>6. content \in Content
  BY <1>4 DEF Generated, Mine
<1> QED
  BY <1>1, <1>5, <1>6

(* A write that fails puts one file or none. *)
LEMMA WriteFailsSplit ==
  ASSUME TypeOK, NEW q \in Run, WriteFails(q)
  PROVE  UNCHANGED trees \/ \E f \in pending[q], content \in Content : PutFile(q, f, content)
<1> DEFINE isolated == mode[q] = "isolated_workspace"
           w == Workspace(q, isolated)
<1>1. SUFFICES ASSUME ~ UNCHANGED trees
               PROVE  \E f \in pending[q], content \in Content : PutFile(q, f, content)
  OBVIOUS
<1>2. PICK f \in pending[q] : Put(q, isolated, [w EXCEPT ![f] = Written(q, f \notin GoFile)])
  BY <1>1, Zenon DEF WriteFails
<1>3. Generated(q, Written(q, f \notin GoFile)) /\ Written(q, f \notin GoFile).sound = (f \notin GoFile)
  BY WrittenType, Zenon DEF Generated, Mine
<1>4. f \notin GoFile => Written(q, f \notin GoFile).sound
  BY <1>3, Zenon
<1> DEFINE content == Written(q, f \notin GoFile)
<1>5. /\ Generated(q, content)
      /\ f \notin GoFile => content.sound
      /\ Put(q, isolated, [w EXCEPT ![f] = content])
  BY <1>2, <1>3, <1>4, Zenon
<1> HIDE DEF content
<1>6. PutFile(q, f, content)
  <2>1. Put(q, isolated, [w EXCEPT ![f] = content])
    BY <1>5
  <2>2. IF mode[q] = "isolated_workspace"
          THEN /\ repo' = repo
               /\ out' = [out EXCEPT ![id[q]] = [out[id[q]] EXCEPT ![f] = content]]
          ELSE /\ out' = out
               /\ repo' = [repo EXCEPT ![f] = content]
    BY <2>1 DEF Put, Workspace
  <2> QED
    BY <1>5, <2>2, Zenon DEF PutFile
<1>7. content \in Content
  BY <1>5 DEF Generated, Mine
<1> QED
  BY <1>6, <1>7

(* A repair puts a tree of its own in the place of the one it works on. *)
RepairTree(q, tree) ==
  /\ tree \in Tree
  /\ \A f \in File :
       \/ tree[f] = Workspace(q, Isolated(q))[f]
       \/ /\ Mine(q, tree[f])
          /\ tree[f].phase = "repair"
          /\ Workspace(q, Isolated(q))[f] # Absent
          /\ Workspace(q, Isolated(q))[f].sound => tree[f].sound
  /\ IF Isolated(q) THEN out' = [out EXCEPT ![id[q]] = tree] /\ repo' = repo
                    ELSE out' = out /\ repo' = tree

(* A repair replaces one tree. *)
LEMMA RepairSplit ==
  ASSUME TypeOK, NEW q \in Run, Repair(q)
  PROVE  \E tree : RepairTree(q, tree)
<1> DEFINE w == Workspace(q, Isolated(q))
<1>1. PICK rewritten \in SUBSET {f \in GoFile \cup {Module} : w[f] # Absent} :
        \E healed \in SUBSET rewritten : Put(q, Isolated(q), Repaired(q, rewritten, healed))
  BY DEF Repair
<1>2. PICK healed \in SUBSET rewritten : Put(q, Isolated(q), Repaired(q, rewritten, healed))
  BY <1>1
<1>3. w \in Tree
  BY WorkspaceType DEF Isolated
<1> DEFINE new == Repaired(q, rewritten, healed)
<1>4. /\ new \in Tree
      /\ \A f \in File :
           IF f \in rewritten
             THEN /\ new[f] \in Content /\ new[f].by = q /\ new[f].phase = "repair"
                  /\ w[f].sound => new[f].sound
             ELSE new[f] = w[f]
  BY <1>3, RepairedType
<1>5. Put(q, Isolated(q), new)
  BY <1>2
<1>6. \A f \in rewritten : w[f] # Absent
  BY <1>1
<1> HIDE DEF new
<1>7. RepairTree(q, new)
  <2>1. IF Isolated(q) THEN out' = [out EXCEPT ![id[q]] = new] /\ repo' = repo
                      ELSE out' = out /\ repo' = new
    BY <1>5 DEF Put
  <2>2. \A f \in File :
          \/ new[f] = w[f]
          \/ /\ Mine(q, new[f]) /\ new[f].phase = "repair"
             /\ w[f] # Absent
             /\ w[f].sound => new[f].sound
    BY <1>4, <1>6 DEF Mine
  <2> QED
    BY <1>4, <2>1, <2>2 DEF RepairTree
<1> QED
  BY <1>7

(* All other steps leave the trees alone, but for the cleaning. *)
LEMMA OtherSteps ==
  ASSUME TypeOK, NEW q \in Run, Step(q)
  PROVE  \/ Generate(q) \/ Write(q) \/ WriteFails(q) \/ Repair(q)
         \/ /\ UNCHANGED <<trees, mode, candidates, pending>>
            /\ pc'[q] \in {"idle", "codegen"} => pc[q] = "idle"
            /\ codegen' = codegen \/ pc[q] = "write"
BY DEF TypeOK, Goto, bundle, Step, SnapshotBefore, NoCodegen, Wrote, Preflight, Recheck, SkipDocker, Docker, Finish, report
-----------------------------------------------------------------------------
(* What a patch may write: what the guard lets pass, or its own documents. *)
Guarded(r, some) ==
  some \subseteq Allowed(candidates[r]) \/ some \subseteq PatchNotes

(* What a run has written to the repository. *)
AuthorOf(r) ==
  /\ pc[r] \in {"idle", "codegen"} => By(r, repo) = {}
  /\ mode[r] = "isolated_workspace" /\ codegen[r] \in {"writing", "completed"} => By(r, repo) = {}
  /\ GeneratedBy(r, repo) # {} => mode[r] = "current_repo_patch"
  /\ mode[r] = "current_repo_patch" =>
       Guarded(r, GeneratedBy(r, repo) \cup pending[r])

Author == \A r \in Run : AuthorOf(r)

(* What putting a file adds to the generated files of the repository. *)
LEMMA PutFileRepo ==
  ASSUME TypeOK, NEW q \in Run, NEW f \in File, NEW content, PutFile(q, f, content)
  PROVE  IF mode[q] = "isolated_workspace"
           THEN repo' = repo
           ELSE GeneratedBy(q, repo') = GeneratedBy(q, repo) \cup {f}
<1>1. CASE mode[q] = "isolated_workspace"
  BY <1>1 DEF PutFile
<1>2. CASE mode[q] # "isolated_workspace"
  <2>1. repo' = [repo EXCEPT ![f] = content] /\ Mine(q, content) /\ content.phase = "codegen"
    BY <1>2 DEF PutFile, Generated
  <2>2. content # Absent /\ content.by = q
    BY <2>1, AbsentAssumption DEF Mine
  <2>3. \A g \in File : repo'[g] = IF g = f THEN content ELSE repo[g]
    BY <2>1 DEF TypeOK, Tree
  <2> QED
    BY <1>2, <2>1, <2>2, <2>3 DEF GeneratedBy, By
<1> QED
  BY <1>1, <1>2

(* A repair adds nothing to them: what it rewrites is marked as repaired. *)
LEMMA RepairRepo ==
  ASSUME TypeOK, NEW q \in Run, NEW tree, RepairTree(q, tree)
  PROVE  /\ Isolated(q) => repo' = repo
         /\ GeneratedBy(q, repo') \subseteq GeneratedBy(q, repo)
<1>1. CASE Isolated(q)
  BY <1>1 DEF RepairTree
<1>2. CASE ~ Isolated(q)
  <2>1. repo' = tree
    BY <1>2 DEF RepairTree
  <2>2. \A f \in File : tree[f] = repo[f] \/ tree[f].phase = "repair"
    BY <1>2 DEF RepairTree, Workspace
  <2> QED
    BY <1>2, <2>1, <2>2 DEF GeneratedBy, By
<1> QED
  BY <1>1, <1>2

(* Author is inductive. *)
LEMMA AuthorStep ==
  ASSUME TypeOK, Order, Author, NEW q \in Run, Step(q)
  PROVE  Author'
<1>1. ASSUME NEW r \in Run \ {q} PROVE AuthorOf(r)'
  <2>1. AuthorOf(r)
    BY DEF Author
  <2>2. /\ pc'[r] = pc[r] /\ mode'[r] = mode[r] /\ codegen'[r] = codegen[r]
        /\ candidates'[r] = candidates[r] /\ pending'[r] = pending[r]
    BY LocalStep
  <2>3. By(r, repo') \subseteq By(r, repo) /\ \A f \in By(r, repo') : repo'[f] = repo[f]
    BY OthersTrees
  <2>4. GeneratedBy(r, repo') \subseteq GeneratedBy(r, repo)
    BY <2>3 DEF GeneratedBy
  <2> QED
    BY <2>1, <2>2, <2>3, <2>4 DEF AuthorOf, Guarded, Allowed
<1>2. AuthorOf(q)'
  <2>1. AuthorOf(q) /\ OrderOf(q)
    BY DEF Author, Order
  <2>2. CASE Generate(q)
    <3>1. repo' = repo /\ pc[q] = "codegen"
      BY <2>2 DEF Generate
    <3>2. By(q, repo') = {} /\ GeneratedBy(q, repo') = {}
      BY <2>1, <3>1 DEF AuthorOf, GeneratedBy
    <3>3. mode'[q] = "current_repo_patch" => Guarded(q, pending[q])'
      <4>1. PICK target \in Mode \ {""} :
              \E chosen \in Candidates(target), proposed \in Proposals \cup {Fallback(target)} :
                /\ mode' = [mode EXCEPT ![q] = target]
                /\ candidates' = [candidates EXCEPT ![q] = chosen]
                /\ pending' = [pending EXCEPT ![q] = Bundle(target, chosen, proposed)]
                /\ files' = [files EXCEPT ![q] = Bundle(target, chosen, proposed)]
        BY <2>2, GenerateSplit
      <4>2. PICK chosen \in Candidates(target), proposed \in Proposals \cup {Fallback(target)} :
                /\ mode' = [mode EXCEPT ![q] = target]
                /\ candidates' = [candidates EXCEPT ![q] = chosen]
                /\ pending' = [pending EXCEPT ![q] = Bundle(target, chosen, proposed)]
        BY <4>1
      <4>3. chosen \in SUBSET Indexed
        BY DEF Candidates
      <4>4. /\ mode'[q] = target /\ candidates'[q] = chosen
            /\ pending'[q] = Bundle(target, chosen, proposed)
        BY <4>2 DEF TypeOK
      <4>5. target = "current_repo_patch" =>
              \/ Bundle(target, chosen, proposed) \subseteq Allowed(chosen)
              \/ Bundle(target, chosen, proposed) = PatchNotes
        BY <4>3, BundleType
      <4> QED
        BY <4>4, <4>5 DEF Guarded, Allowed
    <3> QED
      BY <3>2, <3>3 DEF AuthorOf
  <2>3. ASSUME NEW f \in pending[q], NEW content, PutFile(q, f, content), pc[q] = "write",
               pc'[q] \in {"write", "preflight"}, pending'[q] \subseteq pending[q],
               UNCHANGED <<mode, candidates>>
        PROVE  AuthorOf(q)'
    <3>1. f \in File /\ mode[q] \in Mode
      BY DEF TypeOK
    <3>2. codegen[q] = "writing" /\ mode[q] # "" /\ f \in files[q]
      BY <2>1, <2>3 DEF OrderOf
    <3>3. CASE mode[q] = "isolated_workspace"
      <4>1. repo' = repo
        BY <2>3, <3>3 DEF PutFile
      <4>2. By(q, repo') = {}
        BY <2>1, <3>2, <3>3, <4>1 DEF AuthorOf
      <4> QED
        BY <2>3, <3>3, <4>2 DEF AuthorOf, GeneratedBy
    <3>4. CASE mode[q] = "current_repo_patch"
      <4>1. GeneratedBy(q, repo') = GeneratedBy(q, repo) \cup {f}
        BY <2>3, <3>1, <3>4, PutFileRepo
      <4>2. Guarded(q, GeneratedBy(q, repo) \cup pending[q])
        BY <2>1, <3>4 DEF AuthorOf
      <4>3. Guarded(q, GeneratedBy(q, repo') \cup pending'[q])
        BY <2>3, <4>1, <4>2 DEF Guarded
      <4> QED
        BY <2>1, <2>3, <3>4, <4>1, <4>3 DEF AuthorOf, Guarded, Allowed
    <3> QED
      BY <3>1, <3>2, <3>3, <3>4 DEF Mode
  <2>4. CASE Write(q)
    <3>1. pc[q] = "write" /\ UNCHANGED <<pc, mode, candidates>>
      BY <2>4 DEF Write, report
    <3>2. PICK f \in pending[q], content \in Content :
            PutFile(q, f, content) /\ pending' = [pending EXCEPT ![q] = @ \ {f}]
      BY <2>4, WriteSplit
    <3>3. pending'[q] \subseteq pending[q]
      BY <3>2 DEF TypeOK
    <3> QED
      BY <2>3, <3>1, <3>2, <3>3
  <2>5. CASE WriteFails(q)
    <3>1. pc[q] = "write" /\ pc'[q] = "preflight" /\ UNCHANGED <<mode, candidates>> /\ codegen[q] = "writing"
      BY <2>1, <2>5 DEF WriteFails, report, Goto, TypeOK, OrderOf
    <3>2. pending'[q] \subseteq pending[q]
      BY <2>5 DEF WriteFails, TypeOK
    <3>3. CASE UNCHANGED trees
      BY <2>1, <3>1, <3>2, <3>3 DEF AuthorOf, trees, GeneratedBy, By, Guarded, Allowed
    <3> QED
      BY <2>3, <2>5, <3>1, <3>2, <3>3, WriteFailsSplit
  <2>6. CASE Repair(q)
    <3>1. PICK tree : RepairTree(q, tree)
      BY <2>6, RepairSplit
    <3>2. /\ pc[q] = "repair" /\ pc'[q] = "recheck"
          /\ UNCHANGED <<mode, candidates, codegen, pending>>
      BY <2>6 DEF Repair, report, bundle, Goto, TypeOK
    <3>3. Isolated(q) => repo' = repo
      BY <3>1, RepairRepo
    <3>4. GeneratedBy(q, repo') \subseteq GeneratedBy(q, repo)
      BY <3>1, RepairRepo
    <3>5. codegen[q] # "writing"
      BY <2>1, <3>2 DEF OrderOf
    <3> QED
      BY <2>1, <3>2, <3>3, <3>4, <3>5 DEF AuthorOf, Isolated, Guarded, Allowed
  <2>7. CASE /\ UNCHANGED <<trees, mode, candidates, pending>>
             /\ pc'[q] \in {"idle", "codegen"} => pc[q] = "idle"
             /\ codegen' = codegen \/ pc[q] = "write"
    BY <2>1, <2>7 DEF AuthorOf, OrderOf, trees, GeneratedBy, By, Guarded, Allowed
  <2> QED
    BY <2>2, <2>4, <2>5, <2>6, <2>7, OtherSteps
<1> QED
  BY <1>1, <1>2 DEF Author

(* Author implies the property about the writes. *)
LEMMA AuthorMeansInside ==
  ASSUME Author
  PROVE  WritesStayInside
BY DEF Author, AuthorOf, WritesStayInside, Isolated, Guarded
-----------------------------------------------------------------------------
(* Only Go files are ever unsound. *)
SoundOutside ==
  \A f \in File \ GoFile :
    /\ repo[f] # Absent => repo[f].sound
    /\ \A i \in Id : out[i][f] # Absent => out[i][f].sound

(* Putting a file keeps SoundOutside. *)
LEMMA SoundPut ==
  ASSUME TypeOK, SoundOutside, NEW q \in Run, NEW f \in File, NEW content, PutFile(q, f, content)
  PROVE  SoundOutside'
<1>1. f \notin GoFile => content.sound
  BY DEF PutFile
<1>2. repo \in Tree /\ out \in [Id -> Tree] /\ id[q] \in Id
  BY DEF TypeOK
<1>3. CASE mode[q] = "isolated_workspace"
  <2>1. repo' = repo /\ out' = [out EXCEPT ![id[q]] = [out[id[q]] EXCEPT ![f] = content]]
    BY <1>3 DEF PutFile
  <2>2. \A i \in Id, g \in File :
          out'[i][g] = IF i = id[q] /\ g = f THEN content ELSE out[i][g]
    BY <1>2, <2>1 DEF Tree
  <2> QED
    BY <1>1, <2>1, <2>2 DEF SoundOutside
<1>4. CASE mode[q] # "isolated_workspace"
  <2>1. out' = out /\ repo' = [repo EXCEPT ![f] = content]
    BY <1>4 DEF PutFile
  <2>2. \A g \in File : repo'[g] = IF g = f THEN content ELSE repo[g]
    BY <1>2, <2>1 DEF Tree
  <2> QED
    BY <1>1, <2>1, <2>2 DEF SoundOutside
<1> QED
  BY <1>3, <1>4

(* So does a repair. *)
LEMMA SoundRepair ==
  ASSUME TypeOK, SoundOutside, NEW q \in Run, NEW tree, RepairTree(q, tree)
  PROVE  SoundOutside'
<1>1. CASE Isolated(q)
  <2>1. out' = [out EXCEPT ![id[q]] = tree] /\ repo' = repo
    BY <1>1 DEF RepairTree
  <2>2. \A i \in Id : out'[i] = IF i = id[q] THEN tree ELSE out[i]
    BY <2>1 DEF TypeOK
  <2>3. \A f \in File \ GoFile : tree[f] # Absent => tree[f].sound
    <3>1. SUFFICES ASSUME NEW f \in File \ GoFile, tree[f] # Absent PROVE tree[f].sound
      OBVIOUS
    <3>2. id[q] \in Id
      BY DEF TypeOK
    <3>3. out[id[q]][f] # Absent => out[id[q]][f].sound
      BY <3>2 DEF SoundOutside
    <3>4. \/ tree[f] = out[id[q]][f]
          \/ out[id[q]][f] # Absent /\ (out[id[q]][f].sound => tree[f].sound)
      BY <1>1 DEF RepairTree, Workspace
    <3> QED
      BY <3>1, <3>3, <3>4
  <2> QED
    BY <2>1, <2>2, <2>3 DEF SoundOutside
<1>2. CASE ~ Isolated(q)
  <2>1. out' = out /\ repo' = tree
    BY <1>2 DEF RepairTree
  <2>2. \A f \in File \ GoFile : tree[f] # Absent => tree[f].sound
    <3>1. SUFFICES ASSUME NEW f \in File \ GoFile, tree[f] # Absent PROVE tree[f].sound
      OBVIOUS
    <3>2. repo[f] # Absent => repo[f].sound
      BY DEF SoundOutside
    <3>3. \/ tree[f] = repo[f]
          \/ repo[f] # Absent /\ (repo[f].sound => tree[f].sound)
      BY <1>2 DEF RepairTree, Workspace
    <3> QED
      BY <3>1, <3>2, <3>3
  <2> QED
    BY <2>1, <2>2 DEF SoundOutside
<1> QED
  BY <1>1, <1>2

(* SoundOutside is inductive. *)
LEMMA SoundStep ==
  ASSUME TypeOK, SoundOutside, NEW q \in Run, Step(q)
  PROVE  SoundOutside'
<1>1. CASE Generate(q)
  <2>1. repo' = repo /\ (out' = Cleaned(q) \/ out' = out)
    BY <1>1 DEF Generate
  <2>2. \A i \in Id : out'[i] = NoFiles \/ out'[i] = out[i]
    BY <2>1 DEF Cleaned, TypeOK
  <2>3. \A f \in File : NoFiles[f] = Absent
    BY DEF NoFiles
  <2> QED
    BY <2>1, <2>2, <2>3 DEF SoundOutside
<1>2. CASE Write(q)
  <2>1. PICK f \in pending[q], content \in Content : PutFile(q, f, content)
    BY <1>2, WriteSplit
  <2>2. f \in File
    BY DEF TypeOK
  <2> QED
    BY <2>1, <2>2, SoundPut
<1>3. CASE WriteFails(q)
  <2>1. CASE UNCHANGED trees
    BY <2>1 DEF trees, SoundOutside
  <2>2. CASE \E f \in pending[q], content \in Content : PutFile(q, f, content)
    <3>1. PICK f \in pending[q], content \in Content : PutFile(q, f, content)
      BY <2>2
    <3>2. f \in File
      BY DEF TypeOK
    <3> QED
      BY <3>1, <3>2, SoundPut
  <2> QED
    BY <1>3, <2>1, <2>2, WriteFailsSplit
<1>4. CASE Repair(q)
  BY <1>4, RepairSplit, SoundRepair
<1>5. CASE UNCHANGED trees
  BY <1>5 DEF trees, SoundOutside
<1> QED
  BY <1>1, <1>2, <1>3, <1>4, <1>5, OtherSteps DEF trees
-----------------------------------------------------------------------------
(* A preflight that passed has seen the bundle of its run. *)
PassedOf(r) ==
  verdict[r] = "passed" =>
    \A f \in files[r] \cap By(r, Workspace(r, Isolated(r))) : Workspace(r, Isolated(r))[f].sound

Passed == \A r \in Run : PassedOf(r)

(* A check that may pass finds the files of the bundle sound. *)
LEMMA PassedNow ==
  ASSUME TypeOK, Order, SoundOutside, NEW q \in Run, pc[q] \in {"preflight", "recheck"},
         Unsound(q) = {}
  PROVE  \A f \in files[q] \cap By(q, Workspace(q, Isolated(q))) :
           Workspace(q, Isolated(q))[f].sound
<1> DEFINE w == Workspace(q, Isolated(q))
<1>1. SUFFICES ASSUME NEW f \in files[q], w[f] # Absent PROVE w[f].sound
  BY DEF By
<1>2. f \in File
  BY DEF TypeOK
<1>3. CASE f \in GoFile
  <2>1. codegen[q] = "completed" /\ targets[q] = Scope(mode[q], candidates[q], files[q])
    BY <1>1 DEF Order, OrderOf, TypeOK
  <2>2. Dir[f] \in PackagesOf(files[q])
    BY <1>1, <1>3 DEF PackagesOf
  <2>3. Dir[f] \in targets[q]
    BY <2>1, <2>2 DEF Scope
  <2>4. f \notin Unsound(q)
    OBVIOUS
  <2> QED
    BY <1>1, <1>3, <2>3, <2>4 DEF Unsound
<1>4. CASE f \notin GoFile
  <2>1. id[q] \in Id
    BY DEF TypeOK
  <2> QED
    BY <1>1, <1>2, <1>4, <2>1 DEF SoundOutside, Workspace
<1> QED
  BY <1>3, <1>4

(* Passed is inductive. *)
LEMMA PassedStep ==
  ASSUME TypeOK, Order, SoundOutside, Passed, NEW q \in Run, Step(q)
  PROVE  Passed'
<1>1. ASSUME NEW r \in Run \ {q} PROVE PassedOf(r)'
  <2>1. /\ verdict'[r] = verdict[r] /\ files'[r] = files[r] /\ id' = id
        /\ mode'[r] = mode[r] /\ codegen'[r] = codegen[r]
    BY LocalStep
  <2>2. id[r] \in Id
    BY DEF TypeOK
  <2>3. Isolated(r)' = Isolated(r)
    BY <2>1 DEF Isolated
  <2>4. /\ By(r, Workspace(r, Isolated(r))') \subseteq By(r, Workspace(r, Isolated(r)))
        /\ \A f \in By(r, Workspace(r, Isolated(r))') :
             Workspace(r, Isolated(r))'[f] = Workspace(r, Isolated(r))[f]
    <3>1. CASE Isolated(r)
      <4>1. Workspace(r, Isolated(r))' = out'[id[r]] /\ Workspace(r, Isolated(r)) = out[id[r]]
        BY <2>1, <2>3, <3>1 DEF Workspace
      <4> QED
        BY <2>2, <4>1, OthersTrees
    <3>2. CASE ~ Isolated(r)
      <4>1. Workspace(r, Isolated(r))' = repo' /\ Workspace(r, Isolated(r)) = repo
        BY <2>1, <2>3, <3>2 DEF Workspace
      <4> QED
        BY <4>1, OthersTrees
    <3> QED
      BY <3>1, <3>2
  <2>5. PassedOf(r)
    BY DEF Passed
  <2>6. By(r, Workspace(r, Isolated(r)))' = By(r, Workspace(r, Isolated(r))')
    BY DEF By
  <2> QED
    BY <2>1, <2>4, <2>5, <2>6 DEF PassedOf
<1>2. PassedOf(q)'
  <2>1. SUFFICES ASSUME verdict'[q] = "passed"
                 PROVE  \A f \in (files[q] \cap By(q, Workspace(q, Isolated(q))))' :
                          (Workspace(q, Isolated(q))[f].sound)'
    BY DEF PassedOf
  <2>2. UNCHANGED <<trees, id, mode, codegen, files>> =>
          /\ (files[q] \cap By(q, Workspace(q, Isolated(q))))' = files[q] \cap By(q, Workspace(q, Isolated(q)))
          /\ Workspace(q, Isolated(q))' = Workspace(q, Isolated(q))
    BY DEF By, Workspace, Isolated, trees
  <2>3. ASSUME pc[q] \in {"preflight", "recheck"}, Unsound(q) = {},
               UNCHANGED <<trees, id, mode, codegen, files>>
        PROVE  \A f \in (files[q] \cap By(q, Workspace(q, Isolated(q))))' :
                          (Workspace(q, Isolated(q))[f].sound)'
    BY <2>2, <2>3, PassedNow
  <2>4. CASE Preflight(q) \/ Recheck(q)
    <3>1. pc[q] \in {"preflight", "recheck"} /\ UNCHANGED <<trees, id, mode, codegen, files>>
      BY <2>4 DEF Preflight, Recheck, report, bundle
    <3>2. \E result \in Checked(q) : verdict' = [verdict EXCEPT ![q] = result]
      BY <2>4 DEF Preflight, Recheck
    <3>3. Unsound(q) = {}
      BY <2>1, <3>2 DEF Checked, TypeOK
    <3> QED
      BY <2>3, <3>1, <3>3
  <2>5. CASE ~ (Preflight(q) \/ Recheck(q))
    <3>1. verdict' = verdict
      BY <2>5 DEF Step, SnapshotBefore, NoCodegen, Generate, Write, Wrote, WriteFails, Repair,
                  SkipDocker, Docker, Finish, checks
    <3>2. pc[q] \in {"docker", "after", "done"}
      BY <2>1, <3>1 DEF Order, OrderOf
    <3>3. SkipDocker(q) \/ Docker(q) \/ Finish(q)
      BY <2>5, <3>2 DEF Step, SnapshotBefore, NoCodegen, Generate, Write, Wrote, WriteFails, Repair
    <3>4. UNCHANGED <<trees, id, mode, codegen, files>>
      BY <3>3 DEF SkipDocker, Docker, Finish, report, bundle
    <3>5. PassedOf(q) /\ verdict[q] = "passed"
      BY <2>1, <3>1 DEF Passed
    <3> QED
      BY <2>2, <3>4, <3>5 DEF PassedOf
  <2> QED
    BY <2>4, <2>5
<1> QED
  BY <1>1, <1>2 DEF Passed
-----------------------------------------------------------------------------
(* What a step that is none of the writing ones leaves alone. *)
LEMMA QuietSteps ==
  ASSUME TypeOK, NEW q \in Run, Step(q)
  PROVE  /\ id' = id
         /\ \/ Generate(q) \/ Write(q) \/ WriteFails(q) \/ Repair(q)
            \/ UNCHANGED <<trees, mode, pending, files>>
BY DEF Step, SnapshotBefore, NoCodegen, Generate, Write, Wrote, WriteFails, Preflight, Repair,
       Recheck, SkipDocker, Docker, Finish, report, bundle

(* A bundle is only cleared away by a run with the same ID. *)
LEMMA SurvivesStep ==
  ASSUME TypeOK, BundleSurvives, NEW q \in Run, Step(q)
  PROVE  BundleSurvives'
<1> DEFINE Kept(r) == SoleOwner(r) /\ mode[r] = "isolated_workspace" =>
                        files[r] \ pending[r] \subseteq By(r, out[id[r]])
<1>1. id' = id
  BY QuietSteps
<1>2. \A r \in Run : SoleOwner(r)' = SoleOwner(r)
  BY <1>1 DEF SoleOwner
<1>3. ASSUME NEW r \in Run \ {q} PROVE Kept(r)'
  <2>1. mode'[r] = mode[r] /\ pending'[r] = pending[r] /\ files'[r] = files[r]
    BY LocalStep
  <2>2. SoleOwner(r) => id[q] # id[r]
    BY DEF SoleOwner
  <2>3. SoleOwner(r) => out'[id[r]] = out[id[r]]
    BY <2>2, TreeStep DEF Effect, TypeOK
  <2>4. Kept(r)
    BY DEF BundleSurvives
  <2>5. SoleOwner(r) => By(r, out[id[r]])' = By(r, out[id[r]])
    BY <1>1, <2>3 DEF By
  <2> QED
    BY <1>2, <2>1, <2>4, <2>5
<1>4. Kept(q)'
  <2>1. SUFFICES ASSUME SoleOwner(q), mode'[q] = "isolated_workspace"
                 PROVE  (files[q] \ pending[q] \subseteq By(q, out[id[q]]))'
    BY <1>2
  <2>2. id[q] \in Id /\ out[id[q]] \in Tree
    BY DEF TypeOK
  <2>3. mode[q] = "isolated_workspace" => files[q] \ pending[q] \subseteq By(q, out[id[q]])
    BY <2>1 DEF BundleSurvives
  <2>4. CASE Generate(q)
    <3>1. PICK some : /\ pending' = [pending EXCEPT ![q] = some]
                      /\ files' = [files EXCEPT ![q] = some]
      BY <2>4 DEF Generate
    <3>2. files'[q] = pending'[q]
      BY <3>1 DEF TypeOK
    <3> QED
      BY <3>2
  <2>5. CASE Write(q)
    <3>1. PICK f \in pending[q], content \in Content :
            PutFile(q, f, content) /\ pending' = [pending EXCEPT ![q] = @ \ {f}]
      BY <2>5, WriteSplit
    <3>2. files' = files /\ mode' = mode
      BY <2>5 DEF Write, report
    <3>3. out' = [out EXCEPT ![id[q]] = [out[id[q]] EXCEPT ![f] = content]]
      BY <2>1, <3>1, <3>2 DEF PutFile
    <3>4. content # Absent /\ content.by = q
      BY <3>1, AbsentAssumption DEF PutFile, Generated, Mine
    <3>5. \A g \in File : out'[id[q]][g] = IF g = f THEN content ELSE out[id[q]][g]
      BY <2>2, <3>3 DEF TypeOK, Tree
    <3>6. f \in File /\ pending'[q] = pending[q] \ {f} /\ files[q] \subseteq File
      BY <3>1 DEF TypeOK
    <3> QED
      BY <1>1, <2>1, <2>3, <3>2, <3>4, <3>5, <3>6 DEF By
  <2>6. CASE WriteFails(q)
    <3>1. files'[q] = {}
      BY <2>6 DEF WriteFails, TypeOK
    <3> QED
      BY <3>1
  <2>7. CASE Repair(q)
    <3>1. PICK tree : RepairTree(q, tree)
      BY <2>7, RepairSplit
    <3>2. UNCHANGED <<mode, files, pending, codegen>>
      BY <2>7 DEF Repair, report, bundle
    <3>3. By(q, out[id[q]]) \subseteq By(q, out'[id[q]])
      <4>1. CASE Isolated(q)
        <5>1. out'[id[q]] = tree
          BY <2>2, <3>1, <4>1 DEF RepairTree, TypeOK
        <5>2. \A f \in File : tree[f] = out[id[q]][f] \/ (tree[f] \in Content /\ tree[f].by = q)
          BY <3>1, <4>1 DEF RepairTree, Workspace, Mine
        <5> QED
          BY <5>1, <5>2, AbsentAssumption DEF By
      <4>2. CASE ~ Isolated(q)
        BY <3>1, <4>2 DEF RepairTree
      <4> QED
        BY <4>1, <4>2
    <3>4. By(q, out[id[q]])' = By(q, out'[id[q]])
      BY <1>1 DEF By
    <3> QED
      BY <2>1, <2>3, <3>2, <3>3, <3>4
  <2>8. CASE UNCHANGED <<trees, mode, pending, files>>
    BY <1>1, <2>1, <2>3, <2>8 DEF trees, By
  <2> QED
    BY <2>4, <2>5, <2>6, <2>7, <2>8, QuietSteps
<1> QED
  BY <1>3, <1>4 DEF BundleSurvives
-----------------------------------------------------------------------------
(* A snapshot before a run holds nothing that run has written. *)
BeforeOf(r) ==
  before[r] # NoManifest => \A f \in Tracked : before[r][f] = Absent \/ before[r][f].by # r

Before == \A r \in Run : BeforeOf(r)

(* Before is inductive: a run that takes its snapshot has written nothing. *)
LEMMA BeforeStep ==
  ASSUME TypeOK, Author, Before, NEW q \in Run, Step(q)
  PROVE  Before'
<1>1. ASSUME NEW r \in Run \ {q} PROVE BeforeOf(r)'
  BY LocalStep DEF Before, BeforeOf
<1>2. BeforeOf(q)'
  <2>1. BeforeOf(q) /\ AuthorOf(q)
    BY DEF Before, Author
  <2>2. CASE before' = [before EXCEPT ![q] = Snap!Capture(repo, {})] /\ pc[q] = "idle"
    <3>1. before'[q] = Snap!Capture(repo, {}) /\ repo \in Tree
      BY <2>2 DEF TypeOK
    <3>2. \A f \in Tracked : before'[q][f] = repo[f]
      BY <3>1, CaptureType
    <3>3. By(q, repo) = {}
      BY <2>1, <2>2 DEF AuthorOf
    <3> QED
      BY <3>2, <3>3, FileAssumption DEF BeforeOf, By
  <2>3. CASE before' = before
    BY <2>1, <2>3 DEF BeforeOf
  <2> QED
    BY <2>2, <2>3 DEF Step, SnapshotBefore, NoCodegen, Generate, Write, Wrote, WriteFails,
                      Preflight, Repair, Recheck, SkipDocker, Docker, Finish, report
<1> QED
  BY <1>1, <1>2 DEF Before

(* What a run has changed shows in the difference of its snapshots. *)
LEMMA OfferedStep ==
  ASSUME TypeOK, Order, Before, RollbackOffered, NEW q \in Run, Step(q)
  PROVE  RollbackOffered'
<1> DEFINE Offered(r) ==
      after[r] /\ pc[r] = "done" /\ By(r, repo) \cap Tracked # {} => "rollback" \in offered[r]
<1>1. ASSUME NEW r \in Run \ {q} PROVE Offered(r)'
  <2>1. pc'[r] = pc[r] /\ after'[r] = after[r] /\ offered'[r] = offered[r]
    BY LocalStep
  <2>2. By(r, repo') \subseteq By(r, repo)
    BY OthersTrees
  <2>3. Offered(r)
    BY DEF RollbackOffered
  <2>4. By(r, repo)' = By(r, repo')
    BY DEF By
  <2> QED
    BY <2>1, <2>2, <2>3, <2>4
<1>2. Offered(q)'
  <2>1. SUFFICES ASSUME after'[q], pc'[q] = "done", By(q, repo') \cap Tracked # {}
                 PROVE  "rollback" \in offered'[q]
    BY DEF By
  <2>2. Finish(q)
    <3>1. pc[q] # "done"
      BY DEF Step, SnapshotBefore, NoCodegen, Generate, Write, Wrote, WriteFails, Preflight,
             Repair, Recheck, SkipDocker, Docker, Finish
    <3> QED
      BY <2>1, <3>1, ZenonT(20) DEF TypeOK, Goto, Step, SnapshotBefore, NoCodegen, Generate, Write, Wrote,
             WriteFails, Preflight, Repair, Recheck, SkipDocker, Docker
  <2>3. repo' = repo /\ repo \in Tree
    BY <2>2 DEF Finish, TypeOK, trees
  <2> DEFINE now == Snap!Capture(repo, {})
             actions(saved) ==
               {a \in {"rollback", "repair"} :
                  IF a = "repair" THEN verdict[q] = "failed"
                  ELSE saved /\ Difference(q, now) # {}}
  <2>4. PICK saved \in BOOLEAN : /\ saved => before[q] # NoManifest
                                 /\ after' = [after EXCEPT ![q] = saved]
                                 /\ offered' = [offered EXCEPT ![q] = actions(saved)]
    BY <2>2, Zenon DEF Finish
  <2>5. after'[q] = saved
    BY <2>4, Zenon DEF TypeOK
  <2>6. saved /\ before[q] # NoManifest
    BY <2>1, <2>4, <2>5, Zenon
  <2>7. Difference(q, now) # {}
    <3>1. PICK f \in Tracked : repo[f] # Absent /\ repo[f].by = q
      BY <2>1, <2>3 DEF By
    <3>2. now[f] = repo[f]
      BY <2>3, CaptureType
    <3>3. before[q][f] = Absent \/ before[q][f] # repo[f]
      BY <2>6, <3>1 DEF Before, BeforeOf
    <3> HIDE DEF now
    <3>4. f \in Difference(q, now)
      BY <3>1, <3>2, <3>3 DEF Difference, Snap!Changed, Snap!Compare, Snap!Recorded
    <3> QED
      BY <3>4
  <2>8. "rollback" \in actions(saved)
    BY <2>6, <2>7
  <2> HIDE DEF actions
  <2>9. offered'[q] = actions(saved)
    BY <2>4, Zenon DEF TypeOK
  <2> QED
    BY <2>8, <2>9
<1> QED
  BY <1>1, <1>2 DEF RollbackOffered
-----------------------------------------------------------------------------
(* The inductive invariant.  Each of its parts is needed by a later one:   *)
(* that no file is of a run before its code generation (Author) makes its  *)
(* first snapshot free of them (Before), and so a difference visible.      *)
PipelineInv ==
  /\ TypeOK /\ Rounds /\ Order /\ Author /\ SoundOutside /\ Passed
  /\ BundleSurvives /\ Before /\ RollbackOffered

(* The invariant holds at the start. *)
LEMMA PipelineInit ==
  ASSUME Init
  PROVE  Order /\ Author /\ SoundOutside /\ Passed /\ BundleSurvives /\ Before /\ RollbackOffered
<1>1. \A r \in Run : By(r, repo) = {}
  <2>1. \A f \in File : repo[f] # Absent => repo[f].by = Nobody
    BY DEF Init
  <2> QED
    BY <2>1, RunAssumption DEF By
<1>2. Order
  BY DEF Init, Order, OrderOf
<1>3. Author
  BY <1>1 DEF Init, Author, AuthorOf, GeneratedBy, Guarded
<1>4. SoundOutside
  BY DEF Init, SoundOutside, NoFiles
<1>5. Passed /\ BundleSurvives
  BY DEF Init, Passed, PassedOf, BundleSurvives
<1>6. Before /\ RollbackOffered
  BY DEF Init, Before, BeforeOf, RollbackOffered
<1> QED
  BY <1>2, <1>3, <1>4, <1>5, <1>6

(* The invariant holds in every behaviour. *)
LEMMA PipelineInvariant == Spec => []PipelineInv
<1>1. Init => Order /\ Author /\ SoundOutside /\ Passed /\ BundleSurvives /\ Before /\ RollbackOffered
  BY PipelineInit
<1> DEFINE Rest == Order /\ Author /\ SoundOutside /\ Passed /\ BundleSurvives /\ Before /\ RollbackOffered
<1>2. TypeOK /\ Rounds /\ Rest /\ [Next]_vars => Rest'
  <2> SUFFICES ASSUME TypeOK, Rounds, Rest, [Next]_vars PROVE Rest'
    OBVIOUS
  <2>1. CASE Next
    <3>1. PICK q \in Run : Step(q)
      BY <2>1 DEF Next
    <3>2. Order' /\ Author'
      BY <3>1, OrderStep, AuthorStep
    <3>3. SoundOutside' /\ Passed'
      BY <3>1, SoundStep, PassedStep
    <3>4. BundleSurvives' /\ Before' /\ RollbackOffered'
      BY <3>1, SurvivesStep, BeforeStep, OfferedStep
    <3> QED
      BY <3>2, <3>3, <3>4
  <2>2. CASE UNCHANGED vars
    <3> USE <2>2 DEF vars, trees, report, bundle, checks
    <3>1. Order'
      BY ZenonT(20) DEF Order, OrderOf, Allowed
    <3>2. Author'
      BY DEF Author, AuthorOf, GeneratedBy, By, Guarded, Allowed
    <3>3. SoundOutside'
      BY DEF SoundOutside
    <3>4. Passed'
      BY DEF Passed, PassedOf, By, Workspace, Isolated
    <3>5. BundleSurvives'
      BY DEF BundleSurvives, SoleOwner, By
    <3>6. Before' /\ RollbackOffered'
      BY DEF Before, BeforeOf, RollbackOffered, By
    <3> QED
      BY <3>1, <3>2, <3>3, <3>4, <3>5, <3>6
  <2> QED
    BY <2>1, <2>2
<1>3. TypeOK /\ Rounds /\ [Next]_vars => (TypeOK /\ Rounds)'
  BY TypeKept
<1>4. Init => TypeOK /\ Rounds
  BY TypeInit
<1>5. Rest /\ TypeOK /\ Rounds => PipelineInv
  BY DEF PipelineInv
<1> HIDE DEF Rest
<1>6. Init => Rest
  BY <1>1 DEF Rest
<1> QED
  BY <1>2, <1>3, <1>4, <1>5, <1>6, PTL DEF Spec

(* Generated code of a patch stays within its candidates and documents and *)
(* tests beside them, or is the two documents of the fallback, and an      *)
(* isolated run changes nothing in the repository (codegen.go:113-118,     *)
(* 178-192, 595-641, 800-854).                                             *)
THEOREM WritesStayInsideCorrect == Spec => []WritesStayInside
<1>1. PipelineInv => WritesStayInside
  BY AuthorMeansInside DEF PipelineInv
<1> QED
  BY <1>1, PipelineInvariant, PTL

(* A run that changed a tracked file offers a rollback when it ends with   *)
(* both snapshots saved (service.go:525-551, 1214, 1228-1240).             *)
THEOREM RollbackOfferedCorrect == Spec => []RollbackOffered
<1>1. PipelineInv => RollbackOffered
  BY DEF PipelineInv
<1> QED
  BY <1>1, PipelineInvariant, PTL

(* A preflight that passed has seen every file of the bundle               *)
(* (validation_scope.go:10-48, service.go:454-485).                        *)
THEOREM PassedMeansSoundCorrect == Spec => []PassedMeansSound
<1>1. PipelineInv => PassedMeansSound
  BY DEF PipelineInv, Passed, PassedOf, PassedMeansSound
<1> QED
  BY <1>1, PipelineInvariant, PTL

(* The files of an isolated run stay in its workspace unless another run   *)
(* has the same ID (codegen.go:178-184, 523-528).                          *)
THEOREM BundleSurvivesCorrect == Spec => []BundleSurvives
<1>1. PipelineInv => BundleSurvives
  BY DEF PipelineInv
<1> QED
  BY <1>1, PipelineInvariant, PTL
=============================================================================
