------------------------------ MODULE Pipeline ------------------------------
(***************************************************************************)
(* What the phases of Execute (companion/service.go) do to the workspace:  *)
(* code generation (companion/codegen.go), the scope of the validation     *)
(* (companion/validation_scope.go), preflight, repair, Docker validation   *)
(* and the actions offered at the end.  Runs execute concurrently on one   *)
(* repository; a run in isolated mode writes below an output directory     *)
(* named after its ID, which it shares with the runs of the same second.   *)
(*                                                                         *)
(* Of a file only the run and phase that wrote it last are kept, and       *)
(* whether it is sound: a file that is not makes the checks of its package *)
(* fail, and nothing makes them pass for certain.  Models, providers and   *)
(* parsing are abstracted to the set of files proposed, which              *)
(* normalizeCodeBundlePayload keeps from being empty.  The rounds of a     *)
(* repair and their termination are in RepairLoop, a capture file by file  *)
(* and the rollback in Rollback; here a capture is one step.               *)
(***************************************************************************)
EXTENDS Naturals

CONSTANTS
  Run,         \* requests that execute a goal
  Id,          \* run IDs: the second a run started in
  File,        \* paths, relative to the root of a workspace
  GoFile,      \* those that end in .go
  Tracked,     \* those a snapshot captures
  Auxiliary,   \* documents and tests: .md, .txt, .json, _test.go
  Indexed,     \* those that may become patch candidates
  Initial,     \* those the repository has at the start
  Dir,         \* the directory of each path
  Module,      \* go.mod, which go mod tidy rewrites
  PatchNotes,  \* PATCH_PLAN.md and NEXT_STEPS.md: the fallback for a patch
  Scaffold,    \* the files of the fallback for an isolated workspace
  Nobody,      \* the author of the files at the start
  Absent,      \* there is no such file
  NoManifest,  \* a snapshot that failed or is disabled
  MaxRounds,   \* Runtime.AutoRepairRounds
  Proposable,  \* bound on the files a provider proposes
  MaxFaults    \* bound on what goes wrong: snapshots, writes, files, checks

ASSUME FileAssumption ==
  /\ GoFile \subseteq File /\ Tracked \subseteq File /\ Auxiliary \subseteq File
  /\ Indexed \subseteq Tracked /\ Initial \subseteq File
  /\ Module \in File \ GoFile /\ PatchNotes \subseteq File /\ PatchNotes # {}
  /\ Scaffold \subseteq File /\ Scaffold # {} /\ Proposable \subseteq File

ASSUME RunAssumption == Nobody \notin Run

ASSUME BoundAssumption == MaxRounds \in Nat /\ MaxFaults \in Nat

Package == {Dir[f] : f \in File}

Content == [by : Run \cup {Nobody}, phase : {"start", "codegen", "repair"}, sound : BOOLEAN]

ASSUME AbsentAssumption == Absent \notin Content

Tree == [File -> Content \cup {Absent}]

Snap == INSTANCE Snapshot WITH Path <- File, Candidate <- Tracked

ASSUME ManifestAssumption == NoManifest \notin Snap!Manifest

VARIABLES
  repo,        \* s.root
  out,         \* the output directory of each ID
  pc,          \* the next phase of each run
  id,          \* runID
  before,      \* beforeSnapshot
  mode,        \* TargetMode, "" without code generation
  candidates,  \* PatchCandidates of a patch
  pending,     \* the files persistCodeBundle has yet to write
  files,       \* Files of the CodeGenerationReport
  codegen,     \* its Status
  targets,     \* validationTargets, empty for ./...
  verdict,     \* the latest preflight report
  round,       \* repair rounds so far
  sandbox,     \* the SandboxValidation
  after,       \* whether AfterPath is set
  offered,     \* the actions of the report
  faults       \* what went wrong so far

trees == <<repo, out>>

report == <<id, before, mode, candidates>>

bundle == <<pending, files, codegen, targets>>

checks == <<verdict, round, sandbox, after, offered>>

vars == <<trees, pc, report, bundle, checks, faults>>

Phase == {"idle", "codegen", "write", "preflight", "repair", "recheck", "docker", "after", "done"}

Mode == {"", "isolated_workspace", "current_repo_patch"}

TypeOK ==
  /\ repo \in Tree
  /\ out \in [Id -> Tree]
  /\ pc \in [Run -> Phase]
  /\ id \in [Run -> Id]
  /\ before \in [Run -> Snap!Manifest \cup {NoManifest}]
  /\ mode \in [Run -> Mode]
  /\ candidates \in [Run -> SUBSET Indexed]
  /\ pending \in [Run -> SUBSET File]
  /\ files \in [Run -> SUBSET File]
  /\ codegen \in [Run -> {"skipped", "writing", "completed", "failed"}]
  /\ targets \in [Run -> SUBSET Package]
  /\ verdict \in [Run -> {"none", "passed", "failed"}]
  /\ round \in [Run -> 0 .. MaxRounds]
  /\ sandbox \in [Run -> {"none", "no go changes", "unavailable", "completed", "failed"}]
  /\ after \in [Run -> BOOLEAN]
  /\ offered \in [Run -> SUBSET {"rollback", "repair"}]
  /\ faults \in 0 .. MaxFaults

NoFiles == [f \in File |-> Absent]

Init ==
  /\ repo = [f \in File |-> IF f \in Initial
                              THEN [by |-> Nobody, phase |-> "start", sound |-> TRUE] ELSE Absent]
  /\ out = [i \in Id |-> NoFiles]
  /\ pc = [r \in Run |-> "idle"]
  /\ id \in [Run -> Id]
  /\ before = [r \in Run |-> NoManifest]
  /\ mode = [r \in Run |-> ""]
  /\ candidates = [r \in Run |-> {}]
  /\ pending = [r \in Run |-> {}]
  /\ files = [r \in Run |-> {}]
  /\ codegen = [r \in Run |-> "skipped"]
  /\ targets = [r \in Run |-> {}]
  /\ verdict = [r \in Run |-> "none"]
  /\ round = [r \in Run |-> 0]
  /\ sandbox = [r \in Run |-> "none"]
  /\ after = [r \in Run |-> FALSE]
  /\ offered = [r \in Run |-> {}]
  /\ faults = 0

Goto(r, phase) == pc' = [pc EXCEPT ![r] = phase]

(* Whether something goes wrong in a step. *)
Fault(wrong) ==
  /\ wrong => faults < MaxFaults
  /\ faults' = IF wrong THEN faults + 1 ELSE faults
-----------------------------------------------------------------------------
(* createSnapshot("before"); the run goes on without one. *)
SnapshotBefore(r) ==
  /\ pc[r] = "idle"
  /\ \/ before' = [before EXCEPT ![r] = Snap!Capture(repo, {})] /\ Fault(FALSE)
     \/ UNCHANGED before /\ Fault(TRUE)
  /\ Goto(r, "codegen")
  /\ UNCHANGED <<trees, id, mode, candidates, bundle, checks>>

(* The plan asks for no code. *)
NoCodegen(r) ==
  /\ pc[r] = "codegen"
  /\ Goto(r, "preflight")
  /\ UNCHANGED <<trees, report, bundle, checks, faults>>

(* buildPatchCandidates: files of the repository that exist, for a patch.  *)
(* Those of an isolated run are only shown, and are left out.              *)
Candidates(target) ==
  IF target = "current_repo_patch" THEN SUBSET {f \in Indexed : repo[f] # Absent} ELSE {{}}

(* The files restrictCodeBundlePayload lets a patch write. *)
Allowed(chosen) == chosen \cup {f \in Auxiliary : \E c \in chosen : Dir[f] = Dir[c]}

(* A mistake: a test or document may be written to any directory. *)
BundleAnywhere(target, chosen, proposed) ==
  IF target # "current_repo_patch" THEN proposed
  ELSE IF proposed \cap (chosen \cup Auxiliary) = {} THEN PatchNotes
  ELSE proposed \cap (chosen \cup Auxiliary)

(* When the guard rejects every file, the fallback is written instead. *)
Bundle(target, chosen, proposed) ==
  IF target # "current_repo_patch" THEN proposed
  ELSE IF proposed \cap Allowed(chosen) = {} THEN PatchNotes
  ELSE proposed \cap Allowed(chosen)

(* A mistake: the whole generated root is removed. *)
CleanedAll(r) == [i \in Id |-> NoFiles]

(* RemoveAll of the output directory. *)
Cleaned(r) == [out EXCEPT ![id[r]] = NoFiles]

(* What a provider may answer. *)
Proposals == SUBSET Proposable \ {{}}

(* fallbackCodeBundle, when no provider gave files. *)
Fallback(target) == IF target = "current_repo_patch" THEN PatchNotes ELSE Scaffold

Generate(r) ==
  /\ pc[r] = "codegen"
  /\ \E target \in Mode \ {""} :
       \E chosen \in Candidates(target), proposed \in Proposals \cup {Fallback(target)} :
         /\ mode' = [mode EXCEPT ![r] = target]
         /\ candidates' = [candidates EXCEPT ![r] = chosen]
         /\ pending' = [pending EXCEPT ![r] = Bundle(target, chosen, proposed)]
         /\ files' = [files EXCEPT ![r] = Bundle(target, chosen, proposed)]
         /\ out' = IF target = "isolated_workspace" THEN Cleaned(r) ELSE out
  /\ codegen' = [codegen EXCEPT ![r] = "writing"]
  /\ Goto(r, "write")
  /\ UNCHANGED <<repo, id, before, targets, checks, faults>>

(* The tree of run r's executionRoot, and a change to it. *)
Workspace(r, isolated) == IF isolated THEN out[id[r]] ELSE repo

Put(r, isolated, tree) ==
  IF isolated THEN out' = [out EXCEPT ![id[r]] = tree] /\ UNCHANGED repo
              ELSE repo' = tree /\ UNCHANGED out

Written(r, sound) == [by |-> r, phase |-> "codegen", sound |-> sound]

(* persistCodeBundle writes its files one after the other. *)
Write(r) ==
  /\ pc[r] = "write"
  /\ LET isolated == mode[r] = "isolated_workspace"
     IN  \E f \in pending[r], sound \in BOOLEAN :
           /\ f \notin GoFile => sound
           /\ Fault(~sound)
           /\ Put(r, isolated, [Workspace(r, isolated) EXCEPT ![f] = Written(r, sound)])
           /\ pending' = [pending EXCEPT ![r] = @ \ {f}]
  /\ UNCHANGED <<pc, report, files, codegen, targets, checks>>

PackagesOf(some) == {Dir[f] : f \in some \cap GoFile}

(* Mistakes: the targets are files, or the candidates' packages come first. *)
ScopeOfFiles(target, chosen, written) == written \cap GoFile

ScopeOfCandidates(target, chosen, written) ==
  IF target = "current_repo_patch" THEN PackagesOf(chosen) ELSE PackagesOf(written)

(***************************************************************************)
(* resolveValidationTargets: the packages of the files that were written,  *)
(* or for a patch without Go files those of the candidates.                *)
(***************************************************************************)
Scope(target, chosen, written) ==
  IF PackagesOf(written) # {} THEN PackagesOf(written)
  ELSE IF target = "current_repo_patch" THEN PackagesOf(chosen) ELSE {}

(* Every file and the manifest of the bundle are written. *)
Wrote(r) ==
  /\ pc[r] = "write"
  /\ pending[r] = {}
  /\ codegen' = [codegen EXCEPT ![r] = "completed"]
  /\ targets' = [targets EXCEPT ![r] = Scope(mode[r], candidates[r], files[r])]
  /\ Goto(r, "preflight")
  /\ UNCHANGED <<trees, report, pending, files, checks, faults>>

(***************************************************************************)
(* A directory, a file or the manifest cannot be written.  The files       *)
(* already written stay, one of them perhaps truncated, but the report     *)
(* lists none, and the checks that follow take the repository for the      *)
(* workspace, whatever the mode.                                           *)
(***************************************************************************)
WriteFails(r) ==
  /\ pc[r] = "write"
  /\ Fault(TRUE)
  /\ \/ UNCHANGED trees
     \/ LET isolated == mode[r] = "isolated_workspace"
        IN  \E f \in pending[r] :
              Put(r, isolated, [Workspace(r, isolated) EXCEPT ![f] = Written(r, f \notin GoFile)])
  /\ codegen' = [codegen EXCEPT ![r] = "failed"]
  /\ files' = [files EXCEPT ![r] = {}]
  /\ pending' = [pending EXCEPT ![r] = {}]
  /\ targets' = [targets EXCEPT ![r] = Scope(mode[r], candidates[r], {})]
  /\ Goto(r, "preflight")
  /\ UNCHANGED <<report, checks>>
-----------------------------------------------------------------------------
(* executionRoot is the output directory of an isolated bundle. *)
Isolated(r) == mode[r] = "isolated_workspace" /\ codegen[r] = "completed"

Unsound(r) ==
  {f \in GoFile : /\ Workspace(r, Isolated(r))[f] # Absent
                  /\ ~ Workspace(r, Isolated(r))[f].sound
                  /\ targets[r] = {} \/ Dir[f] \in targets[r]}

(* go test and go vet in the targets; they fail for other reasons, too. *)
Checked(r) == IF Unsound(r) = {} THEN {"passed", "failed"} ELSE {"failed"}

Preflight(r) ==
  /\ pc[r] = "preflight"
  /\ \E result \in Checked(r) :
       /\ verdict' = [verdict EXCEPT ![r] = result]
       /\ Fault(result = "failed" /\ Unsound(r) = {})
       /\ Goto(r, IF result = "failed" /\ MaxRounds > 0 THEN "repair" ELSE "docker")
  /\ UNCHANGED <<trees, report, bundle, round, sandbox, after, offered>>

(* gofmt and goimports rewrite Go files in any package, go mod tidy go.mod. *)
Repaired(r, rewritten, healed) ==
  [f \in File |->
     IF f \in rewritten
       THEN [by |-> r, phase |-> "repair", sound |-> f \in healed \/ Workspace(r, Isolated(r))[f].sound]
       ELSE Workspace(r, Isolated(r))[f]]

Repair(r) ==
  /\ pc[r] = "repair"
  /\ round' = [round EXCEPT ![r] = @ + 1]
  /\ \E rewritten \in SUBSET {f \in GoFile \cup {Module} : Workspace(r, Isolated(r))[f] # Absent} :
       \E healed \in SUBSET rewritten :
         Put(r, Isolated(r), Repaired(r, rewritten, healed))
  /\ Goto(r, "recheck")
  /\ UNCHANGED <<report, bundle, verdict, sandbox, after, offered, faults>>

(* The preflight again; RepairLoop says when a failure ends the rounds. *)
Recheck(r) ==
  /\ pc[r] = "recheck"
  /\ \E result \in Checked(r) :
       /\ verdict' = [verdict EXCEPT ![r] = result]
       /\ Fault(result = "failed" /\ Unsound(r) = {})
       /\ \/ result = "failed" /\ round[r] < MaxRounds /\ Goto(r, "repair")
          \/ Goto(r, "docker")
  /\ UNCHANGED <<trees, report, bundle, round, sandbox, after, offered>>

HasGoChanges(r) == files[r] \cap GoFile # {}

(* Without Go files in the report there is nothing to validate. *)
SkipDocker(r) ==
  /\ pc[r] = "docker"
  /\ mode[r] # "" /\ ~ HasGoChanges(r)
  /\ sandbox' = [sandbox EXCEPT ![r] = "no go changes"]
  /\ Goto(r, "after")
  /\ UNCHANGED <<trees, report, bundle, verdict, round, after, offered, faults>>

(* runDockerValidation: the same checks in a container, if there is Docker. *)
Docker(r) ==
  /\ pc[r] = "docker"
  /\ mode[r] = "" \/ HasGoChanges(r)
  /\ \E result \in {"unavailable", "failed"} \cup (IF Unsound(r) = {} THEN {"completed"} ELSE {}) :
       /\ sandbox' = [sandbox EXCEPT ![r] = result]
       /\ Fault(result # "completed" /\ Unsound(r) = {})
  /\ Goto(r, "after")
  /\ UNCHANGED <<trees, report, bundle, verdict, round, after, offered>>

(* A mistake: a file that did not exist before does not count as changed. *)
DifferenceIgnoresAdded(r, manifest) ==
  LET diff == Snap!Compare(before[r], manifest) IN diff.modified \cup diff.deleted

Difference(r, manifest) == Snap!Changed(Snap!Compare(before[r], manifest))

(* createSnapshot("after"), its difference, and the actions to offer. *)
Finish(r) ==
  /\ pc[r] = "after"
  /\ \E saved \in BOOLEAN :
       /\ saved => before[r] # NoManifest
       /\ Fault(before[r] # NoManifest /\ ~ saved)
       /\ after' = [after EXCEPT ![r] = saved]
       /\ offered' = [offered EXCEPT ![r] =
            {a \in {"rollback", "repair"} :
               IF a = "repair" THEN verdict[r] = "failed"
               ELSE saved /\ Difference(r, Snap!Capture(repo, {})) # {}}]
  /\ Goto(r, "done")
  /\ UNCHANGED <<trees, report, bundle, verdict, round, sandbox>>

Step(r) ==
  \/ SnapshotBefore(r) \/ NoCodegen(r) \/ Generate(r) \/ Write(r) \/ Wrote(r) \/ WriteFails(r)
  \/ Preflight(r) \/ Repair(r) \/ Recheck(r) \/ SkipDocker(r) \/ Docker(r) \/ Finish(r)

Next == \E r \in Run : Step(r)

Spec == Init /\ [][Next]_vars
-----------------------------------------------------------------------------
By(r, tree) == {f \in File : tree[f] # Absent /\ tree[f].by = r}

GeneratedBy(r, tree) == {f \in By(r, tree) : tree[f].phase = "codegen"}

(***************************************************************************)
(* Generated code in the repository was written by a patch, and either     *)
(* only to its candidates and to documents and tests beside them, or only  *)
(* to the two documents of the fallback; a run whose code went to a        *)
(* workspace of its own has changed nothing in the repository, not even    *)
(* while it repaired that code (codegen.go:113-118, 178-192, 595-641,      *)
(* 800-854).                                                               *)
(***************************************************************************)
WritesStayInside ==
  \A r \in Run :
    /\ GeneratedBy(r, repo) # {} =>
         /\ mode[r] = "current_repo_patch"
         /\ \/ GeneratedBy(r, repo) \subseteq Allowed(candidates[r])
            \/ GeneratedBy(r, repo) \subseteq PatchNotes
    /\ Isolated(r) => By(r, repo) = {}

(***************************************************************************)
(* A run that changed a tracked file of the repository, by generating or   *)
(* repairing code, even if its bundle failed half-way, offers a rollback   *)
(* when it ends, provided both of its snapshots were saved                 *)
(* (service.go:525-551, 1214, 1228-1240).                                  *)
(***************************************************************************)
RollbackOffered ==
  \A r \in Run :
    after[r] /\ pc[r] = "done" /\ By(r, repo) \cap Tracked # {} => "rollback" \in offered[r]

(***************************************************************************)
(* When a run ends with a preflight that passed, the files of its bundle   *)
(* that nobody else wrote since are sound: the scope of the validation     *)
(* covers all of them, whatever was repaired in between                    *)
(* (validation_scope.go:10-48, service.go:454-485).                        *)
(***************************************************************************)
PassedMeansSound ==
  \A r \in Run :
    pc[r] = "done" /\ verdict[r] = "passed" =>
      \A f \in files[r] \cap By(r, Workspace(r, Isolated(r))) : Workspace(r, Isolated(r))[f].sound

SoleOwner(r) == \A q \in Run \ {r} : id[q] # id[r]

(***************************************************************************)
(* The files an isolated run has written stay in its workspace while it    *)
(* writes, checks and repairs them, unless another run has its ID: no      *)
(* other run clears them away (codegen.go:178-184, 523-528).               *)
(***************************************************************************)
BundleSurvives ==
  \A r \in Run :
    SoleOwner(r) /\ mode[r] = "isolated_workspace" =>
      files[r] \ pending[r] \subseteq By(r, out[id[r]])
=============================================================================
