----------------------------- MODULE Workbench -----------------------------
(***************************************************************************)
(* The workbench service of companion/service.go: requests that execute a  *)
(* goal (Execute), requests that execute an approval action of a finished  *)
(* run (ExecuteAction), the list of reports they share in memory, and the  *)
(* files that outlive the process.                                         *)
(*                                                                         *)
(* Every request is a goroutine of its own and nothing limits how many     *)
(* there are.  s.mu protects single reads and writes only: an action reads *)
(* its report, runs without the lock, looks the report up again, writes    *)
(* the outcome and then saves the report, again without the lock.          *)
(*                                                                         *)
(* A report is named by the Execute request that builds it.  Its text is   *)
(* left out; kept are its ID and its before snapshot, both named after the *)
(* second they are taken in, its creation time and the status of its       *)
(* approval actions.  A pipeline phase only announces itself here.  Of the *)
(* runtime store in Redis the model has what a restart can read of it: any *)
(* workflow shown since, because every update starts a save of its own and *)
(* nothing orders them, any report that was the latest, or nothing.        *)
(***************************************************************************)
EXTENDS Naturals, Sequences, FiniteSets

CONSTANTS
  Run,          \* requests that execute a goal
  Act,          \* requests that execute an approval action
  RepairAction, \* actions offered when the preflight still fails
  Unlimited,    \* actions that run a program nothing puts a time limit on
  Enabled,      \* phases that the Runtime switches of the config enable
  None,         \* no such file
  Torn,         \* a file that is not valid JSON
  MaxSecond,    \* bound on the clock
  MaxRestarts   \* bound on the restarts of the process

Action == RepairAction \cup {"rollback"}

(* The phases of Execute from the planning on, in the order of the code. *)
Phases == <<"planning", "codegen", "sandbox", "preflight", "repair", "docker", "persisting">>

(* Phases that also depend on the goal, on codegen or on the preflight. *)
Conditional == {"codegen", "repair", "docker"}

Optional == {"snapshot", "codegen", "sandbox", "preflight", "repair", "docker"}

ASSUME RunAssumption == IsFiniteSet(Run)

ASSUME NoneAssumption == None \notin Run

ASSUME ActionAssumption == "rollback" \notin RepairAction

ASSUME UnlimitedAssumption == Unlimited \subseteq RepairAction

ASSUME EnabledAssumption == Enabled \subseteq Optional

ASSUME BoundAssumption == MaxSecond \in Nat \ {0} /\ MaxRestarts \in Nat

VARIABLES
  second,      \* the clock, at the granularity of the IDs
  workflow,    \* the WorkflowState every client polls
  stored,      \* the workflows that the store may hold
  restored,    \* whether the workflow is the one a restart found in the store
  report,      \* the reports, by the request that builds them
  runs,        \* s.runs, newest first
  disk,        \* data/runs: the JSON file of each ID
  snapFile,    \* data/snapshots: whose before manifest each file holds
  pcR,         \* control state of the Execute requests
  pcA,         \* control state of the ExecuteAction requests
  req,         \* what an ExecuteAction request asks for
  ref,         \* the report its first lookup found
  wrote,       \* the report its second lookup found
  outcome,     \* what performAction returned
  buffer,      \* the report as it marshalled it
  raced,       \* history: reports that two requests were saving at once
  published,   \* history: the reports that were in s.runs
  restarts     \* number of restarts

flowVars == <<workflow, stored, restored>>

execVars == <<pcR, snapFile>>

actVars == <<pcA, req, ref, wrote, outcome, buffer, raced>>

vars == <<second, flowVars, report, runs, disk, execVars, actVars, published, restarts>>

Second == 0 .. MaxSecond

Status == {"absent", "pending", "running", "completed", "failed"}

Statuses == [Action -> Status]

Report == [id : Second, before : Second, created : Nat, status : Statuses]

Content == [owner : Run, status : Statuses]

ASSUME FileAssumption == None # Torn /\ None \notin Content /\ Torn \notin Content

PhaseName == {"ready", "context", "snapshot", "approval-action"} \cup Optional
               \cup {"planning", "persisting"}

Workflow == [status : {"idle", "running", "error"}, phase : PhaseName]

PcR == {"idle", "context", "snapshot", "gather", "writing", "written", "published",
        "done", "failed", "lost"} \cup {Phases[k] : k \in 1 .. Len(Phases)}

PcA == {"idle", "requested", "perform", "performed", "persisting", "marshalled", "writing",
        "written", "done", "missing", "unsaved", "lost"}

RunAtRest == {"idle", "done", "failed", "lost"}

ActAtRest == {"idle", "done", "missing", "unsaved", "lost"}

RunInFlight(r) == pcR[r] \notin RunAtRest

ActInFlight(a) == pcA[a] \notin ActAtRest

TypeOK ==
  /\ second \in Second
  /\ workflow \in Workflow
  /\ stored \in SUBSET Workflow
  /\ restored \in BOOLEAN
  /\ report \in [Run -> Report]
  /\ runs \in Seq(Run)
  /\ disk \in [Second -> Content \cup {None, Torn}]
  /\ snapFile \in [Second -> Run \cup {None}]
  /\ pcR \in [Run -> PcR]
  /\ pcA \in [Act -> PcA]
  /\ req \in [Act -> [id : Second, action : Action]]
  /\ ref \in [Act -> Run]
  /\ wrote \in [Act -> Run]
  /\ outcome \in [Act -> {"completed", "failed"}]
  /\ buffer \in [Act -> Statuses]
  /\ raced \in SUBSET Run
  /\ published \in SUBSET Run
  /\ restarts \in 0 .. MaxRestarts

Blank == [a \in Action |-> "absent"]

Ready == [status |-> "idle", phase |-> "ready"]

Init ==
  /\ second = 1
  /\ workflow = Ready
  /\ stored = {}
  /\ restored = FALSE
  /\ report = [r \in Run |-> [id |-> 0, before |-> 0, created |-> 0, status |-> Blank]]
  /\ runs = <<>>
  /\ disk = [s \in Second |-> None]
  /\ snapFile = [s \in Second |-> None]
  /\ pcR = [r \in Run |-> "idle"]
  /\ pcA = [a \in Act |-> "idle"]
  /\ req = [a \in Act |-> [id |-> 0, action |-> "rollback"]]
  /\ ref \in {[a \in Act |-> r] : r \in Run}
  /\ wrote = ref
  /\ outcome = [a \in Act |-> "failed"]
  /\ buffer = [a \in Act |-> Blank]
  /\ raced = {}
  /\ published = {}
  /\ restarts = 0

(* Whoever changes the workflow starts persistRuntimeState, which reads it *)
(* later, possibly after further changes, and saves what it read.          *)
Show(state) ==
  /\ workflow' = state
  /\ stored' = stored \cup {state}
  /\ restored' = FALSE

UpdateWorkflow(status, phase) == Show([status |-> status, phase |-> phase])

RunGoto(r, label) == pcR' = [pcR EXCEPT ![r] = label]

ActGoto(a, label) == pcA' = [pcA EXCEPT ![a] = label]

(***************************************************************************)
(* os.WriteFile truncates the file and then writes it.  Of two writers     *)
(* that both truncated it first, the second overwrites the beginning of    *)
(* what the first wrote, whose tail stays if it was longer.                *)
(***************************************************************************)
Truncate(file) == disk' = [disk EXCEPT ![file] = Torn]

WriteFile(file, content) ==
  \E result \in IF disk[file] = Torn THEN {content} ELSE {content, Torn} :
    disk' = [disk EXCEPT ![file] = result]
-----------------------------------------------------------------------------
(* Execute: a goal arrives and the run gets its ID. *)
ExecStart(r) ==
  /\ pcR[r] = "idle"
  /\ RunGoto(r, "context")
  /\ report' = [report EXCEPT ![r].id = second]
  /\ UpdateWorkflow("running", "context")
  /\ UNCHANGED <<second, runs, disk, snapFile, actVars, published, restarts>>

(* createSnapshot("before") begins; its file will be named after this second. *)
ExecSnapshot(r) ==
  /\ pcR[r] = "context"
  /\ "snapshot" \in Enabled
  /\ RunGoto(r, "snapshot")
  /\ report' = [report EXCEPT ![r].before = second]
  /\ UpdateWorkflow("running", "snapshot")
  /\ UNCHANGED <<second, runs, disk, snapFile, actVars, published, restarts>>

(* A mistake: the path of a snapshot that failed stays in the report. *)
ExecSnapshotEndsKeepsPath(r) ==
  /\ pcR[r] = "snapshot"
  /\ RunGoto(r, "gather")
  /\ snapFile' \in {snapFile, [snapFile EXCEPT ![report[r].before] = r]}
  /\ UNCHANGED <<second, flowVars, report, runs, disk, actVars, published, restarts>>

(* It is saved, or fails, which only leaves the report without it. *)
ExecSnapshotEnds(r) ==
  /\ pcR[r] = "snapshot"
  /\ RunGoto(r, "gather")
  /\ \/ /\ snapFile' = [snapFile EXCEPT ![report[r].before] = r]
        /\ UNCHANGED report
     \/ /\ report' = [report EXCEPT ![r].before = 0]
        /\ UNCHANGED snapFile
  /\ UNCHANGED <<second, flowVars, runs, disk, actVars, published, restarts>>

(* RAG, symbols and screen context are collected and the planning begins. *)
ExecPlan(r) ==
  /\ pcR[r] = IF "snapshot" \in Enabled THEN "gather" ELSE "context"
  /\ RunGoto(r, "planning")
  /\ UpdateWorkflow("running", "planning")
  /\ UNCHANGED <<second, report, runs, disk, snapFile, actVars, published, restarts>>

(* Phase k follows phase j: only phases that need not run lie between. *)
Follows(j, k) ==
  /\ j < k
  /\ Phases[k] \in Enabled \cup {"persisting"}
  /\ \A i \in j + 1 .. k - 1 : Phases[i] \in Enabled => Phases[i] \in Conditional

(* Only a failed preflight is repaired. *)
ExecPhase(r) ==
  /\ \E j, k \in 1 .. Len(Phases) :
       /\ pcR[r] = Phases[j]
       /\ Follows(j, k)
       /\ Phases[k] # "persisting"
       /\ Phases[k] = "repair" => Phases[j] = "preflight"
       /\ RunGoto(r, Phases[k])
       /\ UpdateWorkflow("running", IF Phases[k] = "docker" THEN "sandbox" ELSE Phases[k])
  /\ UNCHANGED <<second, report, runs, disk, snapFile, actVars, published, restarts>>

(* buildExecutionActions offers an action by listing it as "pending". *)
Offered(before, changed, failed) ==
  [a \in Action |->
     IF IF a = "rollback" THEN before # 0 /\ changed ELSE failed THEN "pending" ELSE "absent"]

NextCreated == Cardinality({r \in Run : report[r].created # 0}) + 1

(* The last phase is over: the report is built with the actions it offers. *)
ExecAssemble(r) ==
  /\ \E j \in 1 .. Len(Phases) : pcR[r] = Phases[j] /\ Follows(j, Len(Phases))
  /\ \E changed, failed \in BOOLEAN :
       /\ failed => "preflight" \in Enabled
       /\ report' = [report EXCEPT
            ![r].created = NextCreated,
            ![r].status = Offered(report[r].before, changed, failed)]
  /\ RunGoto(r, "persisting")
  /\ UpdateWorkflow("running", "persisting")
  /\ UNCHANGED <<second, runs, disk, snapFile, actVars, published, restarts>>

(* persistRun opens the JSON file, after the artifacts and the Markdown. *)
ExecPersist(r) ==
  /\ pcR[r] = "persisting"
  /\ RunGoto(r, "writing")
  /\ Truncate(report[r].id)
  /\ UNCHANGED <<second, flowVars, report, runs, snapFile, actVars, published, restarts>>

ExecWritten(r) ==
  /\ pcR[r] = "writing"
  /\ RunGoto(r, "written")
  /\ WriteFile(report[r].id, [owner |-> r, status |-> report[r].status])
  /\ UNCHANGED <<second, flowVars, report, runs, snapFile, actVars, published, restarts>>

(* Mistakes the properties must notice: a status nobody else knows, a      *)
(* workflow that is not told, a failure that does not stop the run.        *)
ExecPersistFailsUnknown(r) ==
  /\ pcR[r] \in {"persisting", "writing"}
  /\ RunGoto(r, "failed")
  /\ UpdateWorkflow("failed", "persisting")
  /\ UNCHANGED <<second, report, runs, disk, snapFile, actVars, published, restarts>>

ExecPersistFailsSilently(r) ==
  /\ pcR[r] \in {"persisting", "writing"}
  /\ RunGoto(r, "failed")
  /\ UNCHANGED <<second, flowVars, report, runs, disk, snapFile, actVars, published, restarts>>

ExecPersistFailsGoesOn(r) ==
  /\ pcR[r] \in {"persisting", "writing"}
  /\ RunGoto(r, "written")
  /\ UpdateWorkflow("error", "persisting")
  /\ UNCHANGED <<second, report, runs, disk, snapFile, actVars, published, restarts>>

(* persistRun fails, before or while the JSON file is written. *)
ExecPersistFails(r) ==
  /\ pcR[r] \in {"persisting", "writing"}
  /\ RunGoto(r, "failed")
  /\ UpdateWorkflow("error", "persisting")
  /\ UNCHANGED <<second, report, runs, disk, snapFile, actVars, published, restarts>>

ExecPublish(r) ==
  /\ pcR[r] = "written"
  /\ RunGoto(r, "published")
  /\ runs' = <<r>> \o runs
  /\ published' = published \cup {r}
  /\ UNCHANGED <<second, flowVars, report, disk, snapFile, actVars, restarts>>

ExecFinish(r) ==
  /\ pcR[r] = "published"
  /\ RunGoto(r, "done")
  /\ Show(Ready)
  /\ UNCHANGED <<second, report, runs, disk, snapFile, actVars, published, restarts>>
-----------------------------------------------------------------------------
(* lookupRunActionLocked: the first report with that ID, if it has the action. *)
Lookup(id, action) ==
  {r \in Run :
     /\ report[r].status[action] # "absent"
     /\ \E j \in 1 .. Len(runs) :
          /\ runs[j] = r
          /\ report[r].id = id
          /\ \A k \in 1 .. j - 1 : report[runs[k]].id = id => runs[k] = r}

(* ExecuteAction: an approval arrives, for any run ID and action. *)
ActRequest(a) ==
  /\ pcA[a] = "idle"
  /\ \E id \in Second \ {0}, action \in Action :
       req' = [req EXCEPT ![a] = [id |-> id, action |-> action]]
  /\ ActGoto(a, "requested")
  /\ UpdateWorkflow("running", "approval-action")
  /\ UNCHANGED <<second, report, runs, disk, execVars, ref, wrote, outcome, buffer,
                 raced, published, restarts>>

(* The first lookup marks the action, whatever its status was. *)
ActLookup(a) ==
  /\ pcA[a] = "requested"
  /\ \E r \in Lookup(req[a].id, req[a].action) :
       /\ report' = [report EXCEPT ![r].status[req[a].action] = "running"]
       /\ ref' = [ref EXCEPT ![a] = r]
  /\ ActGoto(a, "perform")
  /\ UNCHANGED <<second, flowVars, runs, disk, execVars, req, wrote, outcome, buffer,
                 raced, published, restarts>>

(* Either lookup may find nothing. *)
ActMissing(a) ==
  /\ pcA[a] \in {"requested", "performed"}
  /\ Lookup(req[a].id, req[a].action) = {}
  /\ ActGoto(a, "missing")
  /\ UpdateWorkflow("error", "approval-action")
  /\ UNCHANGED <<second, report, runs, disk, execVars, req, ref, wrote, outcome, buffer,
                 raced, published, restarts>>

(* performAction runs without the lock. *)
ActPerform(a) ==
  /\ pcA[a] = "perform"
  /\ \E result \in {"completed", "failed"} : outcome' = [outcome EXCEPT ![a] = result]
  /\ ActGoto(a, "performed")
  /\ UNCHANGED <<second, flowVars, report, runs, disk, execVars, req, ref, wrote, buffer,
                 raced, published, restarts>>

(* Another request has changed the report and is still saving it. *)
BeingSaved(r) ==
  \E a \in Act : pcA[a] \in {"persisting", "marshalled", "writing"} /\ wrote[a] = r

(* Mistakes: only a success is written back, or the report is not saved. *)
ActWriteBackSuccess(a) ==
  /\ pcA[a] = "performed"
  /\ \E r \in Lookup(req[a].id, req[a].action) :
       /\ report' = IF outcome[a] = "failed" THEN report
                     ELSE [report EXCEPT ![r].status[req[a].action] = outcome[a]]
       /\ wrote' = [wrote EXCEPT ![a] = r]
       /\ raced' = IF BeingSaved(r) THEN raced \cup {r} ELSE raced \ {r}
  /\ ActGoto(a, "persisting")
  /\ UNCHANGED <<second, flowVars, runs, disk, execVars, req, ref, outcome, buffer,
                 published, restarts>>

ActWriteBackUnsaved(a) ==
  /\ pcA[a] = "performed"
  /\ \E r \in Lookup(req[a].id, req[a].action) :
       /\ report' = [report EXCEPT ![r].status[req[a].action] = outcome[a]]
       /\ wrote' = [wrote EXCEPT ![a] = r]
       /\ raced' = IF BeingSaved(r) THEN raced \cup {r} ELSE raced \ {r}
  /\ ActGoto(a, "written")
  /\ UNCHANGED <<second, flowVars, runs, disk, execVars, req, ref, outcome, buffer,
                 published, restarts>>

(* The report is looked up again and gets the outcome. *)
ActWriteBack(a) ==
  /\ pcA[a] = "performed"
  /\ \E r \in Lookup(req[a].id, req[a].action) :
       /\ report' = [report EXCEPT ![r].status[req[a].action] = outcome[a]]
       /\ wrote' = [wrote EXCEPT ![a] = r]
       /\ raced' = IF BeingSaved(r) THEN raced \cup {r} ELSE raced \ {r}
  /\ ActGoto(a, "persisting")
  /\ UNCHANGED <<second, flowVars, runs, disk, execVars, req, ref, outcome, buffer,
                 published, restarts>>

(* persistRun, without the lock: it marshals the report as it is now ... *)
ActMarshal(a) ==
  /\ pcA[a] = "persisting"
  /\ buffer' = [buffer EXCEPT ![a] = report[wrote[a]].status]
  /\ ActGoto(a, "marshalled")
  /\ UNCHANGED <<second, flowVars, report, runs, disk, execVars, req, ref, wrote, outcome,
                 raced, published, restarts>>

(* ... opens the file ... *)
ActPersist(a) ==
  /\ pcA[a] = "marshalled"
  /\ Truncate(report[wrote[a]].id)
  /\ ActGoto(a, "writing")
  /\ UNCHANGED <<second, flowVars, report, runs, execVars, req, ref, wrote, outcome, buffer,
                 raced, published, restarts>>

(* ... and writes it. *)
ActWritten(a) ==
  /\ pcA[a] = "writing"
  /\ WriteFile(report[wrote[a]].id, [owner |-> wrote[a], status |-> buffer[a]])
  /\ ActGoto(a, "written")
  /\ UNCHANGED <<second, flowVars, report, runs, execVars, req, ref, wrote, outcome, buffer,
                 raced, published, restarts>>

ActPersistFails(a) ==
  /\ pcA[a] \in {"persisting", "marshalled", "writing"}
  /\ ActGoto(a, "unsaved")
  /\ UpdateWorkflow("error", "approval-action")
  /\ UNCHANGED <<second, report, runs, disk, execVars, req, ref, wrote, outcome, buffer,
                 raced, published, restarts>>

(* A mistake: the request of an action that failed does not return. *)
ActFinishSuccess(a) ==
  /\ pcA[a] = "written"
  /\ outcome[a] = "completed"
  /\ Show(Ready)
  /\ ActGoto(a, "done")
  /\ UNCHANGED <<second, report, runs, disk, execVars, req, ref, wrote, outcome, buffer,
                 raced, published, restarts>>

ActFinish(a) ==
  /\ pcA[a] = "written"
  /\ IF outcome[a] = "failed" THEN UpdateWorkflow("error", "approval-action") ELSE Show(Ready)
  /\ ActGoto(a, "done")
  /\ UNCHANGED <<second, report, runs, disk, execVars, req, ref, wrote, outcome, buffer,
                 raced, published, restarts>>
-----------------------------------------------------------------------------
Tick ==
  /\ second < MaxSecond
  /\ second' = second + 1
  /\ UNCHANGED <<flowVars, report, runs, disk, execVars, actVars, published, restarts>>

(* loadHistory skips a file that is not valid JSON. *)
Loaded == {r \in Run : disk[report[r].id] \in [owner : {r}, status : Statuses]}

(* The reports of the files, newest first. *)
Histories ==
  {h \in [1 .. Cardinality(Loaded) -> Loaded] :
     \A j, k \in DOMAIN h : j < k => report[h[j]].created > report[h[k]].created}

FromFiles ==
  [r \in Run |-> IF r \in Loaded THEN [report[r] EXCEPT !.status = disk[report[r].id].status]
                 ELSE report[r]]

(* "latest_run" in the store: a report that was listed, if no file has its *)
(* ID, with whatever statuses its actions had when it was saved.           *)
Latest == {r \in published : \A q \in Loaded : report[q].id # report[r].id}

Versions(r) ==
  {f \in Statuses : \A x \in Action : f[x] = "absent" <=> report[r].status[x] = "absent"}

(***************************************************************************)
(* The process is killed, with every request in it, and starts again: the  *)
(* reports are those of the files, the workflow is the initial one.  Then  *)
(* restoreRuntimeState puts the workflow of the store in its place and the *)
(* latest report of the store before the others, if it finds them.         *)
(***************************************************************************)
Restart ==
  /\ restarts < MaxRestarts
  /\ restarts' = restarts + 1
  /\ \E h \in Histories :
       \/ /\ runs' = h
          /\ report' = FromFiles
       \/ \E r \in Latest : \E f \in Versions(r) :
            /\ runs' = <<r>> \o h
            /\ report' = [FromFiles EXCEPT ![r].status = f]
  /\ published' = published \cup Loaded
  /\ \/ /\ workflow' = Ready
        /\ restored' = FALSE
        /\ UNCHANGED stored
     \/ /\ workflow' \in stored
        /\ restored' = TRUE
        /\ stored' = {workflow'}
  /\ raced' = {}
  /\ pcR' = [r \in Run |-> IF RunInFlight(r) THEN "lost" ELSE pcR[r]]
  /\ pcA' = [a \in Act |-> IF ActInFlight(a) THEN "lost" ELSE pcA[a]]
  /\ UNCHANGED <<second, disk, snapFile, req, ref, wrote, outcome, buffer>>

ExecStep(r) ==
  \/ ExecSnapshot(r) \/ ExecSnapshotEnds(r) \/ ExecPlan(r) \/ ExecPhase(r) \/ ExecAssemble(r)
  \/ ExecPersist(r) \/ ExecWritten(r) \/ ExecPersistFails(r) \/ ExecPublish(r) \/ ExecFinish(r)

ActStep(a) ==
  \/ ActLookup(a) \/ ActMissing(a) \/ ActPerform(a) \/ ActWriteBack(a) \/ ActMarshal(a)
  \/ ActPersist(a) \/ ActWritten(a) \/ ActPersistFails(a) \/ ActFinish(a)

Next ==
  \/ \E r \in Run : ExecStart(r) \/ ExecStep(r)
  \/ \E a \in Act : ActRequest(a) \/ ActStep(a)
  \/ Tick
  \/ Restart

Spec == Init /\ [][Next]_vars

(* Where a program runs that nothing puts a time limit on: the container of *)
(* the smoke test and the commands of the repair loop in a goal, and the   *)
(* performance of some actions.                                            *)
RunWaits(r) == pcR[r] \in {"sandbox", "repair"}

ActWaits(a) == pcA[a] = "perform" /\ req[a].action \in Unlimited

(* A request that arrived keeps running, except where it waits for such a  *)
(* program: it is a goroutine of its own.  Requests need not arrive, and   *)
(* the process need not be restarted.                                      *)
FairSpec ==
  /\ Spec
  /\ \A r \in Run : WF_vars(~ RunWaits(r) /\ ExecStep(r))
  /\ \A a \in Act : WF_vars(~ ActWaits(a) /\ ActStep(a))
-----------------------------------------------------------------------------
Quiet == ~ (\E r \in Run : RunInFlight(r)) /\ ~ (\E a \in Act : ActInFlight(a))

(* No other run that got its ID in the same second. *)
SoleOwner(r) == \A q \in Run \ {r} : report[q].id # report[r].id

(***************************************************************************)
(* The workflow shows "running" only while some request is in flight: the  *)
(* last of them to end leaves "idle" or "error" behind, in whatever order  *)
(* they announced their phases and ended (service.go:343-660).  The one    *)
(* exception is a status that a restart has brought back from the store    *)
(* (enhancements.go:81), and the first request after it ends that.         *)
(***************************************************************************)
RunningMeansInFlight ==
  workflow.status = "running" => ~ Quiet \/ restored

(***************************************************************************)
(* Until the process restarts, an action shown as "running" has a request  *)
(* that performs it, so it will not stay so: neither a concurrent request  *)
(* for the same action nor one that fails strands it (service.go:607-646). *)
(* Runs whose ID is shared are excepted.                                   *)
(***************************************************************************)
RunningActionHasRequest ==
  restarts = 0 =>
    \A r \in Run, action \in Action :
      SoleOwner(r) /\ report[r].status[action] = "running" =>
        \E a \in Act : /\ pcA[a] \in {"perform", "performed"}
                       /\ ref[a] = r
                       /\ req[a].action = action

(***************************************************************************)
(* A run that was ever listed stays listed, and is listed once, unless its *)
(* ID is shared or its file is torn: a restart finds it again              *)
(* (service.go:584-586, 1015-1052).                                        *)
(***************************************************************************)
ListedOnce ==
  \A r \in published : SoleOwner(r) =>
    \/ Cardinality({j \in DOMAIN runs : runs[j] = r}) = 1
    \/ disk[report[r].id] = Torn

(***************************************************************************)
(* When no request is in flight, the JSON file of a listed run holds the   *)
(* statuses the dashboard shows (service.go:593, 648).  What can keep it   *)
(* from that: a request that failed to save, and said so; a crash that     *)
(* tore the file of a report the store has brought back; and two requests  *)
(* that were saving the report at the same time, of which the one with the *)
(* older text may write last: then the file is torn or holds what one of   *)
(* the requests marshalled, and only the next save repairs it.             *)
(***************************************************************************)
FileFits(r) == disk[report[r].id] = [owner |-> r, status |-> report[r].status]

RacedText(r) ==
  \/ disk[report[r].id] = Torn
  \/ \E a \in Act : /\ pcA[a] = "done"
                   /\ wrote[a] = r
                   /\ disk[report[r].id] = [owner |-> r, status |-> buffer[a]]

SavedWhenQuiet ==
  Quiet =>
    \A j \in DOMAIN runs :
      LET r == runs[j]
      IN  SoleOwner(r) =>
            \/ FileFits(r)
            \/ \E a \in Act : pcA[a] = "unsaved" /\ wrote[a] = r
            \/ restarts > 0 /\ disk[report[r].id] = Torn
            \/ r \in raced /\ RacedText(r)

(***************************************************************************)
(* A rollback is performed only for a run whose before manifest was saved, *)
(* and reads that run's manifest, unless another run took its snapshot in  *)
(* the same second (service.go:364-387, 1228, 1370-1385).                  *)
(***************************************************************************)
RollbackReadsOwnSnapshot ==
  \A a \in Act : pcA[a] = "perform" /\ req[a].action = "rollback" =>
    LET file == report[ref[a]].before
    IN  \/ snapFile[file] = ref[a]
        \/ \E q \in Run \ {ref[a]} : report[q].before = file /\ file # 0

(***************************************************************************)
(* Every request that arrived ends, with an answer or an error, unless a   *)
(* program it started never ends: it can stay for ever only where a        *)
(* program runs without a time limit (service.go:444, 471, 2300,           *)
(* actions_advanced.go:113-215).                                           *)
(***************************************************************************)
RequestsEnd ==
  /\ \A r \in Run : RunInFlight(r) ~> (~ RunInFlight(r) \/ []RunWaits(r))
  /\ \A a \in Act : ActInFlight(a) ~> (~ ActInFlight(a) \/ []ActWaits(a))

(***************************************************************************)
(* service.go:593 says an action writes its outcome back to the same       *)
(* report ("把结果回写到同一份报告").                                      *)
(***************************************************************************)
OutcomeOnSameReport ==
  \A a \in Act : pcA[a] = "persisting" => wrote[a] = ref[a]

=============================================================================
