# TLA+ verification of the multi-agent workbench

This directory holds TLA+ models of the Go program in `src/`, the TLC runs
that check them on small instances, and TLAPS proofs of the properties that
matter most. Every definition is translated from the source; `PROJECT.json`
maps each one to the lines it stands for.

## 1. The system

A local development workbench. `cmd/main.go` starts a desktop window, a single
run or an inspection; the window shows a page served by
`companion/dashboard.go`, and every HTTP request is a goroutine that calls one
method of the one `Service` of `companion/service.go`. A goal given to
`Execute` goes through snapshot, context, planning, code generation, preflight,
repair, Docker validation, a second snapshot, and ends as a report with
approval actions that a person may then start with `ExecuteAction`.

| Component | State it keeps | Operations | Talks to |
|---|---|---|---|
| Workbench requests (`service.go`, `dashboard.go`) | `s.runs`, `s.workflow`, `data/runs/*.json` | `Execute`, `ExecuteAction`, `State`, `loadHistory` | all below, by calls; the page, by polling |
| Snapshot and rollback (`snapshot/manifest.go`, `performRollbackAction`) | the workspace, `data/snapshots/*.json` | `Capture`, `Compare`, `Restore`, rollback | the same files as code generation, repair and any editor |
| Repair loop (`auto_loop.go`) | rounds, last failure signature | up to `AutoRepairRounds` of commands and preflight | the workspace; snapshots tell it whether a round changed anything |
| Execution pipeline, code generation, validation scope (`service.go`, `codegen.go`, `validation_scope.go`, `preflight/health.go`) | the repository, one output directory per run ID, the report under construction | choose target, guard, write, check, repair, validate, offer actions | providers for the bundle; snapshots; the repair loop |
| Screen context (`loop.go`, `enhancements.go`) | `s.screen`, `data/captures` | capture, clear, asynchronous analysis, use by a goal | the vision model; the runtime store |
| Runtime state store (`redis_store.go`, `enhancements.go`) | three keys in Redis | unordered asynchronous saves, one load at start-up | everything that changes the shown state |
| Provider routing and planning (`router.go`, `llm/`, `langgraph_bridge.go`) | provider status | complexity, route, fallback along providers, deadlines | HTTP services |
| Approved repairs (`actions_advanced.go`, `performPreflightAction`) | the workspace, the git index | preflight again, self-heal in a container, local fix and commit | git, the Go tools, the Docker runner |
| Meeting engine (`engine/chat_engine.go`, `domain/types.go`) | the room, failure counters | rounds of speakers with a backup provider | providers |
| Collaboration workflow (`agent/`) | room, reports, tasks | task split, architecture, development with self-heal, critique | providers, Docker runner |
| Docker runner (`executor/docker_run.go`) | containers | validate, execute, retry, `go mod tidy` loop | the Docker daemon |
| Knowledge index (`rag/index.go`) | chunks | build, search | files |
| Configuration, model clients, vision client, inspector, UI, verifier helpers | little or none | parsing, formatting, one call each | |

What makes the behaviour hard:

* **Interleaving.** `s.mu` protects single reads and writes. An action reads
  its report, runs unlocked for minutes, looks the report up again by an ID
  that has the granularity of a second, writes, and saves unlocked. Two
  goals, two actions and a screen capture may all be under way at once.
* **Names by time.** Run IDs, JSON files, snapshots and output directories are
  named by the second, captures by the millisecond.
* **Partial failure.** Captures skip unreadable files without an error,
  `Restore` drops the error of a removal, a bundle may be written in part, a
  save may fail after memory has changed.
* **Late answers.** The vision model and Redis answer after the state they
  speak of has changed; model services may answer late or never, and the Docker
  daemon may carry out a request whose answer was lost.
* **Restarts and failed writes.** `os.WriteFile` truncates first and then writes: a failure or a
  kill in between leaves a damaged file, and others meet it so. What is reloaded is what was
  written last, which need not be what was true last.

What makes each part correct, in one line each:

* Workbench: the status shown ends with the requests, an action shown as
  running has a performer, reports are neither lost nor doubled, and what is
  saved is what is shown.
* Snapshot and rollback: what is reported as restored is restored, and files the
  snapshot does not know are left alone.
* Repair loop: no further round without progress, never too many, never
  without a reason at the end.
* Pipeline: generated code stays where it may go, a change can be rolled
  back, a passed check has seen the whole bundle, and runs do not clear each
  other's files.
* Screen: no answer is attributed to another image, the image on show exists
  and is looked at, and what was cleared stays away.
* Planning: the plan is that of the first service in order that does not fail, a quick
  answer is not cut off, and what the report says of a bundle is about one provider.
* Approved repairs: what is committed has passed the tests, and "completed" is said of
  sound packages, as far as nobody else wrote meanwhile.
* Meeting engine: turns are fair whatever fails, and a turn has an answer or an error.
* Collaboration: a task is completed only when its last code was executed, and a
  prompt quotes the errors of its own task.
* Docker runner: everything made in Docker is given back, and "passed" is the exit
  code of the program itself.
* Knowledge index (not modelled yet): every line of a document is in some chunk.

The full list of hazards, each at its line, is in `PROJECT.json`.

## 2. Modules

`X.tla` models, `XProofs.tla` proves, `MCX.tla` names values for TLC.
Definitions called "a mistake" in a comment are variants of the definition that
follows them, with a bug of the kind that could be written there; each
shows that one property would notice it. No action uses them.

### Snapshot and Rollback

`Snapshot` has the data and the operators of `manifest.go`: a workspace maps
paths to contents, a manifest maps the tracked paths to what was recorded.
`Record` is one file of the walk, whose failed read leaves no record;
`Capture`, `Compare`, `Changed` and `Restore` are the functions of the same names.

`Rollback` EXTENDS it and runs them file by file: the capture of the run
(`RunScan`), then any number of requests for the rollback action (`Start`,
`Scan`, `Decide`, `Remove`, `BeginRewrite`, `Truncate`, `Rewrite`, `Finish`, with
`ScanFails` and `RewriteFails`), while somebody else writes (`Edit`). `pc`,
`seen` and `todo` are the handler's position, its own manifest and what its
present loop has left; the manifest is forgotten once the differences are used up. Each `os.WriteFile` of `Restore` is `Truncate`, which leaves the file
`Damaged`, and `Rewrite`; when somebody has written the file in between, it is
`RewriteStale` and leaves any mixture. A write that fails may leave the file damaged,
and captures meet it so, until a later rollback repairs it. `opened` and `stale` are the files a handler has
between the two steps. `original`, `dirty` and `spoiled` are history.

### RepairLoop and BoundedRetry

`BoundedRetry` is the abstract promise: at most `MaxAttempts` attempts, and a
verdict. `RepairLoop` is `runAutoRepairLoop` with the command list of
`runRepairCommands`: `CaptureBefore`, `RunCommand` / `SkipCommand` (a tool that is
not installed), `CommandsDone`, `Preflight`, `Decide` with the switch of the code in
`Termination`. It implements `BoundedRetry` through
`INSTANCE ... WITH attempts <- Len(rounds), verdict <- ...`.

### Workbench

`report`, `runs`, `disk`, `workflow` are `RunReport`s, `s.runs`, `data/runs` and
`s.workflow`. An Execute request goes through `ExecStart` ... `ExecFinish`,
one action per stretch between two points where another request can come in; the
phases in the middle are data (`Phases`, `Follows`) since here they only
announce themselves. An ExecuteAction request goes through `ActRequest`,
`ActLookup` (first critical section), `ActPerform` (unlocked), `ActWriteBack`
(second critical section), `ActMarshal`, `ActPersist`, `ActWritten` (unlocked
save) and `ActFinish`, with `ActMissing` and `ActPersistFails` for the error
returns. `Truncate` and `WriteFile` are the two halves of `os.WriteFile`.
`Tick` is the clock. `Restart` kills the process at any point and runs
`loadHistory` and `restoreRuntimeState`: it may bring back any workflow that was shown since the
last one known to be stored (`stored`; the saves are unordered), `restored` says that it did, and
may put the store's latest report before those of the files if no file has its ID (`Latest`, with
any of its `Versions`). `raced` is history: the reports that two requests were saving at once.

### ScreenContext

`screen`, `files`, `store` are `s.screen`, `data/captures` and the key in Redis.
A capture is `CaptureWrite`, `CaptureShow`, `CaptureEnd` (or `CaptureFail`), a clear
is `ClearShow`, `ClearEnd`, a goal takes the context in `TaskStart` ...
`TaskEnd`. An analysis reads the path, waits, and ends with `AnalysisLate` (the
path has changed: the answer is dropped) or `AnalysisApply`. `vision` says whether the
process found a usable vision provider when it started; without one `StartAnalysis` starts nothing,
`Settled` lets a goal go on at once, and an image stays "pending". A save is
`SaveRead` under the lock and `SaveWrite` later, which may fail; nothing orders two of
them. `Restart` loads the store.

### Pipeline

The data flow of `Execute`. `repo` is the workspace root and `out` the
output directory of each ID; a file is kept as who wrote it last, in which phase,
and whether it is sound (the checks of its package can pass). A run goes
through `SnapshotBefore`, `NoCodegen` or `Generate` (target, candidates,
guard, fallback, `RemoveAll`), `Write` file by file, `Wrote` or `WriteFails`
(the partial bundle), `Preflight`, `Repair` and `Recheck` in rounds,
`SkipDocker` or `Docker`, and `Finish` (after snapshot, difference, actions).
`Put` and `Workspace` are the choice of `executionRoot`, `Scope` is
`resolveValidationTargets`. It uses `Snapshot` by
`Snap == INSTANCE Snapshot WITH Path <- File, Candidate <- Tracked` and leaves the
interleaving inside one capture to `Rollback`, the rounds to `RepairLoop`.

What a provider answers is any non-empty set of files of `Proposable`, or the
fallback, which for a patch is the two documents of `PatchNotes` (`PATCH_PLAN.md` and
`NEXT_STEPS.md`, in the root, whatever the guard allows) and else a `Scaffold`;
`normalizeCodeBundlePayload` refuses an empty answer, and the directories
and extensions of a path are the sets `Dir`, `GoFile`, `Auxiliary`, `Tracked`.

### Planning

The calls for a plan and for a bundle of files. `Decide` routes the goal
(`AssessComplexity`, `DecideRoute`); `rest` is what is still to be asked in the
present stage, in order, the bridge first. A call is `Send`, then `AnswerPlan`,
`AnswerBundle`, `Unparsable` (the answer goes back once, for repair), `Refuse` or
`Expire`; `Limit` is the deadline that comes first, of its context or its
client. The bridge has no deadline in its context, and its client takes `langgraph_timeout_sec` as it
is configured (`Patience`), 25 seconds if that is not positive. `Reroute` is the second try of the groq client without a proxy, `Cancel`
the call of a client that left (`Disconnect`), `GiveUp` the fallback at the end of
the order. `MockPlans` is the provider that needs no service. `asked` is history. `Keep` is
every loop that skips some of the names it walks over (`DecideRoute`, `requestCodeBundle`): a
recursive function, which the proofs unfold.

### Maintenance

The approved actions that run commands on a workspace: `Script` gives the commands
of each kind, and each command is an action (`Collect`, `Rewrite`, `FirstTest`,
`Test`, `Vet`, `Add`, `Commit`, `LastTest`, `LastVet`). A `go test` is two steps, `StartTest`
and the action that ends it (`EndTest`): in between others write, and of what they write the
test may say anything. `go vet` and the linter may say anything at any time. The workspace is two
areas, the packages an action is to check and the others; `sound` are those that pass the tests.
`writer` is who wrote an area last, `foreign` which areas others wrote since a request began its
latest tests: both history. `Open` are those of them that their writer has not itself tested since. `Edit` is
the editor, `Leave` the client that ends the context of the commands.

### Meeting

`StartMeeting` and the turns of the group chat. A turn is `AskPrimary`,
`AskPrimaryFails` (an error, or an answer that reads like one) or `AskBackup`;
`Speak` is `AddMessage` with `GetNextSpeaker`. `StartMeeting` may be called again
after it returned. Its names carry `Chat`, as those of `DockerRunner` carry `Docker`, so that
`MCAgents` can extend it beside `Collaboration`.

### Collaboration

`ExecuteWorkflow`: `Round`, `Split`, `Design`, then per task `StartTask` and up to
`MaxRetries` of `Implement`, one of `ExecuteGood`, `ExecuteBad`, `ExecuteFails`, and
`Analyse` or `AnalyseFails`; `Critique` and `Complete`. The
`...Fails` of an agent abort the workflow where the code returns the error. `reports` and
`messages` are the two lists that only grow; `reference` is what the prompt for
a task shows: the report it takes for the architecture, and the attempts whose
errors it quotes.

### DockerRunner

`Script` lists the statements of the four methods; each is an action (`MakeDir`,
`WritePullLogs`, `Create`, `Start`, `Wait`, `Inspect`), `Undo` runs one deferred call, `Unwind`
ends the return, `Begin` and `Finish` are the loop of `ExecuteWithRetry`, whose counter is
`callTries`. A request to
the daemon may fail after it was carried out. `EndContext` is the deadline, or
the client that leaves, of `ValidateWorkspace`; the other methods have a
background context. `Exit` is the program in the container.

`MCAgents` puts the last three into one state space: a behaviour is
the workflow, a chat, or a call of the runner, never two side by side, because none of them writes
what another reads. What the workflow needs of the runner (an error, a failed or
a good execution, or none at all) is in `Execution`.

## 3. Runs

`tlc -config X.cfg M`. All of them finish in under three minutes, most in
seconds.

| Run | Module, cfg | What it shows |
|---|---|---|
| rollback | MCRollback, RollbackTwo | Two rollbacks of one run at the same time, whose writes truncate first and may fail, and another writer; one file may be missed by a capture and cannot be removed: `CompletedMeansRestored`, `BystandersSurvive`; under fairness `RollbackEnds` |
| repair | MCRepairLoop, RepairRounds | Three rounds: `ContinuesOnlyOnProgress`, `EndsWithReason`, `ImplementsRetry`, `LoopEnds` |
| workbench_runs | MCWorkbench, WorkbenchRuns | Two goals, which may share an ID or the second of their snapshots, and a rollback of either, over a restart that may find workflow and latest report in the store: `RunningMeansInFlight`, `ListedOnce`, `RollbackReadsOwnSnapshot` |
| workbench_actions | MCWorkbench, WorkbenchActions | One goal through every phase but the snapshot, two requests for the same action of it whose saves overlap, a restart: `RunningActionHasRequest`, `SavedWhenQuiet`; under fairness `RequestsEnd` |
| screen | MCScreenContext, ScreenShots | Two captures, a clear, a goal, a restart, with or without a vision model: `InsightFitsImage`, `ShownImageKept`, `PendingHasAnalyst`, `ClearedReturnOnlyByRestart` |
| pipeline | MCPipeline, PipelineRuns | Two goals side by side, their fallback documents included: `WritesStayInside`, `RollbackOffered`, `PassedMeansSound`, `BundleSurvives` |
| planning | MCPlanning, PlanningGoals | Goals of three levels, services that answer, fail or stay silent, timeouts set or not, a client that leaves: `PlanFromFirstAnswer`, `EvidenceOfLastAnswer`, `QuickAnswersCount`; under fairness `PlanningEnds` |
| maintenance | MCMaintenance, MaintenanceTwo | Two approved repairs of any kind and an editor on one workspace, which all write while the others' tests run: `CommittedWasTested`, `CompletedMeansSound` |
| agents | MCAgents, AgentsRooms | The workflow, a chat and the Docker runner with every failure: `CompletedMeansExecuted`, `FeedbackIsOwn`, `TurnsAreFair`, `NothingLeftBehind`, `PassedIsReal`; under fairness `WorkflowEndsHere`, `CallsEnd` |
| rollback_flaky | MCRollback, RollbackFlaky | violated: `RollbackRestoresDifferences` |
| workbench_same_report | MCWorkbench, WorkbenchSameReport | violated: `OutcomeOnSameReport` |
| meeting_nil | MCAgents, MeetingNil | violated: `AnswerOrError` |

### Disagreements of the code with its documents

Three are shown by a run:

* A file that a capture cannot read is left out without an error. In the run's trace nobody
  writes anything: the capture of the goal fails to read a file, the rollback's own capture reads it, so
  the file counts as added, and the rollback **deletes** it and reports success, where
  `docs/TESTING_GUIDE.md:179` promises that differing files are restored.
* Two goals of one second share an ID. An action performed for the one writes its
  outcome to the other's report, where `service.go:593` says "the same
  report".
* A primary provider answers with text that reads like a failure, and there is no backup: the last
  line of `completeWithFallback` returns neither an answer nor an error, where its comment
  (`chat_engine.go:148`) promises the error, and `StartMeeting` reads the fields of the nil
  `rateLimitInfo` at lines 83-87.

One is shown by a proof: the prompt for a task is meant to show the latest architecture report
(`workflow.go:224`), and always shows the first report of all, the first split
(`PromptShowsFirstSplit`).

The models have further behaviours of this kind, which no run singles out:

* Two actions of one report save it without the lock, and the older text may be
  written last (`service.go:648`), or the file be torn, and nobody repairs it before the next save.
  `SavedWhenQuiet` allows just that, for reports that two requests were saving at the same time.
* A status saved as "running" comes back after a restart although no request is in flight; the next
  request ends it. `RunningMeansInFlight` allows just that.
* An image captured without a usable vision model stays "pending" (`enhancements.go:159`).
* An editor or another action that writes while the local fix tests, or before its `git add -A`, gets its
  untested content into the commit (`actions_advanced.go:201`). `CommittedWasTested` allows just that.
* A save of an old screen context may land after that of a clear; a restart
  then brings back the image, which `loop.go:119` means to keep from later tasks.
* When a file of a bundle cannot be written (`codegen.go:540`), the report lists none of those
  that were; the Docker validation is skipped because "this round generated no Go
  file" (`service.go:493`).
* `docs/LANGGRAPH_DECISION.md:62` says that a service with one fixed address works, because the operation is
  in the request. `operationURL` appends `/codegen` to such an address, so it is asked for
  plans only; the second try at the address itself (`langgraph_bridge.go:63-66`) is never reached.

### Bounds, and why they are enough

* Rollback: two handlers are the least that interfere. Of two tracked paths one may be missed
  by any capture and cannot be removed, so that there can be a difference without
  anybody's write; every record is rewritten then, and the one write of others (`MaxEdits`) falls
  between any two steps, those of a write included. Two contents distinguish "modified", and one of
  them is also what a damaged file holds (`Damaged`), so that a truncated file may look
  like a text. A second write, or a path outside the snapshot, exceeds five minutes;
  `CompletedMeansRestored` and `BystandersSurvive` are proved without these bounds. The violated run has no write of others at all.
* RepairLoop: three rounds are a first, a middle and a last one; two signatures and
  two versions tell "same" from "different"; `MaxEdits` = 1.
* Workbench: in the first run two goals collide or not, in their IDs and in the seconds of their
  snapshots (`MaxSecond` = 2), and one request rolls either back. The second run gives the phases and two
  concurrent requests for the same action to one goal, so that two requests
  perform one action and two saves overlap; two different actions of one report are left to the proofs. Both kinds of interference occur, though not
  both at once: that is beyond five minutes. One restart falls between any two steps (`MaxRestarts`).
* ScreenContext: two images and room for one (`Keep` = 1) make retention bite;
  one clear and one goal, one save of each kind under way (`MaxSaves`), one restart.
* Pipeline: two goals with equal or different IDs. The six files are a candidate,
  a document and a test in another directory, the two documents of the fallback and go.mod, which is not
  tracked. One fault (`MaxFaults`) of any kind -- a snapshot, a write, an unsound
  file, a check that fails for another reason -- at any point, one repair
  round. Two faults exceed five minutes; the proofs have no such bound.
* Planning: one online provider that hard goals prefer and one that easy goals prefer, ollama and
  mock, each ready or not; one score of each level (1, 4, 7); for providers and bridge a timeout that is
  not set (0) and one below five seconds (3), which a simple goal would make negative; latencies below every limit (4),
  between limits (13) and above all (1000). A plan and a bundle ask each provider at most twice,
  so no counter needs a bound.
* Maintenance: two handlers are the least that disturb each other's tests or share a
  git index; one write of the editor falls between any two steps, the start and the end of a test included.
* agents: two rounds are needed for a task of an earlier one, two tasks for an
  error quoted to another, three attempts for a first, middle and last one. Two agents and
  two rounds of chat, five starts to resume after a failure in every turn, and the three failures of
  the code before the backup. One call of the Docker runner, of any method, with two tries: calls
  share neither directories nor containers.

Deadlock is checked in the rollback runs, where a request can always be made again. In the
others the requests are finitely many and all may be over, which is the end and
not a deadlock (`CHECK_DEADLOCK FALSE`); the liveness properties say
that nothing is stuck before it. Symmetry is used where no property is temporal with
fairness (`WorkbenchRuns`, `ScreenShots`, `PipelineRuns`, `MaintenanceTwo`): requests and IDs are
interchangeable.

### Fairness

Weak fairness of the steps of one request that has arrived: it is a goroutine of its own,
its loops are finite, its calls have time limits (provider timeout, 45 s of a
check, 90 s of the validation container), and `s.mu` is held for a few
assignments only. Some programs have no limit of their own: the container of the sandbox smoke test (a
background context, `service.go:2300`), the commands of a repair round, the self-heal container
(`exec.Command`, `actions_advanced.go:113`) and the commands of the local fix. Workbench has no fairness
where it waits for one of them (`RunWaits`, `ActWaits`, `Unlimited`), and `RequestsEnd` says that a
request can stay for ever only there. `LoopEnds` of RepairLoop speaks of rounds whose commands end. No fairness for the arrival of requests, for another writer,
for the clock or for a restart. A restart ends a request as "lost", which `RequestsEnd`
counts as ended: its client sees the connection close.

Planning has weak fairness of `Step` alone: each call has a deadline, so it
answers, fails or expires; a client need not leave. The workflow has it for
its own steps but not for what it waits for in Docker, because `ExecuteCode` has no deadline: a
program that never ends keeps it waiting, and `WorkflowEndsHere` says so. A call of the runner goes on
except while it waits for a program without an ended context; the deadline of
`ValidateWorkspace` passes. Meetings and Maintenance state no liveness.

## 4. Proofs

`tlapm M.tla`. All hold for every value of the constants, under the
assumptions named in the modules, which TLC evaluates in every run: disjointness
of sentinel values (`AbsentAssumption`, `NoManifestAssumption`, ...), that a damaged file holds some content
(`DamagedAssumption`), finiteness of the set
of runs of Workbench (`RunAssumption`, for counting reports), a `None` that is no run, inclusions between the sets of
files (`FileAssumption`) and of actions (`UnlimitedAssumption`), the names of the online providers
(`OnlineAssumption`, those of `initProviders`), whole numbers of seconds as timeouts (`BaseAssumption`,
`PatienceAssumption`), and natural numbers as bounds (at least one try, `TriesAssumption`:
with none `ExecuteWithRetry` asks Docker for nothing).

| Theorem | Says |
|---|---|
| RollbackProofs: CompareDetectsEveryChange, RestoreInvertsEveryChange | `Restore` of `Compare` gives the tracked files back, in a quiet workspace |
| RollbackProofs: RollbackTypeCorrect, RollbackCorrect, RollbackSparesBystanders | `TypeOK`, `CompletedMeansRestored`, `BystandersSurvive` |
| RepairLoopProofs: RepairTypeCorrect, RepairProgresses, RepairEndsWithReason, RepairImplementsRetry | `TypeOK`, `ContinuesOnlyOnProgress`, `EndsWithReason`, and that every behaviour of `RepairLoop` is one of `BoundedRetry` |
| WorkbenchProofs: WorkbenchTypeCorrect, WorkflowRunningCorrect, RunningActionCorrect | `TypeOK`, `RunningMeansInFlight`, `RunningActionHasRequest` |
| WorkbenchProofs: RollbackReadsCorrect, ListedOnceCorrect | `RollbackReadsOwnSnapshot`, `ListedOnce` |
| ScreenContextProofs: ScreenTypeCorrect, ShownImageCorrect | `TypeOK`, `ShownImageKept` |
| ScreenContextProofs: InsightFitsCorrect, ClearedReturnCorrect, PendingCorrect | `InsightFitsImage`, `ClearedReturnOnlyByRestart`, `PendingHasAnalyst` |
| PipelineProofs: TypeCorrect, WritesStayInsideCorrect, RollbackOfferedCorrect, PassedMeansSoundCorrect, BundleSurvivesCorrect | all five invariants of the pipeline run |
| MaintenanceProofs: MaintenanceTypeCorrect, CommittedCorrect, CompletedCorrect | its `TypeOK`, `CommittedWasTested`, `CompletedMeansSound` |
| WorkbenchProofs: SavedWhenQuietCorrect | `SavedWhenQuiet`, for any number of concurrent actions on one report |
| PlanningProofs: PlanningTypeCorrect, PlanFromFirstAnswerCorrect, EvidenceOfLastAnswerCorrect, QuickAnswersCountCorrect | its `TypeOK` and the three other invariants of the planning run |
| AgentsProofs: MeetingTypeCorrect, TurnsAreFairCorrect | `ChatTypeOK`, `TurnsAreFair` |
| AgentsProofs: CollaborationTypeCorrect, CompletedMeansExecutedCorrect, FeedbackIsOwnCorrect, PromptShowsFirstSplit | `TypeOK`, `CompletedMeansExecuted`, `FeedbackIsOwn` of the workflow, and which report a prompt shows |
| AgentsProofs: DockerTypeCorrect, NothingLeftBehindCorrect, PassedIsRealCorrect | `DockerTypeOK`, `NothingLeftBehind`, `PassedIsReal` |
| AgentsProofs: RoomTypesCorrect | `TypesOK` of the three in one state space |

The arguments:

* **Rollback.** `CompletedMeansRestored` speaks of the end only. The invariant
  adds `Progress`: for a handler in each loop, a clean path that has left `todo` is
  `Good`, that is, as recorded or damaged by a `Culprit`: another rollback that has it open, or failed to
  write it since the handler started. In the scan a path may also be as this capture saw it, or seen to differ, and then
  it will be rewritten. `TodoSound` says that the removal loop
  only has paths the manifest lacks, and that nobody has more than one file open. It also says that the
  manifest of the run is final once a handler starts. A concurrent handler keeps all this because
  whatever it removes, truncates or writes goes from the present content towards the recorded one
  (`TowardsRecordPreserves`), and a write into a file that others have written since leaves a good
  file good (`StaleWriteIsHarmless`).
* **Repair loop.** `HistoryShape` ties the number of reports to the number of rounds in
  each control state, `RoundsBounded` keeps the loop out of a round past the
  last. The refinement maps `Decide` to an attempt and everything else to a stutter.
* **Workbench.** `RunningMeansInFlight` follows from one fact per step: a step that sets "running" is
  a step of a request that stays in flight, and the last step of each request sets something else; what a restart
  brings back is marked `restored` until the next of these steps.
  For `RunningActionHasRequest` the invariant says that only ended runs are listed, written to
  files or marked running, and that a request that performs an action would find its report again
  (`RefKept`): so its second lookup succeeds while the ID is not shared, and it ends the "running"
  that its first lookup began.
* **Screen.** Every copy of a context -- on show, in a prompt, in a save under way,
  in the store -- is *good*: its insight, if any, was read in its image. What a
  late answer changes is guarded by the path, so it stays good. `PendingHasAnalyst`
  needs that the control state of a capture tells whether its goroutine was started; that a model was usable
  when the process started is a premise of the property.
* **Pipeline** (`PipelineInv`). A step of one run leaves the files of another as they are or takes
  them over (`Effect`, `LocalStep`), so all but the acting run follow from one lemma. For the
  acting run: `Order` ties control state, mode, status and scope together; `Author` says what it has
  written to the repository (nothing before its code generation, nothing at all
  in isolated mode while its bundle is intact, and in a patch, with what is still to be written, either what the
  guard lets pass or the fallback's documents: `Guarded`); hence `Before`, its first snapshot has no
  content of its own, hence every file of its own is in the difference
  (`RollbackOffered`). `SoundOutside` (only Go files are unsound) and the scope in
  `Order` give `Passed`; after a passed check the run writes no more, and what others write
  is not its own.

* **Workbench, the snapshots** (`SnapInv`). A manifest on disk is of a goal that captured in the second
  it is named by (`SnapOwned`): the goal's own, or the second is shared. A
  rollback is offered only after the manifest was saved (`NotYetOffered`, `OfferSaved`), and the
  copies of a report in files and buffers say nothing else (`FileSaved`, `BufferSaved`).
* **Workbench, the list** (`ListInv`). A goal that was listed is in the list or its file is torn
  (`PublishedListed`), and its file, if its ID is its own, holds it (`FileOwn`); nothing is listed twice
  (`NoDouble`). For a restart: the new list is ordered by time, strictly, so its entries differ; it has as many
  as there are reports in the files; hence it has them all (pigeonhole, `FS_Injection`).
* **Screen, the images** (`FilesInv`). A file that was written is there or `Keep` later ones
  were written (`Kept`); whatever holds an image -- the screen, a save, the store -- holds one that was
  written (`Held`), and the set of later captures only grows.
* **Maintenance** (`MaintenanceInv`). When the latest tests of a request have passed, what nobody else
  wrote since they began is sound (`PassedIsSound`): a test that ends says so of what was not written while
  it ran, and its own commands after it write nothing. Nobody is foreign to what it wrote last
  (`OwnIsNotForeign`). Together (`PassedVouches`): an area in scope that is not sound was written last by
  somebody whose tests have not passed since, for otherwise the same would hold of that writer. A commit takes
  what somebody has staged when its request was past its tests (`StagedWasTested`).
* **Meeting.** `TurnsAreFair` is inductive beside `TurnHasRound`: a message of the speaker
  adds one to its count and moves the boundary past it, or to the next round
  (`HowOftenAppend`, `NextSpeaker`).
* **Collaboration.** The messages about a task since the last split: an executed attempt
  stays behind its code until the task's next code (`ExecutedKept`, `ExecutedNow`), and no code
  is published for a task that is completed (`TasksFit`: completed are exactly the tasks
  before the present one). `PromptShowsFirstSplit` holds because every report is headed,
  so the search stops at the first. `FeedbackIsOwn` adds that no error
  on record is of a round, task or attempt still to come (`ErrorsOfPast`): so a task begins with
  none of its own, and each analysed attempt adds one, which is the latest.
* **Docker runner** (`DockerInv`). The containers of a call are numbered as they were made, so
  "the current one" is the last. What is deferred is the directory first and then what this
  try has made (`DeferredFits`), exactly as long as the statement reached says; what exists is
  deferred or was refused (`Owed`). Unwinding takes the last, so the directory goes after its
  containers. A call touches nothing of another (`OthersUntouched`), so one lemma serves all other
  calls. `PassedIsReal` needs that the statement reached tells which containers have ended.
* **The three together.** A step of `RoomNext` is a step of one component and leaves the others
  alone, so `RoomSpec` implies the specification of each (`RoomIsEach`), and all theorems about
  one of them hold in the composition that is model-checked.
* **Planning** (`PlanningInv`). What is left to ask is in order of preference (`Ordered`), and whoever was
  asked comes before it (`AskedBefore`); for a plan, who is not left has failed
  (`PlanFits`). So the one that answers is the first that did not fail. For a bundle, the last
  provider of no use is the last in the order, and `last` is about it (`LastFits`,
  `CodegenFits`). No induction is needed: an order has five names, so `Keep` is unfolded five
  times. `QuickAnswersCount` holds by the floor of five seconds, below every other limit but that of a
  bridge configured for one to four seconds (`LimitAtLeastFive`), which the property names.
* **Workbench, the files** (`SaveInv`). The file of a listed report holds its statuses unless a
  request that has changed the report is yet to save it (`Handled`), has ended without (`Unsaved`), or two requests
  were saving it at once. What a request is about to write is what is shown, or somebody is about to change
  and save the report again, as long as no second request has joined it (`BufferFits`). Two that save together
  are recorded as such (`OneSaver`, `raced`); then nothing is known until the last of them has written,
  and the file is torn or holds what one of them marshalled (`LateText`). The next request that saves the report
  alone ends that.

Only model-checked:

* `RollbackEnds`, `LoopEnds`, `RequestsEnd`, `PlanningEnds`, `WorkflowEndsHere`, `CallsEnd`: liveness is
  out of reach of the prover.
* The three violated properties.

## 5. Not modelled, and why

* The text of prompts, plans, reports, diffs, traces and troubleshooting: formatting. Their
  hazards are in `PROJECT.json` with a note.
* Model clients, the vision client, the inspector, the page, the tray icon, configuration: one call
  or one conversion each, without state that anything else changes.
* The knowledge index: planned, next section.
* Docker validation and self-heal inside one container run a script whose output only is read;
  `Pipeline` and `Maintenance` keep its verdict and what it writes.
* Rate-limit headers, request formats and proxies of the model clients, beyond how a call may end.
* What agents and models say: a report is its kind and what it is about, an answer
  good, bad or none.
* Data races on slices and maps inside a report: Go leaves them undefined; the models read a report
  whole, at the step that copies it.

## 6. Plan

Done, in the order of importance: (A) Snapshot and Rollback, (B) Workbench, (C, D) ScreenContext with
the runtime store, (E) RepairLoop over BoundedRetry, (F, G) Pipeline with code generation, guard and
validation scope, (H) Collaboration, Meeting and DockerRunner, (I) Planning, (J) Maintenance.

Next:

1. `RagIndex`: chunks and ranking as functions against a reference definition.
2. That the self-heal of a task implements `BoundedRetry`.
3. Proof that a repair loop inside a pipeline run ends within its rounds, by composing
   `Pipeline` with `BoundedRetry`.
