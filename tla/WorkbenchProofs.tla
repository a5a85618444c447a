-------------------------- MODULE WorkbenchProofs --------------------------
(***************************************************************************)
(* Theorems about Workbench for every number of runs and actions, every    *)
(* set of enabled phases and every bound on the clock and on restarts.     *)
(***************************************************************************)
EXTENDS Workbench, FiniteSetTheorems, TLAPS

(* The order of creation is a number. *)
LEMMA NextCreatedType == NextCreated \in Nat
<1>1. IsFiniteSet({r \in Run : report[r].created # 0})
  BY FS_Subset, RunAssumption
<1>2. QED BY <1>1, FS_CardinalityType DEF NextCreated

(* Control states of a run whose report is or was listed. *)
Ended == {"published", "done", "lost"}

AfterPhases == Ended \cup {"idle", "failed", "written"}

(* The phases of Execute are control states of their own. *)
LEMMA PhaseControl ==
  /\ \A k \in 1 .. Len(Phases) : Phases[k] \in PcR /\ Phases[k] \notin AfterPhases
  /\ {"planning", "persisting"} \subseteq PcR
<1>1. Len(Phases) = 7 /\ Phases[1] = "planning" /\ Phases[7] = "persisting"
  BY DEF Phases
<1>2. \A k \in 1 .. 7 : Phases[k] \in Optional \cup {"planning", "persisting"}
  BY DEF Phases, Optional
<1>3. \A k \in 1 .. 7 : Phases[k] \notin AfterPhases
  BY <1>2 DEF Optional, AfterPhases, Ended
<1>4. QED BY <1>1, <1>3 DEF PcR

(* A lookup finds reports of runs. *)
LEMMA LookupIn == \A id, action : Lookup(id, action) \subseteq Run
BY DEF Lookup

(* The updates of a report that the steps are made of. *)
LEMMA StampUpdate ==
  ASSUME NEW rep \in [Run -> Report], NEW r \in Run, NEW i \in Second
  PROVE  /\ [rep EXCEPT ![r].id = i] \in [Run -> Report]
         /\ [rep EXCEPT ![r].before = i] \in [Run -> Report]
BY DEF Report

(* A report that is assembled is a report, *)
LEMMA AssembleUpdate ==
  ASSUME NEW rep \in [Run -> Report], NEW r \in Run, NEW c \in Nat, NEW f \in Statuses
  PROVE  [rep EXCEPT ![r].created = c, ![r].status = f] \in [Run -> Report]
BY DEF Report

(* ... one that is loaded from disk, *)
LEMMA LoadUpdate ==
  ASSUME NEW d \in Report, NEW f \in Statuses
  PROVE  [d EXCEPT !.status = f] \in Report
BY DEF Report

(* ... and one that gets the status of an action. *)
LEMMA StatusUpdate ==
  ASSUME NEW rep \in [Run -> Report], NEW r \in Run, NEW a \in Action, NEW v \in Status
  PROVE  [rep EXCEPT ![r].status[a] = v] \in [Run -> Report]
<1>1. rep[r] \in Report /\ rep[r].status \in Statuses
  BY DEF Report
<1>2. [rep[r].status EXCEPT ![a] = v] \in Statuses
  BY <1>1 DEF Statuses
<1>3. [rep[r] EXCEPT !.status[a] = v] \in Report
  BY <1>1, <1>2 DEF Report
<1>4. QED BY <1>3

(* A history is a sequence of runs, *)
LEMMA HistoriesType == ASSUME NEW h \in Histories PROVE h \in Seq(Run)
<1>1. IsFiniteSet(Loaded) /\ Loaded \subseteq Run
  BY FS_Subset, RunAssumption DEF Loaded
<1>2. Cardinality(Loaded) \in Nat
  BY <1>1, FS_CardinalityType
<1>3. h \in [1 .. Cardinality(Loaded) -> Run]
  BY <1>1 DEF Histories
<1>4. QED BY <1>2, <1>3

(* ... all of them loaded from files. *)
LEMMA HistoriesRange ==
  ASSUME NEW h \in Histories
  PROVE  \A j \in 1 .. Len(h) : h[j] \in Loaded
<1>1. IsFiniteSet(Loaded)
  BY FS_Subset, RunAssumption DEF Loaded
<1>2. Cardinality(Loaded) \in Nat
  BY <1>1, FS_CardinalityType
<1>3. h \in [1 .. Cardinality(Loaded) -> Loaded]
  BY DEF Histories
<1>4. QED BY <1>2, <1>3

(* Writing a file keeps the type of the disk. *)
LEMMA WriteFileType ==
  ASSUME NEW file \in Second, NEW content \in Content, WriteFile(file, content),
         disk \in [Second -> Content \cup {None, Torn}]
  PROVE  disk' \in [Second -> Content \cup {None, Torn}]
BY DEF WriteFile

(* Showing a workflow keeps the types of the workflow and of the store. *)
LEMMA ShowType ==
  ASSUME TypeOK
  PROVE  /\ \A status \in {"idle", "running", "error"}, phase \in PhaseName :
              UpdateWorkflow(status, phase) =>
                workflow' \in Workflow /\ stored' \in SUBSET Workflow /\ restored' \in BOOLEAN
         /\ Show(Ready) =>
              workflow' \in Workflow /\ stored' \in SUBSET Workflow /\ restored' \in BOOLEAN
<1>1. Ready \in Workflow
  BY DEF Ready, Workflow, PhaseName
<1>2. \A status \in {"idle", "running", "error"}, phase \in PhaseName :
        [status |-> status, phase |-> phase] \in Workflow
  BY DEF Workflow
<1>3. \A st \in Workflow : Show(st) =>
        workflow' \in Workflow /\ stored' \in SUBSET Workflow /\ restored' \in BOOLEAN
  BY DEF Show, TypeOK
<1>4. QED BY <1>1, <1>2, <1>3 DEF UpdateWorkflow

(***************************************************************************)
(* Type correctness, the requests' steps apart.                            *)
(***************************************************************************)
LEMMA ExecTypeCorrect ==
  ASSUME TypeOK, NEW r \in Run, ExecStart(r) \/ ExecStep(r)
  PROVE  TypeOK'
<1> USE DEF TypeOK, RunGoto, flowVars, execVars, actVars
<1>1. CASE ExecStart(r)
  <2>1. report' \in [Run -> Report]
    BY <1>1, StampUpdate DEF ExecStart
  <2>2. QED BY <1>1, <2>1, ShowType DEF ExecStart, PcR, PhaseName
<1>2. CASE ExecSnapshot(r)
  <2>1. report' \in [Run -> Report]
    BY <1>2, StampUpdate DEF ExecSnapshot
  <2>2. QED BY <1>2, <2>1, ShowType DEF ExecSnapshot, PcR, PhaseName
<1>3. CASE ExecSnapshotEnds(r)
  <2>1. 0 \in Second /\ report[r].before \in Second
    BY BoundAssumption DEF Second, Report
  <2>2. report' \in [Run -> Report]
    <3>1. [report EXCEPT ![r].before = 0] \in [Run -> Report]
      BY <2>1, StampUpdate
    <3>2. report' = report \/ report' = [report EXCEPT ![r].before = 0]
      BY <1>3 DEF ExecSnapshotEnds
    <3>3. QED BY <3>1, <3>2
  <2>3. snapFile' \in [Second -> Run \cup {None}]
    <3>1. snapFile' = snapFile \/ snapFile' = [snapFile EXCEPT ![report[r].before] = r]
      BY <1>3 DEF ExecSnapshotEnds
    <3>2. QED BY <2>1, <3>1
  <2>4. pcR' \in [Run -> PcR]
    BY <1>3 DEF ExecSnapshotEnds, PcR
  <2>5. QED BY <1>3, <2>2, <2>3, <2>4 DEF ExecSnapshotEnds
<1>4. CASE ExecPlan(r)
  BY <1>4, PhaseControl, ShowType DEF ExecPlan, PcR, PhaseName
<1>5. CASE ExecPhase(r)
  <2>1. PICK k \in 1 .. Len(Phases) :
          /\ Phases[k] \in Enabled
          /\ RunGoto(r, Phases[k])
          /\ UpdateWorkflow("running", IF Phases[k] = "docker" THEN "sandbox" ELSE Phases[k])
    BY <1>5 DEF ExecPhase, Follows
  <2>2. pcR' \in [Run -> PcR]
    BY <2>1, PhaseControl
  <2>3. workflow' \in Workflow /\ stored' \in SUBSET Workflow /\ restored' \in BOOLEAN
    <3>1. (IF Phases[k] = "docker" THEN "sandbox" ELSE Phases[k]) \in PhaseName
      BY <2>1, EnabledAssumption DEF PhaseName, Optional
    <3>2. PICK p \in PhaseName : UpdateWorkflow("running", p)
      BY <2>1, <3>1
    <3>3. QED BY <3>2, ShowType
  <2>4. QED BY <1>5, <2>2, <2>3 DEF ExecPhase
<1>6. CASE ExecAssemble(r)
  <2>1. \A before, changed, failed : Offered(before, changed, failed) \in Statuses
    BY DEF Offered, Statuses, Status
  <2>2. report' \in [Run -> Report]
    <3>1. PICK changed, failed \in BOOLEAN : report' = [report EXCEPT
            ![r].created = NextCreated,
            ![r].status = Offered(report[r].before, changed, failed)]
      BY <1>6 DEF ExecAssemble
    <3>2. QED BY <2>1, <3>1, NextCreatedType, AssembleUpdate
  <2>3. QED BY <1>6, <2>2, PhaseControl, ShowType DEF ExecAssemble, PhaseName
<1>7. CASE ExecPersist(r)
  <2>1. report[r].id \in Second
    BY DEF Report
  <2>2. QED BY <1>7, <2>1 DEF ExecPersist, Truncate, PcR
<1>8. CASE ExecWritten(r)
  <2>1. report[r].id \in Second /\ [owner |-> r, status |-> report[r].status] \in Content
    BY DEF Report, Content
  <2>2. disk' \in [Second -> Content \cup {None, Torn}]
    BY <1>8, <2>1, WriteFileType DEF ExecWritten
  <2>3. QED BY <1>8, <2>2 DEF ExecWritten, PcR
<1>9. CASE ExecPersistFails(r)
  BY <1>9, ShowType DEF ExecPersistFails, PcR, PhaseName
<1>10. CASE ExecPublish(r)
  BY <1>10 DEF ExecPublish, PcR
<1>11. CASE ExecFinish(r)
  BY <1>11, ShowType DEF ExecFinish, PcR, Ready, PhaseName
<1>12. QED
  BY <1>1, <1>2, <1>3, <1>4, <1>5, <1>6, <1>7, <1>8, <1>9, <1>10, <1>11 DEF ExecStep

(* The steps of an action keep the types, *)
LEMMA ActTypeCorrect ==
  ASSUME TypeOK, NEW a \in Act, ActRequest(a) \/ ActStep(a)
  PROVE  TypeOK'
<1> USE DEF TypeOK, ActGoto, flowVars, execVars
<1>1. CASE ActRequest(a)
  BY <1>1, ShowType DEF ActRequest, PcA, PhaseName
<1>2. CASE ActLookup(a)
  <2>1. PICK r \in Lookup(req[a].id, req[a].action) :
          /\ report' = [report EXCEPT ![r].status[req[a].action] = "running"]
          /\ ref' = [ref EXCEPT ![a] = r]
    BY <1>2 DEF ActLookup
  <2>2. report' \in [Run -> Report]
    BY <2>1, LookupIn, StatusUpdate DEF Status
  <2>3. QED BY <1>2, <2>1, <2>2, LookupIn DEF ActLookup, PcA
<1>3. CASE ActMissing(a)
  BY <1>3, ShowType DEF ActMissing, PcA, PhaseName
<1>4. CASE ActPerform(a)
  BY <1>4 DEF ActPerform, PcA
<1>5. CASE ActWriteBack(a)
  <2>1. PICK r \in Lookup(req[a].id, req[a].action) :
          /\ report' = [report EXCEPT ![r].status[req[a].action] = outcome[a]]
          /\ wrote' = [wrote EXCEPT ![a] = r]
    BY <1>5 DEF ActWriteBack
  <2>2. outcome[a] \in Status
    BY DEF Status
  <2>3. report' \in [Run -> Report]
    BY <2>1, <2>2, LookupIn, StatusUpdate
  <2>4. QED BY <1>5, <2>1, <2>3, LookupIn DEF ActWriteBack, PcA
<1>6. CASE ActMarshal(a)
  BY <1>6 DEF ActMarshal, PcA, Report
<1>7. CASE ActPersist(a)
  <2>1. report[wrote[a]].id \in Second
    BY DEF Report
  <2>2. QED BY <1>7, <2>1 DEF ActPersist, Truncate, PcA
<1>8. CASE ActWritten(a)
  <2>1. report[wrote[a]].id \in Second /\ [owner |-> wrote[a], status |-> buffer[a]] \in Content
    BY DEF Report, Content
  <2>2. disk' \in [Second -> Content \cup {None, Torn}]
    BY <1>8, <2>1, WriteFileType DEF ActWritten
  <2>3. QED BY <1>8, <2>2 DEF ActWritten, PcA
<1>9. CASE ActPersistFails(a)
  BY <1>9, ShowType DEF ActPersistFails, PcA, PhaseName
<1>10. CASE ActFinish(a)
  <2>1. workflow' \in Workflow /\ stored' \in SUBSET Workflow /\ restored' \in BOOLEAN
    BY <1>10, ShowType DEF ActFinish, PhaseName
  <2>2. pcA' \in [Act -> PcA]
    BY <1>10 DEF ActFinish, PcA
  <2>3. QED BY <1>10, <2>1, <2>2 DEF ActFinish
<1>11. QED
  BY <1>1, <1>2, <1>3, <1>4, <1>5, <1>6, <1>7, <1>8, <1>9, <1>10 DEF ActStep

(***************************************************************************)
(* What a restart makes of the reports: those that a file holds have the   *)
(* statuses of the file and are listed once; at most one other is listed,  *)
(* and that one was before; the others keep what they offer.               *)
(***************************************************************************)
LEMMA RestartReports ==
  ASSUME TypeOK, Restart
  PROVE  /\ runs' \in Seq(Run)
         /\ report' \in [Run -> Report]
         /\ \A q \in Run : report'[q].id = report[q].id /\ report'[q].before = report[q].before
         /\ \A q \in Loaded : report'[q].status = disk[report[q].id].status
         /\ \A q \in Run \ Loaded :
              /\ \A x \in Action : report'[q].status[x] = "absent" <=> report[q].status[x] = "absent"
              /\ q \in published \/ report'[q] = report[q]
         /\ \E h \in Histories :
              runs' = h \/ \E r \in published \ Loaded : runs' = <<r>> \o h
<1> USE DEF TypeOK
<1>1. \A q \in Loaded : q \in Run /\ disk[report[q].id].status \in Statuses
  BY DEF Loaded
<1>2. FromFiles \in [Run -> Report]
  <2>1. \A q \in Loaded : [report[q] EXCEPT !.status = disk[report[q].id].status] \in Report
    BY <1>1, LoadUpdate
  <2>2. QED BY <2>1 DEF FromFiles
<1>3. \A q \in Run :
        /\ FromFiles[q].id = report[q].id /\ FromFiles[q].before = report[q].before
        /\ FromFiles[q].status = IF q \in Loaded THEN disk[report[q].id].status ELSE report[q].status
        /\ q \notin Loaded => FromFiles[q] = report[q]
  BY <1>1 DEF FromFiles, Report
<1>4. PICK h \in Histories :
        \/ runs' = h /\ report' = FromFiles
        \/ \E r \in Latest : \E f \in Versions(r) :
             runs' = <<r>> \o h /\ report' = [FromFiles EXCEPT ![r].status = f]
  BY DEF Restart
<1>5. h \in Seq(Run)
  BY HistoriesType
<1>6. CASE runs' = h /\ report' = FromFiles
  BY <1>1, <1>2, <1>3, <1>5, <1>6
<1>7. CASE \E r \in Latest : \E f \in Versions(r) :
             runs' = <<r>> \o h /\ report' = [FromFiles EXCEPT ![r].status = f]
  <2>0. PICK r \in Latest : \E f \in Versions(r) :
          runs' = <<r>> \o h /\ report' = [FromFiles EXCEPT ![r].status = f]
    BY <1>7
  <2>1. PICK f \in Versions(r) : runs' = <<r>> \o h /\ report' = [FromFiles EXCEPT ![r].status = f]
    BY <2>0
  <2>2. r \in Run /\ r \in published /\ r \notin Loaded
    BY DEF Latest
  <2>3. f \in Statuses /\ \A x \in Action : f[x] = "absent" <=> report[r].status[x] = "absent"
    BY DEF Versions
  <2>4. [FromFiles[r] EXCEPT !.status = f] \in Report
    BY <1>2, <2>2, <2>3, LoadUpdate
  <2>5. report' \in [Run -> Report]
    BY <1>2, <2>1, <2>2, <2>4
  <2>6. /\ \A q \in Run \ {r} : report'[q] = FromFiles[q]
        /\ report'[r].id = FromFiles[r].id /\ report'[r].before = FromFiles[r].before
        /\ report'[r].status = f
    BY <1>2, <2>1, <2>2 DEF Report
  <2>7. runs' \in Seq(Run)
    BY <1>5, <2>1, <2>2
  <2>8. \A q \in Run : report'[q].id = report[q].id /\ report'[q].before = report[q].before
    BY <1>3, <2>2, <2>6
  <2>9. \A q \in Loaded : report'[q].status = disk[report[q].id].status
    BY <1>1, <1>3, <2>2, <2>6
  <2>10. \A q \in Run \ Loaded :
           /\ \A x \in Action : report'[q].status[x] = "absent" <=> report[q].status[x] = "absent"
           /\ q \in published \/ report'[q] = report[q]
    BY <1>3, <2>2, <2>3, <2>6
  <2>11. QED BY <2>1, <2>2, <2>5, <2>7, <2>8, <2>9, <2>10
<1>8. QED BY <1>4, <1>6, <1>7

(* A restart keeps the types, *)
LEMMA RestartTypeCorrect ==
  ASSUME TypeOK, Restart
  PROVE  TypeOK'
<1>1. runs' \in Seq(Run) /\ report' \in [Run -> Report]
  BY RestartReports
<1>2. /\ pcR' \in [Run -> PcR]
      /\ pcA' \in [Act -> PcA]
  BY DEF TypeOK, Restart, PcR, PcA
<1>3. /\ workflow' \in Workflow
      /\ stored' \in SUBSET Workflow
      /\ restored' \in BOOLEAN
      /\ raced' \in SUBSET Run
  <2>1. Ready \in Workflow
    BY DEF Ready, Workflow, PhaseName
  <2>2. QED BY <2>1 DEF TypeOK, Restart
<1>4. published' \in SUBSET Run /\ restarts' \in 0 .. MaxRestarts
  BY BoundAssumption DEF TypeOK, Restart, Loaded
<1>5. QED BY <1>1, <1>2, <1>3, <1>4 DEF TypeOK, Restart

(* ... and the initial state has them. *)
LEMMA InitTypeCorrect == Init => TypeOK
<1> SUFFICES ASSUME Init PROVE TypeOK
  OBVIOUS
<1>1. Ready \in Workflow /\ Blank \in Statuses
  BY DEF Ready, Workflow, PhaseName, Blank, Statuses, Status
<1>2. workflow \in Workflow /\ stored \in SUBSET Workflow /\ restored \in BOOLEAN
  BY <1>1 DEF Init
<1>3. QED
  BY <1>1, <1>2, BoundAssumption DEF Init, TypeOK, Second, Report, PcR, PcA, Action

(***************************************************************************)
(* Type correctness of the workbench.                                      *)
(***************************************************************************)
THEOREM WorkbenchTypeCorrect == Spec => []TypeOK
<1>1. Init => TypeOK
  BY InitTypeCorrect
<1>2. TypeOK /\ [Next]_vars => TypeOK'
  <2> SUFFICES ASSUME TypeOK, [Next]_vars PROVE TypeOK'
    OBVIOUS
  <2>1. CASE \E r \in Run : ExecStart(r) \/ ExecStep(r)
    BY <2>1, ExecTypeCorrect
  <2>2. CASE \E a \in Act : ActRequest(a) \/ ActStep(a)
    BY <2>2, ActTypeCorrect
  <2>3. CASE Tick
    BY <2>3, BoundAssumption DEF TypeOK, Tick, Second, flowVars, execVars, actVars
  <2>4. CASE Restart
    BY <2>4, RestartTypeCorrect
  <2>5. CASE UNCHANGED vars
    BY <2>5 DEF TypeOK, vars, flowVars, execVars, actVars
  <2>6. QED BY <2>1, <2>2, <2>3, <2>4, <2>5 DEF Next
<1>3. QED BY <1>1, <1>2, PTL DEF Spec
-----------------------------------------------------------------------------
(* A step of a request leaves it in flight, or a workflow that is at rest. *)
LEMMA ExecKeepsFlight ==
  ASSUME TypeOK, NEW r \in Run, ExecStart(r) \/ ExecStep(r)
  PROVE  workflow'.status # "running" \/ RunInFlight(r)'
<1> USE DEF TypeOK, RunGoto, UpdateWorkflow, Show, RunInFlight, RunAtRest
<1>1. CASE ExecPhase(r)
  <2>1. PICK k \in 1 .. Len(Phases) : RunGoto(r, Phases[k])
    BY <1>1 DEF ExecPhase
  <2>2. Phases[k] \notin AfterPhases
    BY PhaseControl
  <2>3. QED BY <2>1, <2>2 DEF AfterPhases, Ended
<1>2. CASE ExecPersistFails(r) \/ ExecFinish(r)
  BY <1>2 DEF ExecPersistFails, ExecFinish, Ready
<1>3. CASE ExecStart(r) \/ ExecSnapshot(r) \/ ExecSnapshotEnds(r) \/ ExecPlan(r) \/ ExecAssemble(r)
  BY <1>3 DEF ExecStart, ExecSnapshot, ExecSnapshotEnds, ExecPlan, ExecAssemble
<1>4. CASE ExecPersist(r) \/ ExecWritten(r) \/ ExecPublish(r)
  BY <1>4 DEF ExecPersist, ExecWritten, ExecPublish
<1>5. QED BY <1>1, <1>2, <1>3, <1>4 DEF ExecStep

(* A step of an action leaves the workflow running only in flight. *)
LEMMA ActKeepsFlight ==
  ASSUME TypeOK, NEW a \in Act, ActRequest(a) \/ ActStep(a)
  PROVE  workflow'.status # "running" \/ ActInFlight(a)'
<1> USE DEF TypeOK, ActGoto, UpdateWorkflow, Show, ActInFlight, ActAtRest
<1>1. CASE ActRequest(a) \/ ActLookup(a) \/ ActPerform(a) \/ ActWriteBack(a)
  BY <1>1 DEF ActRequest, ActLookup, ActPerform, ActWriteBack
<1>2. CASE ActMarshal(a) \/ ActPersist(a) \/ ActWritten(a)
  BY <1>2 DEF ActMarshal, ActPersist, ActWritten
<1>3. CASE ActMissing(a) \/ ActPersistFails(a)
  BY <1>3 DEF ActMissing, ActPersistFails
<1>4. CASE ActFinish(a)
  BY <1>4 DEF ActFinish, Ready
<1>5. QED BY <1>1, <1>2, <1>3, <1>4 DEF ActStep

(***************************************************************************)
(* The workflow shows "running" only while some request is in flight.      *)
(***************************************************************************)
THEOREM WorkflowRunningCorrect == Spec => []RunningMeansInFlight
<1> USE DEF RunningMeansInFlight, Quiet
<1>1. Init => RunningMeansInFlight
  BY DEF Init, Ready
<1>2. TypeOK /\ RunningMeansInFlight /\ [Next]_vars => RunningMeansInFlight'
  <2> SUFFICES ASSUME TypeOK, RunningMeansInFlight, [Next]_vars PROVE RunningMeansInFlight'
    OBVIOUS
  <2>1. CASE \E r \in Run : ExecStart(r) \/ ExecStep(r)
    BY <2>1, ExecKeepsFlight
  <2>2. CASE \E a \in Act : ActRequest(a) \/ ActStep(a)
    BY <2>2, ActKeepsFlight
  <2>3. CASE Tick \/ UNCHANGED vars
    BY <2>3 DEF Tick, vars, flowVars, execVars, actVars, RunInFlight, ActInFlight
  <2>4. CASE Restart
    BY <2>4 DEF Restart, Ready
  <2>5. QED BY <2>1, <2>2, <2>3, <2>4 DEF Next
<1>3. QED BY <1>1, <1>2, WorkbenchTypeCorrect, PTL DEF Spec
-----------------------------------------------------------------------------
(***************************************************************************)
(* The strengthening for RunningActionHasRequest.  An ID is given once, a  *)
(* listed report is finished, and a request that performs an action finds  *)
(* it again: so its second lookup succeeds, and it ends the "running" that *)
(* its first lookup began.                                                 *)
(***************************************************************************)
Listed(r) == \E j \in 1 .. Len(runs) : runs[j] = r

IdsGiven ==
  /\ second # 0
  /\ \A r \in Run : report[r].id = 0 <=> pcR[r] = "idle"

ListedEnded == \A r \in Run : Listed(r) => pcR[r] \in Ended

PublishedEnded == \A r \in published : pcR[r] \in Ended

FilesEnded ==
  \A r \in Run, s \in Second :
    disk[s] \in [owner : {r}, status : Statuses] => pcR[r] \in Ended \cup {"written"}

WroteEnded ==
  \A a \in Act : pcA[a] \in {"persisting", "marshalled", "writing"} => pcR[wrote[a]] \in Ended

RunningEnded ==
  \A r \in Run, x \in Action : report[r].status[x] = "running" => pcR[r] \in Ended

RefKept ==
  \A a \in Act : pcA[a] \in {"perform", "performed"} =>
    /\ Listed(ref[a])
    /\ report[ref[a]].id = req[a].id
    /\ report[ref[a]].status[req[a].action] # "absent"

IInv ==
  /\ TypeOK
  /\ IdsGiven
  /\ ListedEnded
  /\ PublishedEnded
  /\ FilesEnded
  /\ WroteEnded
  /\ RunningEnded
  /\ RefKept
  /\ RunningActionHasRequest

(* What a new status changes in the reports. *)
LEMMA StatusAt ==
  ASSUME NEW rep \in [Run -> Report], NEW r \in Run, NEW x \in Action, NEW v \in Status
  PROVE  LET new == [rep EXCEPT ![r].status[x] = v]
         IN  \A q \in Run :
               /\ new[q].id = rep[q].id
               /\ \A y \in Action :
                    new[q].status[y] = IF q = r /\ y = x THEN v ELSE rep[q].status[y]
<1>1. rep[r] \in Report /\ rep[r].status \in [Action -> Status]
  BY DEF Report, Statuses
<1>2. QED BY <1>1 DEF Report

(* The invariant at the start. *)
LEMMA InitInvariant == Init => IInv
<1> SUFFICES ASSUME Init PROVE IInv
  OBVIOUS
<1>1. TypeOK
  BY InitTypeCorrect
<1>2. IdsGiven /\ RunningEnded /\ RefKept /\ WroteEnded /\ RunningActionHasRequest
  BY DEF Init, IdsGiven, RunningEnded, RefKept, WroteEnded, RunningActionHasRequest, Blank
<1>3. ListedEnded /\ PublishedEnded /\ FilesEnded
  BY FileAssumption DEF Init, ListedEnded, PublishedEnded, FilesEnded, Listed, Content
<1>4. QED BY <1>1, <1>2, <1>3 DEF IInv

(* What a step of Execute does, and does not do, to the state it shares. *)
LEMMA ExecFrame ==
  ASSUME IInv, NEW r \in Run, ExecStart(r) \/ ExecStep(r)
  PROVE  /\ UNCHANGED <<second, actVars, restarts>>
         /\ \A q \in Run \ {r} : pcR'[q] = pcR[q] /\ report'[q] = report[q]
         /\ pcR[r] \in Ended => pcR'[r] \in Ended /\ report'[r] = report[r]
         /\ pcR[r] = "written" => pcR'[r] \in Ended /\ report'[r] = report[r]
         /\ pcR'[r] # "idle"
         /\ report'[r].id = IF pcR[r] = "idle" THEN second ELSE report[r].id
         /\ \A x \in Action : report'[r].status[x] = "running" => report[r].status[x] = "running"
<1> USE DEF IInv, TypeOK, RunGoto, UpdateWorkflow, Ended
<1>1. CASE ExecStart(r)
  BY <1>1 DEF ExecStart, Report
<1>2. CASE ExecSnapshot(r)
  BY <1>2 DEF ExecSnapshot, Report
<1>3. CASE ExecSnapshotEnds(r)
  <2>1. report' = report \/ report' = [report EXCEPT ![r].before = 0]
    BY <1>3 DEF ExecSnapshotEnds
  <2>2. /\ \A q \in Run \ {r} : report'[q] = report[q]
        /\ report'[r].id = report[r].id
        /\ report'[r].status = report[r].status
    BY <2>1 DEF Report
  <2>3. QED BY <1>3, <2>2 DEF ExecSnapshotEnds
<1>4. CASE ExecPlan(r)
  BY <1>4 DEF ExecPlan
<1>5. CASE ExecPhase(r)
  <2>1. PICK j, k \in 1 .. Len(Phases) : pcR[r] = Phases[j] /\ RunGoto(r, Phases[k])
    BY <1>5 DEF ExecPhase
  <2>2. {Phases[j], Phases[k]} \cap AfterPhases = {}
    BY PhaseControl
  <2>3. QED BY <1>5, <2>1, <2>2 DEF ExecPhase, AfterPhases
<1>6. CASE ExecAssemble(r)
  <2>1. PICK j \in 1 .. Len(Phases), changed, failed \in BOOLEAN :
          /\ pcR[r] = Phases[j]
          /\ report' = [report EXCEPT
               ![r].created = NextCreated,
               ![r].status = Offered(report[r].before, changed, failed)]
    BY <1>6 DEF ExecAssemble
  <2>2. pcR[r] \notin AfterPhases
    BY <2>1, PhaseControl
  <2>3. \A q \in Run \ {r} : report'[q] = report[q]
    BY <2>1
  <2>4. /\ report'[r].id = report[r].id
        /\ report'[r].status = Offered(report[r].before, changed, failed)
    BY <2>1 DEF Report
  <2>5. \A x \in Action : report'[r].status[x] # "running"
    BY <2>4 DEF Offered
  <2>6. pcR' = [pcR EXCEPT ![r] = "persisting"] /\ UNCHANGED <<second, actVars, restarts>>
    BY <1>6 DEF ExecAssemble
  <2>7. pcR[r] \notin Ended /\ pcR[r] # "written" /\ pcR[r] # "idle"
    BY <2>2 DEF AfterPhases
  <2>8. QED BY <2>3, <2>4, <2>5, <2>6, <2>7
<1>7. CASE ExecPersist(r) \/ ExecWritten(r)
  BY <1>7 DEF ExecPersist, ExecWritten
<1>8. CASE ExecPersistFails(r) \/ ExecPublish(r) \/ ExecFinish(r)
  BY <1>8 DEF ExecPersistFails, ExecPublish, ExecFinish
<1>9. QED BY <1>1, <1>2, <1>3, <1>4, <1>5, <1>6, <1>7, <1>8 DEF ExecStep

(* A run lists a report only by publishing its own. *)
LEMMA ExecLists ==
  ASSUME IInv, NEW r \in Run, ExecStart(r) \/ ExecStep(r)
  PROVE  /\ \A q \in Run : Listed(q) => Listed(q)'
         /\ \A q \in Run : Listed(q)' => Listed(q) \/ (q = r /\ pcR'[r] = "published")
<1> USE DEF IInv, TypeOK
<1>1. CASE ExecPublish(r)
  <2>1. pcR'[r] = "published" /\ runs' = <<r>> \o runs
    BY <1>1 DEF ExecPublish, RunGoto
  <2>2. /\ Len(runs') = Len(runs) + 1
        /\ runs'[1] = r
        /\ \A j \in 1 .. Len(runs) : runs'[j + 1] = runs[j]
    BY <2>1
  <2>3. \A j \in 1 .. Len(runs') : j = 1 \/ (j - 1 \in 1 .. Len(runs) /\ runs'[j] = runs[j - 1])
    BY <2>1
  <2>4. \A j \in 1 .. Len(runs) : j + 1 \in 1 .. Len(runs')
    BY <2>2
  <2>5. QED BY <2>1, <2>2, <2>3, <2>4 DEF Listed
<1>2. CASE ~ ExecPublish(r)
  <2>1. runs' = runs
    BY <1>2 DEF ExecStart, ExecStep, ExecSnapshot, ExecSnapshotEnds, ExecPlan, ExecPhase,
                ExecAssemble, ExecPersist, ExecWritten, ExecPersistFails, ExecFinish
  <2>2. QED BY <2>1 DEF Listed
<1>3. QED BY <1>1, <1>2

(* A run writes the files of its own report only. *)
LEMMA ExecWrites ==
  ASSUME IInv, NEW r \in Run, ExecStart(r) \/ ExecStep(r),
         NEW q \in Run, NEW s \in Second, disk'[s] \in [owner : {q}, status : Statuses]
  PROVE  \/ disk[s] \in [owner : {q}, status : Statuses]
         \/ q = r /\ pcR'[r] = "written"
<1> USE DEF IInv, TypeOK
<1>1. CASE ExecWritten(r)
  BY <1>1, FileAssumption DEF ExecWritten, WriteFile, RunGoto, Content
<1>2. CASE ExecPersist(r)
  BY <1>2, FileAssumption DEF ExecPersist, Truncate, Content
<1>3. CASE ~ ExecWritten(r) /\ ~ ExecPersist(r)
  BY <1>3 DEF ExecStart, ExecStep, ExecSnapshot, ExecSnapshotEnds, ExecPlan, ExecPhase,
              ExecAssemble, ExecPublish, ExecPersistFails, ExecFinish
<1>4. QED BY <1>1, <1>2, <1>3

(* The steps of a run preserve the invariant. *)
LEMMA ExecPreserves ==
  ASSUME IInv, TypeOK', NEW r \in Run, ExecStart(r) \/ ExecStep(r)
  PROVE  IInv'
<1> USE DEF IInv
<1>1. /\ UNCHANGED <<second, pcA, req, ref, wrote, restarts>>
      /\ \A q \in Run \ {r} : pcR'[q] = pcR[q] /\ report'[q] = report[q]
      /\ pcR[r] \in Ended => pcR'[r] \in Ended /\ report'[r] = report[r]
      /\ pcR[r] = "written" => pcR'[r] \in Ended /\ report'[r] = report[r]
      /\ pcR'[r] # "idle"
      /\ report'[r].id = IF pcR[r] = "idle" THEN second ELSE report[r].id
      /\ \A x \in Action : report'[r].status[x] = "running" => report[r].status[x] = "running"
  BY ExecFrame DEF actVars
<1>2. IdsGiven'
  BY <1>1 DEF IdsGiven
<1>3. ListedEnded'
  BY <1>1, ExecLists DEF ListedEnded, Ended
<1>4. FilesEnded'
  BY <1>1, ExecWrites DEF FilesEnded
<1>5. WroteEnded'
  BY <1>1 DEF WroteEnded, TypeOK
<1>6. RunningEnded'
  BY <1>1 DEF RunningEnded
<1>7. RefKept'
  <2> SUFFICES ASSUME NEW a \in Act, pcA[a] \in {"perform", "performed"}
               PROVE  /\ Listed(ref[a])'
                      /\ report'[ref[a]].id = req[a].id
                      /\ report'[ref[a]].status[req[a].action] # "absent"
    BY <1>1 DEF RefKept
  <2>1. ref[a] \in Run /\ pcR[ref[a]] \in Ended
    BY DEF RefKept, ListedEnded, TypeOK
  <2>2. report'[ref[a]] = report[ref[a]]
    BY <1>1, <2>1
  <2>3. PICK q \in Run : q = ref[a] /\ q = ref'[a]
    BY <1>1, <2>1
  <2>4. Listed(q) => Listed(q)'
    BY ExecLists
  <2>5. Listed(q)
    BY <2>3 DEF RefKept
  <2>6. Listed(ref[a])'
    BY <2>3, <2>4, <2>5 DEF Listed
  <2>7. QED BY <2>2, <2>6 DEF RefKept
<1>8. RunningActionHasRequest'
  <2> SUFFICES ASSUME restarts = 0, NEW q \in Run, NEW x \in Action,
                      SoleOwner(q)', report'[q].status[x] = "running"
               PROVE  \E a \in Act : /\ pcA[a] \in {"perform", "performed"}
                                     /\ ref[a] = q
                                     /\ req[a].action = x
    BY <1>1 DEF RunningActionHasRequest
  <2>1. report[q].status[x] = "running" /\ pcR[q] \in Ended
    BY <1>1 DEF RunningEnded
  <2>2. report'[q] = report[q] /\ report[q].id # 0
    BY <1>1, <2>1 DEF IdsGiven, Ended
  <2>3. \A p \in Run \ {q} : report[p].id = 0 \/ report[p].id = report'[p].id
    BY <1>1 DEF IdsGiven
  <2>4. SoleOwner(q)
    BY <2>2, <2>3 DEF SoleOwner
  <2>5. QED BY <2>1, <2>4 DEF RunningActionHasRequest
<1>9. PublishedEnded'
  <2>1. \/ published' = published
        \/ published' = published \cup {r} /\ pcR'[r] = "published"
    BY DEF ExecStart, ExecStep, ExecSnapshot, ExecSnapshotEnds, ExecPlan, ExecPhase, ExecAssemble,
           ExecPersist, ExecWritten, ExecPersistFails, ExecPublish, ExecFinish, RunGoto, TypeOK
  <2>2. QED BY <1>1, <2>1 DEF PublishedEnded, Ended, TypeOK
<1>10. QED BY <1>2, <1>3, <1>4, <1>5, <1>6, <1>7, <1>8, <1>9

(* A listed report whose ID is its own is found. *)
LEMMA LookupFinds ==
  ASSUME IInv, NEW r \in Run, NEW x \in Action,
         SoleOwner(r), Listed(r), report[r].status[x] # "absent"
  PROVE  r \in Lookup(report[r].id, x)
<1>1. PICK j \in 1 .. Len(runs) : runs[j] = r
  BY DEF Listed
<1>2. \A k \in 1 .. Len(runs) : runs[k] \in Run
  BY DEF IInv, TypeOK
<1>3. \A k \in 1 .. j - 1 : k \in 1 .. Len(runs)
  BY <1>1 DEF IInv, TypeOK
<1>4. \A k \in 1 .. j - 1 : report[runs[k]].id = report[r].id => runs[k] = r
  BY <1>2, <1>3 DEF SoleOwner
<1>5. QED BY <1>1, <1>4 DEF Lookup

(* A lookup finds listed reports that have the action. *)
LEMMA LookupListed ==
  \A id, x : \A r \in Lookup(id, x) : r \in Run /\ Listed(r) /\ report[r].id = id
                                        /\ report[r].status[x] # "absent"
BY DEF Lookup, Listed

(* The steps of ExecuteAction that leave the reports alone. *)
LEMMA ActQuietPreserves ==
  ASSUME IInv, TypeOK', NEW a \in Act,
         \/ ActRequest(a) \/ ActMissing(a) \/ ActPerform(a) \/ ActMarshal(a)
         \/ ActPersist(a) \/ ActWritten(a) \/ ActPersistFails(a) \/ ActFinish(a)
  PROVE  IInv'
<1> USE DEF IInv
<1>1. /\ UNCHANGED <<second, pcR, report, runs, ref, wrote, published, restarts>>
      /\ \A b \in Act \ {a} : pcA'[b] = pcA[b] /\ req'[b] = req[b]
  BY DEF ActRequest, ActMissing, ActPerform, ActMarshal, ActPersist, ActWritten,
         ActPersistFails, ActFinish, ActGoto, TypeOK, execVars
<1>2. /\ pcA'[a] \in {"perform", "performed"} => pcA[a] = "perform" /\ req'[a] = req[a]
      /\ pcA'[a] \in {"persisting", "marshalled", "writing"} =>
           pcA[a] \in {"persisting", "marshalled", "writing"}
  BY DEF ActRequest, ActMissing, ActPerform, ActMarshal, ActPersist, ActWritten,
         ActPersistFails, ActFinish, ActGoto, TypeOK
<1>3. \/ ~ (pcA[a] \in {"perform", "performed"})
      \/ pcA'[a] = "performed" /\ req'[a] = req[a]
      \/ pcA[a] = "performed" /\ Lookup(req[a].id, req[a].action) = {}
  BY DEF ActRequest, ActMissing, ActPerform, ActMarshal, ActPersist, ActWritten,
         ActPersistFails, ActFinish, ActGoto, TypeOK
<1>4. IdsGiven' /\ ListedEnded' /\ PublishedEnded' /\ RunningEnded'
  BY <1>1 DEF IdsGiven, ListedEnded, PublishedEnded, RunningEnded, Listed
<1>5. FilesEnded'
  <2>1. CASE ActPersist(a)
    BY <2>1, <1>1, FileAssumption DEF ActPersist, Truncate, FilesEnded, Content, TypeOK
  <2>2. CASE ActWritten(a)
    <3>1. pcR[wrote[a]] \in Ended
      BY <2>2 DEF ActWritten, WroteEnded
    <3>2. QED
      BY <2>2, <3>1, <1>1, FileAssumption DEF ActWritten, WriteFile, FilesEnded, Content, TypeOK
  <2>3. CASE ~ ActPersist(a) /\ ~ ActWritten(a)
    <3>1. disk' = disk
      BY <2>3 DEF ActRequest, ActMissing, ActPerform, ActMarshal, ActPersistFails, ActFinish
    <3>2. QED BY <3>1, <1>1 DEF FilesEnded
  <2>4. QED BY <2>1, <2>2, <2>3
<1>6. WroteEnded'
  BY <1>1, <1>2 DEF WroteEnded
<1>7. RefKept'
  BY <1>1, <1>2 DEF RefKept, Listed
<1>8. RunningActionHasRequest'
  <2> SUFFICES ASSUME restarts = 0, NEW q \in Run, NEW x \in Action,
                      SoleOwner(q), report[q].status[x] = "running"
               PROVE  \E b \in Act : /\ pcA'[b] \in {"perform", "performed"}
                                     /\ ref[b] = q
                                     /\ req'[b].action = x
    BY <1>1 DEF RunningActionHasRequest, SoleOwner
  <2>1. PICK b \in Act : /\ pcA[b] \in {"perform", "performed"}
                         /\ ref[b] = q
                         /\ req[b].action = x
    BY DEF RunningActionHasRequest
  <2>2. Listed(q) /\ report[q].id = req[b].id
    BY <2>1 DEF RefKept
  <2>3. Lookup(req[b].id, req[b].action) # {}
    BY <2>1, <2>2, LookupFinds
  <2>4. QED BY <2>1, <2>3, <1>1, <1>3
<1>9. QED BY <1>4, <1>5, <1>6, <1>7, <1>8

(* The two steps that write the status of the action. *)
LEMMA ActLookupPreserves ==
  ASSUME IInv, TypeOK', NEW a \in Act, ActLookup(a)
  PROVE  IInv'
<1> USE DEF IInv
<1>1. PICK r \in Lookup(req[a].id, req[a].action) :
        /\ report' = [report EXCEPT ![r].status[req[a].action] = "running"]
        /\ ref' = [ref EXCEPT ![a] = r]
  BY DEF ActLookup
<1>2. r \in Run /\ Listed(r) /\ report[r].id = req[a].id /\ req[a].action \in Action
  BY LookupListed DEF TypeOK
<1>3. \A q \in Run :
        /\ report'[q].id = report[q].id
        /\ \A y \in Action : report'[q].status[y] =
             IF q = r /\ y = req[a].action THEN "running" ELSE report[q].status[y]
  <2>1. report \in [Run -> Report] /\ "running" \in Status
    BY DEF TypeOK, Status
  <2>2. QED BY <1>1, <1>2, <2>1, StatusAt
<1>4. /\ UNCHANGED <<second, runs, disk, pcR, req, wrote, published, restarts>>
      /\ pcA' = [pcA EXCEPT ![a] = "perform"]
      /\ pcA[a] = "requested"
  BY DEF ActLookup, ActGoto, execVars
<1>5. IdsGiven' /\ ListedEnded' /\ PublishedEnded' /\ FilesEnded' /\ WroteEnded'
  <2>1. IdsGiven' /\ ListedEnded' /\ PublishedEnded' /\ FilesEnded'
    BY <1>3, <1>4 DEF IdsGiven, ListedEnded, PublishedEnded, FilesEnded, Listed
  <2>2. WroteEnded'
    BY <1>4 DEF WroteEnded, TypeOK
  <2>3. QED BY <2>1, <2>2
<1>6. RunningEnded'
  BY <1>2, <1>3, <1>4 DEF RunningEnded, ListedEnded
<1>7. RefKept'
  <2> SUFFICES ASSUME NEW b \in Act, pcA'[b] \in {"perform", "performed"}
               PROVE  /\ \E j \in 1 .. Len(runs) : runs[j] = ref'[b]
                      /\ report'[ref'[b]].id = req[b].id
                      /\ report'[ref'[b]].status[req[b].action] # "absent"
    BY <1>4 DEF RefKept, Listed
  <2>1. CASE b = a
    BY <2>1, <1>1, <1>2, <1>3 DEF Listed, TypeOK
  <2>2. CASE b # a
    <3>1. /\ ref'[b] = ref[b] /\ ref[b] \in Run /\ req[b].action \in Action
          /\ pcA[b] \in {"perform", "performed"}
      BY <2>2, <1>1, <1>4 DEF TypeOK
    <3>2. QED BY <3>1, <1>3 DEF RefKept, Listed
  <2>3. QED BY <2>1, <2>2
<1>8. RunningActionHasRequest'
  <2> SUFFICES ASSUME restarts = 0, NEW q \in Run, NEW x \in Action,
                      SoleOwner(q), report'[q].status[x] = "running"
               PROVE  \E b \in Act : /\ pcA'[b] \in {"perform", "performed"}
                                     /\ ref'[b] = q
                                     /\ req[b].action = x
    BY <1>3, <1>4 DEF RunningActionHasRequest, SoleOwner
  <2>1. CASE q = r /\ x = req[a].action
    BY <2>1, <1>1, <1>4 DEF TypeOK
  <2>2. CASE ~ (q = r /\ x = req[a].action)
    <3>1. report[q].status[x] = "running"
      BY <2>2, <1>3
    <3>2. PICK b \in Act : /\ pcA[b] \in {"perform", "performed"}
                           /\ ref[b] = q
                           /\ req[b].action = x
      BY <3>1 DEF RunningActionHasRequest
    <3>3. b # a
      BY <3>2, <1>4
    <3>4. QED BY <3>2, <3>3, <1>1, <1>4 DEF TypeOK
  <2>3. QED BY <2>1, <2>2
<1>9. QED BY <1>5, <1>6, <1>7, <1>8

(* The outcome of an action preserves the invariant. *)
LEMMA ActWriteBackPreserves ==
  ASSUME IInv, TypeOK', NEW a \in Act, ActWriteBack(a)
  PROVE  IInv'
<1> USE DEF IInv
<1>1. PICK r \in Lookup(req[a].id, req[a].action) :
        /\ report' = [report EXCEPT ![r].status[req[a].action] = outcome[a]]
        /\ wrote' = [wrote EXCEPT ![a] = r]
  BY DEF ActWriteBack
<1>2. /\ r \in Run /\ Listed(r) /\ report[r].id = req[a].id /\ req[a].action \in Action
      /\ outcome[a] \in {"completed", "failed"}
  BY LookupListed DEF TypeOK
<1>3. \A q \in Run :
        /\ report'[q].id = report[q].id
        /\ \A y \in Action : report'[q].status[y] =
             IF q = r /\ y = req[a].action THEN outcome[a] ELSE report[q].status[y]
  <2>1. report \in [Run -> Report] /\ outcome[a] \in Status
    BY <1>2 DEF TypeOK, Status
  <2>2. QED BY <1>1, <1>2, <2>1, StatusAt
<1>4. /\ UNCHANGED <<second, runs, disk, pcR, req, ref, published, restarts>>
      /\ pcA' = [pcA EXCEPT ![a] = "persisting"]
      /\ pcA[a] = "performed"
  BY DEF ActWriteBack, ActGoto, execVars
<1>5. IdsGiven' /\ ListedEnded' /\ PublishedEnded' /\ FilesEnded'
  BY <1>3, <1>4 DEF IdsGiven, ListedEnded, PublishedEnded, FilesEnded, Listed
<1>6. WroteEnded'
  BY <1>1, <1>2, <1>4 DEF WroteEnded, ListedEnded, TypeOK
<1>7. RunningEnded'
  BY <1>2, <1>3, <1>4 DEF RunningEnded
<1>8. RefKept'
  <2> SUFFICES ASSUME NEW b \in Act, pcA'[b] \in {"perform", "performed"}
               PROVE  /\ Listed(ref[b])
                      /\ report'[ref[b]].id = req[b].id
                      /\ report'[ref[b]].status[req[b].action] # "absent"
    BY <1>4 DEF RefKept, Listed
  <2>1. /\ ref[b] \in Run /\ req[b].action \in Action
        /\ pcA[b] \in {"perform", "performed"}
    BY <1>4 DEF TypeOK
  <2>2. QED BY <2>1, <1>2, <1>3 DEF RefKept
<1>9. RunningActionHasRequest'
  <2> SUFFICES ASSUME restarts = 0, NEW q \in Run, NEW x \in Action,
                      SoleOwner(q), report'[q].status[x] = "running"
               PROVE  \E b \in Act : /\ pcA'[b] \in {"perform", "performed"}
                                     /\ ref[b] = q
                                     /\ req[b].action = x
    BY <1>3, <1>4 DEF RunningActionHasRequest, SoleOwner
  <2>1. ~ (q = r /\ x = req[a].action) /\ report[q].status[x] = "running"
    BY <1>2, <1>3
  <2>2. PICK b \in Act : /\ pcA[b] \in {"perform", "performed"}
                         /\ ref[b] = q
                         /\ req[b].action = x
    BY <2>1 DEF RunningActionHasRequest
  <2>3. report[q].id = req[b].id
    BY <2>2 DEF RefKept
  <2>4. b # a
    BY <2>1, <2>2, <2>3, <1>2 DEF SoleOwner
  <2>5. QED BY <2>2, <2>4, <1>4 DEF TypeOK
<1>10. QED BY <1>5, <1>6, <1>7, <1>8, <1>9

(* What a restart lists was listed before or is in a file. *)
LEMMA RestartListed ==
  ASSUME TypeOK, Restart
  PROVE  \A j \in 1 .. Len(runs') : runs'[j] \in Loaded \cup published
<1>1. PICK h \in Histories : runs' = h \/ \E r \in published \ Loaded : runs' = <<r>> \o h
  BY RestartReports
<1>2. h \in Seq(Run) /\ \A j \in 1 .. Len(h) : h[j] \in Loaded
  BY HistoriesType, HistoriesRange
<1>3. CASE runs' = h
  BY <1>2, <1>3
<1>4. CASE \E r \in published \ Loaded : runs' = <<r>> \o h
  <2>1. PICK r \in published : runs' = <<r>> \o h
    BY <1>4
  <2>2. r \in Run
    BY DEF TypeOK
  <2>3. \A j \in 1 .. Len(runs') : runs'[j] = r \/ (j - 1 \in 1 .. Len(h) /\ runs'[j] = h[j - 1])
    BY <1>2, <2>1, <2>2
  <2>4. QED BY <1>2, <2>3
<1>5. QED BY <1>1, <1>3, <1>4

(* A restart preserves the invariant. *)
LEMMA RestartPreserves ==
  ASSUME IInv, TypeOK', Restart
  PROVE  IInv'
<1> USE DEF IInv
<1>1. \A r \in Run :
        /\ report'[r].id = report[r].id
        /\ pcR'[r] = "idle" <=> pcR[r] = "idle"
        /\ pcR[r] \in Ended \cup {"written"} => pcR'[r] \in Ended
  BY RestartReports DEF Restart, RunInFlight, RunAtRest, Ended, TypeOK
<1>2. \A a \in Act : pcA'[a] \in ActAtRest
  BY DEF Restart, ActInFlight, ActAtRest
<1>3. \A r \in Loaded : pcR'[r] \in Ended
  BY <1>1 DEF Loaded, FilesEnded, TypeOK, Report
<1>4. IdsGiven'
  BY <1>1 DEF IdsGiven, Restart
<1>5. ListedEnded'
  <2>1. \A j \in 1 .. Len(runs') : runs'[j] \in Loaded \cup published
    BY RestartListed
  <2>2. QED BY <2>1, <1>1, <1>3 DEF ListedEnded, PublishedEnded, Listed, TypeOK
<1>6. FilesEnded'
  BY <1>1 DEF FilesEnded, Restart
<1>7. RunningEnded'
  <2> SUFFICES ASSUME NEW r \in Run, NEW x \in Action, report'[r].status[x] = "running"
               PROVE  pcR'[r] \in Ended
    BY DEF RunningEnded
  <2>1. CASE r \in Loaded
    BY <2>1, <1>3
  <2>2. CASE r \notin Loaded
    BY <2>2, <1>1, RestartReports DEF RunningEnded, PublishedEnded
  <2>3. QED BY <2>1, <2>2
<1>8. WroteEnded' /\ RefKept'
  BY <1>2 DEF WroteEnded, RefKept, ActAtRest
<1>9. RunningActionHasRequest'
  <2>1. restarts' # 0
    BY BoundAssumption DEF Restart, TypeOK
  <2>2. QED BY <2>1 DEF RunningActionHasRequest
<1>10. PublishedEnded'
  BY <1>1, <1>3 DEF Restart, PublishedEnded, TypeOK
<1>11. QED BY <1>4, <1>5, <1>6, <1>7, <1>8, <1>9, <1>10

(* The clock and stuttering preserve the invariant. *)
LEMMA IdlePreserves ==
  ASSUME IInv, TypeOK', Tick \/ UNCHANGED vars
  PROVE  IInv'
<1>1. UNCHANGED <<report, runs, disk, pcR, pcA, req, ref, wrote, published, restarts>>
  BY DEF Tick, vars, execVars, actVars
<1>2. second' # 0
  BY DEF IInv, IdsGiven, TypeOK, Second, Tick, vars
<1>3. QED
  BY <1>1, <1>2
  DEF IInv, IdsGiven, ListedEnded, PublishedEnded, FilesEnded, WroteEnded, RunningEnded, RefKept,
      RunningActionHasRequest, SoleOwner, Listed

(* Every step preserves the invariant. *)
LEMMA StepPreserves ==
  ASSUME IInv, TypeOK', [Next]_vars
  PROVE  IInv'
<1>1. CASE \E r \in Run : ExecStart(r) \/ ExecStep(r)
  BY <1>1, ExecPreserves
<1>2. CASE \E a \in Act : ActRequest(a) \/ ActStep(a)
  BY <1>2, ActQuietPreserves, ActLookupPreserves, ActWriteBackPreserves DEF ActStep
<1>3. CASE Restart
  BY <1>3, RestartPreserves
<1>4. CASE Tick \/ UNCHANGED vars
  BY <1>4, IdlePreserves
<1>5. QED BY <1>1, <1>2, <1>3, <1>4 DEF Next

(***************************************************************************)
(* Until a restart, an action shown as "running" has a request that        *)
(* performs it, however many requests run concurrently.                    *)
(***************************************************************************)
THEOREM RunningActionCorrect == Spec => []RunningActionHasRequest
<1>1. IInv => RunningActionHasRequest
  BY DEF IInv
<1>2. QED BY <1>1, InitInvariant, StepPreserves, WorkbenchTypeCorrect, PTL DEF Spec
-----------------------------------------------------------------------------
(***************************************************************************)
(* The before snapshots.  A file of a snapshot belongs to a run that took  *)
(* it in that second, and whatever offers a rollback -- the report, its    *)
(* JSON file, a text that waits to be written -- is of a run whose         *)
(* snapshot was saved.                                                     *)
(***************************************************************************)
SnapSaved(r) == report[r].before # 0 /\ snapFile[report[r].before] # None

Offers(r) == report[r].status["rollback"] # "absent"

(* Control states before a snapshot was saved, *)
BeforeSaved == {"idle", "context", "snapshot"}

(* ... and those between it and the report. *)
Building == {"gather"} \cup {Phases[k] : k \in 1 .. Len(Phases)}

SnapOwned ==
  \A s \in Second, q \in Run : snapFile[s] = q =>
    s # 0 /\ report[q].before = s /\ pcR[q] \notin BeforeSaved

NotYetOffered ==
  \A r \in Run : pcR[r] \in BeforeSaved =>
    ~ Offers(r) /\ (report[r].before # 0 <=> pcR[r] = "snapshot")

OfferSaved ==
  \A r \in Run : (pcR[r] \in Building /\ report[r].before # 0) \/ Offers(r) => SnapSaved(r)

FileSaved ==
  \A s \in Second, r \in Run :
    disk[s] \in [owner : {r}, status : Statuses] /\ disk[s].status["rollback"] # "absent" =>
      SnapSaved(r)

BufferSaved ==
  \A a \in Act :
    pcA[a] \in {"marshalled", "writing"} /\ buffer[a]["rollback"] # "absent" =>
      SnapSaved(wrote[a])

SnapInv == SnapOwned /\ NotYetOffered /\ OfferSaved /\ FileSaved /\ BufferSaved

(* The snapshots at the start. *)
LEMMA InitSnap == Init => SnapInv
<1> SUFFICES ASSUME Init PROVE SnapInv
  OBVIOUS
<1>1. \A r \in Run : ~ Offers(r) /\ report[r].before = 0 /\ pcR[r] = "idle"
  BY DEF Init, Offers, Blank, Action
<1>2. SnapOwned
  BY NoneAssumption DEF Init, SnapOwned
<1>3. NotYetOffered /\ OfferSaved
  <2>1. "idle" \notin Building
    BY PhaseControl DEF Building, AfterPhases
  <2>2. QED BY <1>1, <2>1 DEF NotYetOffered, OfferSaved, BeforeSaved
<1>4. FileSaved /\ BufferSaved
  BY FileAssumption DEF Init, FileSaved, BufferSaved, Content
<1>5. QED BY <1>2, <1>3, <1>4 DEF SnapInv

(* Building is neither before the snapshot was saved nor after the report. *)
LEMMA BuildingControl ==
  /\ Building \cap BeforeSaved = {}
  /\ Building \cap {"lost", "written", "failed", "published", "done", "writing"} = {}
<1>1. Len(Phases) = 7
  BY DEF Phases
<1>2. \A k \in 1 .. 7 : Phases[k] \in {"planning", "codegen", "sandbox", "preflight", "repair",
                                        "docker", "persisting"}
  BY DEF Phases
<1>3. Building \subseteq {"gather", "planning", "codegen", "sandbox", "preflight", "repair",
                          "docker", "persisting"}
  BY <1>1, <1>2 DEF Building
<1>4. QED BY <1>3 DEF BeforeSaved

(* What a step must show that saves no snapshot and forgets none. *)
LEMMA SnapFixed ==
  ASSUME IInv, SnapInv, snapFile' = snapFile,
         \A q \in Run : report'[q].before = report[q].before,
         \A q \in Run : pcR'[q] \in BeforeSaved => pcR[q] \in BeforeSaved /\ ~ Offers(q)'
                                                     /\ (pcR'[q] = "snapshot" <=> pcR[q] = "snapshot"),
         \A q \in Run : pcR[q] \in BeforeSaved \/ pcR'[q] \notin BeforeSaved,
         \A q \in Run : pcR'[q] \in Building => pcR[q] \in Building \/ report[q].before = 0,
         \A q \in Run : Offers(q)' => SnapSaved(q),
         \A s \in Second, q \in Run :
           disk'[s] \in [owner : {q}, status : Statuses] /\ disk'[s].status["rollback"] # "absent" =>
             SnapSaved(q),
         \A a \in Act :
           pcA'[a] \in {"marshalled", "writing"} /\ buffer'[a]["rollback"] # "absent" =>
             wrote'[a] \in Run /\ SnapSaved(wrote'[a])
  PROVE  SnapInv'
<1>1. \A q \in Run : SnapSaved(q)' <=> SnapSaved(q)
  BY DEF SnapSaved
<1>2. SnapOwned'
  BY DEF SnapInv, SnapOwned
<1>3. NotYetOffered'
  BY DEF SnapInv, NotYetOffered
<1>4. OfferSaved'
  BY <1>1 DEF SnapInv, OfferSaved
<1>5. FileSaved'
  BY <1>1 DEF FileSaved
<1>6. BufferSaved'
  <2> SUFFICES ASSUME NEW a \in Act, pcA'[a] \in {"marshalled", "writing"},
                      buffer'[a]["rollback"] # "absent"
               PROVE  SnapSaved(wrote[a])'
    BY DEF BufferSaved
  <2>1. PICK q \in Run : q = wrote'[a] /\ SnapSaved(q)
    OBVIOUS
  <2>2. QED BY <2>1, <1>1 DEF SnapSaved
<1>7. QED BY <1>2, <1>3, <1>4, <1>5, <1>6 DEF SnapInv

(* The steps of Execute that leave the snapshots alone. *)
LEMMA ExecSnapFixed ==
  ASSUME IInv, SnapInv, TypeOK', NEW r \in Run, ExecStart(r) \/ ExecStep(r),
         ~ ExecSnapshot(r), ~ ExecSnapshotEnds(r)
  PROVE  SnapInv'
<1> USE DEF IInv, TypeOK, RunGoto
<1>1. /\ UNCHANGED <<snapFile, actVars>>
      /\ \A q \in Run \ {r} : pcR'[q] = pcR[q] /\ report'[q] = report[q]
  BY ExecFrame
  DEF ExecStart, ExecStep, ExecPlan, ExecPhase, ExecAssemble, ExecPersist, ExecWritten,
      ExecPersistFails, ExecPublish, ExecFinish
<1>2. report'[r].before = report[r].before
  <2>1. CASE ExecStart(r)
    BY <2>1 DEF ExecStart, Report
  <2>2. CASE ExecAssemble(r)
    BY <2>2 DEF ExecAssemble, Report
  <2>3. CASE ~ ExecStart(r) /\ ~ ExecAssemble(r)
    BY <2>3 DEF ExecStep, ExecPlan, ExecPhase, ExecPersist, ExecWritten, ExecPersistFails,
                ExecPublish, ExecFinish
  <2>4. QED BY <2>1, <2>2, <2>3
<1>3. /\ pcR'[r] \in BeforeSaved => pcR[r] = "idle" /\ pcR'[r] = "context" /\ Offers(r)' = Offers(r)
      /\ pcR[r] \in BeforeSaved \/ pcR'[r] \notin BeforeSaved
      /\ pcR'[r] \in Building => pcR[r] \in Building \/ report[r].before = 0
      /\ Offers(r)' => Offers(r) \/ (pcR[r] \in Building /\ report[r].before # 0)
  <2>1. CASE ExecStart(r)
    <3>1. report'[r].status = report[r].status
      BY <2>1 DEF ExecStart, Report
    <3>2. "context" \notin Building
      BY BuildingControl DEF BeforeSaved
    <3>3. QED BY <2>1, <3>1, <3>2 DEF ExecStart, BeforeSaved, Offers
  <2>2. CASE ExecPlan(r)
    <3>1. "planning" \in Building
      BY DEF Building, Phases
    <3>2. pcR[r] = "gather" \/ pcR[r] = "context"
      BY <2>2 DEF ExecPlan
    <3>3. "gather" \in Building
      BY DEF Building
    <3>4. pcR[r] = "context" => report[r].before = 0
      BY DEF SnapInv, NotYetOffered, BeforeSaved
    <3>5. QED BY <2>2, <3>1, <3>2, <3>3, <3>4, BuildingControl DEF ExecPlan, BeforeSaved, Offers
  <2>3. CASE ExecPhase(r)
    <3>1. PICK j, k \in 1 .. Len(Phases) : pcR[r] = Phases[j] /\ pcR' = [pcR EXCEPT ![r] = Phases[k]]
      BY <2>3 DEF ExecPhase
    <3>2. pcR[r] \in Building /\ pcR'[r] \in Building
      BY <3>1 DEF Building
    <3>3. QED BY <2>3, <3>2, BuildingControl DEF ExecPhase, Offers
  <2>4. CASE ExecAssemble(r)
    <3>1. PICK j \in 1 .. Len(Phases), changed, failed \in BOOLEAN :
            /\ pcR[r] = Phases[j]
            /\ report' = [report EXCEPT
                 ![r].created = NextCreated,
                 ![r].status = Offered(report[r].before, changed, failed)]
      BY <2>4 DEF ExecAssemble
    <3>2. pcR[r] \in Building
      BY <3>1 DEF Building
    <3>3. report'[r].status = Offered(report[r].before, changed, failed)
      BY <3>1 DEF Report
    <3>4. Offers(r)' => report[r].before # 0
      BY <3>3 DEF Offers, Offered, Action
    <3>5. pcR'[r] = "persisting"
      BY <2>4 DEF ExecAssemble
    <3>6. "persisting" \in Building
      BY DEF Building, Phases
    <3>7. QED BY <3>2, <3>4, <3>5, <3>6, BuildingControl
  <2>5. CASE ExecPersist(r) \/ ExecWritten(r) \/ ExecPersistFails(r) \/ ExecPublish(r) \/ ExecFinish(r)
    BY <2>5, BuildingControl
    DEF ExecPersist, ExecWritten, ExecPersistFails, ExecPublish, ExecFinish, BeforeSaved, Offers
  <2>6. QED BY <2>1, <2>2, <2>3, <2>4, <2>5 DEF ExecStep
<1>4. \A q \in Run \ {r} : Offers(q)' <=> Offers(q)
  BY <1>1 DEF Offers
<1>5. \A q \in Run : Offers(q)' => SnapSaved(q)
  BY <1>3, <1>4 DEF SnapInv, OfferSaved
<1>6. \A s \in Second, q \in Run :
        disk'[s] \in [owner : {q}, status : Statuses] /\ disk'[s].status["rollback"] # "absent" =>
          SnapSaved(q)
  <2>1. CASE ExecWritten(r)
    <3>1. \A s \in Second :
            disk'[s] \in {disk[s], Torn, [owner |-> r, status |-> report[r].status]}
      BY <2>1 DEF ExecWritten, WriteFile, Report
    <3>2. report[r].status["rollback"] # "absent" => SnapSaved(r)
      BY DEF SnapInv, OfferSaved, Offers
    <3>3. ASSUME NEW s \in Second, NEW q \in Run,
                 disk'[s] \in [owner : {q}, status : Statuses],
                 disk'[s].status["rollback"] # "absent"
          PROVE  SnapSaved(q)
      <4>1. disk'[s] # Torn
        BY <3>3, FileAssumption DEF Content
      <4>2. CASE disk'[s] = disk[s]
        BY <4>2, <3>3 DEF SnapInv, FileSaved
      <4>3. CASE disk'[s] = [owner |-> r, status |-> report[r].status]
        BY <4>3, <3>2, <3>3
      <4>4. QED BY <3>1, <4>1, <4>2, <4>3
    <3>4. QED BY <3>3
  <2>2. CASE ExecPersist(r)
    BY <2>2, FileAssumption DEF ExecPersist, Truncate, Content, SnapInv, FileSaved, Report
  <2>3. CASE ~ ExecWritten(r) /\ ~ ExecPersist(r)
    <3>1. disk' = disk
      BY <2>3 DEF ExecStart, ExecStep, ExecPlan, ExecPhase, ExecAssemble, ExecPersistFails,
                  ExecPublish, ExecFinish
    <3>2. QED BY <3>1 DEF SnapInv, FileSaved
  <2>4. QED BY <2>1, <2>2, <2>3
<1>7. \A a \in Act :
        pcA'[a] \in {"marshalled", "writing"} /\ buffer'[a]["rollback"] # "absent" =>
          wrote'[a] \in Run /\ SnapSaved(wrote'[a])
  BY <1>1 DEF actVars, SnapInv, BufferSaved
<1>8. \A q \in Run : pcR'[q] \in BeforeSaved => pcR[q] \in BeforeSaved /\ ~ Offers(q)'
                                                 /\ (pcR'[q] = "snapshot" <=> pcR[q] = "snapshot")
  BY <1>1, <1>3, <1>4 DEF BeforeSaved, SnapInv, NotYetOffered
<1>9. QED BY <1>1, <1>2, <1>3, <1>5, <1>6, <1>7, <1>8, SnapFixed

(* The beginning of a snapshot: nothing of its run offers a rollback yet. *)
LEMMA SnapshotBegins ==
  ASSUME IInv, SnapInv, TypeOK', NEW r \in Run, ExecSnapshot(r)
  PROVE  SnapInv'
<1> USE DEF IInv, TypeOK
<1>1. /\ pcR[r] = "context" /\ pcR' = [pcR EXCEPT ![r] = "snapshot"]
      /\ report' = [report EXCEPT ![r].before = second]
      /\ UNCHANGED <<disk, snapFile, pcA, wrote, buffer>>
  BY DEF ExecSnapshot, RunGoto, actVars
<1>2. /\ \A q \in Run : Offers(q)' <=> Offers(q)
      /\ \A q \in Run \ {r} : report'[q] = report[q] /\ pcR'[q] = pcR[q]
      /\ report'[r].before = second /\ pcR'[r] = "snapshot"
  BY <1>1 DEF Offers, Report
<1>3. ~ SnapSaved(r) /\ ~ Offers(r) /\ second # 0
  BY <1>1 DEF SnapSaved, SnapInv, NotYetOffered, BeforeSaved, IdsGiven
<1>4. \A q \in Run : SnapSaved(q) => SnapSaved(q)'
  BY <1>1, <1>2, <1>3 DEF SnapSaved
<1>5. SnapOwned'
  BY <1>1, <1>2 DEF SnapInv, SnapOwned, BeforeSaved
<1>6. NotYetOffered'
  BY <1>1, <1>2, <1>3 DEF SnapInv, NotYetOffered, BeforeSaved
<1>7. OfferSaved'
  <2>1. pcR'[r] \notin Building
    BY <1>2, BuildingControl DEF BeforeSaved
  <2>2. QED BY <1>2, <1>3, <1>4, <2>1 DEF SnapInv, OfferSaved
<1>8. FileSaved'
  BY <1>1, <1>4 DEF SnapInv, FileSaved
<1>9. BufferSaved'
  <2> SUFFICES ASSUME NEW a \in Act, pcA[a] \in {"marshalled", "writing"},
                      buffer[a]["rollback"] # "absent"
               PROVE  SnapSaved(wrote[a])'
    BY <1>1 DEF BufferSaved
  <2>1. PICK q \in Run : q = wrote[a] /\ q = wrote'[a] /\ SnapSaved(q)
    BY <1>1 DEF SnapInv, BufferSaved
  <2>2. QED BY <2>1, <1>4 DEF SnapSaved
<1>10. QED BY <1>5, <1>6, <1>7, <1>8, <1>9 DEF SnapInv

(* The end of a snapshot: it is saved, or its run knows of none. *)
LEMMA SnapshotEnds ==
  ASSUME IInv, SnapInv, TypeOK', NEW r \in Run, ExecSnapshotEnds(r)
  PROVE  SnapInv'
<1> USE DEF IInv, TypeOK
<1>1. /\ pcR[r] = "snapshot" /\ pcR' = [pcR EXCEPT ![r] = "gather"]
      /\ UNCHANGED <<disk, pcA, wrote, buffer>>
  BY DEF ExecSnapshotEnds, RunGoto, actVars
<1>2. report[r].before # 0 /\ report[r].before \in Second /\ ~ Offers(r)
  BY <1>1 DEF SnapInv, NotYetOffered, BeforeSaved, Report
<1>3. \/ snapFile' = [snapFile EXCEPT ![report[r].before] = r] /\ report' = report
      \/ report' = [report EXCEPT ![r].before = 0] /\ snapFile' = snapFile
  BY DEF ExecSnapshotEnds
<1>4. /\ \A q \in Run : Offers(q)' <=> Offers(q)
      /\ \A q \in Run \ {r} : report'[q] = report[q] /\ pcR'[q] = pcR[q]
      /\ pcR'[r] = "gather"
  <2>1. report' = report \/ report' = [report EXCEPT ![r].before = 0]
    BY <1>3
  <2>2. /\ \A q \in Run \ {r} : report'[q] = report[q]
        /\ report'[r].status = report[r].status
    BY <2>1 DEF Report
  <2>3. QED BY <1>1, <2>2 DEF Offers
<1>5. report'[r].before # 0 => snapFile'[report'[r].before] = r /\ report' = report
  BY <1>2, <1>3 DEF Report
<1>6. \A s \in Second : snapFile[s] # None => snapFile'[s] # None
  BY <1>3, NoneAssumption
<1>7. \A q \in Run \ {r} : SnapSaved(q) => SnapSaved(q)'
  BY <1>4, <1>6 DEF SnapSaved, Report
<1>8. SnapOwned'
  <2> SUFFICES ASSUME NEW s \in Second, NEW q \in Run, snapFile'[s] = q
               PROVE  s # 0 /\ report'[q].before = s /\ pcR'[q] \notin BeforeSaved
    BY DEF SnapOwned
  <2>1. CASE snapFile[s] = q
    <3>1. q # r
      BY <2>1, <1>1 DEF SnapInv, SnapOwned, BeforeSaved
    <3>2. QED BY <2>1, <3>1, <1>4 DEF SnapInv, SnapOwned
  <2>2. CASE snapFile[s] # q
    BY <2>2, <1>2, <1>3, <1>4 DEF BeforeSaved
  <2>3. QED BY <2>1, <2>2
<1>9. NotYetOffered'
  BY <1>4 DEF SnapInv, NotYetOffered, BeforeSaved
<1>10. OfferSaved'
  <2>1. report'[r].before # 0 => SnapSaved(r)'
    BY <1>5, NoneAssumption DEF SnapSaved
  <2>2. QED BY <1>2, <1>4, <1>7, <2>1 DEF SnapInv, OfferSaved
<1>11. FileSaved'
  <2>1. \A s \in Second : disk[s] \notin [owner : {r}, status : Statuses]
    BY <1>1 DEF FilesEnded, Ended
  <2>2. QED BY <1>1, <1>7, <2>1 DEF SnapInv, FileSaved
<1>12. BufferSaved'
  <2> SUFFICES ASSUME NEW a \in Act, pcA[a] \in {"marshalled", "writing"},
                      buffer[a]["rollback"] # "absent"
               PROVE  SnapSaved(wrote[a])'
    BY <1>1 DEF BufferSaved
  <2>1. PICK q \in Run : q = wrote[a] /\ q = wrote'[a] /\ SnapSaved(q)
    BY <1>1 DEF SnapInv, BufferSaved
  <2>2. q # r
    BY <2>1, <1>1 DEF WroteEnded, Ended
  <2>3. QED BY <2>1, <2>2, <1>7 DEF SnapSaved
<1>13. QED BY <1>8, <1>9, <1>10, <1>11, <1>12 DEF SnapInv

(* A new status of an action that is offered offers no other. *)
LEMMA StatusSnap ==
  ASSUME NEW rep \in [Run -> Report], NEW r \in Run, NEW x \in Action, NEW v \in Status,
         rep[r].status[x] # "absent"
  PROVE  LET new == [rep EXCEPT ![r].status[x] = v]
         IN  \A q \in Run :
               /\ new[q].before = rep[q].before
               /\ new[q].status["rollback"] # "absent" => rep[q].status["rollback"] # "absent"
<1>1. rep[r] \in Report /\ rep[r].status \in [Action -> Status] /\ "rollback" \in Action
  BY DEF Report, Statuses, Action
<1>2. QED BY <1>1 DEF Report

(* The steps of ExecuteAction save no snapshot. *)
LEMMA ActSnap ==
  ASSUME IInv, SnapInv, TypeOK', NEW a \in Act, ActRequest(a) \/ ActStep(a)
  PROVE  SnapInv'
<1> USE DEF IInv, TypeOK
<1>1. UNCHANGED <<pcR, snapFile>>
  BY DEF ActRequest, ActStep, ActLookup, ActMissing, ActPerform, ActWriteBack, ActMarshal,
         ActPersist, ActWritten, ActPersistFails, ActFinish, execVars
<1>2. \A q \in Run : report'[q].before = report[q].before /\ (Offers(q)' => Offers(q))
  <2>1. CASE ActLookup(a)
    <3>1. PICK r \in Lookup(req[a].id, req[a].action) :
            report' = [report EXCEPT ![r].status[req[a].action] = "running"]
      BY <2>1 DEF ActLookup
    <3>2. r \in Run /\ report[r].status[req[a].action] # "absent" /\ req[a].action \in Action
      BY LookupListed
    <3>3. QED BY <3>1, <3>2, StatusSnap DEF Offers, Status
  <2>2. CASE ActWriteBack(a)
    <3>1. PICK r \in Lookup(req[a].id, req[a].action) :
            report' = [report EXCEPT ![r].status[req[a].action] = outcome[a]]
      BY <2>2 DEF ActWriteBack
    <3>2. r \in Run /\ report[r].status[req[a].action] # "absent" /\ req[a].action \in Action
      BY LookupListed
    <3>3. QED BY <3>1, <3>2, StatusSnap DEF Offers, Status
  <2>3. CASE ~ ActLookup(a) /\ ~ ActWriteBack(a)
    BY <2>3
    DEF ActRequest, ActStep, ActMissing, ActPerform, ActMarshal, ActPersist, ActWritten,
        ActPersistFails, ActFinish, Offers
  <2>4. QED BY <2>1, <2>2, <2>3
<1>3. \A q \in Run : Offers(q) => SnapSaved(q)
  BY DEF SnapInv, OfferSaved
<1>4. \A s \in Second, q \in Run :
        disk'[s] \in [owner : {q}, status : Statuses] /\ disk'[s].status["rollback"] # "absent" =>
          SnapSaved(q)
  <2>1. CASE ActPersist(a)
    BY <2>1, FileAssumption DEF ActPersist, Truncate, Content, SnapInv, FileSaved, Report
  <2>2. CASE ActWritten(a)
    <3>1. /\ pcA[a] = "writing"
          /\ \A s \in Second :
               disk'[s] \in {disk[s], Torn, [owner |-> wrote[a], status |-> buffer[a]]}
      BY <2>2 DEF ActWritten, WriteFile, Report
    <3>2. PICK w \in Run : w = wrote[a] /\ (buffer[a]["rollback"] # "absent" => SnapSaved(w))
      BY <3>1 DEF SnapInv, BufferSaved
    <3>3. ASSUME NEW s \in Second, NEW q \in Run,
                 disk'[s] \in [owner : {q}, status : Statuses],
                 disk'[s].status["rollback"] # "absent"
          PROVE  SnapSaved(q)
      <4>1. disk'[s] # Torn
        BY <3>3, FileAssumption DEF Content
      <4>2. CASE disk'[s] = disk[s]
        BY <4>2, <3>3 DEF SnapInv, FileSaved
      <4>3. CASE disk'[s] = [owner |-> wrote[a], status |-> buffer[a]]
        BY <4>3, <3>2, <3>3
      <4>4. QED BY <3>1, <4>1, <4>2, <4>3
    <3>4. QED BY <3>3
  <2>3. CASE ~ ActPersist(a) /\ ~ ActWritten(a)
    <3>1. disk' = disk
      BY <2>3 DEF ActRequest, ActStep, ActLookup, ActMissing, ActPerform, ActWriteBack, ActMarshal,
                  ActPersistFails, ActFinish
    <3>2. QED BY <3>1 DEF SnapInv, FileSaved
  <2>4. QED BY <2>1, <2>2, <2>3
<1>5. ASSUME NEW b \in Act, pcA'[b] \in {"marshalled", "writing"}, buffer'[b]["rollback"] # "absent"
      PROVE  wrote'[b] \in Run /\ SnapSaved(wrote'[b])
  <2>1. CASE b = a /\ ActMarshal(a)
    <3>1. /\ wrote' = wrote /\ pcA[a] = "persisting"
          /\ buffer'[a] = report[wrote[a]].status
      BY <2>1 DEF ActMarshal
    <3>2. Offers(wrote[a])
      BY <2>1, <3>1, <1>5 DEF Offers
    <3>3. QED BY <2>1, <3>1, <3>2, <1>3
  <2>2. CASE ~ (b = a /\ ActMarshal(a))
    <3>1. /\ pcA[b] \in {"marshalled", "writing"}
          /\ wrote'[b] = wrote[b] /\ buffer'[b] = buffer[b]
      BY <2>2, <1>5
      DEF ActRequest, ActStep, ActLookup, ActMissing, ActPerform, ActWriteBack, ActMarshal,
          ActPersist, ActWritten, ActPersistFails, ActFinish, ActGoto
    <3>2. PICK w \in Run : w = wrote[b] /\ SnapSaved(w)
      BY <3>1, <1>5 DEF SnapInv, BufferSaved
    <3>3. QED BY <3>1, <3>2
  <2>3. QED BY <2>1, <2>2
<1>6. \A q \in Run : pcR'[q] \in BeforeSaved => ~ Offers(q)'
  BY <1>1, <1>2 DEF SnapInv, NotYetOffered
<1>7. QED BY <1>1, <1>2, <1>3, <1>4, <1>5, <1>6, SnapFixed

(* A restart loads reports that offer what their files do. *)
LEMMA RestartSnap ==
  ASSUME IInv, SnapInv, TypeOK', Restart
  PROVE  SnapInv'
<1> USE DEF IInv, TypeOK
<1>1. UNCHANGED <<disk, snapFile, wrote, buffer>>
  BY DEF Restart
<1>2. \A q \in Run :
        /\ pcR'[q] \in BeforeSaved => pcR[q] = "idle" /\ pcR'[q] = "idle"
        /\ pcR[q] = "idle" => pcR'[q] = "idle"
        /\ pcR'[q] \in Building => pcR[q] \in Building
  BY BuildingControl DEF Restart, RunInFlight, RunAtRest, BeforeSaved
<1>3. \A q \in Loaded : disk[report[q].id] \in [owner : {q}, status : Statuses]
  BY DEF Loaded
<1>4. \A q \in Run :
        /\ report'[q].before = report[q].before
        /\ q \in Loaded => report'[q].status = disk[report[q].id].status
        /\ q \notin Loaded => (Offers(q)' <=> Offers(q))
  BY RestartReports DEF Offers, Action
<1>5. \A q \in Run : Offers(q)' => SnapSaved(q)
  <2> SUFFICES ASSUME NEW q \in Run, Offers(q)' PROVE SnapSaved(q)
    OBVIOUS
  <2>1. report[q].id \in Second
    BY DEF Report
  <2>2. CASE q \in Loaded
    BY <2>1, <2>2, <1>3, <1>4 DEF SnapInv, FileSaved, Offers
  <2>3. CASE q \notin Loaded
    BY <2>3, <1>4 DEF SnapInv, OfferSaved, Offers
  <2>4. QED BY <2>2, <2>3
<1>6. \A q \in Run : pcR'[q] \in BeforeSaved => ~ Offers(q)'
  <2> SUFFICES ASSUME NEW q \in Run, pcR'[q] \in BeforeSaved PROVE ~ Offers(q)'
    OBVIOUS
  <2>1. pcR[q] = "idle"
    BY <1>2
  <2>2. q \notin Loaded
    <3>1. report[q].id \in Second
      BY DEF Report
    <3>2. q \in Loaded => pcR[q] \in Ended \cup {"written"}
      BY <3>1, <1>3 DEF FilesEnded
    <3>3. QED BY <2>1, <3>2 DEF Ended
  <2>3. ~ Offers(q)
    BY <2>1 DEF SnapInv, NotYetOffered, BeforeSaved
  <2>4. QED BY <2>2, <2>3, <1>4
<1>7. \A a \in Act : pcA'[a] \notin {"marshalled", "writing"}
  BY DEF Restart, ActInFlight, ActAtRest
<1>8. \A q \in Run : pcR[q] \in BeforeSaved \/ pcR'[q] \notin BeforeSaved
  BY <1>2 DEF BeforeSaved
<1>9. \A q \in Run : pcR'[q] \in BeforeSaved =>
        pcR[q] \in BeforeSaved /\ ~ Offers(q)' /\ (pcR'[q] = "snapshot" <=> pcR[q] = "snapshot")
  BY <1>2, <1>6 DEF BeforeSaved
<1>10. \A s \in Second, q \in Run :
        disk'[s] \in [owner : {q}, status : Statuses] /\ disk'[s].status["rollback"] # "absent" =>
          SnapSaved(q)
  BY <1>1 DEF SnapInv, FileSaved
<1>11. QED BY <1>1, <1>2, <1>4, <1>5, <1>7, <1>8, <1>9, <1>10, SnapFixed

(* Every step preserves what is known of the snapshots. *)
LEMMA SnapPreserved ==
  ASSUME IInv, SnapInv, TypeOK', [Next]_vars
  PROVE  SnapInv'
<1>1. CASE \E r \in Run : ExecStart(r) \/ ExecStep(r)
  BY <1>1, ExecSnapFixed, SnapshotBegins, SnapshotEnds
<1>2. CASE \E a \in Act : ActRequest(a) \/ ActStep(a)
  BY <1>2, ActSnap
<1>3. CASE Restart
  BY <1>3, RestartSnap
<1>4. CASE Tick \/ UNCHANGED vars
  <2>1. UNCHANGED <<report, disk, snapFile, pcR, pcA, wrote, buffer>>
    BY <1>4 DEF Tick, vars, execVars, actVars
  <2>2. QED
    BY <2>1 DEF SnapInv, SnapOwned, NotYetOffered, OfferSaved, FileSaved, BufferSaved,
                SnapSaved, Offers
<1>5. QED BY <1>1, <1>2, <1>3, <1>4 DEF Next

(***************************************************************************)
(* A rollback is performed only for a run whose before manifest was saved, *)
(* and reads that run's manifest, unless another run took its snapshot in  *)
(* the same second: however runs, actions, restarts and failed snapshots   *)
(* interleave.                                                             *)
(***************************************************************************)
THEOREM RollbackReadsCorrect == Spec => []RollbackReadsOwnSnapshot
<1>1. IInv /\ SnapInv => RollbackReadsOwnSnapshot
  <2> SUFFICES ASSUME IInv, SnapInv, NEW a \in Act,
                      pcA[a] = "perform", req[a].action = "rollback"
               PROVE  \/ snapFile[report[ref[a]].before] = ref[a]
                      \/ \E q \in Run \ {ref[a]} : /\ report[q].before = report[ref[a]].before
                                                   /\ report[ref[a]].before # 0
    BY DEF RollbackReadsOwnSnapshot
  <2>1. PICK r \in Run : r = ref[a]
    BY DEF IInv, TypeOK
  <2>2. Offers(r)
    BY <2>1 DEF IInv, RefKept, Offers
  <2>3. SnapSaved(r) /\ report[r].before \in Second
    BY <2>2 DEF SnapInv, OfferSaved, IInv, TypeOK, Report
  <2>4. PICK q \in Run : snapFile[report[r].before] = q
    BY <2>3 DEF SnapSaved, IInv, TypeOK
  <2>5. report[q].before = report[r].before
    BY <2>3, <2>4 DEF SnapInv, SnapOwned
  <2>6. QED BY <2>1, <2>3, <2>4, <2>5 DEF SnapSaved
<1>2. Init => IInv /\ SnapInv
  BY InitInvariant, InitSnap
<1>3. IInv /\ SnapInv /\ TypeOK' /\ [Next]_vars => (IInv /\ SnapInv)'
  BY StepPreserves, SnapPreserved
<1>4. QED BY <1>1, <1>2, <1>3, WorkbenchTypeCorrect, PTL DEF Spec
-----------------------------------------------------------------------------
(***************************************************************************)
(* The list of reports.  No report is listed twice; a file of a report     *)
(* that is or will be listed, and shares its ID with none, is torn or its  *)
(* own; and only listed reports are written again, so a restart finds what *)
(* was listed.                                                             *)
(***************************************************************************)
OwnFile(r) ==
  disk[report[r].id] = Torn \/ disk[report[r].id] \in [owner : {r}, status : Statuses]

FileOwn ==
  \A r \in Run : SoleOwner(r) /\ (pcR[r] = "written" \/ r \in published) => OwnFile(r)

NoDouble == \A j, k \in 1 .. Len(runs) : j # k => runs[j] # runs[k]

PublishedListed ==
  \A r \in published : SoleOwner(r) => Listed(r) \/ disk[report[r].id] = Torn

WroteListed ==
  \A a \in Act : pcA[a] \in {"persisting", "marshalled", "writing"} => Listed(wrote[a])

ListInv == FileOwn /\ NoDouble /\ PublishedListed /\ WroteListed

(* The list at the start. *)
LEMMA InitList == Init => ListInv
BY DEF Init, ListInv, FileOwn, NoDouble, PublishedListed, WroteListed

(* A run that has its ID shared it before if it shares it now, ... *)
LEMMA SoleStays ==
  ASSUME IInv, NEW q \in Run, pcR[q] # "idle", SoleOwner(q)',
         report'[q].id = report[q].id,
         \A p \in Run : report[p].id = 0 \/ report'[p].id = report[p].id
  PROVE  SoleOwner(q)
<1>1. report[q].id # 0
  BY DEF IInv, IdsGiven
<1>2. QED BY <1>1 DEF SoleOwner

(* ... and no step takes the ID of a run. *)
LEMMA IdsStay ==
  ASSUME IInv, [Next]_vars
  PROVE  \A p \in Run : report[p].id = 0 \/ report'[p].id = report[p].id
<1> USE DEF IInv, TypeOK
<1>1. CASE \E r \in Run : ExecStart(r) \/ ExecStep(r)
  <2>1. PICK r \in Run : ExecStart(r) \/ ExecStep(r)
    BY <1>1
  <2>2. /\ \A q \in Run \ {r} : report'[q] = report[q]
        /\ report'[r].id = IF pcR[r] = "idle" THEN second ELSE report[r].id
    BY <2>1, ExecFrame
  <2>3. QED BY <2>2 DEF IdsGiven
<1>2. CASE \E a \in Act : ActRequest(a) \/ ActStep(a)
  <2>1. PICK a \in Act : ActRequest(a) \/ ActStep(a)
    BY <1>2
  <2>2. CASE ActLookup(a) \/ ActWriteBack(a)
    <3>1. PICK r \in Lookup(req[a].id, req[a].action), v \in Status :
            report' = [report EXCEPT ![r].status[req[a].action] = v]
      BY <2>2 DEF ActLookup, ActWriteBack, Status
    <3>2. r \in Run
      BY LookupIn
    <3>3. QED BY <3>1, <3>2, StatusAt
  <2>3. CASE ~ (ActLookup(a) \/ ActWriteBack(a))
    BY <2>1, <2>3 DEF ActRequest, ActStep, ActMissing, ActPerform, ActMarshal, ActPersist,
                      ActWritten, ActPersistFails, ActFinish
  <2>4. QED BY <2>2, <2>3
<1>3. CASE Restart
  BY <1>3, RestartReports
<1>4. CASE Tick \/ UNCHANGED vars
  BY <1>4 DEF Tick, vars
<1>5. QED BY <1>1, <1>2, <1>3, <1>4 DEF Next

(* What a step may do to a file: tear it, or write a report of that ID.    *)
Writable(s, w) ==
  /\ s = report[w].id
  /\ disk'[s] \in [owner : {w}, status : Statuses]
  /\ pcR[w] = "writing" \/ Listed(w)

(* Nobody writes anything else. *)
LEMMA DiskWrites ==
  ASSUME IInv, ListInv, [Next]_vars, NEW s \in Second, disk'[s] # disk[s], disk'[s] # Torn
  PROVE  \E w \in Run : Writable(s, w)
<1> USE DEF IInv, TypeOK
<1>1. CASE \E r \in Run : ExecWritten(r)
  <2>1. PICK r \in Run : ExecWritten(r)
    BY <1>1
  <2>2. s = report[r].id /\ disk'[s] = [owner |-> r, status |-> report[r].status]
    BY <2>1 DEF ExecWritten, WriteFile
  <2>3. pcR[r] = "writing" /\ report[r].status \in Statuses
    BY <2>1 DEF ExecWritten, Report
  <2>4. QED BY <2>2, <2>3 DEF Writable
<1>2. CASE \E a \in Act : ActWritten(a)
  <2>1. PICK a \in Act : ActWritten(a)
    BY <1>2
  <2>2. s = report[wrote[a]].id /\ disk'[s] = [owner |-> wrote[a], status |-> buffer[a]]
    BY <2>1 DEF ActWritten, WriteFile
  <2>3. Listed(wrote[a])
    BY <2>1 DEF ActWritten, ListInv, WroteListed
  <2>4. QED BY <2>2, <2>3 DEF Writable
<1>3. CASE \E r \in Run : ExecPersist(r)
  BY <1>3 DEF ExecPersist, Truncate
<1>4. CASE \E a \in Act : ActPersist(a)
  BY <1>4 DEF ActPersist, Truncate
<1>5. CASE ~ (\E r \in Run : ExecWritten(r) \/ ExecPersist(r)) /\ ~ (\E a \in Act : ActWritten(a) \/ ActPersist(a))
  BY <1>5
  DEF Next, vars, Tick, Restart, ExecStart, ExecStep, ExecSnapshot, ExecSnapshotEnds, ExecPlan, ExecPhase,
      ExecAssemble, ExecPersistFails, ExecPublish, ExecFinish, ActRequest, ActStep, ActLookup,
      ActMissing, ActPerform, ActWriteBack, ActMarshal, ActPersistFails, ActFinish
<1>6. QED BY <1>1, <1>2, <1>3, <1>4, <1>5

(* A file that is its run's own stays so. *)
LEMMA OwnStays ==
  ASSUME IInv, ListInv, [Next]_vars, NEW q \in Run, SoleOwner(q), OwnFile(q),
         report'[q].id = report[q].id
  PROVE  OwnFile(q)'
<1>1. PICK s \in Second : s = report[q].id
  BY DEF IInv, TypeOK, Report
<1>2. CASE disk'[s] = disk[s] \/ disk'[s] = Torn
  BY <1>1, <1>2 DEF OwnFile
<1>3. CASE disk'[s] # disk[s] /\ disk'[s] # Torn
  <2>1. PICK w \in Run : Writable(s, w)
    BY <1>3, DiskWrites
  <2>2. w = q
    BY <2>1, <1>1 DEF Writable, SoleOwner
  <2>3. QED BY <2>1, <2>2, <1>1 DEF Writable, OwnFile
<1>4. QED BY <1>2, <1>3

(* A history lists every report that a file holds, and lists it once. *)
LEMMA HistoryLists ==
  ASSUME TypeOK, NEW h \in Histories
  PROVE  /\ \A q \in Loaded : \E j \in 1 .. Len(h) : h[j] = q
         /\ \A j, k \in 1 .. Len(h) : j # k => h[j] # h[k]
<1> DEFINE N == Cardinality(Loaded)
<1>1. IsFiniteSet(Loaded) /\ Loaded \subseteq Run
  BY FS_Subset, RunAssumption DEF Loaded
<1>2. N \in Nat
  BY <1>1, FS_CardinalityType
<1>3. h \in [1 .. N -> Loaded] /\ Len(h) = N
  BY <1>2 DEF Histories
<1>4. \A j, k \in 1 .. N : j < k => report[h[j]].created > report[h[k]].created
  BY <1>3 DEF Histories
<1>5. \A j \in 1 .. N : report[h[j]].created \in Nat
  BY <1>1, <1>3 DEF TypeOK, Report
<1>6. \A j, k \in 1 .. N : j # k => h[j] # h[k]
  <2> SUFFICES ASSUME NEW j \in 1 .. N, NEW k \in 1 .. N, j # k PROVE h[j] # h[k]
    OBVIOUS
  <2>1. j < k \/ k < j
    BY <1>2
  <2>2. QED BY <2>1, <1>4, <1>5
<1>7. h \in Injection(1 .. N, Loaded)
  BY <1>3, <1>6 DEF Injection, IsInjective
<1>8. Cardinality(1 .. N) = N
  BY <1>2, FS_Interval
<1>9. h \in Surjection(1 .. N, Loaded)
  BY <1>1, <1>7, <1>8, FS_Injection
<1>10. QED BY <1>3, <1>6, <1>9 DEF Surjection

(* The list after a step of Execute. *)
LEMMA ExecList ==
  ASSUME IInv, ListInv, TypeOK', NEW r \in Run, ExecStart(r) \/ ExecStep(r)
  PROVE  ListInv'
<1> USE DEF IInv, TypeOK
<1>1. /\ UNCHANGED <<pcA, wrote>>
      /\ \A q \in Run \ {r} : pcR'[q] = pcR[q] /\ report'[q] = report[q]
      /\ pcR[r] \in Ended => pcR'[r] \in Ended /\ report'[r] = report[r]
      /\ pcR'[r] # "idle"
      /\ report'[r].id = IF pcR[r] = "idle" THEN second ELSE report[r].id
  BY ExecFrame DEF actVars
<1>2. \/ published' = published /\ runs' = runs /\ (pcR'[r] = "written" => ExecWritten(r))
      \/ /\ pcR[r] = "written" /\ pcR'[r] = "published"
         /\ published' = published \cup {r} /\ runs' = <<r>> \o runs
  <2>1. CASE ExecPublish(r)
    BY <2>1 DEF ExecPublish, RunGoto
  <2>2. CASE ExecPhase(r)
    <3>1. PICK k \in 1 .. Len(Phases) : pcR'[r] = Phases[k]
      BY <2>2 DEF ExecPhase, RunGoto
    <3>2. pcR'[r] # "written"
      BY <3>1, PhaseControl DEF AfterPhases
    <3>3. QED BY <2>2, <3>2 DEF ExecPhase
  <2>3. CASE ~ ExecPublish(r) /\ ~ ExecPhase(r)
    BY <2>3
    DEF ExecStart, ExecStep, ExecSnapshot, ExecSnapshotEnds, ExecPlan, ExecAssemble, ExecPersist,
        ExecWritten, ExecPersistFails, ExecFinish, RunGoto
  <2>4. QED BY <2>1, <2>2, <2>3
<1>3. \A q \in Run : Listed(q) => Listed(q)'
  BY ExecLists
<1>4. \A p \in Run : report[p].id = 0 \/ report'[p].id = report[p].id
  BY IdsStay DEF Next
<1>5. \A q \in Run : q \in published \/ pcR[q] \in {"written", "writing"} =>
        pcR[q] # "idle" /\ report'[q].id = report[q].id
  <2>1. \A q \in published : pcR[q] \in Ended
    BY DEF PublishedEnded
  <2>2. QED BY <2>1, <1>1 DEF Ended
<1>7. FileOwn'
  <2> SUFFICES ASSUME NEW q \in Run, SoleOwner(q)', pcR'[q] = "written" \/ q \in published'
               PROVE  OwnFile(q)'
    BY DEF FileOwn
  <2>1. CASE q = r /\ ExecWritten(r)
    <3>1. report' = report /\ report[r].id \in Second /\ report[r].status \in Statuses
      BY <2>1 DEF ExecWritten, Report
    <3>2. disk'[report[r].id] \in {Torn, [owner |-> r, status |-> report[r].status]}
      BY <2>1, <3>1 DEF ExecWritten, WriteFile
    <3>3. QED BY <2>1, <3>1, <3>2 DEF OwnFile
  <2>2. CASE ~ (q = r /\ ExecWritten(r))
    <3>1. pcR[q] = "written" \/ q \in published
      BY <2>2, <1>1, <1>2
    <3>2. SoleOwner(q)
      BY <3>1, <1>4, <1>5, SoleStays
    <3>3. OwnFile(q)
      BY <3>1, <3>2 DEF ListInv, FileOwn
    <3>4. QED BY <3>1, <3>2, <3>3, <1>5, OwnStays DEF Next
  <2>3. QED BY <2>1, <2>2
<1>8. NoDouble'
  <2>1. CASE runs' = runs
    BY <2>1 DEF ListInv, NoDouble
  <2>2. CASE pcR[r] = "written" /\ runs' = <<r>> \o runs
    <3>1. \A j \in 1 .. Len(runs) : runs[j] # r
      BY <2>2 DEF ListedEnded, Listed, Ended
    <3>2. /\ Len(runs') = Len(runs) + 1
          /\ runs'[1] = r
          /\ \A j \in 1 .. Len(runs') : j = 1 \/ (j - 1 \in 1 .. Len(runs) /\ runs'[j] = runs[j - 1])
      BY <2>2
    <3>3. \A j, k \in 1 .. Len(runs) : j # k => runs[j] # runs[k]
      BY DEF ListInv, NoDouble
    <3>4. ASSUME NEW j \in 1 .. Len(runs'), NEW k \in 1 .. Len(runs'), j # k
          PROVE  runs'[j] # runs'[k]
      <4>1. CASE j = 1
        <5>1. k # 1
          BY <4>1, <3>4
        <5>2. QED BY <4>1, <5>1, <3>1, <3>2
      <4>2. CASE k = 1
        <5>1. j # 1
          BY <4>2, <3>4
        <5>2. QED BY <4>2, <5>1, <3>1, <3>2
      <4>3. CASE j # 1 /\ k # 1
        <5>1. /\ j - 1 \in 1 .. Len(runs) /\ runs'[j] = runs[j - 1]
              /\ k - 1 \in 1 .. Len(runs) /\ runs'[k] = runs[k - 1]
          BY <4>3, <3>2
        <5>2. j - 1 # k - 1
          BY <3>4
        <5>3. QED BY <5>1, <5>2, <3>3
      <4>4. QED BY <4>1, <4>2, <4>3
    <3>5. QED BY <3>4 DEF NoDouble
  <2>3. QED BY <1>2, <2>1, <2>2
<1>9. PublishedListed'
  <2> SUFFICES ASSUME NEW q \in published', SoleOwner(q)', ~ Listed(q)'
               PROVE  disk'[report'[q].id] = Torn
    BY DEF PublishedListed
  <2>1. CASE q \in published
    <3>1. q \in Run /\ SoleOwner(q) /\ ~ Listed(q)
      BY <2>1, <1>3, <1>4, <1>5, SoleStays
    <3>2. disk[report[q].id] = Torn /\ report[q].id \in Second
      BY <2>1, <3>1 DEF ListInv, PublishedListed, Report
    <3>3. ~ \E w \in Run : Writable(report[q].id, w)
      BY <2>1, <3>1 DEF Writable, SoleOwner, PublishedEnded, Ended
    <3>4. QED BY <2>1, <3>1, <3>2, <3>3, <1>5, DiskWrites DEF Next
  <2>2. CASE q \notin published
    <3>1. q = r /\ runs' = <<r>> \o runs
      BY <2>2, <1>2
    <3>2. 1 \in 1 .. Len(runs') /\ runs'[1] = r
      BY <3>1
    <3>3. QED BY <3>1, <3>2 DEF Listed
  <2>3. QED BY <2>1, <2>2
<1>10. WroteListed'
  <2> SUFFICES ASSUME NEW a \in Act, pcA[a] \in {"persisting", "marshalled", "writing"}
               PROVE  Listed(wrote[a])'
    BY <1>1 DEF WroteListed
  <2>1. PICK q \in Run : q = wrote[a] /\ q = wrote'[a] /\ Listed(q)
    BY <1>1 DEF ListInv, WroteListed
  <2>2. QED BY <2>1, <1>3 DEF Listed
<1>11. QED BY <1>7, <1>8, <1>9, <1>10 DEF ListInv

(* The list after a step of ExecuteAction. *)
LEMMA ActList ==
  ASSUME IInv, ListInv, TypeOK', NEW a \in Act, ActRequest(a) \/ ActStep(a)
  PROVE  ListInv'
<1> USE DEF IInv, TypeOK
<1>1. UNCHANGED <<runs, pcR, published>>
  BY DEF ActRequest, ActStep, ActLookup, ActMissing, ActPerform, ActWriteBack, ActMarshal,
         ActPersist, ActWritten, ActPersistFails, ActFinish, execVars
<1>2. \A p \in Run : report[p].id = 0 \/ report'[p].id = report[p].id
  BY IdsStay DEF Next
<1>3. \A q \in Run : pcR[q] # "idle" => report'[q].id = report[q].id
  BY <1>2 DEF IdsGiven
<1>4. \A q \in published : pcR[q] # "idle"
  BY DEF PublishedEnded, Ended
<1>5. FileOwn'
  <2> SUFFICES ASSUME NEW q \in Run, SoleOwner(q)', pcR[q] = "written" \/ q \in published
               PROVE  OwnFile(q)'
    BY <1>1 DEF FileOwn
  <2>1. pcR[q] # "idle" /\ SoleOwner(q)
    BY <1>2, <1>3, <1>4, SoleStays
  <2>2. OwnFile(q)
    BY <2>1 DEF ListInv, FileOwn
  <2>3. QED BY <2>1, <2>2, <1>3, OwnStays DEF Next
<1>6. PublishedListed'
  <2> SUFFICES ASSUME NEW q \in published, SoleOwner(q)', ~ Listed(q)
               PROVE  disk'[report'[q].id] = Torn
    BY <1>1 DEF PublishedListed, Listed
  <2>1. q \in Run /\ pcR[q] # "idle" /\ SoleOwner(q)
    BY <1>2, <1>3, <1>4, SoleStays
  <2>2. disk[report[q].id] = Torn /\ report[q].id \in Second
    BY <2>1 DEF ListInv, PublishedListed, Report
  <2>3. ~ \E w \in Run : Writable(report[q].id, w)
    BY <2>1 DEF Writable, SoleOwner, PublishedEnded, Ended
  <2>4. QED BY <2>1, <2>2, <2>3, <1>3, DiskWrites DEF Next
<1>7. WroteListed'
  <2> SUFFICES ASSUME NEW b \in Act, pcA'[b] \in {"persisting", "marshalled", "writing"}
               PROVE  \E j \in 1 .. Len(runs) : runs[j] = wrote'[b]
    BY <1>1 DEF WroteListed, Listed
  <2>1. CASE b = a /\ ActWriteBack(a)
    <3>1. PICK r \in Lookup(req[a].id, req[a].action) : wrote' = [wrote EXCEPT ![a] = r]
      BY <2>1 DEF ActWriteBack
    <3>2. Listed(r)
      BY LookupListed
    <3>3. QED BY <2>1, <3>1, <3>2 DEF Listed
  <2>2. CASE ~ (b = a /\ ActWriteBack(a))
    <3>1. pcA[b] \in {"persisting", "marshalled", "writing"} /\ wrote'[b] = wrote[b]
      BY <2>2
      DEF ActRequest, ActStep, ActLookup, ActMissing, ActPerform, ActWriteBack, ActMarshal,
          ActPersist, ActWritten, ActPersistFails, ActFinish, ActGoto
    <3>2. QED BY <3>1, ZenonT(20) DEF ListInv, WroteListed, Listed
  <2>3. QED BY <2>1, <2>2
<1>8. NoDouble'
  BY <1>1 DEF ListInv, NoDouble
<1>9. QED BY <1>5, <1>6, <1>7, <1>8 DEF ListInv

(* A restart lists every report that a file holds, and none twice. *)
LEMMA RestartOrder ==
  ASSUME TypeOK, Restart
  PROVE  /\ \A q \in Loaded : \E j \in 1 .. Len(runs') : runs'[j] = q
         /\ \A j, k \in 1 .. Len(runs') : j # k => runs'[j] # runs'[k]
<1>1. PICK h \in Histories : runs' = h \/ \E r \in published \ Loaded : runs' = <<r>> \o h
  BY RestartReports
<1>2. /\ h \in Seq(Run)
      /\ \A j \in 1 .. Len(h) : h[j] \in Loaded
      /\ \A q \in Loaded : \E j \in 1 .. Len(h) : h[j] = q
      /\ \A j, k \in 1 .. Len(h) : j # k => h[j] # h[k]
  BY HistoriesType, HistoriesRange, HistoryLists
<1>3. CASE runs' = h
  BY <1>2, <1>3
<1>4. CASE \E r \in published \ Loaded : runs' = <<r>> \o h
  <2>1. PICK r \in published \ Loaded : runs' = <<r>> \o h
    BY <1>4
  <2>2. r \in Run
    BY DEF TypeOK
  <2>3. /\ Len(runs') = Len(h) + 1
        /\ runs'[1] = r
        /\ \A j \in 1 .. Len(h) : runs'[j + 1] = h[j]
        /\ \A j \in 1 .. Len(runs') : j = 1 \/ (j - 1 \in 1 .. Len(h) /\ runs'[j] = h[j - 1])
    BY <1>2, <2>1, <2>2
  <2>4. \A q \in Loaded : \E j \in 1 .. Len(runs') : runs'[j] = q
    <3>1. \A j \in 1 .. Len(h) : j + 1 \in 1 .. Len(runs')
      BY <1>2, <2>3
    <3>2. QED BY <1>2, <2>3, <3>1
  <2>5. ASSUME NEW j \in 1 .. Len(runs'), NEW k \in 1 .. Len(runs'), j # k
        PROVE  runs'[j] # runs'[k]
    <3>1. CASE j = 1
      <4>1. k - 1 \in 1 .. Len(h) /\ runs'[k] = h[k - 1]
        BY <2>3, <2>5, <3>1
      <4>2. QED BY <1>2, <2>1, <2>3, <3>1, <4>1
    <3>2. CASE k = 1
      <4>1. j - 1 \in 1 .. Len(h) /\ runs'[j] = h[j - 1]
        BY <2>3, <2>5, <3>2
      <4>2. QED BY <1>2, <2>1, <2>3, <3>2, <4>1
    <3>3. CASE j # 1 /\ k # 1
      <4>1. /\ j - 1 \in 1 .. Len(h) /\ runs'[j] = h[j - 1]
            /\ k - 1 \in 1 .. Len(h) /\ runs'[k] = h[k - 1]
        BY <2>3, <3>3
      <4>2. j - 1 # k - 1
        BY <2>5
      <4>3. QED BY <1>2, <4>1, <4>2
    <3>4. QED BY <3>1, <3>2, <3>3
  <2>6. QED BY <2>4, <2>5
<1>5. QED BY <1>1, <1>3, <1>4

(* The list after a restart is that of the files, and perhaps the latest. *)
LEMMA RestartList ==
  ASSUME IInv, ListInv, TypeOK', Restart
  PROVE  ListInv'
<1> USE DEF IInv, TypeOK
<1>1. /\ disk' = disk /\ published' = published \cup Loaded
      /\ \A q \in Run : report'[q].id = report[q].id
      /\ \A q \in Run : pcR'[q] # "written"
      /\ \A q \in Run : pcR[q] \in Ended \cup {"written"} => pcR'[q] \in Ended
  BY RestartReports DEF Restart, RunInFlight, RunAtRest, Ended
<1>2. \A q \in Loaded : disk[report[q].id] \in [owner : {q}, status : Statuses]
  BY DEF Loaded
<1>3. NoDouble' /\ \A q \in Loaded : q \in Run /\ report[q].id \in Second /\ Listed(q)'
  BY RestartOrder DEF Loaded, Listed, NoDouble, Report
<1>4. \A q \in Run : SoleOwner(q)' <=> SoleOwner(q)
  BY <1>1 DEF SoleOwner
<1>6. FileOwn'
  <2> SUFFICES ASSUME NEW q \in Run, SoleOwner(q), q \in published' PROVE OwnFile(q)'
    BY <1>1, <1>4 DEF FileOwn
  <2>1. OwnFile(q)
    BY <1>1, <1>2 DEF ListInv, FileOwn, OwnFile
  <2>2. QED BY <2>1, <1>1 DEF OwnFile
<1>8. PublishedListed'
  <2> SUFFICES ASSUME NEW q \in published', SoleOwner(q)', q \notin Loaded
               PROVE  disk'[report'[q].id] = Torn
    BY <1>3 DEF PublishedListed
  <2>1. q \in published /\ q \in Run /\ SoleOwner(q)
    BY <1>1, <1>4
  <2>2. OwnFile(q)
    BY <2>1 DEF ListInv, FileOwn
  <2>3. QED BY <2>1, <2>2, <1>1 DEF OwnFile, Loaded
<1>9. WroteListed'
  BY DEF WroteListed, Restart, ActInFlight, ActAtRest
<1>10. QED BY <1>3, <1>6, <1>8, <1>9 DEF ListInv

(* Every step keeps the list. *)
LEMMA ListPreserves ==
  ASSUME IInv, ListInv, TypeOK', [Next]_vars
  PROVE  ListInv'
<1>1. CASE \E r \in Run : ExecStart(r) \/ ExecStep(r)
  BY <1>1, ExecList
<1>2. CASE \E a \in Act : ActRequest(a) \/ ActStep(a)
  BY <1>2, ActList
<1>3. CASE Restart
  BY <1>3, RestartList
<1>4. CASE Tick \/ UNCHANGED vars
  <2>1. UNCHANGED <<report, runs, disk, pcR, pcA, wrote, published>>
    BY <1>4 DEF Tick, vars, execVars, actVars
  <2>2. QED
    BY <2>1 DEF ListInv, FileOwn, NoDouble, PublishedListed, WroteListed,
                SoleOwner, OwnFile, Listed
<1>5. QED BY <1>1, <1>2, <1>3, <1>4 DEF Next

(***************************************************************************)
(* A run that was ever listed stays listed, and is listed once, unless its *)
(* ID is shared or its file is torn, over any number of restarts.          *)
(***************************************************************************)
THEOREM ListedOnceCorrect == Spec => []ListedOnce
<1>1. IInv /\ ListInv => ListedOnce
  <2> SUFFICES ASSUME IInv, ListInv, NEW r \in published, SoleOwner(r), disk[report[r].id] # Torn
               PROVE  Cardinality({j \in DOMAIN runs : runs[j] = r}) = 1
    BY DEF ListedOnce
  <2>1. PICK i \in 1 .. Len(runs) : runs[i] = r
    BY DEF ListInv, PublishedListed, Listed
  <2>2. {j \in DOMAIN runs : runs[j] = r} = {i}
    <3>1. DOMAIN runs = 1 .. Len(runs)
      BY DEF IInv, TypeOK
    <3>2. \A j \in 1 .. Len(runs) : runs[j] = r => j = i
      BY <2>1 DEF ListInv, NoDouble
    <3>3. QED BY <2>1, <3>1, <3>2
  <2>3. QED BY <2>2, FS_Singleton
<1>2. Init => IInv /\ ListInv
  BY InitInvariant, InitList
<1>3. IInv /\ ListInv /\ TypeOK' /\ [Next]_vars => (IInv /\ ListInv)'
  BY StepPreserves, ListPreserves
<1>4. QED BY <1>1, <1>2, <1>3, WorkbenchTypeCorrect, PTL DEF Spec
-----------------------------------------------------------------------------
(***************************************************************************)
(* The files of the listed reports.  While one request saves a report and  *)
(* no second one has joined it, the file is torn from when it is opened,   *)
(* and what will be written is the report, or somebody is about to change  *)
(* and save the report again.  Once two have been saving it together,      *)
(* nothing is known until one of them, the last, has written: then the     *)
(* file is torn or holds what that one marshalled.                         *)
(***************************************************************************)
Writes == {"persisting", "marshalled", "writing"}

Saving(a, r) == pcA[a] \in Writes /\ wrote[a] = r

(* The request has marked the report, and will change and save it. *)
Performs(a, r) == pcA[a] \in {"perform", "performed"} /\ ref[a] = r

Handled(r) == \E a \in Act : Performs(a, r) \/ Saving(a, r)

Unsaved(r) == \E a \in Act : pcA[a] = "unsaved" /\ wrote[a] = r

LateText(r) ==
  \/ disk[report[r].id] = Torn
  \/ \E a \in Act : /\ pcA[a] \in {"written", "done"}
                   /\ wrote[a] = r
                   /\ disk[report[r].id] = [owner |-> r, status |-> buffer[a]]

SavedUnlessHandled ==
  \A r \in Run : Listed(r) /\ SoleOwner(r) =>
    \/ FileFits(r)
    \/ Unsaved(r)
    \/ Handled(r)
    \/ restarts > 0 /\ disk[report[r].id] = Torn
    \/ r \in raced /\ LateText(r)

(* The file of a run that is about to be published. *)
WrittenFits ==
  \A r \in Run : SoleOwner(r) =>
    /\ pcR[r] = "writing" => disk[report[r].id] = Torn
    /\ pcR[r] = "written" => FileFits(r)

(* Two requests that save one report have raced, ... *)
OneSaver ==
  \A r \in Run : \A a, b \in Act : Saving(a, r) /\ Saving(b, r) /\ a # b => r \in raced

(* ... and what a request is about to write that has not. *)
BufferFits ==
  \A r \in Run : \A a \in Act :
    Saving(a, r) /\ pcA[a] # "persisting" /\ SoleOwner(r) /\ r \notin raced =>
      /\ buffer[a] = report[r].status \/ \E b \in Act : Performs(b, r)
      /\ pcA[a] = "writing" => disk[report[r].id] = Torn

SaveInv == SavedUnlessHandled /\ WrittenFits /\ OneSaver /\ BufferFits

(* The files at the start. *)
LEMMA InitSave == Init => SaveInv
BY DEF Init, SaveInv, SavedUnlessHandled, WrittenFits, OneSaver, BufferFits, Saving, Writes, Listed

(* What a step of Execute does to the files. *)
LEMMA ExecDisk ==
  ASSUME IInv, NEW r \in Run, ExecStart(r) \/ ExecStep(r)
  PROVE  /\ \A s \in Second : s # report[r].id => disk'[s] = disk[s]
         /\ pcR[r] \in Ended \cup {"written"} => disk' = disk
         /\ pcR'[r] = "writing" => report' = report /\ disk'[report[r].id] = Torn
         /\ pcR'[r] = "written" =>
              /\ pcR[r] = "writing" /\ report' = report
              /\ disk[report[r].id] = Torn =>
                   disk'[report[r].id] = [owner |-> r, status |-> report[r].status]
         /\ pcR'[r] = "published" => pcR[r] = "written"
<1> USE DEF IInv, TypeOK, RunGoto
<1>0. report[r].id \in Second
  BY DEF Report
<1>1. CASE ExecPersist(r)
  BY <1>0, <1>1 DEF ExecPersist, Truncate, Ended
<1>2. CASE ExecWritten(r)
  <2>1. /\ pcR[r] = "writing" /\ pcR'[r] = "written" /\ report' = report
        /\ WriteFile(report[r].id, [owner |-> r, status |-> report[r].status])
    BY <1>2 DEF ExecWritten
  <2>2. /\ \A s \in Second : s # report[r].id => disk'[s] = disk[s]
        /\ disk[report[r].id] = Torn =>
             disk'[report[r].id] = [owner |-> r, status |-> report[r].status]
    BY <1>0, <2>1 DEF WriteFile
  <2>3. QED BY <2>1, <2>2 DEF Ended
<1>3. CASE ExecPhase(r)
  <2>1. PICK k \in 1 .. Len(Phases) : pcR'[r] = Phases[k]
    BY <1>3 DEF ExecPhase
  <2>2. pcR'[r] \notin {"writing", "written", "published"}
    BY <2>1, BuildingControl DEF Building
  <2>3. QED BY <1>3, <2>2 DEF ExecPhase
<1>4. CASE ~ ExecPersist(r) /\ ~ ExecWritten(r) /\ ~ ExecPhase(r)
  <2>1. disk' = disk
    BY <1>4 DEF ExecStart, ExecStep, ExecSnapshot, ExecSnapshotEnds, ExecPlan, ExecAssemble,
                ExecPersistFails, ExecPublish, ExecFinish
  <2>2. CASE ExecPublish(r)
    BY <2>1, <2>2 DEF ExecPublish
  <2>3. CASE ~ ExecPublish(r)
    <3>1. \E label \in {"context", "snapshot", "gather", "planning", "persisting", "failed", "done"} :
            pcR' = [pcR EXCEPT ![r] = label]
      BY <1>4, <2>3 DEF ExecStart, ExecStep, ExecSnapshot, ExecSnapshotEnds, ExecPlan, ExecAssemble,
                        ExecPersistFails, ExecFinish
    <3>2. pcR'[r] \notin {"writing", "written", "published"}
      BY <3>1
    <3>3. QED BY <2>1, <3>2
  <2>4. QED BY <2>2, <2>3
<1>5. QED BY <1>1, <1>2, <1>3, <1>4

(* The files after a step of Execute: only the file of that run changes. *)
LEMMA ExecSaves ==
  ASSUME IInv, ListInv, SaveInv, TypeOK', NEW r \in Run, ExecStart(r) \/ ExecStep(r)
  PROVE  SaveInv'
<1> USE DEF IInv, TypeOK
<1>1. /\ UNCHANGED <<pcA, req, ref, wrote, buffer, raced, restarts>>
      /\ \A q \in Run \ {r} : pcR'[q] = pcR[q] /\ report'[q] = report[q]
      /\ pcR[r] \in Ended \cup {"written"} => report'[r] = report[r]
      /\ pcR'[r] # "idle"
  BY ExecFrame DEF actVars
<1>2. /\ \A s \in Second : s # report[r].id => disk'[s] = disk[s]
      /\ pcR[r] \in Ended \cup {"written"} => disk' = disk
      /\ pcR'[r] = "writing" => report' = report /\ disk'[report[r].id] = Torn
      /\ pcR'[r] = "written" =>
           /\ pcR[r] = "writing" /\ report' = report
           /\ disk[report[r].id] = Torn =>
                disk'[report[r].id] = [owner |-> r, status |-> report[r].status]
      /\ pcR'[r] = "published" => pcR[r] = "written"
  BY ExecDisk
<1>3. \A p \in Run : report[p].id = 0 \/ report'[p].id = report[p].id
  BY IdsStay DEF Next
<1>4. \A q \in Run : pcR[q] # "idle" => report'[q].id = report[q].id
  BY <1>3 DEF IdsGiven
<1>5. \A q \in Run : report[q].id \in Second
  BY DEF Report
<1>6. ASSUME NEW q \in Run, pcR[q] # "idle", SoleOwner(q)'
      PROVE  SoleOwner(q) /\ (q # r => disk'[report[q].id] = disk[report[q].id])
  <2>1. SoleOwner(q)
    BY <1>3, <1>4, <1>6, SoleStays
  <2>2. QED BY <2>1, <1>2, <1>5 DEF SoleOwner
<1>7. ASSUME NEW q \in Run, pcR[q] \in Ended, SoleOwner(q)'
      PROVE  SoleOwner(q) /\ report'[q] = report[q] /\ disk'[report[q].id] = disk[report[q].id]
  <2>1. pcR[q] # "idle"
    BY <1>7 DEF Ended
  <2>2. QED BY <2>1, <1>1, <1>2, <1>6, <1>7
<1>8. \A q \in Run :
        /\ Handled(q)' <=> Handled(q)
        /\ Unsaved(q)' <=> Unsaved(q)
        /\ \A a \in Act : (Saving(a, q)' <=> Saving(a, q)) /\ (Performs(a, q)' <=> Performs(a, q))
  BY <1>1 DEF Handled, Unsaved, Saving, Performs
<1>9. SavedUnlessHandled'
  <2> SUFFICES ASSUME NEW q \in Run, Listed(q)', SoleOwner(q)'
               PROVE  \/ FileFits(q)' \/ Unsaved(q) \/ Handled(q)
                      \/ restarts > 0 /\ disk'[report'[q].id] = Torn
                      \/ q \in raced /\ LateText(q)'
    BY <1>1, <1>8 DEF SavedUnlessHandled
  <2>1. CASE Listed(q)
    <3>1. SoleOwner(q) /\ report'[q] = report[q] /\ disk'[report[q].id] = disk[report[q].id]
      BY <2>1, <1>7 DEF ListedEnded
    <3>2. (FileFits(q) => FileFits(q)') /\ (LateText(q) => LateText(q)')
      BY <3>1, <1>1 DEF FileFits, LateText
    <3>3. QED BY <2>1, <3>1, <3>2 DEF SaveInv, SavedUnlessHandled
  <2>2. CASE ~ Listed(q)
    <3>1. q = r /\ pcR[r] = "written"
      BY <2>2, <1>2, ExecLists
    <3>2. SoleOwner(q)
      BY <3>1, <1>6
    <3>3. QED BY <3>1, <3>2, <1>1, <1>2 DEF SaveInv, WrittenFits, FileFits
  <2>3. QED BY <2>1, <2>2
<1>10. WrittenFits'
  <2> SUFFICES ASSUME NEW q \in Run, SoleOwner(q)', pcR'[q] \in {"writing", "written"}
               PROVE  /\ pcR'[q] = "writing" => disk'[report'[q].id] = Torn
                      /\ pcR'[q] = "written" =>
                           disk'[report'[q].id] = [owner |-> q, status |-> report'[q].status]
    BY DEF WrittenFits, FileFits
  <2>1. CASE q = r
    <3>1. pcR'[q] = "written" => SoleOwner(q)
      BY <2>1, <1>2, <1>6
    <3>2. pcR'[q] = "written" => disk[report[q].id] = Torn
      BY <2>1, <3>1, <1>2 DEF SaveInv, WrittenFits
    <3>3. QED BY <2>1, <3>2, <1>2
  <2>2. CASE q # r
    <3>1. pcR'[q] = pcR[q] /\ report'[q] = report[q] /\ pcR[q] # "idle"
      BY <2>2, <1>1
    <3>2. SoleOwner(q) /\ disk'[report[q].id] = disk[report[q].id]
      BY <2>2, <3>1, <1>6
    <3>3. QED BY <3>1, <3>2 DEF SaveInv, WrittenFits, FileFits
  <2>3. QED BY <2>1, <2>2
<1>11. OneSaver'
  BY <1>1, <1>8 DEF SaveInv, OneSaver
<1>12. BufferFits'
  <2> SUFFICES ASSUME NEW q \in Run, NEW a \in Act,
                      Saving(a, q), pcA[a] # "persisting", SoleOwner(q)', q \notin raced
               PROVE  /\ buffer[a] = report'[q].status \/ \E b \in Act : Performs(b, q)
                      /\ pcA[a] = "writing" => disk'[report'[q].id] = Torn
    BY <1>1, <1>8 DEF BufferFits
  <2>1. pcR[q] \in Ended
    BY DEF Saving, WroteEnded, Writes
  <2>2. SoleOwner(q) /\ report'[q] = report[q] /\ disk'[report[q].id] = disk[report[q].id]
    BY <2>1, <1>7
  <2>3. QED BY <2>2 DEF SaveInv, BufferFits
<1>13. QED BY <1>9, <1>10, <1>11, <1>12 DEF SaveInv

(* A lookup of a report that shares its ID with none finds that report. *)
LEMMA LookupOnly ==
  ASSUME IInv, NEW a \in Act, NEW q \in Run, Performs(a, q), SoleOwner(q)
  PROVE  /\ q \in Lookup(req[a].id, req[a].action)
         /\ \A r \in Lookup(req[a].id, req[a].action) : r = q
<1>1. /\ Listed(q) /\ report[q].id = req[a].id /\ report[q].status[req[a].action] # "absent"
      /\ req[a].action \in Action
  BY DEF Performs, IInv, RefKept, TypeOK
<1>2. QED BY <1>1, LookupFinds, LookupListed DEF SoleOwner

(* A request saves nothing: it announces itself, performs, marshals, ends. *)
LEMMA ActQuietSaves ==
  ASSUME IInv, SaveInv, NEW a \in Act,
         \/ ActRequest(a) \/ ActMissing(a) \/ ActPerform(a) \/ ActMarshal(a) \/ ActPersistFails(a) \/ ActFinish(a)
  PROVE  SaveInv'
<1> USE DEF IInv, TypeOK
<1>1. /\ UNCHANGED <<report, runs, disk, pcR, ref, wrote, raced, restarts>>
      /\ \A b \in Act \ {a} : pcA'[b] = pcA[b] /\ buffer'[b] = buffer[b]
      /\ pcA[a] # "unsaved"
  BY DEF ActRequest, ActMissing, ActPerform, ActMarshal, ActPersistFails, ActFinish, ActGoto, execVars
<1>2. \/ /\ pcA[a] \notin Writes \cup {"perform", "performed", "written", "done"}
         /\ pcA'[a] \notin Writes
      \/ pcA[a] = "perform" /\ pcA'[a] = "performed"
      \/ pcA[a] = "performed" /\ pcA'[a] \notin Writes /\ Lookup(req[a].id, req[a].action) = {}
      \/ pcA[a] = "persisting" /\ pcA'[a] = "marshalled" /\ buffer'[a] = report[wrote[a]].status
      \/ pcA[a] \in Writes /\ pcA'[a] = "unsaved" /\ buffer' = buffer
      \/ pcA[a] = "written" /\ pcA'[a] = "done" /\ buffer' = buffer
  BY DEF ActRequest, ActMissing, ActPerform, ActMarshal, ActPersistFails, ActFinish, ActGoto, Writes
<1>3. \A q \in Run : SoleOwner(q) =>
        \A b \in Act : Performs(b, q) => Performs(b, q)'
  <2> SUFFICES ASSUME NEW q \in Run, SoleOwner(q), NEW b \in Act, Performs(b, q) PROVE Performs(b, q)'
    OBVIOUS
  <2>1. CASE b # a
    BY <2>1, <1>1 DEF Performs
  <2>2. CASE b = a
    <3>1. Lookup(req[a].id, req[a].action) # {}
      BY <2>2, LookupOnly
    <3>2. QED BY <2>2, <3>1, <1>1, <1>2 DEF Performs, Writes
  <2>3. QED BY <2>1, <2>2
<1>4. \A q \in Run, b \in Act :
        /\ Saving(b, q)' => Saving(b, q)
        /\ Saving(b, q) => Saving(b, q)' \/ (b = a /\ Unsaved(q)')
  BY <1>1, <1>2 DEF Saving, Writes, Unsaved
<1>5. SavedUnlessHandled'
  <2> SUFFICES ASSUME NEW q \in Run, Listed(q), SoleOwner(q)
               PROVE  \/ FileFits(q) \/ Unsaved(q)' \/ Handled(q)'
                      \/ restarts > 0 /\ disk[report[q].id] = Torn
                      \/ q \in raced /\ LateText(q)'
    BY <1>1 DEF SavedUnlessHandled, FileFits, Listed, SoleOwner
  <2>1. Unsaved(q) => Unsaved(q)'
    BY <1>1 DEF Unsaved
  <2>2. Handled(q) => Handled(q)' \/ Unsaved(q)'
    BY <1>3, <1>4 DEF Handled
  <2>3. LateText(q) => LateText(q)'
    <3>1. CASE disk[report[q].id] = Torn
      BY <3>1, <1>1 DEF LateText
    <3>2. ASSUME NEW b \in Act, pcA[b] \in {"written", "done"}, wrote[b] = q,
                 disk[report[q].id] = [owner |-> q, status |-> buffer[b]]
          PROVE  LateText(q)'
      <4>1. pcA'[b] \in {"written", "done"} /\ buffer'[b] = buffer[b]
        BY <1>1, <1>2, <3>2 DEF Writes
      <4>2. QED BY <3>2, <4>1, <1>1 DEF LateText
    <3>3. QED BY <3>1, <3>2 DEF LateText
  <2>4. QED BY <2>1, <2>2, <2>3 DEF SaveInv, SavedUnlessHandled
<1>6. WrittenFits'
  BY <1>1 DEF SaveInv, WrittenFits, FileFits, SoleOwner
<1>7. OneSaver'
  BY <1>1, <1>4 DEF SaveInv, OneSaver
<1>8. BufferFits'
  <2> SUFFICES ASSUME NEW q \in Run, NEW b \in Act,
                      Saving(b, q)', pcA'[b] # "persisting", SoleOwner(q), q \notin raced
               PROVE  /\ buffer'[b] = report[q].status \/ \E c \in Act : Performs(c, q)'
                      /\ pcA'[b] = "writing" => disk[report[q].id] = Torn
    BY <1>1 DEF BufferFits, SoleOwner
  <2>1. Saving(b, q)
    BY <1>4
  <2>2. CASE b # a
    BY <2>1, <2>2, <1>1, <1>3 DEF SaveInv, BufferFits
  <2>3. CASE b = a
    BY <2>1, <2>3, <1>2 DEF Saving, Writes
  <2>4. QED BY <2>2, <2>3
<1>9. QED BY <1>5, <1>6, <1>7, <1>8 DEF SaveInv

(* A new status: the request performs, or it saves and has raced with      *)
(* whoever is saving the report already.                                   *)
LEMMA ActStatusSaves ==
  ASSUME IInv, SaveInv, NEW a \in Act, ActLookup(a) \/ ActWriteBack(a)
  PROVE  SaveInv'
<1> USE DEF IInv, TypeOK
<1>1. PICK r \in Lookup(req[a].id, req[a].action), v \in Status :
        /\ report' = [report EXCEPT ![r].status[req[a].action] = v]
        /\ \/ /\ pcA[a] = "requested" /\ pcA' = [pcA EXCEPT ![a] = "perform"]
              /\ ref' = [ref EXCEPT ![a] = r] /\ wrote' = wrote /\ raced' = raced
           \/ /\ pcA[a] = "performed" /\ pcA' = [pcA EXCEPT ![a] = "persisting"]
              /\ wrote' = [wrote EXCEPT ![a] = r] /\ ref' = ref
              /\ raced' = IF BeingSaved(r) THEN raced \cup {r} ELSE raced \ {r}
  BY DEF ActLookup, ActWriteBack, ActGoto, actVars, Status
<1>2. r \in Run /\ Listed(r) /\ report[r].id = req[a].id
  BY LookupListed
<1>3. UNCHANGED <<runs, disk, pcR, req, buffer, restarts>>
  BY DEF ActLookup, ActWriteBack, execVars
<1>4. /\ \A q \in Run : report'[q].id = report[q].id
      /\ \A q \in Run \ {r} : report'[q] = report[q]
  BY <1>1, <1>2, StatusAt
<1>5. /\ \A b \in Act \ {a} : pcA'[b] = pcA[b] /\ ref'[b] = ref[b] /\ wrote'[b] = wrote[b]
      /\ \/ Performs(a, r)' /\ pcA[a] = "requested" /\ raced' = raced /\ wrote' = wrote
         \/ Saving(a, r)' /\ pcA[a] = "performed"
      /\ \A q \in Run \ {r} : ~ Saving(a, q)' /\ (q \in raced' <=> q \in raced)
      /\ pcA'[a] \in {"perform", "persisting"} /\ pcA[a] \in {"requested", "performed"}
  BY <1>1, <1>2 DEF Performs, Saving, Writes
<1>6. \A b \in Act \ {a}, q \in Run :
        (Saving(b, q)' <=> Saving(b, q)) /\ (Performs(b, q)' <=> Performs(b, q))
  BY <1>5 DEF Saving, Performs
<1>7. \A q \in Run : (Listed(q)' <=> Listed(q)) /\ (SoleOwner(q)' <=> SoleOwner(q))
  BY <1>3, <1>4 DEF Listed, SoleOwner
<1>8. ASSUME NEW q \in Run, q # r, SoleOwner(q) PROVE ~ Performs(a, q)
  BY <1>1, <1>8, LookupOnly
<1>9. SavedUnlessHandled'
  <2> SUFFICES ASSUME NEW q \in Run, Listed(q), SoleOwner(q)
               PROVE  \/ FileFits(q)' \/ Unsaved(q)' \/ Handled(q)'
                      \/ restarts > 0 /\ disk[report'[q].id] = Torn
                      \/ q \in raced' /\ LateText(q)'
    BY <1>3, <1>7 DEF SavedUnlessHandled
  <2>1. CASE q = r
    BY <2>1, <1>5 DEF Handled
  <2>2. CASE q # r
    <3>1. report'[q] = report[q] /\ (q \in raced' <=> q \in raced)
      BY <2>2, <1>4, <1>5
    <3>2. (FileFits(q) => FileFits(q)') /\ (Unsaved(q) => Unsaved(q)')
      BY <3>1, <1>3, <1>5 DEF FileFits, Unsaved
    <3>3. Handled(q) => Handled(q)'
      <4>1. ~ Performs(a, q) /\ ~ Saving(a, q)
        BY <2>2, <1>5, <1>8 DEF Saving, Writes
      <4>2. QED BY <4>1, <1>6 DEF Handled
    <3>4. LateText(q) => LateText(q)'
      <4>1. CASE disk[report[q].id] = Torn
        BY <4>1, <3>1, <1>3 DEF LateText
      <4>2. ASSUME NEW b \in Act, pcA[b] \in {"written", "done"}, wrote[b] = q,
                   disk[report[q].id] = [owner |-> q, status |-> buffer[b]]
            PROVE  LateText(q)'
        <5>1. b # a
          BY <4>2, <1>5
        <5>2. pcA'[b] \in {"written", "done"} /\ wrote'[b] = q
          BY <4>2, <5>1, <1>5
        <5>3. QED BY <4>2, <5>2, <3>1, <1>3 DEF LateText
      <4>3. QED BY <4>1, <4>2 DEF LateText
    <3>5. QED BY <3>1, <3>2, <3>3, <3>4, <1>3 DEF SaveInv, SavedUnlessHandled
  <2>3. QED BY <2>1, <2>2
<1>10. WrittenFits'
  <2> SUFFICES ASSUME NEW q \in Run, SoleOwner(q), pcR[q] \in {"writing", "written"}
               PROVE  /\ pcR[q] = "writing" => disk[report'[q].id] = Torn
                      /\ pcR[q] = "written" => disk[report'[q].id] = [owner |-> q, status |-> report'[q].status]
    BY <1>3, <1>7 DEF WrittenFits, FileFits
  <2>1. q # r
    BY <1>2 DEF ListedEnded, Ended
  <2>2. QED BY <2>1, <1>4 DEF SaveInv, WrittenFits, FileFits
<1>11. \A b \in Act \ {a} : Saving(b, r) /\ Saving(a, r)' => r \in raced'
  <2> SUFFICES ASSUME NEW b \in Act \ {a}, Saving(b, r), Saving(a, r)' PROVE r \in raced'
    OBVIOUS
  <2>1. BeingSaved(r)
    BY DEF BeingSaved, Saving, Writes
  <2>2. pcA'[a] # "perform"
    BY DEF Saving, Writes
  <2>3. QED BY <2>1, <2>2, <1>1, <1>2
<1>12. OneSaver'
  <2> SUFFICES ASSUME NEW q \in Run, NEW b \in Act, NEW c \in Act, Saving(b, q)', Saving(c, q)', b # c
               PROVE  q \in raced'
    BY DEF OneSaver
  <2>1. CASE b # a /\ c # a
    <3>1. Saving(b, q) /\ Saving(c, q) /\ q \in raced
      BY <2>1, <1>6 DEF SaveInv, OneSaver
    <3>2. BeingSaved(q)
      BY <3>1 DEF BeingSaved, Saving, Writes
    <3>3. QED BY <3>1, <3>2, <1>1, <1>2
  <2>2. CASE b = a
    <3>1. q = r /\ Saving(c, r)
      BY <2>2, <1>5, <1>6
    <3>2. QED BY <2>2, <3>1, <1>11
  <2>3. CASE c = a
    <3>1. q = r /\ Saving(b, r)
      BY <2>3, <1>5, <1>6
    <3>2. QED BY <2>3, <3>1, <1>11
  <2>4. QED BY <2>1, <2>2, <2>3
<1>13. BufferFits'
  <2> SUFFICES ASSUME NEW q \in Run, NEW b \in Act,
                      Saving(b, q)', pcA'[b] # "persisting", SoleOwner(q), q \notin raced'
               PROVE  /\ buffer[b] = report'[q].status \/ \E c \in Act : Performs(c, q)'
                      /\ pcA'[b] = "writing" => disk[report[q].id] = Torn
    BY <1>3, <1>4, <1>7 DEF BufferFits
  <2>1. b # a
    BY <1>5 DEF Saving, Writes
  <2>2. Saving(b, q) /\ pcA[b] = pcA'[b]
    BY <2>1, <1>5, <1>6
  <2>3. q \notin raced
    <3>1. BeingSaved(q)
      BY <2>2 DEF BeingSaved, Saving, Writes
    <3>2. QED BY <3>1, <1>1, <1>2
  <2>4. /\ buffer[b] = report[q].status \/ \E c \in Act : Performs(c, q)
        /\ pcA[b] = "writing" => disk[report[q].id] = Torn
    BY <2>2, <2>3 DEF SaveInv, BufferFits
  <2>5. CASE q = r
    <3>1. Performs(a, r)'
      BY <2>1, <2>2, <2>5, <1>5, <1>11
    <3>2. QED BY <2>2, <2>4, <2>5, <3>1
  <2>6. CASE q # r
    <3>1. ~ Performs(a, q)
      BY <2>6, <1>8
    <3>2. \A c \in Act : Performs(c, q) => Performs(c, q)'
      BY <3>1, <1>6
    <3>3. QED BY <2>2, <2>4, <2>6, <3>2, <1>4
  <2>7. QED BY <2>5, <2>6
<1>14. QED BY <1>9, <1>10, <1>12, <1>13 DEF SaveInv

(* A request that saves writes to the file of its report only. *)
LEMMA ActFileSaves ==
  ASSUME IInv, SaveInv, NEW a \in Act, ActPersist(a) \/ ActWritten(a)
  PROVE  SaveInv'
<1> USE DEF IInv, TypeOK
<1> DEFINE w == wrote[a]
<1>1. /\ UNCHANGED <<report, runs, pcR, req, ref, wrote, buffer, raced, restarts>>
      /\ \A b \in Act \ {a} : pcA'[b] = pcA[b]
      /\ Saving(a, w)
      /\ \/ pcA[a] = "marshalled" /\ pcA'[a] = "writing" /\ Truncate(report[w].id)
         \/ pcA[a] = "writing" /\ pcA'[a] = "written"
              /\ WriteFile(report[w].id, [owner |-> w, status |-> buffer[a]])
  BY DEF ActPersist, ActWritten, ActGoto, execVars, Saving, Writes
<1>2. w \in Run /\ report[w].id \in Second /\ pcR[w] \in Ended
  BY <1>1 DEF WroteEnded, Saving, Writes, Report
<1>3. wrote[a] = w
  OBVIOUS
<1> HIDE DEF w
<1>4. /\ \A s \in Second : s # report[w].id => disk'[s] = disk[s]
      /\ pcA'[a] = "writing" => disk'[report[w].id] = Torn
      /\ pcA'[a] = "written" => disk'[report[w].id] \in {Torn, [owner |-> w, status |-> buffer[a]]}
      /\ pcA'[a] = "written" /\ disk[report[w].id] = Torn =>
           disk'[report[w].id] = [owner |-> w, status |-> buffer[a]]
  BY <1>1, <1>2 DEF Truncate, WriteFile
<1>5. \A q \in Run : report[q].id \in Second
  BY DEF Report
<1>6. ASSUME NEW q \in Run, SoleOwner(q), q # w PROVE disk'[report[q].id] = disk[report[q].id]
  BY <1>2, <1>4, <1>5, <1>6 DEF SoleOwner
<1>7. \A q \in Run :
        /\ Listed(q)' <=> Listed(q)
        /\ SoleOwner(q)' <=> SoleOwner(q)
        /\ Unsaved(q) => Unsaved(q)'
        /\ \A b \in Act : (Performs(b, q)' <=> Performs(b, q)) /\ (Saving(b, q)' => Saving(b, q))
        /\ \A b \in Act \ {a} : Saving(b, q) => Saving(b, q)'
        /\ q # w => ~ Saving(a, q)
  BY <1>1, <1>3 DEF Listed, SoleOwner, Unsaved, Performs, Saving, Writes
<1>8. SavedUnlessHandled'
  <2> SUFFICES ASSUME NEW q \in Run, Listed(q), SoleOwner(q)
               PROVE  \/ FileFits(q)' \/ Unsaved(q)' \/ Handled(q)'
                      \/ restarts > 0 /\ disk'[report[q].id] = Torn
                      \/ q \in raced /\ LateText(q)'
    BY <1>1, <1>7 DEF SavedUnlessHandled
  <2>1. CASE q = w /\ pcA'[a] = "writing"
    <3>1. Saving(a, q)'
      BY <2>1, <1>1, <1>3 DEF Saving, Writes
    <3>2. QED BY <3>1 DEF Handled
  <2>2. CASE q = w /\ pcA'[a] = "written" /\ q \in raced
    <3>1. LateText(q)'
      BY <2>2, <1>1, <1>3, <1>4 DEF LateText
    <3>2. QED BY <2>2, <3>1
  <2>3. CASE q = w /\ pcA'[a] = "written" /\ q \notin raced
    <3>1. pcA[a] = "writing"
      BY <2>3, <1>1
    <3>2. /\ disk[report[q].id] = Torn
          /\ buffer[a] = report[q].status \/ \E b \in Act : Performs(b, q)
      BY <2>3, <3>1, <1>1 DEF SaveInv, BufferFits
    <3>3. CASE buffer[a] = report[q].status
      BY <2>3, <3>2, <3>3, <1>1, <1>4 DEF FileFits
    <3>4. CASE \E b \in Act : Performs(b, q)
      BY <3>4, <1>7 DEF Handled
    <3>5. QED BY <3>2, <3>3, <3>4
  <2>4. CASE q # w
    <3>1. disk'[report[q].id] = disk[report[q].id]
      BY <2>4, <1>6
    <3>2. (FileFits(q) => FileFits(q)')
      BY <3>1, <1>1 DEF FileFits
    <3>3. Handled(q) => Handled(q)'
      BY <2>4, <1>7 DEF Handled
    <3>4. LateText(q) => LateText(q)'
      <4>1. CASE disk[report[q].id] = Torn
        BY <4>1, <3>1, <1>1 DEF LateText
      <4>2. ASSUME NEW b \in Act, pcA[b] \in {"written", "done"}, wrote[b] = q,
                   disk[report[q].id] = [owner |-> q, status |-> buffer[b]]
            PROVE  LateText(q)'
        <5>1. pcA'[b] \in {"written", "done"}
          BY <4>2, <1>1
        <5>2. QED BY <4>2, <5>1, <3>1, <1>1 DEF LateText
      <4>3. QED BY <4>1, <4>2 DEF LateText
    <3>5. QED BY <3>1, <3>2, <3>3, <3>4, <1>7 DEF SaveInv, SavedUnlessHandled
  <2>5. QED BY <2>1, <2>2, <2>3, <2>4, <1>1
<1>9. WrittenFits'
  <2> SUFFICES ASSUME NEW q \in Run, SoleOwner(q), pcR[q] \in {"writing", "written"}
               PROVE  /\ pcR[q] = "writing" => disk'[report[q].id] = Torn
                      /\ pcR[q] = "written" => disk'[report[q].id] = [owner |-> q, status |-> report[q].status]
    BY <1>1 DEF WrittenFits, FileFits, SoleOwner
  <2>1. q # w
    BY <1>2 DEF Ended
  <2>2. QED BY <2>1, <1>6 DEF SaveInv, WrittenFits, FileFits
<1>10. OneSaver'
  BY <1>1, <1>7 DEF SaveInv, OneSaver
<1>11. BufferFits'
  <2> SUFFICES ASSUME NEW q \in Run, NEW b \in Act,
                      Saving(b, q)', pcA'[b] # "persisting", SoleOwner(q), q \notin raced
               PROVE  /\ buffer[b] = report[q].status \/ \E c \in Act : Performs(c, q)
                      /\ pcA'[b] = "writing" => disk'[report[q].id] = Torn
    BY <1>1, <1>7 DEF BufferFits
  <2>1. Saving(b, q)
    BY <1>7
  <2>2. CASE b = a
    <3>1. q = w /\ pcA[a] = "marshalled" /\ pcA'[a] = "writing"
      BY <2>1, <2>2, <1>1, <1>7 DEF Saving, Writes
    <3>2. QED BY <2>1, <2>2, <3>1, <1>4 DEF SaveInv, BufferFits
  <2>3. CASE b # a
    <3>1. q # w
      BY <2>1, <2>3, <1>1 DEF SaveInv, OneSaver
    <3>2. disk'[report[q].id] = disk[report[q].id] /\ pcA'[b] = pcA[b]
      BY <2>3, <3>1, <1>1, <1>6
    <3>3. QED BY <2>1, <3>2 DEF SaveInv, BufferFits
  <2>4. QED BY <2>2, <2>3
<1>12. QED BY <1>8, <1>9, <1>10, <1>11 DEF SaveInv

(* What is listed after a restart was just read from its file; or the store *)
(* had it, and no file holds it any more, because it is torn.              *)
LEMMA RestartSaves ==
  ASSUME IInv, ListInv, Restart
  PROVE  SaveInv'
<1> USE DEF IInv, TypeOK
<1>1. /\ disk' = disk
      /\ \A q \in Run : pcR'[q] \notin {"writing", "written"}
      /\ \A a \in Act : pcA'[a] \notin Writes
  BY DEF Restart, RunInFlight, RunAtRest, ActInFlight, ActAtRest, Writes
<1>2. restarts' > 0
  BY BoundAssumption DEF Restart
<1>3. \A q \in Run : report'[q].id = report[q].id
  BY RestartReports
<1>4. SavedUnlessHandled'
  <2> SUFFICES ASSUME NEW q \in Run, Listed(q)', SoleOwner(q)'
               PROVE  FileFits(q)' \/ disk'[report'[q].id] = Torn
    BY <1>2 DEF SavedUnlessHandled
  <2>1. CASE q \in Loaded
    <3>1. disk[report[q].id] \in [owner : {q}, status : Statuses]
      BY <2>1 DEF Loaded
    <3>2. report'[q].status = disk[report[q].id].status
      BY <2>1, RestartReports
    <3>3. QED BY <3>1, <3>2, <1>1, <1>3 DEF FileFits
  <2>2. CASE q \notin Loaded
    <3>1. q \in published
      BY <2>2, RestartListed DEF Listed
    <3>2. SoleOwner(q)
      BY <1>3 DEF SoleOwner
    <3>3. OwnFile(q)
      BY <3>1, <3>2 DEF ListInv, FileOwn
    <3>4. QED BY <2>2, <3>3, <1>1, <1>3 DEF OwnFile, Loaded
  <2>3. QED BY <2>1, <2>2
<1>5. QED BY <1>1, <1>4 DEF SaveInv, WrittenFits, OneSaver, BufferFits, Saving

(***************************************************************************)
(* When no request is in flight, the file of a listed run holds what the   *)
(* dashboard shows, unless saving it failed and the request said so, a     *)
(* crash tore the file of a report the store has brought back, or two      *)
(* requests were saving it at the same time: then it is torn or holds what *)
(* one of them marshalled.  This is so over any number of goals, approvals *)
(* of any runs, crashes and restarts, however they overlap                 *)
(* (service.go:593-660).                                                   *)
(***************************************************************************)
THEOREM SavedWhenQuietCorrect == Spec => []SavedWhenQuiet
<1>1. IInv /\ SaveInv => SavedWhenQuiet
  <2> SUFFICES ASSUME IInv, SaveInv, Quiet, NEW j \in DOMAIN runs, SoleOwner(runs[j])
               PROVE  \/ FileFits(runs[j])
                      \/ \E a \in Act : pcA[a] = "unsaved" /\ wrote[a] = runs[j]
                      \/ restarts > 0 /\ disk[report[runs[j]].id] = Torn
                      \/ runs[j] \in raced /\ RacedText(runs[j])
    BY DEF SavedWhenQuiet
  <2>1. PICK r \in Run : r = runs[j]
    BY DEF IInv, TypeOK
  <2>2. Listed(r)
    BY <2>1 DEF IInv, TypeOK, Listed
  <2>3. \A a \in Act : pcA[a] \in ActAtRest
    BY DEF Quiet, ActInFlight
  <2>4. ~ Handled(r)
    BY <2>3 DEF Handled, Performs, Saving, Writes, ActAtRest
  <2>5. LateText(r) => RacedText(r)
    BY <2>3 DEF LateText, RacedText, ActAtRest
  <2>6. QED BY <2>1, <2>2, <2>4, <2>5 DEF SaveInv, SavedUnlessHandled, Unsaved
<1>2. Init => IInv /\ ListInv /\ SaveInv
  BY InitInvariant, InitList, InitSave
<1>3. IInv /\ ListInv /\ SaveInv /\ TypeOK' /\ [Next]_vars => SaveInv'
  <2> SUFFICES ASSUME IInv, ListInv, SaveInv, TypeOK', [Next]_vars PROVE SaveInv'
    OBVIOUS
  <2>1. CASE \E r \in Run : ExecStart(r) \/ ExecStep(r)
    BY <2>1, ExecSaves
  <2>2. CASE \E a \in Act : ActRequest(a) \/ ActStep(a)
    BY <2>2, ActQuietSaves, ActStatusSaves, ActFileSaves DEF ActStep
  <2>3. CASE Restart
    BY <2>3, RestartSaves
  <2>4. CASE Tick \/ UNCHANGED vars
    <3>1. UNCHANGED <<report, runs, disk, pcR, pcA, req, ref, wrote, buffer, raced, restarts>>
      BY <2>4 DEF Tick, vars, execVars, actVars
    <3>2. QED
      BY <3>1
      DEF SaveInv, SavedUnlessHandled, WrittenFits, OneSaver, BufferFits, FileFits, Handled, Unsaved,
          Saving, Performs, LateText, SoleOwner, Listed
  <2>5. QED BY <2>1, <2>2, <2>3, <2>4 DEF Next
<1>4. IInv /\ ListInv /\ TypeOK' /\ [Next]_vars => (IInv /\ ListInv)'
  BY StepPreserves, ListPreserves
<1>5. QED BY <1>1, <1>2, <1>3, <1>4, WorkbenchTypeCorrect, PTL DEF Spec
=============================================================================
