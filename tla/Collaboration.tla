--------------------------- MODULE Collaboration ---------------------------
(***************************************************************************)
(* The workflow of agent/workflow.go: rounds of task splitting, design,    *)
(* implementation with self-healing, and critique.  Agents ask a language  *)
(* model, which may fail; what is implemented runs in Docker, which may    *)
(* fail, report an error or never return.                                  *)
(*                                                                         *)
(* A report is abstracted to its kind and the round, task and attempt it   *)
(* is about; the prompt for a task to the report it shows as architecture  *)
(* and the attempts whose errors it quotes.                                *)
(***************************************************************************)
EXTENDS Naturals, Sequences, SequencesExt

CONSTANTS
  MaxIterations,  \* MaxIterations of the workflow
  MaxRetries,     \* maxRetries of the self-healing loop
  MaxTasks        \* bound on the tasks of a split

ASSUME CollaborationAssumption ==
  MaxIterations \in Nat \ {0} /\ MaxRetries \in Nat \ {0} /\ MaxTasks \in Nat

VARIABLES
  pc,          \* next statement, or how ExecuteWorkflow returned
  hasRunner,   \* Runner # nil
  iteration,   \* CurrentIteration
  tasks,       \* status of each of Project.Tasks
  task,        \* the task being implemented
  retry,       \* retryCount
  reference,   \* architectureReport: the report it began as, and its errors
  reports,     \* Reports
  messages     \* Messages of the meeting room

vars == <<pc, hasRunner, iteration, tasks, task, retry, reference, reports, messages>>

(* The reports whose text begins with "##": all of them do. *)
Headed == {"split", "architecture", "code", "error", "critique"}

Report == [kind : Headed, iteration : 0 .. MaxIterations, task : 0 .. MaxTasks, attempt : 0 .. MaxRetries]

(* Messages of "System". *)
Notice == [kind : {"initialized", "executed", "completed"},
           iteration : 0 .. MaxIterations, task : 0 .. MaxTasks, attempt : 0 .. MaxRetries]

Text(kind) == [kind |-> kind, iteration |-> iteration, task |-> task, attempt |-> retry]

TypeOK ==
  /\ pc \in {"init", "round", "split", "architecture", "develop", "attempt", "execute", "analyse",
             "critique", "complete", "done", "aborted"}
  /\ hasRunner \in BOOLEAN
  /\ iteration \in 0 .. MaxIterations
  /\ tasks \in Seq({"pending", "completed"}) /\ Len(tasks) <= MaxTasks
  /\ task \in 0 .. Len(tasks)
  /\ retry \in 0 .. MaxRetries
  /\ reference \in [report : Nat, errors : Seq(1 .. MaxRetries)]
  /\ reports \in Seq(Report)
  /\ messages \in Seq(Report \cup Notice)

Init ==
  /\ pc = "init"
  /\ hasRunner \in BOOLEAN
  /\ iteration = 0
  /\ tasks = <<>>
  /\ task = 0
  /\ retry = 0
  /\ reference = [report |-> 0, errors |-> <<>>]
  /\ reports = <<>>
  /\ messages = <<>>
-----------------------------------------------------------------------------
(* Reports = append(Reports, report) and AddMessage. *)
Publish(report) ==
  /\ reports' = Append(reports, report)
  /\ messages' = Append(messages, report)

Say(notice) == messages' = Append(messages, notice) /\ UNCHANGED reports

(* The first report that begins with "##", or none. *)
FirstHeaded == SelectInSeq(reports, LAMBDA r : r.kind \in Headed)

Initialize ==
  /\ pc = "init" /\ pc' = "round"
  /\ Say(Text("initialized"))
  /\ UNCHANGED <<hasRunner, iteration, tasks, task, retry, reference>>

(* The head of the loop. *)
Round ==
  /\ pc = "round"
  /\ \/ iteration < MaxIterations /\ pc' = "split" /\ iteration' = iteration + 1
     \/ iteration >= MaxIterations /\ pc' = "complete" /\ UNCHANGED iteration
  /\ UNCHANGED <<hasRunner, tasks, task, retry, reference, reports, messages>>

(* A phase ends the workflow when its agent gets no usable answer. *)
Abort(phases) ==
  /\ pc \in phases /\ pc' = "aborted"
  /\ UNCHANGED <<hasRunner, iteration, tasks, task, retry, reference, reports, messages>>

(* The round starts over and is not counted: a mistake. *)
SplitTaskFailsRetries ==
  /\ pc = "split" /\ pc' = "round" /\ iteration' = iteration - 1
  /\ UNCHANGED <<hasRunner, tasks, task, retry, reference, reports, messages>>

(* No answer, or one that is no JSON: only the splitter insists on JSON. *)
SplitTaskFails == Abort({"split"})

DesignFails == Abort({"architecture"})

ImplementFails == retry < MaxRetries /\ Abort({"attempt"})

CritiqueFails == Abort({"critique"})

(* An answer may name any number of tasks. *)
ConvertToDomainTasks == \E n \in 0 .. MaxTasks : tasks' = [i \in 1 .. n |-> "pending"]

(* The tasks of the round before are replaced, done or not. *)
Split ==
  /\ pc = "split" /\ pc' = "architecture"
  /\ ConvertToDomainTasks
  /\ task' = 0 /\ retry' = 0
  /\ Publish([Text("split") EXCEPT !.task = 0, !.attempt = 0])
  /\ UNCHANGED <<hasRunner, iteration, reference>>

Design ==
  /\ pc = "architecture" /\ pc' = "develop"
  /\ Publish(Text("architecture"))
  /\ UNCHANGED <<hasRunner, iteration, tasks, task, retry, reference>>

(* One architectureReport for all the tasks of the phase: a mistake. *)
StartTaskKeepsErrors ==
  /\ pc = "develop" /\ task < Len(tasks)
  /\ pc' = "attempt"
  /\ task' = task + 1 /\ retry' = 0
  /\ reference' = [reference EXCEPT !.report = FirstHeaded]
  /\ UNCHANGED <<hasRunner, iteration, tasks, reports, messages>>

(* The next task with the report that serves as its architecture. *)
StartTask ==
  /\ pc = "develop" /\ task < Len(tasks)
  /\ pc' = "attempt"
  /\ task' = task + 1 /\ retry' = 0
  /\ reference' = [report |-> FirstHeaded, errors |-> <<>>]
  /\ UNCHANGED <<hasRunner, iteration, tasks, reports, messages>>

TasksDone ==
  /\ pc = "develop" /\ task = Len(tasks)
  /\ pc' = "critique"
  /\ UNCHANGED <<hasRunner, iteration, tasks, task, retry, reference, reports, messages>>

Done(t) == tasks' = [tasks EXCEPT ![t] = "completed"]

(* ImplementTask answers: executed if there is a Runner, else taken for good. *)
Implement ==
  /\ pc = "attempt" /\ retry < MaxRetries
  /\ retry' = retry + 1
  /\ Publish([Text("code") EXCEPT !.attempt = retry + 1])
  /\ \/ hasRunner /\ pc' = "execute" /\ UNCHANGED tasks
     \/ ~hasRunner /\ pc' = "develop" /\ Done(task)
  /\ UNCHANGED <<hasRunner, iteration, task, reference>>

GiveUp == retry = MaxRetries /\ Abort({"attempt"})

ExecuteGood ==
  /\ pc = "execute" /\ pc' = "develop"
  /\ Say(Text("executed"))
  /\ Done(task)
  /\ UNCHANGED <<hasRunner, iteration, task, retry, reference>>

(* A failure of Docker does not keep a task from completion: a mistake. *)
ExecuteFailsSilently ==
  /\ pc = "execute" /\ pc' = "develop"
  /\ Done(task)
  /\ UNCHANGED <<hasRunner, iteration, task, retry, reference, reports, messages>>

(* Docker has failed: the next attempt knows nothing of this one. *)
ExecuteFails ==
  /\ pc = "execute" /\ pc' = "attempt"
  /\ UNCHANGED <<hasRunner, iteration, tasks, task, retry, reference, reports, messages>>

ExecuteBad ==
  /\ pc = "execute" /\ pc' = "analyse"
  /\ UNCHANGED <<hasRunner, iteration, tasks, task, retry, reference, reports, messages>>

(* The critic has answered: its report goes to the next prompt. *)
Analyse ==
  /\ pc = "analyse" /\ pc' = "attempt"
  /\ Publish(Text("error"))
  /\ reference' = [reference EXCEPT !.errors = Append(@, retry)]
  /\ UNCHANGED <<hasRunner, iteration, tasks, task, retry>>

AnalyseFails ==
  /\ pc = "analyse" /\ pc' = "attempt"
  /\ UNCHANGED <<hasRunner, iteration, tasks, task, retry, reference, reports, messages>>

(* The critic on the architecture, then the review, which changes nothing. *)
Critique ==
  /\ pc = "critique" /\ pc' = "round"
  /\ reference' = [report |-> FirstHeaded, errors |-> <<>>]
  /\ Publish([Text("critique") EXCEPT !.task = 0, !.attempt = 0])
  /\ UNCHANGED <<hasRunner, iteration, tasks, task, retry>>

Complete ==
  /\ pc = "complete" /\ pc' = "done"
  /\ Say(Text("completed"))
  /\ UNCHANGED <<hasRunner, iteration, tasks, task, retry, reference>>

Execution == ExecuteGood \/ ExecuteFails \/ ExecuteBad

Step ==
  \/ Initialize \/ Round \/ Split \/ Design \/ StartTask \/ TasksDone \/ Implement \/ GiveUp
  \/ Analyse \/ AnalyseFails \/ Critique \/ Complete
  \/ SplitTaskFails \/ DesignFails \/ ImplementFails \/ CritiqueFails

Next == Step \/ Execution

Spec == Init /\ [][Next]_vars

(* Agents answer or fail; an execution in Docker may never return. *)
FairSpec == Spec /\ WF_vars(Step)
-----------------------------------------------------------------------------
(* The messages about a task since the tasks were last split. *)
About(t, kind) ==
  {i \in 1 .. Len(messages) :
     /\ messages[i].task = t /\ messages[i].kind = kind
     /\ \A j \in i .. Len(messages) : messages[j].kind # "split"}

(***************************************************************************)
(* With a Runner, a task is completed only when the last code published    *)
(* for it since the split has been executed without error, and the project *)
(* only when all tasks of the last round are: no failure on the way is     *)
(* taken for success, and tasks of an earlier round do not count.          *)
(***************************************************************************)
CompletedMeansExecuted ==
  hasRunner =>
    /\ \A t \in 1 .. Len(tasks) : tasks[t] = "completed" =>
         \E i \in About(t, "executed") : \A j \in About(t, "code") : j < i
    /\ pc \in {"complete", "done"} =>
         iteration = MaxIterations /\ \A t \in 1 .. Len(tasks) : tasks[t] = "completed"

(* The analyses of errors that are about this attempt's task and round. *)
OwnErrors ==
  {i \in 1 .. Len(reports) :
     reports[i].kind = "error" /\ reports[i].iteration = iteration /\ reports[i].task = task}

(***************************************************************************)
(* A prompt quotes exactly the errors of the earlier attempts of the same  *)
(* task in the same round that the critic has analysed, once each, in the  *)
(* order in which they were made and reported (workflow.go:254-324).       *)
(***************************************************************************)
FeedbackIsOwn ==
  pc \in {"attempt", "execute", "analyse"} =>
    /\ Range(reference.errors) = {reports[i].attempt : i \in OwnErrors}
    /\ \A i, j \in DOMAIN reference.errors : i < j => reference.errors[i] < reference.errors[j]
    /\ \A i, j \in OwnErrors : i < j => reports[i].attempt < reports[j].attempt

(***************************************************************************)
(* The workflow comes to its end, or waits for a program that never ends:  *)
(* neither retries nor rounds go on for ever.                              *)
(***************************************************************************)
WorkflowEnds == <>(pc \in {"done", "aborted"}) \/ <>[](pc = "execute")
=============================================================================
