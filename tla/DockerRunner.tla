---------------------------- MODULE DockerRunner ----------------------------
(***************************************************************************)
(* The calls of executor/docker_run.go: a script that mounts the workspace *)
(* (ValidateWorkspace), a program in a temporary directory (ExecuteCode),  *)
(* the same with a go mod tidy before it (ExecuteWithGoModTidy) and with   *)
(* retries (ExecuteWithRetry).  Each call asks the Docker daemon for one   *)
(* thing after the other; what it made is given back by deferred calls, in *)
(* reverse order, whose errors nobody sees.                                *)
(*                                                                         *)
(* The daemon is external.  A request to it may fail, and a request that   *)
(* fails may have been carried out all the same (its answer was lost, or   *)
(* the context ended while it was under way).  Only ValidateWorkspace has  *)
(* a context that ends, by its deadline or with the HTTP request.          *)
(***************************************************************************)
EXTENDS Naturals, Sequences, SequencesExt, FiniteSets

CONSTANTS
  Calls,     \* the calls of the Runner's methods
  MaxTries   \* maxRetries of ExecuteWithRetry, at least 1

ASSUME TriesAssumption == MaxTries \in Nat \ {0}

VARIABLES
  op,          \* the method called
  phase,       \* "idle", "body", "unwind" (the deferred calls), "returned"
  at,          \* next statement of the body, an index of Script
  callTries,   \* executions begun, more than one only with ExecuteWithRetry
  dirs,        \* calls whose temporary directory exists
  containers,  \* life of each container in the daemon
  code,        \* exit code of each container that has ended
  deferred,    \* deferred calls: the directory or container to remove
  ended,       \* calls whose context is over
  refused,     \* history: resources whose removal, or creation, failed
  answer       \* what the call returns

dockerVars == <<op, phase, at, callTries, dirs, containers, code, deferred, ended, refused, answer>>

Op == {"validate", "execute", "tidy", "retry"}

(* Which container of a call: tidy makes two, a retried call one per try.  *)
Container == Calls \X (1 .. MaxTries + 1)

(* The temporary directory of a call, where deferred calls name it. *)
Dir(c) == <<c, 0>>

Life == {"none", "created", "running", "exited", "removed"}

(* The statements of the three method bodies. *)
Script(o) ==
  CASE o = "validate" -> <<"pull", "create", "start", "wait", "logs", "inspect">>
    [] o = "tidy"     -> <<"mkdir", "write", "pull", "create", "start", "wait",
                           "create", "start", "wait", "logs", "inspect">>
    [] OTHER          -> <<"mkdir", "write", "pull", "create", "start", "wait", "logs", "inspect">>

At(c, statement) == phase[c] = "body" /\ Script(op[c])[at[c]] = statement

Made(c) == {k \in Container : k[1] = c /\ containers[k] # "none"}

(* The container the statements after a create speak of. *)
Current(c) == <<c, Cardinality(Made(c))>>

NewContainer(c) == <<c, Cardinality(Made(c)) + 1>>

Present(k) == containers[k] \in {"created", "running", "exited"}

DockerTypeOK ==
  /\ op \in [Calls -> Op]
  /\ phase \in [Calls -> {"idle", "body", "unwind", "returned"}]
  /\ at \in [Calls -> 1 .. 11]
  /\ callTries \in [Calls -> 0 .. MaxTries]
  /\ dirs \subseteq Calls
  /\ containers \in [Container -> Life]
  /\ code \in [Container -> {"none", "zero", "other"}]
  /\ deferred \in [Calls -> Seq(Container \cup {Dir(c) : c \in Calls})]
  /\ \A c \in Calls : /\ Len(deferred[c]) <= 3
                      /\ Range(deferred[c]) \subseteq {Dir(c)} \cup Made(c)
  /\ ended \subseteq Calls
  /\ refused \subseteq Container \cup {Dir(c) : c \in Calls}
  /\ answer \in [Calls -> {"none", "error", "passed", "failed"}]

DockerInit ==
  /\ op = [c \in Calls |-> "execute"]
  /\ phase = [c \in Calls |-> "idle"]
  /\ at = [c \in Calls |-> 1]
  /\ callTries = [c \in Calls |-> 0]
  /\ dirs = {}
  /\ containers = [k \in Container |-> "none"]
  /\ code = [k \in Container |-> "none"]
  /\ deferred = [c \in Calls |-> <<>>]
  /\ ended = {}
  /\ refused = {}
  /\ answer = [c \in Calls |-> "none"]
-----------------------------------------------------------------------------
Proceed(c) == at' = [at EXCEPT ![c] = @ + 1] /\ UNCHANGED <<phase, answer>>

(* return nil, fmt.Errorf(...): the deferred calls run. *)
Return(c, a) ==
  /\ phase' = [phase EXCEPT ![c] = "unwind"]
  /\ answer' = [answer EXCEPT ![c] = a]
  /\ UNCHANGED at

Defer(c, d) == deferred' = [deferred EXCEPT ![c] = Append(@, d)]

(* One of the methods is called, or ExecuteWithRetry tries again. *)
Begin(c) ==
  /\ phase[c] = "idle"
  /\ IF callTries[c] = 0 THEN \E o \in Op : op' = [op EXCEPT ![c] = o] ELSE UNCHANGED op
  /\ phase' = [phase EXCEPT ![c] = "body"]
  /\ callTries' = [callTries EXCEPT ![c] = @ + 1]
  /\ at' = [at EXCEPT ![c] = 1]
  /\ answer' = [answer EXCEPT ![c] = "none"]
  /\ UNCHANGED <<dirs, containers, code, deferred, ended, refused>>

MakeDir(c) ==
  /\ At(c, "mkdir")
  /\ \/ Proceed(c) /\ Defer(c, Dir(c)) /\ dirs' = dirs \cup {c}
     \/ Return(c, "error") /\ UNCHANGED <<deferred, dirs>>
  /\ UNCHANGED <<op, callTries, containers, code, ended, refused>>

(* main.go and go.mod, the image, the logs: steps that leave nothing new. *)
WritePullLogs(c) ==
  /\ \/ At(c, "write") /\ Proceed(c)
     \/ (At(c, "pull") \/ At(c, "logs")) /\ c \notin ended /\ Proceed(c)
     \/ (At(c, "write") \/ At(c, "pull") \/ At(c, "logs")) /\ Return(c, "error")
  /\ UNCHANGED <<op, callTries, dirs, containers, code, deferred, ended, refused>>

(* ContainerCreate; its removal is deferred only when it has answered. *)
Create(c) ==
  /\ At(c, "create")
  /\ \/ /\ c \notin ended
        /\ containers' = [containers EXCEPT ![NewContainer(c)] = "created"]
        /\ Defer(c, NewContainer(c))
        /\ Proceed(c)
        /\ UNCHANGED refused
     \/ Return(c, "error") /\ UNCHANGED <<containers, deferred, refused>>
     \/ /\ c \notin ended
        /\ containers' = [containers EXCEPT ![NewContainer(c)] = "created"]
        /\ refused' = refused \cup {NewContainer(c)}
        /\ Return(c, "error")
        /\ UNCHANGED deferred
  /\ UNCHANGED <<op, callTries, dirs, code, ended>>

Start(c) ==
  /\ At(c, "start")
  /\ \/ c \notin ended /\ containers' = [containers EXCEPT ![Current(c)] = "running"]
     \/ UNCHANGED containers
  /\ \/ containers'[Current(c)] = "running" /\ Proceed(c)
     \/ Return(c, "error")
  /\ UNCHANGED <<op, callTries, dirs, code, deferred, ended, refused>>

(* Without reading the channels of ContainerWait: a mistake. *)
WaitSkipped(c) ==
  /\ At(c, "wait") /\ Proceed(c)
  /\ UNCHANGED <<op, callTries, dirs, containers, code, deferred, ended, refused>>

(* With context.Background in place of the call's context: a mistake. *)
WaitForever(c) ==
  /\ At(c, "wait") /\ containers[Current(c)] = "exited" /\ Proceed(c)
  /\ UNCHANGED <<op, callTries, dirs, containers, code, deferred, ended, refused>>

(* select on ContainerWait's two channels. *)
Wait(c) ==
  /\ At(c, "wait")
  /\ \/ containers[Current(c)] = "exited" /\ c \notin ended /\ Proceed(c)
     \/ Return(c, "error")
  /\ UNCHANGED <<op, callTries, dirs, containers, code, deferred, ended, refused>>

(* ContainerInspect: a container that still runs has exit code 0. *)
Inspect(c) ==
  /\ At(c, "inspect")
  /\ \/ c \notin ended /\ Return(c, IF code[Current(c)] = "other" THEN "failed" ELSE "passed")
     \/ Return(c, "error")
  /\ UNCHANGED <<op, callTries, dirs, containers, code, deferred, ended, refused>>

(* Gone, or not: removal uses the call's context, and an error is dropped. *)
(* A directory that stayed in an earlier try stays.                        *)
Undo(c, d) ==
  \/ /\ d = Dir(c)
     /\ dirs' = IF d \in refused THEN dirs ELSE dirs \ {c}
     /\ UNCHANGED <<containers, refused>>
  \/ /\ d # Dir(c) /\ c \notin ended
     /\ containers' = [containers EXCEPT ![d] = "removed"]
     /\ UNCHANGED <<dirs, refused>>
  \/ refused' = refused \cup {d} /\ UNCHANGED <<dirs, containers>>

(* The deferred calls in the order they were made: a mistake. *)
UnwindInOrder(c) ==
  /\ phase[c] = "unwind" /\ deferred[c] # <<>>
  /\ Undo(c, Head(deferred[c]))
  /\ deferred' = [deferred EXCEPT ![c] = Tail(@)]
  /\ UNCHANGED <<op, phase, at, callTries, code, ended, answer>>

(* The last deferred call first. *)
Unwind(c) ==
  /\ phase[c] = "unwind" /\ deferred[c] # <<>>
  /\ Undo(c, Last(deferred[c]))
  /\ deferred' = [deferred EXCEPT ![c] = Front(@)]
  /\ UNCHANGED <<op, phase, at, callTries, code, ended, answer>>

(* The loop of ExecuteWithRetry with <= in place of <: a mistake. *)
FinishOffByOne(c) ==
  /\ phase[c] = "unwind" /\ deferred[c] = <<>>
  /\ phase' = [phase EXCEPT ![c] = IF op[c] = "retry" /\ answer[c] # "passed" /\ callTries[c] <= MaxTries
                                    THEN "idle" ELSE "returned"]
  /\ UNCHANGED <<op, at, callTries, dirs, containers, code, deferred, ended, refused, answer>>

(* The call is over, or ExecuteWithRetry sleeps and tries again. *)
Finish(c) ==
  /\ phase[c] = "unwind" /\ deferred[c] = <<>>
  /\ \/ /\ op[c] = "retry" /\ answer[c] # "passed" /\ callTries[c] < MaxTries
        /\ phase' = [phase EXCEPT ![c] = "idle"]
        /\ UNCHANGED answer
     \/ /\ op[c] = "retry" => answer[c] = "passed" \/ callTries[c] = MaxTries
        /\ phase' = [phase EXCEPT ![c] = "returned"]
        /\ answer' = [answer EXCEPT ![c] = IF op[c] = "retry" /\ @ = "failed" THEN "error" ELSE @]
  /\ UNCHANGED <<op, at, callTries, dirs, containers, code, deferred, ended, refused>>

(* What a container runs comes to its end, if it does. *)
Exit(k) ==
  /\ containers[k] = "running"
  /\ containers' = [containers EXCEPT ![k] = "exited"]
  /\ \E e \in {"zero", "other"} : code' = [code EXCEPT ![k] = e]
  /\ UNCHANGED <<op, phase, at, callTries, dirs, deferred, ended, refused, answer>>

(* The deadline of runDockerValidation passes, or its request is dropped. *)
EndContext(c) ==
  /\ op[c] = "validate" /\ phase[c] \in {"body", "unwind"} /\ c \notin ended
  /\ ended' = ended \cup {c}
  /\ UNCHANGED <<op, phase, at, callTries, dirs, containers, code, deferred, refused, answer>>

Statement(c) == MakeDir(c) \/ WritePullLogs(c) \/ Create(c) \/ Start(c) \/ Wait(c) \/ Inspect(c)

Call(c) == Begin(c) \/ Statement(c) \/ Unwind(c) \/ Finish(c)

DockerNext ==
  \/ \E c \in Calls : Call(c) \/ EndContext(c)
  \/ \E k \in Container : Exit(k)

DockerSpec == DockerInit /\ [][DockerNext]_dockerVars

Waiting(c) == At(c, "wait") /\ containers[Current(c)] = "running"

(* The daemon answers, and the deadline of a validation passes; but nothing *)
(* says that a container ends, or that its waiting fails.                   *)
FairDockerSpec ==
  /\ DockerSpec
  /\ \A c \in Calls : /\ WF_dockerVars((Waiting(c) => c \in ended) /\ Call(c))
                      /\ WF_dockerVars(EndContext(c))
-----------------------------------------------------------------------------
(***************************************************************************)
(* A call that has returned leaves a container or a directory only where   *)
(* its removal (or the answer to its creation) failed: all the paths out   *)
(* of the three bodies give back what was made (docker_run.go:77, 128,     *)
(* 169, 243, 283, 313).  A directory outlives the containers that have it  *)
(* mounted: the deferred calls run in reverse order.                       *)
(***************************************************************************)
NothingLeftBehind ==
  \A c \in Calls :
    /\ phase[c] = "returned" /\ c \in dirs => Dir(c) \in refused
    /\ \A k \in Made(c) : Present(k) =>
         \/ k \in refused
         \/ phase[c] # "returned" /\ (op[c] = "validate" \/ c \in dirs)

(***************************************************************************)
(* "passed" is the exit code of the program itself, and it has ended: not  *)
(* that of go mod tidy, of an earlier try or of a container that still     *)
(* runs, whose code the daemon gives as 0.                                 *)
(***************************************************************************)
PassedIsReal ==
  \A c \in Calls : answer[c] = "passed" =>
    /\ code[Current(c)] = "zero"
    /\ op[c] = "tidy" => Cardinality(Made(c)) = 2 /\ code[<<c, 1>>] # "none"

(***************************************************************************)
(* A call ends, unless what it runs never does and the call has no         *)
(* deadline: a validation always ends (auto_loop.go:253-258).              *)
(***************************************************************************)
CallsEnd ==
  \A c \in Calls :
    phase[c] = "body" ~> (phase[c] = "returned" \/ [](op[c] # "validate" /\ Waiting(c)))
=============================================================================
