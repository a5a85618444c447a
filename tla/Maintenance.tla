---------------------------- MODULE Maintenance ----------------------------
(***************************************************************************)
(* The approved actions that run commands on a workspace: the preflight    *)
(* again (performPreflightAction), the self-heal script in a container     *)
(* (runDockerSelfHeal) and the local fix that commits what it has made     *)
(* (runLocalAutoFix).  Several may run on the same files, beside an        *)
(* editor.  The commands are external; what matters of them is whether     *)
(* they write and whether the tests pass.  Nothing is locked: a go test    *)
(* reads the files for as long as it runs, and what it says of one that is *)
(* written meanwhile may be anything.                                      *)
(*                                                                         *)
(* The files are two areas: the packages an action is to check, with those *)
(* they import, and all the others.  An area is sound when go test passes  *)
(* on it; go vet and the linter say what they like.                        *)
(***************************************************************************)
EXTENDS Naturals, Sequences

CONSTANTS
  Handler,    \* requests that execute an action of one run
  MaxEdits    \* writes of the editor

ASSUME HandlerAssumption == Handler \cap {"editor", "nobody"} = {}
ASSUME MaxEditsAssumption == MaxEdits \in Nat

VARIABLES
  kind,       \* the action of a request
  scope,      \* areas the targets of the run cover
  at,         \* next command of its script, "idle" or "ended"
  erred,      \* the part before the last preflight returned an error
  testing,    \* requests whose go test is running
  passed,     \* the latest go test of a request has passed
  outcome,    \* status of the action
  left,       \* requests whose client has left
  sound,      \* areas that pass the tests
  writer,     \* history: who wrote an area last
  foreign,    \* history: areas others wrote since a request began to test
  index,      \* what is staged in git, if anything
  commits,    \* history: what a request has committed
  edits       \* writes of the editor so far

vars == <<kind, scope, at, erred, testing, passed, outcome, left, sound, writer, foreign, index,
          commits, edits>>

Area == {"target", "others"}

Kind == {"preflight-rerun", "docker-self-heal", "autofix-commit"}

Writer == Handler \cup {"editor", "nobody"}

(* What is staged is sound, or open: written under the tests of a request. *)
Staged == [sound : SUBSET Area, open : [Handler -> SUBSET Area]]

(* The same with go mod tidy after the tests: a mistake. *)
ScriptTidyLast(k) ==
  CASE k = "autofix-commit"   -> <<"collect", "format", "test", "tidy", "vet", "lint", "add", "commit",
                                   "last-test", "last-vet">>
    [] k = "docker-self-heal" -> <<"first", "tidy", "format", "test", "vet", "last-test", "last-vet">>
    [] k = "preflight-rerun"  -> <<"last-test", "last-vet">>

(* The commands of an action.  It ends with go test and go vet of          *)
(* preflight.RunWithTargets.                                               *)
Script(k) ==
  CASE k = "autofix-commit"   -> <<"collect", "format", "tidy", "test", "vet", "lint", "add", "commit",
                                   "last-test", "last-vet">>
    [] k = "docker-self-heal" -> <<"first", "tidy", "format", "test", "vet", "last-test", "last-vet">>
    [] k = "preflight-rerun"  -> <<"last-test", "last-vet">>

Command == {"idle", "collect", "format", "tidy", "first", "test", "vet", "lint",
            "add", "commit", "last-test", "last-vet", "ended"}

TypeOK ==
  /\ kind \in [Handler -> Kind]
  /\ scope \in SUBSET Area
  /\ at \in [Handler -> Command]
  /\ erred \in [Handler -> BOOLEAN]
  /\ testing \subseteq Handler
  /\ passed \in [Handler -> BOOLEAN]
  /\ outcome \in [Handler -> {"running", "completed", "failed"}]
  /\ left \subseteq Handler
  /\ sound \subseteq Area
  /\ writer \in [Area -> Writer]
  /\ foreign \in [Handler -> SUBSET Area]
  /\ index \in SUBSET Staged /\ \A s, t \in index : s = t
  /\ commits \subseteq [by : Handler, sound : SUBSET Area, open : SUBSET Area]
  /\ edits \in 0 .. MaxEdits

Init ==
  /\ kind \in [Handler -> Kind]
  /\ scope \in {{"target"}, Area}
  /\ at = [h \in Handler |-> "idle"]
  /\ erred = [h \in Handler |-> FALSE]
  /\ testing = {}
  /\ passed = [h \in Handler |-> FALSE]
  /\ outcome = [h \in Handler |-> "running"]
  /\ left = {}
  /\ sound \in SUBSET Area
  /\ writer = [a \in Area |-> "nobody"]
  /\ foreign = [h \in Handler |-> {}]
  /\ index = {}
  /\ commits = {}
  /\ edits = 0
-----------------------------------------------------------------------------
(* A writer, a request or the editor, has written areas. *)
Write(by, areas) ==
  /\ \E fixed \in SUBSET areas : sound' = (sound \ areas) \cup fixed
  /\ writer' = [a \in Area |-> IF a \in areas THEN by ELSE writer[a]]
  /\ foreign' = [h \in Handler |-> IF h = by THEN foreign[h] \ areas ELSE foreign[h] \cup areas]

(* Areas others have written since a request began to test, and that they  *)
(* have not tested since with success.                                     *)
Open(h) == {a \in foreign[h] : writer[a] \notin Handler \/ ~passed[writer[a]]}

Proceed(h) ==
  LET script == Script(kind[h])
      i == CHOOSE j \in DOMAIN script : script[j] = at[h]
  IN  /\ at' = [at EXCEPT ![h] = script[i + 1]]
      /\ UNCHANGED erred

(* return ..., err, and the last preflight. *)
Abandon(h) ==
  /\ at' = [at EXCEPT ![h] = "last-test"]
  /\ erred' = [erred EXCEPT ![h] = TRUE]

Begin(h) ==
  /\ at[h] = "idle"
  /\ at' = [at EXCEPT ![h] = Head(Script(kind[h]))]
  /\ UNCHANGED <<kind, scope, erred, testing, passed, outcome, left, sound, writer, foreign, index,
                 commits, edits>>

Alone(h) == UNCHANGED <<kind, scope, outcome, left, commits, edits>>

Untouched == UNCHANGED <<sound, writer, foreign>>

(* The commands of the local fix end with the request; the container and   *)
(* the last preflight do not.                                              *)
Cut(h) == h \in left /\ kind[h] = "autofix-commit"

(* The list of Go files. *)
Collect(h) ==
  /\ at[h] = "collect"
  /\ Proceed(h) \/ Abandon(h)
  /\ Alone(h) /\ Untouched /\ UNCHANGED <<testing, passed, index>>

(* gofmt and goimports, go mod tidy: what they write may also be written   *)
(* when they fail, and in the container a failure goes unnoticed.          *)
Rewrite(h) ==
  /\ at[h] \in {"format", "tidy"}
  /\ \E areas \in SUBSET Area : Write(h, areas)
  /\ \/ ~Cut(h) /\ Proceed(h)
     \/ kind[h] = "autofix-commit" /\ Abandon(h)
  /\ Alone(h) /\ UNCHANGED <<testing, passed, index>>

(* A go test begins to read the files. *)
StartTest(h) ==
  /\ at[h] \in {"test", "first", "last-test"} /\ h \notin testing
  /\ testing' = testing \cup {h}
  /\ passed' = [passed EXCEPT ![h] = FALSE]
  /\ foreign' = [foreign EXCEPT ![h] = {}]
  /\ UNCHANGED <<kind, scope, at, erred, outcome, left, sound, writer, index, commits, edits>>

(* It ends.  It passes only if the areas that nobody wrote meanwhile are   *)
(* sound; it may fail for any reason.                                      *)
EndTest(h, good) ==
  /\ h \in testing /\ testing' = testing \ {h}
  /\ good => scope \ foreign[h] \subseteq sound
  /\ passed' = [passed EXCEPT ![h] = good]
  /\ Untouched /\ UNCHANGED index

Test(h) ==
  /\ at[h] = "test"
  /\ \/ EndTest(h, TRUE) /\ ~Cut(h) /\ Proceed(h)
     \/ EndTest(h, FALSE) /\ Abandon(h)
  /\ Alone(h)

(* The script of the container skips its repair when the first test        *)
(* passes; docker itself may fail.                                         *)
FirstTest(h) ==
  /\ at[h] = "first"
  /\ \/ EndTest(h, TRUE) /\ at' = [at EXCEPT ![h] = "vet"] /\ UNCHANGED erred
     \/ EndTest(h, FALSE) /\ (Proceed(h) \/ Abandon(h))
  /\ Alone(h)

Vet(h) ==
  /\ at[h] \in {"vet", "lint"}
  /\ \/ ~Cut(h) /\ Proceed(h)
     \/ Abandon(h)
  /\ Alone(h) /\ Untouched /\ UNCHANGED <<testing, passed, index>>

(* git status and git add -A: of the whole work tree, whatever the scope. *)
(* No repository, nothing to commit or a failed status: no commit.        *)
Add(h) ==
  /\ at[h] = "add"
  /\ \/ /\ ~Cut(h) /\ Proceed(h)
        /\ index' = {[sound |-> sound, open |-> [g \in Handler |-> Open(g)]]}
     \/ /\ at' = [at EXCEPT ![h] = "last-test"]
        /\ UNCHANGED <<erred, index>>
     \/ Abandon(h) /\ UNCHANGED index
  /\ Alone(h) /\ Untouched /\ UNCHANGED <<testing, passed>>

(* git commit takes what is staged, by whomever; it fails when that is     *)
(* nothing, because another request has committed it.                      *)
Commit(h) ==
  /\ at[h] = "commit"
  /\ \/ /\ ~Cut(h) /\ Proceed(h)
        /\ \E s \in index :
             commits' = commits \cup {[by |-> h, sound |-> s.sound, open |-> s.open[h]]}
        /\ index' = {}
     \/ Abandon(h) /\ UNCHANGED <<commits, index>>
  /\ Untouched /\ UNCHANGED <<kind, scope, testing, passed, outcome, left, edits>>

(* The checks of a preflight that was asked for end with the request. *)
MayPass(h) == ~(h \in left /\ kind[h] = "preflight-rerun")

LastTest(h) ==
  /\ at[h] = "last-test"
  /\ \/ EndTest(h, TRUE) /\ MayPass(h)
     \/ EndTest(h, FALSE)
  /\ at' = [at EXCEPT ![h] = "last-vet"]
  /\ Alone(h) /\ UNCHANGED erred

Conclude(h, status) ==
  /\ outcome' = [outcome EXCEPT ![h] = status]
  /\ at' = [at EXCEPT ![h] = "ended"]
  /\ Untouched /\ UNCHANGED <<kind, scope, erred, testing, passed, left, index, commits, edits>>

(* The status of the preflight without that of its tests: a mistake. *)
LastVetForgetsTest(h) ==
  /\ at[h] = "last-vet"
  /\ \E vetted \in BOOLEAN :
       /\ vetted => MayPass(h)
       /\ Conclude(h, IF vetted /\ ~erred[h] THEN "completed" ELSE "failed")

(* Completed: no error before, and no check of the last preflight failed. *)
LastVet(h) ==
  /\ at[h] = "last-vet"
  /\ \E vetted \in BOOLEAN :
       /\ vetted => MayPass(h)
       /\ Conclude(h, IF vetted /\ passed[h] /\ ~erred[h] THEN "completed" ELSE "failed")

(* It matters only where a command with the request's context is to come. *)
Leave(h) ==
  /\ h \notin left /\ at[h] \notin {"idle", "ended"}
  /\ kind[h] # "docker-self-heal"
  /\ kind[h] = "autofix-commit" => at[h] \notin {"last-test", "last-vet"}
  /\ left' = left \cup {h}
  /\ Untouched /\ UNCHANGED <<kind, scope, at, erred, testing, passed, outcome, index, commits, edits>>

Edit ==
  /\ edits < MaxEdits
  /\ edits' = edits + 1
  /\ \E areas \in SUBSET Area \ {{}} : Write("editor", areas)
  /\ UNCHANGED <<kind, scope, at, erred, testing, passed, outcome, left, index, commits>>

Step(h) ==
  \/ Begin(h) \/ Collect(h) \/ Rewrite(h) \/ StartTest(h) \/ Test(h) \/ FirstTest(h) \/ Vet(h)
  \/ Add(h) \/ Commit(h) \/ LastTest(h) \/ LastVet(h)

Next ==
  \/ \E h \in Handler : Step(h) \/ Leave(h)
  \/ Edit

Spec == Init /\ [][Next]_vars
-----------------------------------------------------------------------------
(***************************************************************************)
(* What the local fix commits of its packages passes the tests, whatever   *)
(* the other actions and the editor do beside it, before its tests, during *)
(* them and until git commit - with one exception: an area that somebody   *)
(* else wrote since those tests began, and that this other, if it is an    *)
(* action, has not yet tested since.  Git itself keeps nobody out          *)
(* (actions_advanced.go:123-224).                                          *)
(***************************************************************************)
CommittedWasTested == \A c \in commits : scope \subseteq c.sound \cup c.open

(***************************************************************************)
(* An action that reports "completed" leaves its packages sound, whatever  *)
(* is written while it runs: an area that is not was written by somebody   *)
(* else since its last tests began, by the editor or by an action whose    *)
(* own tests after that have not passed.  So of several actions on the     *)
(* same files the last one to write answers for all of them: if it reports *)
(* "completed", its packages are sound.                                    *)
(***************************************************************************)
CompletedMeansSound ==
  \A h \in Handler : outcome[h] = "completed" => scope \subseteq sound \cup Open(h)
=============================================================================
