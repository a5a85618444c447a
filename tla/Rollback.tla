------------------------------ MODULE Rollback ------------------------------
(***************************************************************************)
(* The approval action "snapshot-rollback": performRollbackAction of       *)
(* companion/service.go over Capture, Compare and Restore of               *)
(* snapshot/manifest.go, one file at a time.                               *)
(*                                                                         *)
(* The before manifest is captured by a run, after which any number of     *)
(* requests may roll the workspace back to it, concurrently: nothing in    *)
(* ExecuteAction stops two of them.  Meanwhile the user's editor, the code *)
(* generator and the repair commands write files without any lock.         *)
(*                                                                         *)
(* os.WriteFile is two steps, the opening that truncates the file and the  *)
(* write, and either can fail: in between, and for good after a failure,   *)
(* the file is damaged, and the captures and rewrites of the others meet   *)
(* it so.  A file is read or removed in one step, and what the others      *)
(* write is there in one step.  Files are visited in any order, which      *)
(* includes the sorted order of the code.                                  *)
(***************************************************************************)
EXTENDS Snapshot, Naturals

CONSTANTS
  Handler,     \* requests that execute the rollback action
  Flaky,       \* files whose read may fail without an error, in any capture
  Stuck,       \* files whose removal fails
  Damaged,     \* what a truncated, a half-written or a mixed file holds
  MaxEdits     \* bound on the writes of others

ASSUME DamagedAssumption == Damaged \in Content

VARIABLES
  ws,          \* the workspace
  before,      \* the manifest saved by the run
  unread,      \* candidate paths the run's capture has still to visit
  pc,          \* control state of each handler
  seen,        \* the manifest of the handler's own capture
  todo,        \* paths the handler's current phase has still to visit
  opened,      \* files a handler has truncated and not written yet
  stale,       \* the same, for files others wrote after the truncation
  original,    \* history: the workspace as the run's capture passed it
  dirty,       \* history: paths others wrote since the handler started
  spoiled,     \* history: paths whose rewrite failed since the handler started
  edits        \* number of writes by others

vars == <<ws, before, unread, pc, seen, todo, opened, stale, original, dirty, spoiled, edits>>

runVars == <<before, unread, original>>

fileVars == <<opened, stale>>

histVars == <<dirty, spoiled, edits>>

TypeOK ==
  /\ ws \in Workspace
  /\ before \in Manifest
  /\ unread \in SUBSET Candidate
  /\ pc \in [Handler -> {"idle", "scan", "remove", "rewrite", "completed", "failed"}]
  /\ seen \in [Handler -> Manifest]
  /\ todo \in [Handler -> SUBSET Candidate]
  /\ opened \in [Handler -> SUBSET Candidate]
  /\ stale \in [Handler -> SUBSET Candidate]
  /\ original \in Manifest
  /\ dirty \in [Handler -> SUBSET Path]
  /\ spoiled \in [Handler -> SUBSET Path]
  /\ edits \in Nat

Init ==
  /\ ws \in Workspace
  /\ before = EmptyManifest
  /\ unread = Candidate
  /\ pc = [h \in Handler |-> "idle"]
  /\ seen = [h \in Handler |-> EmptyManifest]
  /\ todo = [h \in Handler |-> {}]
  /\ opened = [h \in Handler |-> {}]
  /\ stale = [h \in Handler |-> {}]
  /\ original = EmptyManifest
  /\ dirty = [h \in Handler |-> {}]
  /\ spoiled = [h \in Handler |-> {}]
  /\ edits = 0

Goto(h, label) == pc' = [pc EXCEPT ![h] = label]

(* The request ends, and its local variables with it. *)
Ends(h, status) ==
  /\ Goto(h, status)
  /\ seen' = [seen EXCEPT ![h] = EmptyManifest]
  /\ todo' = [todo EXCEPT ![h] = {}]

(* The walk of the run's createSnapshot("before") reads one more file. *)
RunScan(p) ==
  /\ p \in unread
  /\ unread' = unread \ {p}
  /\ \E readable \in {TRUE, p \notin Flaky} : before' = Record(before, ws, p, readable)
  /\ original' = [original EXCEPT ![p] = ws[p]]
  /\ UNCHANGED <<ws, pc, seen, todo, fileVars, histVars>>

(* A request starts and loads the before manifest, or fails to. *)
Start(h) ==
  /\ unread = {}
  /\ pc[h] \in {"idle", "completed", "failed"}
  /\ \/ /\ Goto(h, "scan")
        /\ seen' = [seen EXCEPT ![h] = EmptyManifest]
        /\ todo' = [todo EXCEPT ![h] = Candidate]
        /\ dirty' = [dirty EXCEPT ![h] = {}]
        /\ spoiled' = [spoiled EXCEPT ![h] = {}]
     \/ /\ Ends(h, "failed")
        /\ UNCHANGED <<dirty, spoiled>>
  /\ UNCHANGED <<ws, runVars, fileVars, edits>>

(* The walk of the handler's own Capture reads one more file. *)
Scan(h, p) ==
  /\ pc[h] = "scan"
  /\ p \in todo[h]
  /\ todo' = [todo EXCEPT ![h] = @ \ {p}]
  /\ \E readable \in {TRUE, p \notin Flaky} :
       seen' = [seen EXCEPT ![h] = Record(@, ws, p, readable)]
  /\ UNCHANGED <<ws, pc, runVars, fileVars, histVars>>

(* The walk itself fails, and with it the action. *)
ScanFails(h) ==
  /\ pc[h] = "scan"
  /\ todo[h] # {}
  /\ Ends(h, "failed")
  /\ UNCHANGED <<ws, runVars, fileVars, histVars>>

(* A mistake the properties must notice: nothing is compared, every file   *)
(* the run did not record is removed and not only those this capture saw.  *)
DecideWithoutComparing(h) ==
  /\ pc[h] = "scan"
  /\ todo[h] = {}
  /\ Goto(h, "remove")
  /\ todo' = [todo EXCEPT ![h] = Candidate \ Recorded(before)]
  /\ UNCHANGED <<ws, runVars, seen, fileVars, histVars>>

(* With no difference there is nothing to restore and the action succeeds. *)
Decide(h) ==
  LET diff == Compare(before, seen[h])
  IN  /\ pc[h] = "scan"
      /\ todo[h] = {}
      /\ IF Changed(diff) = {}
           THEN Ends(h, "completed")
           ELSE /\ Goto(h, "remove")
                /\ todo' = [todo EXCEPT ![h] = diff.added]
                /\ UNCHANGED seen
      /\ UNCHANGED <<ws, runVars, fileVars, histVars>>

(* A mistake: a removal that fails is tried again. *)
RemoveRetries(h, p) ==
  /\ pc[h] = "remove"
  /\ p \in todo[h]
  /\ todo' = [todo EXCEPT ![h] = @ \ ({p} \ Stuck)]
  /\ ws' = IF p \in Stuck THEN ws ELSE [ws EXCEPT ![p] = Absent]
  /\ UNCHANGED <<pc, runVars, seen, fileVars, histVars>>

(* Restore, first loop: the error of os.Remove is dropped. *)
Remove(h, p) ==
  /\ pc[h] = "remove"
  /\ p \in todo[h]
  /\ todo' = [todo EXCEPT ![h] = @ \ {p}]
  /\ ws' = IF p \in Stuck THEN ws ELSE [ws EXCEPT ![p] = Absent]
  /\ UNCHANGED <<pc, runVars, seen, fileVars, histVars>>

(* A mistake: only the modified files are written back, not the deleted. *)
BeginRewriteModified(h) ==
  /\ pc[h] = "remove"
  /\ todo[h] = {}
  /\ Goto(h, "rewrite")
  /\ todo' = [todo EXCEPT ![h] = Compare(before, seen[h]).modified]
  /\ seen' = [seen EXCEPT ![h] = EmptyManifest]
  /\ UNCHANGED <<ws, runVars, fileVars, histVars>>

(* The second loop of Restore takes the records of the before manifest; the *)
(* differences, and the capture they came from, are not used any more.     *)
BeginRewrite(h) ==
  /\ pc[h] = "remove"
  /\ todo[h] = {}
  /\ Goto(h, "rewrite")
  /\ todo' = [todo EXCEPT ![h] = Recorded(before)]
  /\ seen' = [seen EXCEPT ![h] = EmptyManifest]
  /\ UNCHANGED <<ws, runVars, fileVars, histVars>>

(* Restore, second loop: every record is written, changed or not, and the  *)
(* opening leaves the file empty.                                          *)
Truncate(h, p) ==
  /\ pc[h] = "rewrite"
  /\ p \in todo[h]
  /\ opened[h] \cup stale[h] = {}
  /\ ws' = [ws EXCEPT ![p] = Damaged]
  /\ opened' = [opened EXCEPT ![h] = {p}]
  /\ UNCHANGED <<pc, runVars, seen, todo, stale, histVars>>

(* The write into the truncated file.  Another rollback that has it open   *)
(* as well writes the same content at the same place.                      *)
Rewrite(h, p) ==
  /\ pc[h] = "rewrite"
  /\ p \in opened[h]
  /\ ws' = [ws EXCEPT ![p] = before[p]]
  /\ todo' = [todo EXCEPT ![h] = @ \ {p}]
  /\ opened' = [opened EXCEPT ![h] = {}]
  /\ UNCHANGED <<pc, runVars, seen, stale, histVars>>

(* What a write leaves of a file that others have written after it was     *)
(* opened: nothing of it is seen when they deleted or replaced the file,   *)
(* and over a longer text it leaves the end of that text.                  *)
Overwritten(p) ==
  {ws[p]} \cup (IF ws[p] \in {Absent, before[p]} THEN {} ELSE {before[p], Damaged})

RewriteStale(h, p) ==
  /\ pc[h] = "rewrite"
  /\ p \in stale[h]
  /\ \E c \in Overwritten(p) : ws' = [ws EXCEPT ![p] = c]
  /\ todo' = [todo EXCEPT ![h] = @ \ {p}]
  /\ stale' = [stale EXCEPT ![h] = {}]
  /\ UNCHANGED <<pc, runVars, seen, opened, histVars>>

(* A directory cannot be made or a file not be opened, or the write fails  *)
(* or the close after it: what was restored stays so, and the file that is *)
(* open stays damaged unless all of it was written.                        *)
RewriteFails(h) ==
  /\ pc[h] = "rewrite"
  /\ todo[h] # {}
  /\ Ends(h, "failed")
  /\ \/ /\ opened[h] \cup stale[h] = {}
        /\ UNCHANGED <<ws, spoiled>>
     \/ \E p \in opened[h] :
          /\ \E c \in {ws[p], before[p]} : ws' = [ws EXCEPT ![p] = c]
          /\ spoiled' = [g \in Handler |-> spoiled[g] \cup {p}]
     \/ \E p \in stale[h] :
          /\ \E c \in Overwritten(p) : ws' = [ws EXCEPT ![p] = c]
          /\ UNCHANGED spoiled
  /\ opened' = [opened EXCEPT ![h] = {}]
  /\ stale' = [stale EXCEPT ![h] = {}]
  /\ UNCHANGED <<runVars, dirty, edits>>

(* A mistake: a status nobody else knows. *)
FinishRestored(h) ==
  /\ pc[h] = "rewrite"
  /\ todo[h] = {}
  /\ Ends(h, "restored")
  /\ UNCHANGED <<ws, runVars, fileVars, histVars>>

Finish(h) ==
  /\ pc[h] = "rewrite"
  /\ todo[h] = {}
  /\ Ends(h, "completed")
  /\ UNCHANGED <<ws, runVars, fileVars, histVars>>

(* Somebody else creates, changes or deletes a file. *)
Edit(p, c) ==
  /\ edits < MaxEdits
  /\ c # ws[p]
  /\ edits' = edits + 1
  /\ ws' = [ws EXCEPT ![p] = c]
  /\ dirty' = [h \in Handler |-> dirty[h] \cup {p}]
  /\ opened' = [h \in Handler |-> opened[h] \ {p}]
  /\ stale' = [h \in Handler |-> stale[h] \cup (opened[h] \cap {p})]
  /\ UNCHANGED <<pc, runVars, seen, todo, spoiled>>

Step(h) ==
  \/ \E p \in Candidate : Scan(h, p) \/ Remove(h, p) \/ Truncate(h, p)
                          \/ Rewrite(h, p) \/ RewriteStale(h, p)
  \/ ScanFails(h) \/ Decide(h) \/ BeginRewrite(h) \/ RewriteFails(h) \/ Finish(h)

Next ==
  \/ \E p \in Candidate : RunScan(p)
  \/ \E h \in Handler : Start(h) \/ Step(h)
  \/ \E p \in Path, c \in Content \cup {Absent} : Edit(p, c)

Spec == Init /\ [][Next]_vars

(* A request that started keeps running: it is a loop in its own goroutine. *)
FairSpec == Spec /\ \A h \in Handler : WF_vars(Step(h))
-----------------------------------------------------------------------------
(***************************************************************************)
(* A rollback that reports "completed" has restored every candidate file   *)
(* that could be read and removed and that nobody else wrote since it      *)
(* started: it is again as the run's capture found it, although others     *)
(* roll back at the same time, or failed before and left damaged files     *)
(* behind.  One thing can keep a file from it: another rollback is writing *)
(* that very file, or failed to since this one started                     *)
(* (service.go:1385-1461, manifest.go:169-183).                            *)
(***************************************************************************)
CompletedMeansRestored ==
  \A h \in Handler : pc[h] = "completed" =>
    \A p \in Candidate \ (Flaky \cup Stuck \cup dirty[h]) :
      \/ ws[p] = original[p]
      \/ ws[p] = Damaged /\ (p \in spoiled[h] \/ \E g \in Handler : p \in opened[g])

(***************************************************************************)
(* Rollbacks change a file only when the before manifest holds it or the   *)
(* capture of a rollback in progress saw it: a file outside the snapshot   *)
(* and a file created behind the walk survive (manifest.go:166-183).       *)
(***************************************************************************)
BystandersSurvive ==
  [][\A p \in Path : ws'[p] # ws[p] /\ edits' = edits =>
       /\ p \in Candidate
       /\ \/ before[p] # Absent
          \/ \E h \in Handler : pc[h] = "remove" /\ seen[h][p] # Absent]_vars

(***************************************************************************)
(* Every request that started ends, completed or failed.                   *)
(***************************************************************************)
RollbackEnds ==
  \A h \in Handler : pc[h] = "scan" ~> pc[h] \in {"completed", "failed"}

(***************************************************************************)
(* docs/TESTING_GUIDE.md:179 promises that the rollback action restores    *)
(* the differing files ("点击后能恢复差异文件"): after it completed and    *)
(* nobody wrote in between, every tracked file is as the run found it.     *)
(***************************************************************************)
RollbackRestoresDifferences ==
  \A h \in Handler : pc[h] = "completed" =>
    \A p \in Candidate \ dirty[h] : ws[p] = original[p]
=============================================================================
