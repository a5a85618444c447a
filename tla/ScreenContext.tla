--------------------------- MODULE ScreenContext ---------------------------
(***************************************************************************)
(* The screen context of the workbench (companion/loop.go) and the runtime *)
(* state store behind it (companion/enhancements.go).                      *)
(*                                                                         *)
(* A capture request writes an image and shows it; a clear request empties *)
(* the context; an Execute request takes the context into its prompts.     *)
(* The image on show is analysed by a goroutine that the capture starts    *)
(* and, if that has not succeeded yet, by the Execute request itself: both *)
(* read the path, call the vision model without the lock and apply the     *)
(* answer if the path on show is still the same.  A process that starts    *)
(* without a usable vision provider analyses nothing.                      *)
(*                                                                         *)
(* Every change is followed by a save to Redis: captures, clears and       *)
(* analyses wait for theirs, a change of the workflow status starts one in *)
(* a goroutine of its own.  A save reads the state under the lock and      *)
(* writes it later, and nothing orders the writes of two saves.  A restart *)
(* loads what was written.  Of the three keys only the screen is kept; the *)
(* reports are those of Workbench, and of the status it matters here only  *)
(* whether it is "running".                                                *)
(*                                                                         *)
(* An image is named by its capture request: the code names it after the   *)
(* millisecond, and captures are taken to be a millisecond apart.  Redis   *)
(* is connected, with calls that may fail.  Of the rest of Execute only    *)
(* its effects on the workflow status are kept.                            *)
(***************************************************************************)
EXTENDS Naturals, Sequences, FiniteSets

CONSTANTS
  Shot,              \* capture requests, and the images they bring
  Clearer,           \* clear requests
  Task,              \* Execute requests
  None,              \* no image
  Keep,              \* how many images cleanupOldCaptures keeps
  AnalyzeOnCapture,  \* Vision.AnalyzeOnCapture
  MaxSaves,          \* bound on the saves under way at once
  MaxRestarts        \* bound on the restarts of the process

Request == Shot \cup Clearer \cup Task

(* A shot is also the name of the analysis goroutine that it starts. *)
Analyst == Shot \cup Task

(* The saves one request, or the goroutine it starts, may have under way.  *)
Saver == (Request \X {"own", "workflow"}) \cup (Shot \X {"analysis"})

ASSUME RequestAssumption == Shot \cap Clearer = {} /\ Task \cap (Shot \cup Clearer) = {}

ASSUME NoneAssumption == None \notin Shot

ASSUME BoundAssumption == {Keep, MaxSaves} \subseteq Nat \ {0} /\ MaxRestarts \in Nat

ASSUME VisionAssumption == AnalyzeOnCapture \in BOOLEAN

VARIABLES
  screen,    \* s.screen
  running,   \* whether s.workflow.Status is "running"
  vision,    \* whether s.vision is set
  written,   \* history: the images in the order they were written
  files,     \* data/captures
  pc,        \* control state of the requests
  seen,      \* whether a capture or a clear saw it running
  taken,     \* the path in an Execute request's copy of the context
  looking,   \* the analyses that wait for the vision model
  used,      \* the context an Execute request puts into its prompts
  save,      \* the saves under way
  store,     \* the key "screen" of Redis
  cleared,   \* history: the images that a clear took off the screen
  restarts   \* number of restarts

Img == Shot \cup {None}

Screen == [image : Img, status : {"", "pending", "completed", "failed"}, insight : Img]

Blank == [image |-> None, status |-> "", insight |-> None]

Pc == {"idle", "written", "saving", "done", "lost", "gather", "waiting", "prompt",
       "planning"}

Save == [stage : {"free", "asked", "read"}, content : Screen]

NoSave == [stage |-> "free", content |-> Blank]

analysisVars == <<taken, looking>>

captureVars == <<written, files, cleared>>

vars ==
  <<screen, running, vision, captureVars, pc, seen, analysisVars, used, save, store, restarts>>

TypeOK ==
  /\ screen \in Screen
  /\ running \in BOOLEAN
  /\ vision \in BOOLEAN
  /\ written \in Seq(Shot)
  /\ files \in SUBSET Shot
  /\ pc \in [Request -> Pc]
  /\ seen \in [Shot \cup Clearer -> BOOLEAN]
  /\ taken \in [Task -> Img]
  /\ looking \in SUBSET Analyst
  /\ \A t \in Task : t \in looking <=> pc[t] = "waiting"
  /\ used \in [Task -> Screen]
  /\ save \in [Saver -> Save]
  /\ store \in Screen
  /\ cleared \in SUBSET Shot
  /\ restarts \in 0 .. MaxRestarts

Init ==
  /\ screen = Blank
  /\ running = FALSE
  /\ vision \in BOOLEAN
  /\ written = <<>>
  /\ files = {}
  /\ pc = [q \in Request |-> "idle"]
  /\ seen = [q \in Shot \cup Clearer |-> FALSE]
  /\ taken = [t \in Task |-> None]
  /\ looking = {}
  /\ used = [t \in Task |-> Blank]
  /\ save = [x \in Saver |-> NoSave]
  /\ store = Blank
  /\ cleared = {}
  /\ restarts = 0

(* Local variables of requests that are over, or do not need them, are reset. *)
Goto(q, label) == pc' = [pc EXCEPT ![q] = label]

Free(x) == save[x].stage = "free"

(* A save is started; whoever starts one too many waits for another to end. *)
Ask(x) ==
  /\ Free(x)
  /\ Cardinality({y \in Saver : ~ Free(y)}) < MaxSaves
  /\ save' = [save EXCEPT ![x].stage = "asked"]

(* updateWorkflow: the status changes and a save of its own is started. *)
UpdateWorkflow(q, status) ==
  /\ running' = (status = "running")
  /\ Ask(<<q, "workflow">>)
-----------------------------------------------------------------------------
(* The images of a set that were written after s. *)
Later(s, images, order) ==
  {r \in images : \E i, j \in 1 .. Len(order) : i < j /\ order[i] = s /\ order[j] = r}

(* A mistake: the oldest images are kept. *)
NewestOldest(images, order) ==
  {s \in images : Cardinality({r \in images : s \in Later(r, images, order)}) < Keep}

(* cleanupOldCaptures keeps the Keep newest of the images in the directory. *)
Newest(images, order) == {s \in images : Cardinality(Later(s, images, order)) < Keep}

(* SaveScreenCapture decodes the frame, writes it and removes old ones. *)
CaptureWrite(s) ==
  /\ pc[s] = "idle"
  /\ Goto(s, "written")
  /\ written' = Append(written, s)
  /\ files' = Newest(files \cup {s}, written')
  /\ UNCHANGED <<screen, running, vision, seen, analysisVars, used, save, store, cleared, restarts>>

(* The frame cannot be decoded or written, and only an error is reported;   *)
(* a write that fails may leave a part of the image in the directory.       *)
CaptureFail(s) ==
  /\ pc[s] = "idle"
  /\ Goto(s, "done")
  /\ \/ UNCHANGED <<written, files>>
     \/ written' = Append(written, s) /\ files' = files \cup {s}
  /\ UNCHANGED <<screen, running, vision, cleared, seen, analysisVars, used, save, store, restarts>>

(* Under the lock the new image replaces all that was known of the old one. *)
CaptureShow(s) ==
  /\ pc[s] = "written"
  /\ Goto(s, "saving")
  /\ screen' = [image |-> s, status |-> "pending", insight |-> None]
  /\ seen' = [seen EXCEPT ![s] = running]
  /\ Ask(<<s, "own">>)
  /\ UNCHANGED <<running, vision, captureVars, analysisVars, used, store, restarts>>

(* A mistake: the clear only takes the image off, what was read in it stays. *)
ClearShowKeepsInsight(q) ==
  /\ pc[q] = "idle"
  /\ Goto(q, "saving")
  /\ screen' = [screen EXCEPT !.image = None]
  /\ seen' = [seen EXCEPT ![q] = running]
  /\ cleared' = cleared \cup ({screen.image} \ {None})
  /\ Ask(<<q, "own">>)
  /\ UNCHANGED <<running, vision, written, files, analysisVars, used, store, restarts>>

(* ClearScreenCapture empties the context under the lock. *)
ClearShow(q) ==
  /\ pc[q] = "idle"
  /\ Goto(q, "saving")
  /\ screen' = Blank
  /\ seen' = [seen EXCEPT ![q] = running]
  /\ cleared' = cleared \cup ({screen.image} \ {None})
  /\ Ask(<<q, "own">>)
  /\ UNCHANGED <<running, vision, written, files, analysisVars, used, store, restarts>>

(* A capture or a clear whose save has ended announces itself, unless it    *)
(* saw a task running when it had the lock; a capture starts the analysis.  *)
Announce(q, status) ==
  IF seen[q] THEN UNCHANGED <<running, save>> ELSE UpdateWorkflow(q, status)

(* analyzeScreenAsync starts the analysis of an image, if there is a model. *)
StartAnalysis(s) ==
  looking' = IF AnalyzeOnCapture /\ vision THEN looking \cup {s} ELSE looking

(* A mistake: the analysis of a capture during a task is left to the task. *)
CaptureEndWaits(s) ==
  /\ pc[s] = "saving"
  /\ Free(<<s, "own">>)
  /\ Goto(s, "done")
  /\ Announce(s, "capturing")
  /\ seen' = [seen EXCEPT ![s] = FALSE]
  /\ IF seen[s] THEN UNCHANGED looking ELSE StartAnalysis(s)
  /\ UNCHANGED <<screen, vision, captureVars, taken, used, store, restarts>>

CaptureEnd(s) ==
  /\ pc[s] = "saving"
  /\ Free(<<s, "own">>)
  /\ Goto(s, "done")
  /\ Announce(s, "capturing")
  /\ seen' = [seen EXCEPT ![s] = FALSE]
  /\ StartAnalysis(s)
  /\ UNCHANGED <<screen, vision, captureVars, taken, used, store, restarts>>

ClearEnd(q) ==
  /\ pc[q] = "saving"
  /\ Free(<<q, "own">>)
  /\ Goto(q, "done")
  /\ Announce(q, "idle")
  /\ seen' = [seen EXCEPT ![q] = FALSE]
  /\ UNCHANGED <<screen, vision, captureVars, analysisVars, used, store, restarts>>
-----------------------------------------------------------------------------
(* Execute begins; its snapshot and its other context come before the screen. *)
TaskStart(t) ==
  /\ pc[t] = "idle"
  /\ Goto(t, "gather")
  /\ UpdateWorkflow(t, "running")
  /\ UNCHANGED <<screen, vision, captureVars, seen, analysisVars, used, store, restarts>>

(* ensureScreenAnalysis has nothing to do without a model, for a blank     *)
(* context, nor for one that is analysed.                                  *)
Settled(s) == ~ vision \/ s.image = None \/ s.status = "completed"

TaskTake(t) ==
  /\ pc[t] = "gather"
  /\ Settled(screen)
  /\ Goto(t, "prompt")
  /\ used' = [used EXCEPT ![t] = screen]
  /\ UNCHANGED <<screen, running, vision, captureVars, seen, analysisVars, save, store, restarts>>

TaskLook(t) ==
  /\ pc[t] = "gather"
  /\ ~ Settled(screen)
  /\ Goto(t, "waiting")
  /\ taken' = [taken EXCEPT ![t] = screen.image]
  /\ looking' = looking \cup {t}
  /\ UNCHANGED <<screen, running, vision, captureVars, seen, used, save, store, restarts>>

(* The planning begins, once the save of an own analysis has ended.  The    *)
(* later phases set the same status again.                                  *)
TaskPlan(t) ==
  /\ pc[t] \in {"prompt", "saving"}
  /\ Free(<<t, "own">>)
  /\ Goto(t, "planning")
  /\ UpdateWorkflow(t, "running")
  /\ UNCHANGED <<screen, vision, captureVars, seen, analysisVars, used, store, restarts>>

(* The request ends, well or with an error of a phase. *)
TaskEnd(t) ==
  /\ pc[t] = "planning"
  /\ Goto(t, "done")
  /\ \E status \in {"idle", "error"} : UpdateWorkflow(t, status)
  /\ used' = [used EXCEPT ![t] = Blank]
  /\ UNCHANGED <<screen, vision, captureVars, seen, analysisVars, store, restarts>>
-----------------------------------------------------------------------------
(* What the vision model's answer makes of the context on show: an error    *)
(* leaves what was read before.  A blank answer counts as an error here: of *)
(* both the next Execute request makes a new attempt.                       *)
Analysed(image) ==
  {[screen EXCEPT !.status = "failed"],
   [screen EXCEPT !.status = "completed", !.insight = image]}

Target(a) == IF a \in Task THEN taken[a] ELSE a

(* A mistake: a task whose image left the screen is not told. *)
AnalysisLateDrops(a) ==
  /\ a \in looking
  /\ screen.image # Target(a)
  /\ looking' = looking \ {a}
  /\ UNCHANGED <<screen, running, vision, captureVars, pc, seen, taken, used, save, store,
                 restarts>>

(* The answer finds its image no longer on show: a task takes what is. *)
AnalysisLate(a) ==
  /\ a \in looking
  /\ screen.image # Target(a)
  /\ looking' = looking \ {a}
  /\ IF a \in Task
       THEN /\ Goto(a, "prompt")
            /\ used' = [used EXCEPT ![a] = screen]
            /\ taken' = [taken EXCEPT ![a] = None]
       ELSE UNCHANGED <<pc, used, taken>>
  /\ UNCHANGED <<screen, running, vision, captureVars, seen, save, store, restarts>>

AnalysisSaver(a) == IF a \in Task THEN <<a, "own">> ELSE <<a, "analysis">>

(* A mistake: the answer is applied without looking at what is on show. *)
AnalysisApplyBlindly(a) ==
  /\ a \in looking
  /\ looking' = looking \ {a}
  /\ screen' \in Analysed(Target(a))
  /\ Ask(AnalysisSaver(a))
  /\ IF a \in Task
       THEN /\ Goto(a, "saving")
            /\ used' = [used EXCEPT ![a] = screen']
            /\ taken' = [taken EXCEPT ![a] = None]
       ELSE UNCHANGED <<pc, used, taken>>
  /\ UNCHANGED <<running, vision, captureVars, seen, store, restarts>>

(* The answer, or the error, is applied and saved. *)
AnalysisApply(a) ==
  /\ a \in looking
  /\ screen.image = Target(a)
  /\ looking' = looking \ {a}
  /\ screen' \in Analysed(Target(a))
  /\ Ask(AnalysisSaver(a))
  /\ IF a \in Task
       THEN /\ Goto(a, "saving")
            /\ used' = [used EXCEPT ![a] = screen']
            /\ taken' = [taken EXCEPT ![a] = None]
       ELSE UNCHANGED <<pc, used, taken>>
  /\ UNCHANGED <<running, vision, captureVars, seen, store, restarts>>

-----------------------------------------------------------------------------
(* persistRuntimeState reads the state and then sets its keys, which may fail. *)
SaveRead(x) ==
  /\ save[x].stage = "asked"
  /\ save' = [save EXCEPT ![x] = [stage |-> "read", content |-> screen]]
  /\ UNCHANGED <<screen, running, vision, captureVars, pc, seen, analysisVars, used, store,
                 restarts>>

SaveWrite(x) ==
  /\ save[x].stage = "read"
  /\ save' = [save EXCEPT ![x] = NoSave]
  /\ store' \in {store, save[x].content}
  /\ UNCHANGED <<screen, running, vision, captureVars, pc, seen, analysisVars, used, restarts>>

(* The process dies and comes back; a key is restored if it can be read.  *)
(* The status may be restored as "running" by a save of a task that died. *)
(* The new process may find another configuration of the vision provider. *)
Restart ==
  /\ restarts < MaxRestarts
  /\ restarts' = restarts + 1
  /\ pc' = [q \in Request |-> IF pc[q] \in {"idle", "done"} THEN pc[q] ELSE "lost"]
  /\ looking' = {}
  /\ save' = [x \in Saver |-> NoSave]
  /\ screen' \in {Blank, store}
  /\ running' \in BOOLEAN
  /\ vision' \in BOOLEAN
  /\ seen' = [q \in Shot \cup Clearer |-> FALSE]
  /\ taken' = [t \in Task |-> None]
  /\ used' = [t \in Task |-> Blank]
  /\ UNCHANGED <<captureVars, store>>
-----------------------------------------------------------------------------
Capture(s) == CaptureWrite(s) \/ CaptureFail(s) \/ CaptureShow(s) \/ CaptureEnd(s)

Clear(q) == ClearShow(q) \/ ClearEnd(q)

Execute(t) ==
  TaskStart(t) \/ TaskTake(t) \/ TaskLook(t) \/ TaskPlan(t) \/ TaskEnd(t)

Analysis(a) == AnalysisLate(a) \/ AnalysisApply(a)

Persist(x) == SaveRead(x) \/ SaveWrite(x)

Next ==
  \/ \E s \in Shot : Capture(s)
  \/ \E q \in Clearer : Clear(q)
  \/ \E t \in Task : Execute(t)
  \/ \E a \in Analyst : Analysis(a)
  \/ \E x \in Saver : Persist(x)
  \/ Restart

Spec == Init /\ [][Next]_vars
-----------------------------------------------------------------------------
(* What was read in an image is attributed to that image, on show, in the   *)
(* prompts of a task and after a restart: the check of the path under the   *)
(* lock in ensureScreenAnalysis is all that keeps a late answer out.        *)
Fits(s) == s.insight \in {None, s.image}

InsightFitsImage ==
  /\ Fits(screen)
  /\ Fits(store)
  /\ \A t \in Task : Fits(used[t])

(* The image on show is in data/captures, unless at least Keep captures were *)
(* written after it: a request may still show its image when cleanupOldCaptures *)
(* of later ones has removed it, and a restart may bring back an old one.       *)
ShownImageKept ==
  screen.image \notin files \cup {None} =>
    Cardinality(Later(screen.image, Shot, written)) >= Keep

(* While the process lives, nothing of an image that was cleared comes back: *)
(* not by an analysis that ends late, nor by a capture or another clear.     *)
NothingReturns ==
  restarts' = restarts =>
    {screen'.image, screen'.insight} \cap cleared' \subseteq
      {screen.image, screen.insight} \cap cleared

ClearedReturnOnlyByRestart == [][NothingReturns]_vars

(* Where a vision model is configured, a pending image is not forgotten: its *)
(* capture has yet to start the analysis, or the analysis is under way.     *)
(* Without a model an image stays pending (enhancements.go:112, 159), and   *)
(* a restart loses the goroutine of the analysis: an image it restores as   *)
(* pending has none.                                                        *)
PendingHasAnalyst ==
  vision /\ AnalyzeOnCapture /\ restarts = 0 /\ screen.status = "pending" =>
    pc[screen.image] = "saving" \/ screen.image \in looking
=============================================================================
