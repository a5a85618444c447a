------------------------ MODULE ScreenContextProofs ------------------------
(***************************************************************************)
(* Proofs about ScreenContext, for any numbers of requests, saves and      *)
(* restarts.  The contexts that matter are the one on show, the one in     *)
(* Redis and those that a save has read and not written yet: a fact about  *)
(* the first is an invariant across restarts only if it holds of all.      *)
(***************************************************************************)
EXTENDS ScreenContext, FiniteSetTheorems, TLAPS

(* A capture request that has shown its image. *)
Shown(s) == pc[s] \notin {"idle", "written"}

Shape ==
  /\ screen \in Screen
  /\ store \in Screen
  /\ save \in [Saver -> Save]
  /\ pc \in [Request -> Pc]
  /\ taken \in [Task -> Img]
  /\ used \in [Task -> Screen]
  /\ looking \subseteq Analyst
  /\ cleared \subseteq Shot
  /\ restarts \in Nat

(* What is kept fits, its image was shown once, and only an image is pending. *)
Good(s) ==
  /\ Fits(s)
  /\ s.image # None => Shown(s.image)
  /\ s.status = "pending" => s.image # None

ContextInv ==
  /\ Shape
  /\ Good(screen)
  /\ Good(store)
  /\ \A x \in Saver : Good(save[x].content)
  /\ \A t \in Task : Fits(used[t])
  /\ \A s \in cleared : Shown(s)

(* The fields of a context. *)
LEMMA ScreenType ==
  ASSUME NEW s \in Screen
  PROVE  /\ s.image \in Img
         /\ s.insight \in Img
         /\ s.image # None => s.image \in Shot
BY DEF Screen, Img

(* The empty context is one. *)
LEMMA BlankIsGood == Blank \in Screen /\ Good(Blank)
BY DEF Blank, Screen, Img, Good, Fits

(* The invariant at the start. *)
LEMMA InitContext == Init => ContextInv
<1> SUFFICES ASSUME Init PROVE ContextInv
  OBVIOUS
<1>1. Blank \in Screen /\ Good(Blank) /\ Fits(Blank)
  BY BlankIsGood DEF Good
<1>2. NoSave \in Save /\ NoSave.content = Blank
  BY <1>1 DEF NoSave, Save
<1>3. Shape
  BY <1>1, <1>2 DEF Init, Shape, Pc, Img
<1>4. \A x \in Saver : save[x].content = Blank
  BY <1>2 DEF Init
<1>5. \A t \in Task : used[t] = Blank
  BY DEF Init
<1> QED
  BY <1>1, <1>3, <1>4, <1>5 DEF Init, ContextInv

(* A shot is no request of another kind. *)
LEMMA Apart ==
  ASSUME NEW s \in Shot
  PROVE  s \in Request /\ s \notin Clearer /\ s \notin Task /\ s # None
BY RequestAssumption, NoneAssumption DEF Request

(* Going on keeps the shape, and what was shown. *)
LEMMA GotoShows ==
  ASSUME Shape, NEW q \in Request, NEW label \in Pc \ {"idle", "written"}, Goto(q, label)
  PROVE  /\ pc' \in [Request -> Pc]
         /\ \A s \in Request : Shown(s) => Shown(s)'
         /\ Shown(q)'
BY DEF Shape, Goto, Shown

(* Asking for a save changes no content. *)
LEMMA AskKeeps ==
  ASSUME Shape, NEW x \in Saver, Ask(x)
  PROVE  /\ save' \in [Saver -> Save]
         /\ \A y \in Saver : save'[y].content = save[y].content
<1>1. save' = [save EXCEPT ![x].stage = "asked"]
  BY DEF Ask
<1>2. save[x] \in Save
  BY DEF Shape
<1>3. [save[x] EXCEPT !.stage = "asked"] \in Save
  BY <1>2 DEF Save
<1>4. [save[x] EXCEPT !.stage = "asked"].content = save[x].content
  BY <1>2 DEF Save
<1> QED
  BY <1>1, <1>3, <1>4 DEF Shape

(* A step that leaves the contexts alone and un-shows nothing preserves it. *)
LEMMA Undisturbed ==
  ASSUME ContextInv, Shape',
         screen' = screen, store' = store,
         \A x \in Saver : save'[x].content = save[x].content,
         \A s \in Shot : Shown(s) => Shown(s)',
         cleared' = cleared,
         \A t \in Task : Fits(used'[t])
  PROVE  ContextInv'
<1>1. ASSUME NEW s \in Screen, Good(s) PROVE Good(s)'
  BY <1>1, ScreenType DEF Good, Fits
<1>2. Good(screen)' /\ Good(store)'
  BY <1>1 DEF ContextInv, Shape, Good, Fits
<1>3. ASSUME NEW x \in Saver PROVE Good(save[x].content)'
  <2>1. save[x].content \in Screen
    BY DEF ContextInv, Shape, Save
  <2>2. Good(save[x].content)
    BY DEF ContextInv
  <2> QED
    BY <2>1, <2>2, ScreenType DEF Good, Fits
<1>4. \A s \in cleared' : Shown(s)'
  BY DEF ContextInv, Shape
<1> QED
  BY <1>2, <1>3, <1>4 DEF ContextInv

(* A context that is good stays good while shown images stay shown. *)
LEMMA StaysGood ==
  ASSUME \A s \in Shot : Shown(s) => Shown(s)'
  PROVE  \A s \in Screen : Good(s) => Good(s)'
BY ScreenType DEF Good, Fits

(* updateWorkflow and Announce touch the saves as Ask does, or not at all. *)
LEMMA AnnounceKeeps ==
  ASSUME Shape, NEW q \in Request, NEW status, Announce(q, status)
  PROVE  /\ save' \in [Saver -> Save]
         /\ \A y \in Saver : save'[y].content = save[y].content
<1>1. <<q, "workflow">> \in Saver
  BY DEF Saver
<1>2. CASE seen[q]
  BY <1>2 DEF Announce, Shape
<1>3. CASE ~ seen[q]
  BY <1>1, <1>3, AskKeeps DEF Announce, UpdateWorkflow
<1> QED
  BY <1>2, <1>3

(* A capture preserves the invariant, *)
LEMMA CaptureContext ==
  ASSUME ContextInv, NEW s \in Shot, Capture(s)
  PROVE  ContextInv'
<1>1. s \in Request /\ s \notin Task /\ <<s, "own">> \in Saver
  BY Apart DEF Saver
<1>2. Shape
  BY DEF ContextInv
<1>3. CASE CaptureWrite(s)
  <2>1. pc' = [pc EXCEPT ![s] = "written"] /\ ~ Shown(s)
    BY <1>3 DEF CaptureWrite, Goto, Shown
  <2>2. pc' \in [Request -> Pc] /\ \A r \in Shot : Shown(r) => Shown(r)'
    BY <1>1, <1>2, <2>1, Apart DEF Shape, Shown, Pc
  <2>3. UNCHANGED <<screen, store, save, taken, used, looking, cleared, restarts>>
    BY <1>3 DEF CaptureWrite, captureVars, analysisVars
  <2>4. Shape'
    BY <1>2, <2>2, <2>3 DEF Shape
  <2> QED
    BY <2>2, <2>3, <2>4, Undisturbed DEF ContextInv
<1>4. CASE CaptureFail(s)
  <2>1. pc' \in [Request -> Pc] /\ \A r \in Shot : Shown(r) => Shown(r)'
    BY <1>1, <1>2, <1>4, GotoShows, Apart DEF CaptureFail, Pc
  <2>2. UNCHANGED <<screen, store, save, taken, used, looking, cleared, restarts>>
    BY <1>4 DEF CaptureFail, analysisVars
  <2>3. Shape'
    BY <1>2, <2>1, <2>2 DEF Shape
  <2> QED
    BY <2>1, <2>2, <2>3, Undisturbed DEF ContextInv
<1>5. CASE CaptureShow(s)
  <2>1. /\ pc' \in [Request -> Pc]
        /\ \A r \in Shot : Shown(r) => Shown(r)'
        /\ Shown(s)'
    BY <1>1, <1>2, <1>5, GotoShows, Apart DEF CaptureShow, Pc
  <2>2. save' \in [Saver -> Save] /\ \A y \in Saver : save'[y].content = save[y].content
    BY <1>1, <1>2, <1>5, AskKeeps DEF CaptureShow
  <2>3. UNCHANGED <<store, taken, used, looking, cleared, restarts>>
    BY <1>5 DEF CaptureShow, captureVars, analysisVars
  <2>4. screen' = [image |-> s, status |-> "pending", insight |-> None]
    BY <1>5 DEF CaptureShow
  <2>5. screen' \in Screen /\ Good(screen)'
    BY <1>1, <2>1, <2>4, Apart DEF Screen, Img, Good, Fits
  <2>6. Shape'
    BY <1>2, <2>1, <2>2, <2>3, <2>5 DEF Shape
  <2>7. Good(store)' /\ \A x \in Saver : Good(save[x].content)'
    <3>1. store \in Screen /\ \A x \in Saver : save[x].content \in Screen
      BY <1>2 DEF Shape, Save
    <3>2. \A c \in Screen : Good(c) => Good(c)'
      BY <2>1, StaysGood
    <3> QED
      BY <2>2, <2>3, <3>1, <3>2 DEF ContextInv, Good, Fits, Shown
  <2> QED
    BY <2>1, <2>3, <2>5, <2>6, <2>7, <1>2 DEF ContextInv, Shape
<1>6. CASE CaptureEnd(s)
  <2>1. pc' \in [Request -> Pc] /\ \A r \in Shot : Shown(r) => Shown(r)'
    BY <1>1, <1>2, <1>6, GotoShows, Apart DEF CaptureEnd, Pc
  <2>2. save' \in [Saver -> Save] /\ \A y \in Saver : save'[y].content = save[y].content
    BY <1>1, <1>2, <1>6, AnnounceKeeps DEF CaptureEnd
  <2>3. /\ UNCHANGED <<screen, store, taken, used, cleared, restarts>>
        /\ looking' \subseteq Analyst
    BY <1>2, <1>6 DEF CaptureEnd, captureVars, analysisVars, Shape, Analyst, StartAnalysis
  <2>4. Shape'
    BY <1>2, <2>1, <2>2, <2>3 DEF Shape
  <2> QED
    BY <2>1, <2>2, <2>3, <2>4, Undisturbed DEF ContextInv
<1> QED
  BY <1>3, <1>4, <1>5, <1>6 DEF Capture

(* ... so does a clear, *)
LEMMA ClearContext ==
  ASSUME ContextInv, NEW q \in Clearer, Clear(q)
  PROVE  ContextInv'
<1>1. q \in Request /\ <<q, "own">> \in Saver
  BY DEF Request, Saver
<1>2. Shape
  BY DEF ContextInv
<1>3. CASE ClearShow(q)
  <2>1. pc' \in [Request -> Pc] /\ \A r \in Shot : Shown(r) => Shown(r)'
    BY <1>1, <1>2, <1>3, GotoShows, Apart DEF ClearShow, Pc
  <2>2. save' \in [Saver -> Save] /\ \A y \in Saver : save'[y].content = save[y].content
    BY <1>1, <1>2, <1>3, AskKeeps DEF ClearShow
  <2>3. UNCHANGED <<store, taken, used, looking, restarts>> /\ screen' = Blank
    BY <1>3 DEF ClearShow, analysisVars
  <2>4. cleared' \subseteq Shot /\ \A s \in cleared' : Shown(s)'
    <3>1. cleared' = cleared \cup ({screen.image} \ {None})
      BY <1>3 DEF ClearShow
    <3>2. screen.image # None => screen.image \in Shot /\ Shown(screen.image)
      BY <1>2, ScreenType DEF ContextInv, Good, Shape
    <3> QED
      BY <1>2, <2>1, <3>1, <3>2 DEF ContextInv, Shape
  <2>5. Shape'
    BY <1>2, <2>1, <2>2, <2>3, <2>4, BlankIsGood DEF Shape
  <2>6. Good(screen)'
    BY <2>3 DEF Good, Fits, Blank
  <2>7. Good(store)' /\ \A x \in Saver : Good(save[x].content)'
    <3>1. store \in Screen /\ \A x \in Saver : save[x].content \in Screen
      BY <1>2 DEF Shape, Save
    <3>2. \A c \in Screen : Good(c) => Good(c)'
      BY <2>1, StaysGood
    <3> QED
      BY <2>2, <2>3, <3>1, <3>2 DEF ContextInv, Good, Fits, Shown
  <2> QED
    BY <2>3, <2>4, <2>5, <2>6, <2>7 DEF ContextInv
<1>4. CASE ClearEnd(q)
  <2>1. pc' \in [Request -> Pc] /\ \A r \in Shot : Shown(r) => Shown(r)'
    BY <1>1, <1>2, <1>4, GotoShows, Apart DEF ClearEnd, Pc
  <2>2. save' \in [Saver -> Save] /\ \A y \in Saver : save'[y].content = save[y].content
    BY <1>1, <1>2, <1>4, AnnounceKeeps DEF ClearEnd
  <2>3. UNCHANGED <<screen, store, taken, used, looking, cleared, restarts>>
    BY <1>4 DEF ClearEnd, captureVars, analysisVars
  <2>4. Shape'
    BY <1>2, <2>1, <2>2, <2>3 DEF Shape
  <2> QED
    BY <2>1, <2>2, <2>3, <2>4, Undisturbed DEF ContextInv
<1> QED
  BY <1>3, <1>4 DEF Clear

(* A Goto of a task shows and un-shows no image. *)
LEMMA TaskGoto ==
  ASSUME Shape, NEW t \in Task, NEW label \in Pc, Goto(t, label)
  PROVE  /\ pc' \in [Request -> Pc]
         /\ \A s \in Shot : Shown(s) => Shown(s)'
BY Apart DEF Shape, Goto, Shown, Request

(* ... a task, *)
LEMMA ExecuteContext ==
  ASSUME ContextInv, NEW t \in Task, Execute(t)
  PROVE  ContextInv'
<1>1. t \in Request /\ t \in Analyst /\ {<<t, "own">>, <<t, "workflow">>} \subseteq Saver
  BY DEF Request, Saver, Analyst
<1>2. Shape
  BY DEF ContextInv
<1>3. CASE TaskStart(t)
  <2>1. pc' \in [Request -> Pc] /\ \A s \in Shot : Shown(s) => Shown(s)'
    BY <1>2, <1>3, TaskGoto DEF TaskStart, Pc
  <2>2. save' \in [Saver -> Save] /\ \A y \in Saver : save'[y].content = save[y].content
    BY <1>1, <1>2, <1>3, AskKeeps DEF TaskStart, UpdateWorkflow
  <2>3. UNCHANGED <<screen, store, taken, used, looking, cleared, restarts>>
    BY <1>3 DEF TaskStart, captureVars, analysisVars
  <2>4. Shape'
    BY <1>2, <2>1, <2>2, <2>3 DEF Shape
  <2> QED
    BY <2>1, <2>2, <2>3, <2>4, Undisturbed DEF ContextInv
<1>4. CASE TaskTake(t)
  <2>1. pc' \in [Request -> Pc] /\ \A s \in Shot : Shown(s) => Shown(s)'
    BY <1>2, <1>4, TaskGoto DEF TaskTake, Pc
  <2>2. UNCHANGED <<screen, store, save, taken, looking, cleared, restarts>>
    BY <1>4 DEF TaskTake, captureVars, analysisVars
  <2>3. used' \in [Task -> Screen] /\ \A r \in Task : Fits(used'[r])
    BY <1>2, <1>4 DEF TaskTake, ContextInv, Shape, Good
  <2>4. Shape'
    BY <1>2, <2>1, <2>2, <2>3 DEF Shape
  <2> QED
    BY <2>1, <2>2, <2>3, <2>4, Undisturbed
<1>5. CASE TaskLook(t)
  <2>1. pc' \in [Request -> Pc] /\ \A s \in Shot : Shown(s) => Shown(s)'
    BY <1>2, <1>5, TaskGoto DEF TaskLook, Pc
  <2>2. UNCHANGED <<screen, store, save, used, cleared, restarts>>
    BY <1>5 DEF TaskLook, captureVars
  <2>3. taken' \in [Task -> Img] /\ looking' \subseteq Analyst
    BY <1>1, <1>2, <1>5, ScreenType DEF TaskLook, Shape
  <2>4. Shape'
    BY <1>2, <2>1, <2>2, <2>3 DEF Shape
  <2> QED
    BY <2>1, <2>2, <2>4, Undisturbed DEF ContextInv
<1>6. CASE TaskPlan(t)
  <2>1. pc' \in [Request -> Pc] /\ \A s \in Shot : Shown(s) => Shown(s)'
    BY <1>2, <1>6, TaskGoto DEF TaskPlan, Pc
  <2>2. save' \in [Saver -> Save] /\ \A y \in Saver : save'[y].content = save[y].content
    BY <1>1, <1>2, <1>6, AskKeeps DEF TaskPlan, UpdateWorkflow
  <2>3. UNCHANGED <<screen, store, taken, used, looking, cleared, restarts>>
    BY <1>6 DEF TaskPlan, captureVars, analysisVars
  <2>4. Shape'
    BY <1>2, <2>1, <2>2, <2>3 DEF Shape
  <2> QED
    BY <2>1, <2>2, <2>3, <2>4, Undisturbed DEF ContextInv
<1>7. CASE TaskEnd(t)
  <2>1. pc' \in [Request -> Pc] /\ \A s \in Shot : Shown(s) => Shown(s)'
    BY <1>2, <1>7, TaskGoto DEF TaskEnd, Pc
  <2>2. save' \in [Saver -> Save] /\ \A y \in Saver : save'[y].content = save[y].content
    BY <1>1, <1>2, <1>7, AskKeeps DEF TaskEnd, UpdateWorkflow
  <2>3. UNCHANGED <<screen, store, taken, looking, cleared, restarts>>
    BY <1>7 DEF TaskEnd, captureVars, analysisVars
  <2>4. used' \in [Task -> Screen] /\ \A r \in Task : Fits(used'[r])
    BY <1>2, <1>7, BlankIsGood DEF TaskEnd, ContextInv, Shape, Good
  <2>5. Shape'
    BY <1>2, <2>1, <2>2, <2>3, <2>4 DEF Shape
  <2> QED
    BY <2>1, <2>2, <2>3, <2>4, <2>5, Undisturbed
<1> QED
  BY <1>3, <1>4, <1>5, <1>6, <1>7 DEF Execute

(* An answer is applied to the context whose image it is about. *)
LEMMA AnalysedFits ==
  ASSUME screen \in Screen, Fits(screen), NEW c \in Analysed(screen.image)
  PROVE  c \in Screen /\ Fits(c) /\ c.image = screen.image /\ c.status # "pending"
BY DEF Screen, Fits, Analysed, Img

(* ... an analysis, *)
LEMMA AnalysisContext ==
  ASSUME ContextInv, NEW a \in Analyst, Analysis(a)
  PROVE  ContextInv'
<1>1. Shape
  BY DEF ContextInv
<1>2. ASSUME NEW label \in Pc,
             IF a \in Task THEN Goto(a, label) ELSE UNCHANGED pc
      PROVE  pc' \in [Request -> Pc] /\ \A s \in Shot : Shown(s) => Shown(s)'
  BY <1>1, <1>2, TaskGoto DEF Shape, Shown
<1>3. CASE AnalysisLate(a)
  <2>1. pc' \in [Request -> Pc] /\ \A s \in Shot : Shown(s) => Shown(s)'
    BY <1>2, <1>3 DEF AnalysisLate, Pc
  <2>2. UNCHANGED <<screen, store, save, cleared, restarts>> /\ looking' \subseteq Analyst
    BY <1>1, <1>3 DEF AnalysisLate, captureVars, Shape
  <2>3. /\ used' \in [Task -> Screen]
        /\ \A r \in Task : Fits(used'[r])
        /\ taken' \in [Task -> Img]
    BY <1>1, <1>3 DEF AnalysisLate, ContextInv, Shape, Good, Img
  <2>4. Shape'
    BY <1>1, <2>1, <2>2, <2>3 DEF Shape
  <2> QED
    BY <2>1, <2>2, <2>3, <2>4, Undisturbed
<1>4. CASE AnalysisApply(a)
  <2>1. pc' \in [Request -> Pc] /\ \A s \in Shot : Shown(s) => Shown(s)'
    BY <1>2, <1>4 DEF AnalysisApply, Pc
  <2>2. /\ screen' \in Screen /\ Fits(screen')
        /\ screen'.image = screen.image /\ screen'.status # "pending"
    BY <1>1, <1>4, AnalysedFits DEF AnalysisApply, ContextInv, Shape, Good
  <2>3. AnalysisSaver(a) \in Saver
    BY DEF AnalysisSaver, Saver, Analyst, Request
  <2>4. save' \in [Saver -> Save] /\ \A y \in Saver : save'[y].content = save[y].content
    BY <1>1, <1>4, <2>3, AskKeeps DEF AnalysisApply
  <2>5. /\ used' \in [Task -> Screen]
        /\ \A r \in Task : Fits(used'[r])
        /\ taken' \in [Task -> Img]
    BY <1>1, <1>4, <2>2 DEF AnalysisApply, ContextInv, Shape, Good, Img
  <2>6. UNCHANGED <<store, cleared, restarts>> /\ looking' \subseteq Analyst
    BY <1>1, <1>4 DEF AnalysisApply, captureVars, Shape
  <2>7. Shape'
    BY <1>1, <2>1, <2>2, <2>4, <2>5, <2>6 DEF Shape
  <2>8. Good(screen)'
    BY <1>1, <2>1, <2>2, ScreenType DEF Good, ContextInv, Shape, Fits
  <2>9. Good(store)' /\ \A x \in Saver : Good(save[x].content)'
    <3>1. store \in Screen /\ \A x \in Saver : save[x].content \in Screen
      BY <1>1 DEF Shape, Save
    <3>2. \A c \in Screen : Good(c) => Good(c)'
      BY <2>1, StaysGood
    <3> QED
      BY <2>4, <2>6, <3>1, <3>2 DEF ContextInv, Good, Fits, Shown
  <2> QED
    BY <1>1, <2>1, <2>5, <2>6, <2>7, <2>8, <2>9 DEF ContextInv, Shape, Fits
<1> QED
  BY <1>3, <1>4 DEF Analysis

(* ... a save, *)
LEMMA PersistContext ==
  ASSUME ContextInv, NEW x \in Saver, Persist(x)
  PROVE  ContextInv'
<1>1. Shape
  BY DEF ContextInv
<1>2. UNCHANGED <<screen, pc, taken, used, looking, cleared, restarts>>
  BY DEF Persist, SaveRead, SaveWrite, captureVars, analysisVars
<1>3. CASE SaveRead(x)
  <2>1. save' = [save EXCEPT ![x] = [stage |-> "read", content |-> screen]] /\ store' = store
    BY <1>3 DEF SaveRead
  <2>2. save' \in [Saver -> Save]
    BY <1>1, <2>1 DEF Shape, Save
  <2>3. \A y \in Saver : save'[y].content \in {save[y].content, screen}
    BY <1>1, <2>1 DEF Shape
  <2>4. Shape'
    BY <1>1, <1>2, <2>1, <2>2 DEF Shape
  <2> QED
    BY <1>2, <2>1, <2>3, <2>4 DEF ContextInv, Good, Fits, Shown
<1>4. CASE SaveWrite(x)
  <2>1. save' = [save EXCEPT ![x] = NoSave] /\ store' \in {store, save[x].content}
    BY <1>4 DEF SaveWrite
  <2>2. NoSave \in Save /\ NoSave.content = Blank
    BY BlankIsGood DEF NoSave, Save
  <2>3. save' \in [Saver -> Save] /\ save[x].content \in Screen
    BY <1>1, <2>1, <2>2 DEF Shape, Save
  <2>4. \A y \in Saver : save'[y].content \in {save[y].content, Blank}
    BY <1>1, <2>1, <2>2 DEF Shape
  <2>5. Shape'
    BY <1>1, <1>2, <2>1, <2>3 DEF Shape
  <2> QED
    BY <1>2, <2>1, <2>4, <2>5, BlankIsGood DEF ContextInv, Good, Fits, Shown
<1> QED
  BY <1>3, <1>4 DEF Persist

(* ... a restart *)
LEMMA RestartContext ==
  ASSUME ContextInv, Restart
  PROVE  ContextInv'
<1>1. Shape
  BY DEF ContextInv
<1>2. NoSave \in Save /\ NoSave.content = Blank
  BY BlankIsGood DEF NoSave, Save
<1>3. pc' \in [Request -> Pc] /\ \A s \in Request : Shown(s) => Shown(s)'
  BY <1>1 DEF Restart, Shape, Shown, Pc
<1>4. /\ save' \in [Saver -> Save] /\ \A y \in Saver : save'[y].content = Blank
      /\ used' \in [Task -> Screen] /\ \A t \in Task : used'[t] = Blank
      /\ taken' \in [Task -> Img]
      /\ looking' = {} /\ store' = store /\ cleared' = cleared /\ restarts' = restarts + 1
      /\ screen' \in {Blank, store}
  BY <1>2, BlankIsGood DEF Restart, captureVars, Img
<1>5. Shape'
  BY <1>1, <1>3, <1>4, BlankIsGood DEF Shape
<1>6. Good(store)'
  BY <1>1, <1>3, <1>4, StaysGood, Apart DEF ContextInv, Shape, Good, Fits, Shown
<1>7. Good(Blank)' /\ Fits(Blank)
  BY DEF Good, Fits, Blank
<1> QED
  BY <1>1, <1>3, <1>4, <1>5, <1>6, <1>7, Apart DEF ContextInv, Shape, Good, Fits, Shown

(* ... and stuttering. *)
LEMMA StutterContext ==
  ASSUME ContextInv, UNCHANGED vars
  PROVE  ContextInv'
BY DEF ContextInv, vars, captureVars, analysisVars, Shape, Good, Fits, Shown

(* The invariant is inductive. *)
LEMMA ContextPreserved == ContextInv /\ [Next]_vars => ContextInv'
<1> SUFFICES ASSUME ContextInv, [Next]_vars PROVE ContextInv'
  OBVIOUS
<1>1. CASE Next
  BY <1>1, CaptureContext, ClearContext, ExecuteContext, AnalysisContext, PersistContext,
     RestartContext DEF Next
<1>2. CASE UNCHANGED vars
  BY <1>2, StutterContext
<1> QED
  BY <1>1, <1>2
-----------------------------------------------------------------------------
(* What the vision model read in an image is never attributed to another    *)
(* one (enhancements.go, the check of the path under the lock), whatever    *)
(* the number of captures, clears, tasks, saves under way and restarts.     *)
THEOREM InsightFitsCorrect == Spec => []InsightFitsImage
<1>1. ContextInv => InsightFitsImage
  BY DEF ContextInv, InsightFitsImage, Good
<1> QED
  BY <1>1, InitContext, ContextPreserved, PTL DEF Spec

(* Only a restart brings back an image that was cleared, or what was read   *)
(* in it (ClearScreenCapture, ensureScreenAnalysis): a capture request      *)
(* shows its image once, before any clear can have removed it.              *)
LEMMA StepReturnsNothing ==
  ASSUME ContextInv, Next
  PROVE  NothingReturns
<1> SUFFICES ASSUME restarts' = restarts PROVE NothingReturns
  BY DEF NothingReturns
<1>1. Shape /\ None \notin cleared
  BY NoneAssumption DEF ContextInv, Shape
<1>2. CASE UNCHANGED <<screen, cleared>>
  BY <1>2 DEF NothingReturns
<1>3. ASSUME NEW s \in Shot, CaptureShow(s) PROVE NothingReturns
  <2>1. screen'.image = s /\ screen'.insight = None /\ cleared' = cleared
    BY <1>3 DEF CaptureShow, captureVars
  <2>2. s \notin cleared
    BY <1>3 DEF CaptureShow, ContextInv, Shown
  <2> QED
    BY <1>1, <2>1, <2>2 DEF NothingReturns
<1>4. ASSUME NEW q \in Clearer, ClearShow(q) PROVE NothingReturns
  <2>1. screen' = Blank /\ cleared' \subseteq cleared \cup ({screen.image} \ {None})
    BY <1>4 DEF ClearShow
  <2> QED
    BY <1>1, <2>1 DEF NothingReturns, Blank
<1>5. ASSUME NEW a \in Analyst, AnalysisApply(a) PROVE NothingReturns
  <2>1. Fits(screen') /\ screen'.image = screen.image
    BY <1>1, <1>5, AnalysedFits DEF AnalysisApply, ContextInv, Shape, Good
  <2>2. cleared' = cleared
    BY <1>5 DEF AnalysisApply, captureVars
  <2> QED
    BY <1>1, <2>1, <2>2 DEF NothingReturns, Fits
<1>6. CASE Restart
  BY <1>1, <1>6 DEF Restart, Shape
<1>7. ASSUME NEW s \in Shot, Capture(s) PROVE CaptureShow(s) \/ UNCHANGED <<screen, cleared>>
  BY <1>7 DEF Capture, CaptureWrite, CaptureFail, CaptureEnd, captureVars
<1>8. ASSUME NEW q \in Clearer, Clear(q) PROVE ClearShow(q) \/ UNCHANGED <<screen, cleared>>
  BY <1>8 DEF Clear, ClearEnd, captureVars
<1>9. ASSUME NEW t \in Task, Execute(t) PROVE UNCHANGED <<screen, cleared>>
  BY <1>9 DEF Execute, TaskStart, TaskTake, TaskLook, TaskPlan, TaskEnd, captureVars
<1>10. ASSUME NEW a \in Analyst, Analysis(a)
       PROVE  AnalysisApply(a) \/ UNCHANGED <<screen, cleared>>
  BY <1>10 DEF Analysis, AnalysisLate, captureVars
<1>11. ASSUME NEW x \in Saver, Persist(x) PROVE UNCHANGED <<screen, cleared>>
  BY <1>11 DEF Persist, SaveRead, SaveWrite, captureVars
<1> QED
  BY <1>2, <1>3, <1>4, <1>5, <1>6, <1>7, <1>8, <1>9, <1>10, <1>11 DEF Next

(***************************************************************************)
(* Only a restart brings back an image that was cleared, or what was read  *)
(* in it (loop.go:119-132, enhancements.go:126-133).                       *)
(***************************************************************************)
THEOREM ClearedReturnCorrect == Spec => ClearedReturnOnlyByRestart
<1>1. ContextInv /\ [Next]_vars => [NothingReturns]_vars
  BY StepReturnsNothing
<1> QED
  BY <1>1, InitContext, ContextPreserved, PTL DEF Spec, ClearedReturnOnlyByRestart
-----------------------------------------------------------------------------
(* The image of a pending context keeps its analyst while it is on show. *)
LEMMA AnalystStays ==
  ASSUME Shape, Next, ~ Restart, screen' = screen, screen.image \in Shot,
         screen.status = "pending",
         vision, AnalyzeOnCapture,
         pc[screen.image] = "saving" \/ screen.image \in looking
  PROVE  pc'[screen.image] = "saving" \/ screen.image \in looking'
<1> DEFINE i == screen.image
<1>1. i \in Request /\ i \notin Clearer /\ i \notin Task
  BY Apart
<1>2. ASSUME NEW q \in Request, NEW label, Goto(q, label), q # i PROVE pc'[i] = pc[i]
  BY <1>1, <1>2 DEF Goto, Shape
<1>3. ASSUME NEW s \in Shot, Capture(s) PROVE pc'[i] = "saving" \/ i \in looking'
  <2>1. s \in Request
    BY Apart
  <2>2. CASE CaptureEnd(s)
    <3>1. looking' = looking \cup {s} /\ Goto(s, "done")
      BY <2>2 DEF CaptureEnd, StartAnalysis
    <3> QED
      BY <1>2, <2>1, <3>1
  <2>3. CASE CaptureWrite(s) \/ CaptureFail(s) \/ CaptureShow(s)
    <3>1. /\ looking' = looking
          /\ pc[s] # "saving"
          /\ Goto(s, "written") \/ Goto(s, "done") \/ Goto(s, "saving")
      BY <2>3 DEF CaptureWrite, CaptureFail, CaptureShow, analysisVars
    <3> QED
      BY <1>2, <2>1, <3>1
  <2> QED
    BY <1>3, <2>2, <2>3 DEF Capture
<1>4. ASSUME NEW q \in Clearer, Clear(q) PROVE pc'[i] = "saving" \/ i \in looking'
  <2>1. looking' = looking /\ (Goto(q, "saving") \/ Goto(q, "done"))
    BY <1>4 DEF Clear, ClearShow, ClearEnd, analysisVars
  <2> QED
    BY <1>1, <1>2, <2>1 DEF Request
<1>5. ASSUME NEW t \in Task, Execute(t) PROVE pc'[i] = "saving" \/ i \in looking'
  <2>1. /\ looking \subseteq looking'
        /\ Goto(t, "gather") \/ Goto(t, "prompt") \/ Goto(t, "waiting")
             \/ Goto(t, "planning") \/ Goto(t, "done")
    BY <1>5 DEF Execute, TaskStart, TaskTake, TaskLook, TaskPlan, TaskEnd, analysisVars
  <2> QED
    BY <1>1, <1>2, <2>1 DEF Request
<1>6. ASSUME NEW a \in Analyst, Analysis(a) PROVE pc'[i] = "saving" \/ i \in looking'
  <2>1. CASE AnalysisLate(a)
    <3>1. looking' = looking \ {a} /\ a # i
      BY <1>1, <2>1 DEF AnalysisLate, Target
    <3>2. UNCHANGED pc \/ (a \in Task /\ Goto(a, "prompt"))
      BY <2>1 DEF AnalysisLate
    <3> QED
      BY <1>1, <1>2, <3>1, <3>2 DEF Request
  <2>2. CASE AnalysisApply(a)
    BY <2>2 DEF AnalysisApply, Analysed, Shape, Screen
  <2> QED
    BY <1>6, <2>1, <2>2 DEF Analysis
<1>7. ASSUME NEW x \in Saver, Persist(x) PROVE pc'[i] = "saving" \/ i \in looking'
  BY <1>7 DEF Persist, SaveRead, SaveWrite, analysisVars
<1> QED
  BY <1>3, <1>4, <1>5, <1>6, <1>7 DEF Next

(* A step leaves no pending image without somebody to analyse it. *)
LEMMA PendingStep ==
  ASSUME ContextInv, PendingHasAnalyst, Next
  PROVE  PendingHasAnalyst'
<1> SUFFICES ASSUME vision', AnalyzeOnCapture, restarts' = 0, screen'.status = "pending"
             PROVE  pc'[screen'.image] = "saving" \/ screen'.image \in looking'
  BY DEF PendingHasAnalyst
<1>1. Shape
  BY DEF ContextInv
<1>2. ~ Restart
  BY <1>1 DEF Restart, Shape
<1>3. CASE screen' = screen
  <2>1. restarts' = restarts /\ vision' = vision
    BY <1>2 DEF Next, Capture, CaptureWrite, CaptureFail, CaptureShow, CaptureEnd,
       Clear, ClearShow, ClearEnd, Execute, TaskStart, TaskTake, TaskLook, TaskPlan, TaskEnd,
       Analysis, AnalysisLate, AnalysisApply, Persist, SaveRead, SaveWrite
  <2>2. pc[screen.image] = "saving" \/ screen.image \in looking
    BY <1>3, <2>1 DEF PendingHasAnalyst
  <2>3. screen.image \in Shot
    BY <1>1, <1>3, ScreenType DEF ContextInv, Shape, Good
  <2>4. vision
    BY <2>1, Zenon
  <2> QED
    BY <1>1, <1>2, <1>3, <2>2, <2>3, <2>4, AnalystStays
<1>4. ASSUME NEW s \in Shot, CaptureShow(s) PROVE pc'[screen'.image] = "saving"
  BY <1>1, <1>4, Apart DEF CaptureShow, Goto, Shape
<1>5. ASSUME NEW q \in Clearer, ClearShow(q) PROVE FALSE
  BY <1>5 DEF ClearShow, Blank
<1>6. ASSUME NEW a \in Analyst, AnalysisApply(a) PROVE FALSE
  BY <1>1, <1>6, AnalysedFits DEF AnalysisApply, ContextInv, Shape, Good
<1>7. \/ screen' = screen
      \/ \E s \in Shot : CaptureShow(s)
      \/ \E q \in Clearer : ClearShow(q)
      \/ \E a \in Analyst : AnalysisApply(a)
  BY <1>2 DEF Next, Capture, CaptureWrite, CaptureFail, CaptureEnd, Clear, ClearEnd,
     Execute, TaskStart, TaskTake, TaskLook, TaskPlan, TaskEnd,
     Analysis, AnalysisLate, Persist, SaveRead, SaveWrite
<1> QED
  BY <1>3, <1>4, <1>5, <1>6, <1>7

(* SaveScreenCapture never leaves an image pending that nobody analyses, as *)
(* long as the process that took the capture lives, if it found a usable    *)
(* vision provider when it started (loop.go:107-111, enhancements.go:159).  *)
THEOREM PendingCorrect == Spec => []PendingHasAnalyst
<1>1. Init => PendingHasAnalyst
  <2>1. Blank.status # "pending"
    BY DEF Blank
  <2>2. Init => screen = Blank
    BY DEF Init
  <2> QED
    BY <2>1, <2>2 DEF PendingHasAnalyst
<1>2. ContextInv /\ PendingHasAnalyst /\ [Next]_vars => PendingHasAnalyst'
  <2> SUFFICES ASSUME ContextInv, PendingHasAnalyst, [Next]_vars PROVE PendingHasAnalyst'
    OBVIOUS
  <2>1. CASE Next
    BY <2>1, PendingStep
  <2>2. CASE UNCHANGED vars
    BY <2>2 DEF PendingHasAnalyst, vars, analysisVars
  <2> QED
    BY <2>1, <2>2
<1> QED
  BY <1>1, <1>2, InitContext, ContextPreserved, PTL DEF Spec
-----------------------------------------------------------------------------
(***************************************************************************)
(* The image on show and its file.  Every image that a context, in memory, *)
(* in Redis or on its way there, names was written once; and an image that *)
(* was written is in data/captures, or was removed as one of the oldest.   *)
(***************************************************************************)
Wrote(s) == \E i \in 1 .. Len(written) : written[i] = s

Kept(s) == s \in files \/ Cardinality(Later(s, Shot, written)) >= Keep

Held(c) == c.image # None => Wrote(c.image)

FilesInv ==
  /\ written \in Seq(Shot)
  /\ files \subseteq Shot
  /\ \A s \in Shot : Wrote(s) => Kept(s)
  /\ \A s \in Shot : pc[s] = "written" => Wrote(s)
  /\ Held(screen)
  /\ Held(store)
  /\ \A x \in Saver : Held(save[x].content)

(* The files at the start. *)
LEMMA InitFiles == Init => FilesInv
<1> SUFFICES ASSUME Init PROVE FilesInv
  OBVIOUS
<1>1. Held(Blank) /\ NoSave.content = Blank
  BY DEF Held, Blank, NoSave
<1>2. \A s \in Shot : pc[s] = "idle"
  BY Apart DEF Init
<1> QED
  BY <1>1, <1>2 DEF Init, FilesInv, Wrote

(* Only finitely many images were written after another, ... *)
LEMMA LaterFinite ==
  ASSUME NEW order \in Seq(Shot), NEW s
  PROVE  IsFiniteSet(Later(s, Shot, order))
<1> DEFINE all == {order[i] : i \in 1 .. Len(order)}
<1>1. order \in Surjection(1 .. Len(order), all)
  BY DEF Surjection
<1>2. IsFiniteSet(1 .. Len(order))
  BY FS_Interval
<1>3. IsFiniteSet(all)
  BY <1>1, <1>2, FS_Surjection
<1>4. Later(s, Shot, order) \subseteq all
  BY DEF Later
<1> QED
  BY <1>3, <1>4, FS_Subset

(* ... and with more images, or more of them written, there are not fewer. *)
LEMMA LaterGrows ==
  ASSUME NEW order \in Seq(Shot), NEW r \in Shot, NEW s, NEW images \in SUBSET Shot
  PROVE  LET after == Cardinality(Later(s, Shot, Append(order, r)))
         IN  /\ after \in Nat
             /\ Cardinality(Later(s, Shot, order)) \in Nat
             /\ Cardinality(Later(s, Shot, order)) <= after
             /\ Cardinality(Later(s, images, Append(order, r))) \in Nat
             /\ Cardinality(Later(s, images, Append(order, r))) <= after
<1> DEFINE longer == Append(order, r)
<1>1. longer \in Seq(Shot)
  OBVIOUS
<1>2. Later(s, Shot, order) \subseteq Later(s, Shot, longer)
  <2>1. Len(longer) = Len(order) + 1 /\ \A i \in 1 .. Len(order) : longer[i] = order[i]
    OBVIOUS
  <2>2. 1 .. Len(order) \subseteq 1 .. Len(longer)
    BY <2>1
  <2> QED
    BY <2>1, <2>2 DEF Later
<1>3. Later(s, images, longer) \subseteq Later(s, Shot, longer)
  BY DEF Later
<1>4. IsFiniteSet(Later(s, Shot, longer))
  BY <1>1, LaterFinite
<1> HIDE DEF longer
<1>5. /\ Cardinality(Later(s, Shot, order)) <= Cardinality(Later(s, Shot, longer))
      /\ IsFiniteSet(Later(s, Shot, order))
  BY <1>2, <1>4, FS_Subset
<1>6. /\ Cardinality(Later(s, images, longer)) <= Cardinality(Later(s, Shot, longer))
      /\ IsFiniteSet(Later(s, images, longer))
  BY <1>3, <1>4, FS_Subset
<1> QED
  BY <1>4, <1>5, <1>6, FS_CardinalityType DEF longer

(* A capture that writes an image, wholly or in part. *)
Writes(s) == CaptureWrite(s) \/ (CaptureFail(s) /\ ~ UNCHANGED <<written, files>>)

(* A capture that does not write shows, ends, or fails without a trace. *)
LEMMA NotWriting ==
  ASSUME NEW s \in Shot, Capture(s), ~ Writes(s)
  PROVE  \/ CaptureShow(s)
         \/ CaptureEnd(s)
         \/ Goto(s, "done") /\ UNCHANGED <<screen, written, files, save, store>>
<1>1. CASE CaptureFail(s)
  <2>1. UNCHANGED <<written, files>>
    BY <1>1, Zenon DEF Writes
  <2> QED
    BY <1>1, <2>1 DEF CaptureFail
<1>2. CASE CaptureShow(s) \/ CaptureEnd(s)
  BY <1>2
<1>3. ~ CaptureWrite(s)
  BY Zenon DEF Writes
<1>4. CaptureFail(s) \/ CaptureShow(s) \/ CaptureEnd(s)
  BY <1>3, Zenon DEF Capture
<1> QED
  BY <1>1, <1>2, <1>4

(* What is written, or shown as kept, after a new image is written. *)
LEMMA WriteFiles ==
  ASSUME ContextInv, FilesInv, NEW s \in Shot, Writes(s)
  PROVE  FilesInv'
<1>1. /\ written' = Append(written, s)
      /\ files' \in {Newest(files \cup {s}, written'), files \cup {s}}
      /\ \E label \in {"written", "done"} : pc' = [pc EXCEPT ![s] = label]
      /\ UNCHANGED <<screen, store, save>>
  BY DEF Writes, CaptureWrite, CaptureFail, Goto
<1>2. written \in Seq(Shot) /\ files \cup {s} \in SUBSET Shot
  BY DEF FilesInv
<1>3. /\ Len(written') = Len(written) + 1 /\ written'[Len(written) + 1] = s
      /\ \A i \in 1 .. Len(written) : i \in 1 .. Len(written') /\ written'[i] = written[i]
      /\ Len(written) + 1 \in 1 .. Len(written')
      /\ \A i \in 1 .. Len(written') : i \in 1 .. Len(written) \/ written'[i] = s
  BY <1>1, <1>2
<1>4. \A r : Wrote(r)' <=> Wrote(r) \/ r = s
  BY <1>3 DEF Wrote
<1>5. ASSUME NEW r \in Shot, Wrote(r)' PROVE Kept(r)'
  <2>1. r \in files \cup {s} => r \in files' \/ Cardinality(Later(r, Shot, written')) >= Keep
    <3>1. /\ Cardinality(Later(r, files \cup {s}, written')) <= Cardinality(Later(r, Shot, written'))
          /\ Cardinality(Later(r, files \cup {s}, written')) \in Nat
          /\ Cardinality(Later(r, Shot, written')) \in Nat
      BY <1>1, <1>2, LaterGrows
    <3>2. Keep \in Nat
      BY BoundAssumption
    <3> QED
      BY <1>1, <3>1, <3>2 DEF Newest
  <2>2. r \notin files \cup {s} => Cardinality(Later(r, Shot, written')) >= Keep
    <3>1. r \notin files \cup {s} => Cardinality(Later(r, Shot, written)) >= Keep
      BY <1>4, <1>5 DEF FilesInv, Kept
    <3>2. /\ Cardinality(Later(r, Shot, written)) <= Cardinality(Later(r, Shot, written'))
          /\ Cardinality(Later(r, Shot, written)) \in Nat
          /\ Cardinality(Later(r, Shot, written')) \in Nat
      BY <1>1, <1>2, LaterGrows
    <3>3. Keep \in Nat
      BY BoundAssumption
    <3> QED
      BY <3>1, <3>2, <3>3
  <2> QED
    BY <2>1, <2>2 DEF Kept
<1>6. Held(screen)' /\ Held(store)' /\ \A x \in Saver : Held(save[x].content)'
  BY <1>1, <1>4 DEF FilesInv, Held
<1>7. \A r \in Shot : pc'[r] = "written" => Wrote(r)'
  BY <1>1, <1>4, Apart DEF FilesInv, ContextInv, Shape
<1>8. written' \in Seq(Shot) /\ files' \subseteq Shot
  BY <1>1, <1>2 DEF Newest
<1> QED
  BY <1>5, <1>6, <1>7, <1>8 DEF FilesInv

(* Any other step shows, saves and stores nothing that was not written. *)
LEMMA OthersFiles ==
  ASSUME ContextInv, FilesInv,
         UNCHANGED <<written, files>>,
         \A s \in Shot : pc'[s] = "written" => pc[s] = "written",
         screen'.image \in {None, screen.image, store.image} \/ Wrote(screen'.image),
         store' = store \/ \E x \in Saver : store' = save[x].content,
         \A x \in Saver : save'[x].content \in {save[x].content, screen, Blank}
  PROVE  FilesInv'
<1>1. \A s : (Wrote(s)' <=> Wrote(s)) /\ (Kept(s)' <=> Kept(s))
  BY DEF Wrote, Kept
<1>2. Held(Blank)
  BY DEF Held, Blank
<1>3. Held(screen)' /\ Held(store)'
  BY <1>1 DEF FilesInv, Held
<1>4. \A x \in Saver : Held(save[x].content)'
  BY <1>1, <1>2 DEF FilesInv, Held
<1> QED
  BY <1>1, <1>3, <1>4 DEF FilesInv

(* Where a step takes the contexts from, request by request. *)
LEMMA RequestFiles ==
  ASSUME ContextInv, FilesInv,
         \/ \E s \in Shot : Capture(s) /\ ~ Writes(s)
         \/ \E q \in Clearer : Clear(q)
         \/ \E t \in Task : Execute(t)
         \/ \E a \in Analyst : Analysis(a)
  PROVE  FilesInv'
<1>1. Shape
  BY DEF ContextInv
<1>2. UNCHANGED <<written, files, store>>
  BY NotWriting DEF CaptureShow, CaptureEnd, Clear, ClearShow, ClearEnd, Execute,
         TaskStart, TaskTake, TaskLook, TaskPlan, TaskEnd, Analysis, AnalysisLate, AnalysisApply,
         captureVars
<1>3. \A x \in Saver : save'[x].content = save[x].content
  <2>1. CASE \E x \in Saver : Ask(x)
    BY <1>1, <2>1, AskKeeps
  <2>2. CASE save' = save
    BY <2>2
  <2>3. (\E x \in Saver : Ask(x)) \/ save' = save
    <3>1. ASSUME NEW s \in Shot, Capture(s) PROVE (\E x \in Saver : Ask(x)) \/ save' = save
      BY <3>1, Apart
      DEF Capture, CaptureWrite, CaptureFail, CaptureShow, CaptureEnd, Announce, UpdateWorkflow, Saver
    <3>2. ASSUME NEW q \in Clearer, Clear(q) PROVE (\E x \in Saver : Ask(x)) \/ save' = save
      BY <3>2 DEF Clear, ClearShow, ClearEnd, Announce, UpdateWorkflow, Saver, Request
    <3>3. ASSUME NEW t \in Task, Execute(t) PROVE (\E x \in Saver : Ask(x)) \/ save' = save
      BY <3>3
      DEF Execute, TaskStart, TaskTake, TaskLook, TaskPlan, TaskEnd, UpdateWorkflow, Saver, Request
    <3>4. ASSUME NEW a \in Analyst, Analysis(a) PROVE (\E x \in Saver : Ask(x)) \/ save' = save
      BY <3>4 DEF Analysis, AnalysisLate, AnalysisApply, AnalysisSaver, Analyst, Saver, Request
    <3> QED
      BY <3>1, <3>2, <3>3, <3>4
  <2> QED
    BY <2>1, <2>2, <2>3
<1>4. \A s \in Shot : pc'[s] = "written" => pc[s] = "written"
  <2>1. ASSUME NEW q, NEW label, label # "written", Goto(q, label)
        PROVE  \A s \in Shot : pc'[s] = "written" => pc[s] = "written"
    BY <1>1, <2>1, Apart DEF Goto, Shape
  <2>2. ASSUME NEW s \in Shot, Capture(s), ~ Writes(s)
        PROVE  Goto(s, "saving") \/ Goto(s, "done")
    BY <2>2, NotWriting DEF CaptureShow, CaptureEnd
  <2>3. ASSUME NEW q \in Clearer, Clear(q) PROVE Goto(q, "saving") \/ Goto(q, "done")
    BY <2>3 DEF Clear, ClearShow, ClearEnd
  <2>4. ASSUME NEW t \in Task, Execute(t)
        PROVE  \E label \in {"gather", "prompt", "waiting", "planning", "done"} : Goto(t, label)
    BY <2>4 DEF Execute, TaskStart, TaskTake, TaskLook, TaskPlan, TaskEnd
  <2>5. ASSUME NEW a \in Analyst, Analysis(a)
        PROVE  Goto(a, "prompt") \/ Goto(a, "saving") \/ pc' = pc
    BY <2>5 DEF Analysis, AnalysisLate, AnalysisApply
  <2> QED
    BY <2>1, <2>2, <2>3, <2>4, <2>5
<1>5. screen'.image \in {None, screen.image} \/ Wrote(screen'.image)
  <2>1. ASSUME NEW s \in Shot, Capture(s), ~ Writes(s)
        PROVE  screen' = screen \/ Wrote(screen'.image)
    <3>1. CASE CaptureShow(s)
      BY <3>1 DEF CaptureShow, FilesInv
    <3>2. CASE CaptureEnd(s)
      BY <3>2 DEF CaptureEnd
    <3> QED
      BY <2>1, <3>1, <3>2, NotWriting
  <2>2. ASSUME NEW q \in Clearer, Clear(q) PROVE screen'.image \in {None, screen.image}
    <3>1. screen' = Blank \/ screen' = screen
      BY <2>2 DEF Clear, ClearShow, ClearEnd
    <3>2. Blank.image = None
      BY DEF Blank
    <3> QED
      BY <3>1, <3>2
  <2>3. ASSUME NEW t \in Task, Execute(t) PROVE screen' = screen
    BY <2>3 DEF Execute, TaskStart, TaskTake, TaskLook, TaskPlan, TaskEnd
  <2>4. ASSUME NEW a \in Analyst, Analysis(a) PROVE screen'.image = screen.image
    <3>1. CASE AnalysisApply(a)
      BY <1>1, <3>1, AnalysedFits DEF AnalysisApply, ContextInv, Shape, Good
    <3>2. CASE AnalysisLate(a)
      BY <3>2 DEF AnalysisLate
    <3> QED
      BY <2>4, <3>1, <3>2 DEF Analysis
  <2> QED
    BY <2>1, <2>2, <2>3, <2>4
<1> QED
  BY <1>2, <1>3, <1>4, <1>5, OthersFiles

(* Every step keeps what is known of the files. *)
LEMMA FilesPreserved ==
  ASSUME ContextInv, FilesInv, [Next]_vars
  PROVE  FilesInv'
<1>1. CASE \E s \in Shot : Writes(s)
  BY <1>1, WriteFiles
<1>2. CASE \/ \E s \in Shot : Capture(s) /\ ~ Writes(s)
           \/ \E q \in Clearer : Clear(q)
           \/ \E t \in Task : Execute(t)
           \/ \E a \in Analyst : Analysis(a)
  BY <1>2, RequestFiles
<1>3. CASE \E x \in Saver : Persist(x)
  <2>1. PICK x \in Saver : Persist(x)
    BY <1>3
  <2>2. UNCHANGED <<written, files, pc, screen>>
    BY <2>1 DEF Persist, SaveRead, SaveWrite, captureVars
  <2>3. store' = store \/ store' = save[x].content
    BY <2>1 DEF Persist, SaveRead, SaveWrite
  <2>4. \A y \in Saver : save'[y].content \in {save[y].content, screen, Blank}
    BY <2>1 DEF Persist, SaveRead, SaveWrite, NoSave, ContextInv, Shape
  <2> QED
    BY <2>2, <2>3, <2>4, OthersFiles
<1>4. CASE Restart
  <2>1. /\ UNCHANGED <<written, files, store>> /\ screen' \in {Blank, store}
        /\ \A x \in Saver : save'[x].content = Blank
    BY <1>4 DEF Restart, captureVars, NoSave
  <2>2. \A s \in Shot : pc'[s] = "written" => pc[s] = "written"
    BY <1>4, Apart DEF Restart
  <2>3. Blank.image = None
    BY DEF Blank
  <2> QED
    BY <2>1, <2>2, <2>3, OthersFiles
<1>5. CASE UNCHANGED vars
  BY <1>5, OthersFiles DEF vars, captureVars
<1> QED
  BY <1>1, <1>2, <1>3, <1>4, <1>5 DEF Next

(***************************************************************************)
(* The image on show is in data/captures, unless at least Keep captures    *)
(* were written after it, whatever captures, clears, saves and restarts    *)
(* come in between (loop.go, cleanupOldCaptures).                          *)
(***************************************************************************)
THEOREM ShownImageCorrect == Spec => []ShownImageKept
<1>1. ContextInv /\ FilesInv => ShownImageKept
  BY ScreenType DEF ContextInv, Shape, FilesInv, Held, Kept, ShownImageKept
<1>2. Init => ContextInv /\ FilesInv
  BY InitContext, InitFiles
<1>3. ContextInv /\ FilesInv /\ [Next]_vars => (ContextInv /\ FilesInv)'
  BY ContextPreserved, FilesPreserved
<1> QED
  BY <1>1, <1>2, <1>3, PTL DEF Spec
-----------------------------------------------------------------------------
(* What TypeOK says beyond the shape and the files. *)
Rest ==
  /\ running \in BOOLEAN
  /\ vision \in BOOLEAN
  /\ seen \in [Shot \cup Clearer -> BOOLEAN]
  /\ \A t \in Task : t \in looking <=> pc[t] = "waiting"
  /\ restarts \in 0 .. MaxRestarts

(* The rest at the start. *)
LEMMA InitRest == Init => Rest
<1> SUFFICES ASSUME Init PROVE Rest
  OBVIOUS
<1>1. \A t \in Task : t \notin looking /\ pc[t] = "idle"
  BY DEF Init, Request
<1>2. restarts \in 0 .. MaxRestarts
  BY BoundAssumption DEF Init
<1>3. running \in BOOLEAN /\ vision \in BOOLEAN /\ seen \in [Shot \cup Clearer -> BOOLEAN]
  BY DEF Init
<1> QED
  BY <1>1, <1>2, <1>3 DEF Rest

(* A task waits exactly while it looks: every step keeps the rest. *)
LEMMA RestPreserved ==
  ASSUME ContextInv, Rest, [Next]_vars
  PROVE  Rest'
<1> USE DEF Rest
<1>1. Shape
  BY DEF ContextInv
<1>2. ASSUME NEW s \in Shot, Capture(s) PROVE Rest'
  <2>1. /\ UNCHANGED <<restarts, vision>> /\ running' \in BOOLEAN
        /\ \A t \in Task : pc'[t] = pc[t] /\ (t \in looking' <=> t \in looking)
    <3>1. \E label : Goto(s, label)
      BY <1>2 DEF Capture, CaptureWrite, CaptureFail, CaptureShow, CaptureEnd
    <3>2. \A t \in Task : pc'[t] = pc[t]
      BY <3>1, <1>1, Apart DEF Goto, Shape
    <3>3. looking' = looking \/ looking' = looking \cup {s}
      BY <1>2
      DEF Capture, CaptureWrite, CaptureFail, CaptureShow, CaptureEnd, StartAnalysis, analysisVars
    <3>4. \A t \in Task : t \in looking' <=> t \in looking
      BY <3>3, Apart
    <3>5. restarts' = restarts /\ vision' = vision
      BY <1>2 DEF Capture, CaptureWrite, CaptureFail, CaptureShow, CaptureEnd
    <3>6. running' = running \/ running' \in BOOLEAN
      BY <1>2
      DEF Capture, CaptureWrite, CaptureFail, CaptureShow, CaptureEnd, Announce, UpdateWorkflow
    <3> QED
      BY <3>2, <3>4, <3>5, <3>6
  <2>2. seen' \in [Shot \cup Clearer -> BOOLEAN]
    BY <1>2 DEF Capture, CaptureWrite, CaptureFail, CaptureShow, CaptureEnd
  <2> QED
    BY <2>1, <2>2
<1>3. ASSUME NEW q \in Clearer, Clear(q) PROVE Rest'
  <2>1. /\ UNCHANGED <<restarts, vision, looking>> /\ running' \in BOOLEAN
        /\ \A t \in Task : pc'[t] = pc[t]
    BY <1>1, <1>3, RequestAssumption
    DEF Clear, ClearShow, ClearEnd, Announce, UpdateWorkflow, Goto, Shape, analysisVars, Request
  <2>2. seen' \in [Shot \cup Clearer -> BOOLEAN]
    BY <1>3 DEF Clear, ClearShow, ClearEnd
  <2> QED
    BY <2>1, <2>2
<1>4. ASSUME NEW t \in Task, Execute(t) PROVE Rest'
  <2>1. UNCHANGED <<restarts, vision, seen>> /\ running' \in BOOLEAN
    BY <1>4 DEF Execute, TaskStart, TaskTake, TaskLook, TaskPlan, TaskEnd, UpdateWorkflow
  <2>2. /\ \A u \in Task \ {t} : pc'[u] = pc[u] /\ (u \in looking' <=> u \in looking)
        /\ t \in looking' <=> pc'[t] = "waiting"
    BY <1>1, <1>4
    DEF Execute, TaskStart, TaskTake, TaskLook, TaskPlan, TaskEnd, Goto, Shape, Request, analysisVars
  <2> QED
    BY <2>1, <2>2
<1>5. ASSUME NEW a \in Analyst, Analysis(a) PROVE Rest'
  <2>1. UNCHANGED <<restarts, vision, seen, running>> /\ looking' = looking \ {a}
    BY <1>5 DEF Analysis, AnalysisLate, AnalysisApply
  <2>2. \A u \in Task : IF u = a THEN pc'[u] # "waiting" ELSE pc'[u] = pc[u]
    BY <1>1, <1>5 DEF Analysis, AnalysisLate, AnalysisApply, Goto, Shape, Request
  <2> QED
    BY <2>1, <2>2
<1>6. ASSUME NEW x \in Saver, Persist(x) PROVE Rest'
  BY <1>6 DEF Persist, SaveRead, SaveWrite, analysisVars
<1>7. CASE Restart
  <2>1. restarts' \in 0 .. MaxRestarts
    BY <1>7, BoundAssumption DEF Restart
  <2>2. \A t \in Task : t \notin looking' /\ pc'[t] # "waiting"
    BY <1>7 DEF Restart, Request
  <2> QED
    BY <1>7, <2>1, <2>2 DEF Restart
<1>8. CASE UNCHANGED vars
  BY <1>8 DEF vars, analysisVars
<1> QED
  BY <1>2, <1>3, <1>4, <1>5, <1>6, <1>7, <1>8 DEF Next

(***************************************************************************)
(* Every variable keeps its type, and a task is among the analysts exactly *)
(* while its request waits for the vision model.                           *)
(***************************************************************************)
THEOREM ScreenTypeCorrect == Spec => []TypeOK
<1>1. ContextInv /\ FilesInv /\ Rest => TypeOK
  BY DEF ContextInv, Shape, FilesInv, Rest, TypeOK
<1>2. Init => ContextInv /\ FilesInv /\ Rest
  BY InitContext, InitFiles, InitRest
<1>3. ContextInv /\ FilesInv /\ Rest /\ [Next]_vars => (ContextInv /\ FilesInv /\ Rest)'
  BY ContextPreserved, FilesPreserved, RestPreserved
<1> QED
  BY <1>1, <1>2, <1>3, PTL DEF Spec
=============================================================================
