---------------------------- MODULE AgentsProofs ----------------------------
(***************************************************************************)
(* Proofs about the users of a meeting room and the Docker runner, each    *)
(* for every value of its constants, and about their composition.          *)
(*                                                                         *)
(* Meeting: turns are fair for any number of agents, rounds, failures and  *)
(* resumptions.                                                            *)
(*                                                                         *)
(* Collaboration: where the workflow stands says which tasks are done      *)
(* (TasksFit); a task that is done keeps its executed code because only    *)
(* the task at hand gets new messages.  What a prompt quotes is what was   *)
(* reported since the task was begun (ErrorsOfPast).                       *)
(*                                                                         *)
(* DockerRunner: containers are numbered as they are made, so the ones a   *)
(* call still has to remove are known from what it deferred (DockerInv).   *)
(*                                                                         *)
(* The room of an MCAgents behaviour is each of the three, or stutters     *)
(* (RoomIsEach), so what is proved of one holds in the room.               *)
(***************************************************************************)
EXTENDS MCAgents, FiniteSetTheorems, TLAPS

(* A turn is taken only in a room that is not finished. *)
TurnHasRound == stage \in {"turn", "backup"} => round < MaxRounds

MeetingInv == ChatTypeOK /\ TurnHasRound /\ TurnsAreFair
-----------------------------------------------------------------------------
(* What GetNextSpeaker computes: the next agent, or the first one again. *)
LEMMA NextSpeaker ==
  ASSUME NEW s \in Agent
  PROVE  /\ (s + 1) % Agents \in Agent
         /\ s + 1 < Agents => (s + 1) % Agents = s + 1
         /\ s + 1 = Agents => (s + 1) % Agents = 0
  <1>1. Agents \in Nat \ {0} /\ s \in Nat /\ s + 1 <= Agents
    BY MeetingAssumption DEF Agent
  <1>2. CASE s + 1 < Agents
    <2>1. (s + 1) % Agents = s + 1
      BY <1>1, <1>2
    <2> QED BY <1>1, <1>2, <2>1 DEF Agent
  <1>3. CASE s + 1 = Agents
    <2>1. Agents % Agents = 0
      BY <1>1
    <2> QED BY <1>1, <1>3, <2>1 DEF Agent
  <1> QED BY <1>1, <1>2, <1>3

(* Spoken, of any sequence. *)
HowOften(a, seq) == Cardinality({i \in 1 .. Len(seq) : seq[i] = a})

(* How often each sender is in a sequence with one message more. *)
LEMMA HowOftenAppend ==
  ASSUME NEW S, NEW seq \in Seq(S), NEW x \in S, NEW a
  PROVE  HowOften(a, Append(seq, x)) = HowOften(a, seq) + (IF x = a THEN 1 ELSE 0)
  <1> DEFINE Old == {i \in 1 .. Len(seq) : seq[i] = a}
             New == {i \in 1 .. Len(Append(seq, x)) : Append(seq, x)[i] = a}
             n == Len(seq) + 1
  <1>1. /\ Len(seq) \in Nat /\ Len(Append(seq, x)) = n
        /\ \A i \in 1 .. Len(seq) : Append(seq, x)[i] = seq[i]
        /\ Append(seq, x)[n] = x
    OBVIOUS
  <1>2. IsFiniteSet(Old) /\ n \notin Old
    <2>1. IsFiniteSet(1 .. Len(seq))
      BY <1>1, FS_Interval
    <2>2. Old \subseteq 1 .. Len(seq)
      OBVIOUS
    <2>3. IsFiniteSet(Old)
      BY <2>1, <2>2, FS_Subset
    <2>4. n \notin Old
      BY <1>1
    <2> QED BY <2>3, <2>4
  <1>3. CASE x = a
    <2>1. New = Old \cup {n}
      BY <1>1, <1>3
    <2>2. Cardinality(Old \cup {n}) = Cardinality(Old) + 1
      BY <1>2, FS_AddElement
    <2> QED BY <1>3, <2>1, <2>2 DEF HowOften
  <1>4. CASE x # a
    <2>1. New = Old
      BY <1>1, <1>4
    <2>2. Cardinality(Old) \in Nat
      BY <1>2, FS_CardinalityType
    <2> HIDE DEF Old, New
    <2>3. Cardinality(New) = Cardinality(Old) + 0
      BY <2>1, <2>2
    <2> QED BY <1>4, <2>3 DEF Old, New, HowOften
  <1> QED BY <1>3, <1>4

(* The same for the talk of the room. *)
LEMMA SpokenGrows ==
  ASSUME ChatTypeOK, NEW x \in Agent \cup {System}, talk' = Append(talk, x), NEW a
  PROVE  /\ Spoken(a)' = Spoken(a) + (IF x = a THEN 1 ELSE 0)
         /\ Spoken(a) \in Nat
  <1>1. talk \in Seq(Agent \cup {System})
    BY DEF ChatTypeOK
  <1>2. Spoken(a)' = Spoken(a) + (IF x = a THEN 1 ELSE 0)
    <2>1. Spoken(a)' = HowOften(a, Append(talk, x)) /\ Spoken(a) = HowOften(a, talk)
      BY Zenon DEF Spoken, HowOften
    <2>2. HowOften(a, Append(talk, x)) = HowOften(a, talk) + (IF x = a THEN 1 ELSE 0)
      BY <1>1, HowOftenAppend
    <2> QED BY <2>1, <2>2
  <1>3. IsFiniteSet({i \in 1 .. Len(talk) : talk[i] = a})
    <2>1. IsFiniteSet(1 .. Len(talk))
      BY <1>1, FS_Interval
    <2>2. {i \in 1 .. Len(talk) : talk[i] = a} \subseteq 1 .. Len(talk)
      OBVIOUS
    <2> QED BY <2>1, <2>2, FS_Subset
  <1>4. Spoken(a) \in Nat
    BY <1>3, FS_CardinalityType DEF Spoken
  <1> QED BY <1>2, <1>4
-----------------------------------------------------------------------------
(* The initial states. *)
LEMMA MeetingInit == ChatInit => MeetingInv
  <1> SUFFICES ASSUME ChatInit PROVE MeetingInv
    OBVIOUS
  <1>1. ChatTypeOK
    BY MeetingAssumption DEF ChatInit, ChatTypeOK, Agent
  <1>2. TurnHasRound
    BY DEF ChatInit, TurnHasRound
  <1>3. TurnsAreFair
    <2> SUFFICES ASSUME NEW a \in Agent PROVE Spoken(a) = 0 /\ ~(a < 0)
      BY DEF ChatInit, TurnsAreFair
    <2>1. {i \in 1 .. Len(talk) : talk[i] = a} = {}
      BY DEF ChatInit
    <2>2. Spoken(a) = 0
      BY <2>1, FS_EmptySet DEF Spoken
    <2> QED BY <2>2 DEF Agent
  <1> QED BY <1>1, <1>2, <1>3 DEF MeetingInv

(* The head of the loop starts a turn only where rounds are left. *)
LEMMA GoonTurn ==
  ASSUME NEW r \in Nat, r <= MaxRounds, Goon(r)
  PROVE  /\ stage' \in {"turn", "finished"}
         /\ stage' = "turn" => r < MaxRounds
  BY DEF Goon

(* Speaking keeps the turns fair and counts the round of the last speaker. *)
LEMMA SpeakFair ==
  ASSUME MeetingInv, round < MaxRounds, Speak
  PROVE  /\ talk' \in Seq(Agent \cup {System})
         /\ speaker' \in Agent /\ round' \in 0 .. MaxRounds
         /\ stage' \in {"turn", "finished"}
         /\ stage' = "turn" => round' < MaxRounds
         /\ TurnsAreFair'
  <1>1. /\ talk \in Seq(Agent \cup {System}) /\ speaker \in Agent /\ round \in 0 .. MaxRounds
        /\ MaxRounds \in Nat /\ Agents \in Nat \ {0}
    BY MeetingAssumption DEF MeetingInv, ChatTypeOK
  <1>2. /\ talk' = Append(talk, speaker) /\ speaker' = (speaker + 1) % Agents
        /\ round' = IF speaker' = 0 THEN round + 1 ELSE round
        /\ Goon(round')
    BY DEF Speak
  <1>3. speaker' \in Agent
    BY <1>1, <1>2, NextSpeaker
  <1>4. round' \in 0 .. MaxRounds
    BY <1>1, <1>2
  <1>5. talk' \in Seq(Agent \cup {System})
    BY <1>1, <1>2
  <1>6. stage' \in {"turn", "finished"} /\ (stage' = "turn" => round' < MaxRounds)
    <2>1. round' \in Nat /\ round' <= MaxRounds
      BY <1>1, <1>4
    <2> QED BY <1>2, <2>1, GoonTurn
  <1>7. TurnsAreFair'
    <2> SUFFICES ASSUME NEW a \in Agent
                 PROVE  Spoken(a)' = round' + (IF a < speaker' THEN 1 ELSE 0)
      BY DEF TurnsAreFair, Agent
    <2>1. Spoken(a) = round + (IF a < speaker THEN 1 ELSE 0)
      BY DEF MeetingInv, TurnsAreFair
    <2>2. Spoken(a)' = Spoken(a) + (IF speaker = a THEN 1 ELSE 0)
      BY <1>1, <1>2, SpokenGrows DEF MeetingInv
    <2>3. a \in Nat /\ speaker \in Nat /\ a < Agents /\ speaker < Agents
      BY <1>1 DEF Agent
    <2>4. CASE speaker + 1 < Agents
      <3>1. speaker' = speaker + 1 /\ speaker' # 0 /\ round' = round
        BY <1>1, <1>2, <2>3, <2>4, NextSpeaker
      <3> QED BY <1>1, <2>1, <2>2, <2>3, <3>1
    <2>5. CASE speaker + 1 = Agents
      <3>1. speaker' = 0 /\ round' = round + 1
        BY <1>1, <1>2, <2>5, NextSpeaker
      <3> QED BY <1>1, <2>1, <2>2, <2>3, <2>5, <3>1
    <2> QED BY <1>1, <2>3, <2>4, <2>5
  <1> QED BY <1>3, <1>4, <1>5, <1>6, <1>7
-----------------------------------------------------------------------------
(* Every step. *)
LEMMA MeetingStep == MeetingInv /\ [ChatNext]_chatVars => MeetingInv'
  <1> SUFFICES ASSUME MeetingInv, [ChatNext]_chatVars PROVE MeetingInv'
    OBVIOUS
  <1> USE MeetingAssumption
  <1>1. CASE StartMeeting
    <2>1. talk' = Append(talk, System) /\ speaker' = speaker /\ round' = round /\ Goon(round)
      BY <1>1 DEF StartMeeting
    <2>2. round \in Nat /\ round <= MaxRounds
      BY DEF MeetingInv, ChatTypeOK
    <2>3. stage' \in {"turn", "finished"} /\ (stage' = "turn" => round < MaxRounds)
      BY <2>1, <2>2, GoonTurn
    <2>4. ChatTypeOK'
      BY <1>1, <2>1, <2>3 DEF StartMeeting, MeetingInv, ChatTypeOK, Agent
    <2>5. TurnHasRound'
      BY <2>1, <2>3 DEF TurnHasRound
    <2>6. TurnsAreFair'
      <3> SUFFICES ASSUME NEW a \in Agent PROVE Spoken(a)' = Spoken(a)
        BY <2>1 DEF MeetingInv, TurnsAreFair, Agent
      <3>1. System # a
        BY DEF System, Agent
      <3>2. System \in Agent \cup {System}
        OBVIOUS
      <3>3. Spoken(a)' = Spoken(a) + 0 /\ Spoken(a) \in Nat
        BY <2>1, <3>1, <3>2, SpokenGrows DEF MeetingInv
      <3> QED BY <3>3
    <2> QED BY <2>4, <2>5, <2>6 DEF MeetingInv
  <1>2. CASE AskPrimary
    <2>1. Speak /\ round < MaxRounds
      BY <1>2 DEF AskPrimary, MeetingInv, TurnHasRound
    <2>2. ChatTypeOK'
      BY <1>2, <2>1, SpeakFair DEF AskPrimary, MeetingInv, ChatTypeOK, Agent
    <2> QED BY <2>1, <2>2, SpeakFair DEF MeetingInv, TurnHasRound
  <1>3. CASE AskPrimaryFails
    <2>1. /\ stage = "turn" /\ talk' = talk /\ speaker' = speaker /\ round' = round
          /\ stage' \in {"backup", "crashed", "failed"}
      BY <1>3 DEF AskPrimaryFails, Fail
    <2>2. failures' \in [Agent -> Nat]
      BY <1>3 DEF AskPrimaryFails, MeetingInv, ChatTypeOK
    <2>3. ChatTypeOK'
      BY <1>3, <2>1, <2>2 DEF AskPrimaryFails, MeetingInv, ChatTypeOK, Agent
    <2>4. TurnHasRound'
      BY <2>1 DEF MeetingInv, TurnHasRound
    <2>5. TurnsAreFair'
      BY <2>1 DEF MeetingInv, TurnsAreFair, Spoken, Agent
    <2> QED BY <2>3, <2>4, <2>5 DEF MeetingInv
  <1>4. CASE AskBackup
    <2>1. round < MaxRounds
      BY <1>4 DEF AskBackup, MeetingInv, TurnHasRound
    <2>2. CASE Speak
      <3>1. ChatTypeOK'
        BY <1>4, <2>1, <2>2, SpeakFair DEF AskBackup, MeetingInv, ChatTypeOK, Agent
      <3> QED BY <2>1, <2>2, <3>1, SpeakFair DEF MeetingInv, TurnHasRound
    <2>3. CASE Fail("failed")
      <3>1. stage' = "failed" /\ talk' = talk /\ speaker' = speaker /\ round' = round
        BY <2>3 DEF Fail
      <3>2. ChatTypeOK'
        BY <1>4, <3>1 DEF AskBackup, MeetingInv, ChatTypeOK, Agent
      <3>3. TurnsAreFair'
        BY <3>1 DEF MeetingInv, TurnsAreFair, Spoken, Agent
      <3> QED BY <3>1, <3>2, <3>3 DEF MeetingInv, TurnHasRound
    <2> QED BY <1>4, <2>2, <2>3 DEF AskBackup
  <1>5. CASE UNCHANGED chatVars
    BY <1>5 DEF chatVars, MeetingInv, ChatTypeOK, TurnHasRound, TurnsAreFair, Spoken, Agent
  <1> QED BY <1>1, <1>2, <1>3, <1>4, <1>5 DEF ChatNext

(* Every variable of the room and of the engine keeps its type             *)
(* (chat_engine.go:33-150).                                                *)
THEOREM MeetingTypeCorrect == ChatSpec => []ChatTypeOK
  <1>1. MeetingInv => ChatTypeOK
    BY DEF MeetingInv
  <1> QED BY <1>1, MeetingInit, MeetingStep, PTL DEF ChatSpec

(* Turns are fair, for any number of agents, rounds, failures and          *)
(* resumptions (types.go:115-121, chat_engine.go:77-104).                  *)
THEOREM TurnsAreFairCorrect == ChatSpec => []TurnsAreFair
  <1>1. MeetingInv => TurnsAreFair
    BY DEF MeetingInv
  <1> QED BY <1>1, MeetingInit, MeetingStep, PTL DEF ChatSpec
-----------------------------------------------------------------------------
AtTask == {"attempt", "execute", "analyse"}

Over == {"critique", "round", "complete", "done"}

(* The tasks that are completed where the workflow stands. *)
TasksFit ==
  /\ pc = "init" => tasks = <<>>
  /\ pc \in AtTask => task >= 1 /\ \A t \in 1 .. Len(tasks) : tasks[t] = "completed" <=> t < task
  /\ pc = "develop" => \A t \in 1 .. Len(tasks) : tasks[t] = "completed" <=> t <= task
  /\ pc \in Over => \A t \in 1 .. Len(tasks) : tasks[t] = "completed"
  /\ pc = "architecture" => task = 0 /\ \A t \in 1 .. Len(tasks) : tasks[t] = "pending"

(* An execution has an attempt, and the last round is the last. *)
CountsFit ==
  /\ pc \in {"execute", "analyse"} => retry >= 1
  /\ pc \in {"complete", "done"} => iteration = MaxIterations

(* Reports come before the phases that read them. *)
ReportsFit == pc \notin {"init", "round", "split", "complete", "done", "aborted"} => reports # <<>>

(* A completed task has been executed since its last code. *)
ExecutedLast ==
  hasRunner => \A t \in 1 .. Len(tasks) : tasks[t] = "completed" =>
    \E i \in About(t, "executed") : \A j \in About(t, "code") : j < i

CollaborationInv == TypeOK /\ TasksFit /\ CountsFit /\ ReportsFit /\ ExecutedLast
-----------------------------------------------------------------------------
(* All reports are headed, so the first of them is what is found. *)
LEMMA FirstHeadedIsFirst ==
  ASSUME reports \in Seq(Report)
  PROVE  FirstHeaded = IF reports = <<>> THEN 0 ELSE 1
  <1> DEFINE I == {i \in 1 .. Len(reports) : reports[i].kind \in Headed}
  <1>1. I = 1 .. Len(reports)
    <2>1. \A i \in 1 .. Len(reports) : reports[i] \in Report
      OBVIOUS
    <2>2. \A i \in 1 .. Len(reports) : reports[i].kind \in Headed
      BY <2>1 DEF Report
    <2> QED BY <2>2
  <1>2. FirstHeaded = IF I # {} THEN Min(I) ELSE 0
    BY DEF FirstHeaded, SelectInSeq
  <1>3. CASE reports = <<>>
    BY <1>1, <1>2, <1>3
  <1>4. CASE reports # <<>>
    <2>1. Len(reports) \in Nat /\ Len(reports) >= 1
      BY <1>4
    <2>2. 1 \in I /\ \A y \in I : 1 =< y
      BY <1>1, <2>1
    <2>3. \A x \in I : (\A y \in I : x =< y) => x = 1
      BY <1>1, <2>2
    <2> HIDE DEF I
    <2>4. Min(I) = 1
      BY <2>2, <2>3 DEF Min
    <2> QED BY <1>2, <1>4, <2>2, <2>4
  <1> QED BY <1>3, <1>4

LEMMA AppendNotEmpty ==
  ASSUME NEW S, NEW s \in Seq(S), NEW x
  PROVE  Append(s, x) # <<>>
  <1>1. Len(Append(s, x)) = Len(s) + 1 /\ Len(s) \in Nat
    OBVIOUS
  <1>2. Len(<<>>) = 0
    OBVIOUS
  <1> QED BY <1>1, <1>2

(* There is a report after one was published. *)
LEMMA ReportsGrow ==
  ASSUME TypeOK, NEW r, reports' = Append(reports, r)
  PROVE  reports' # <<>>
  <1>1. reports \in Seq(Report)
    BY DEF TypeOK
  <1> QED BY <1>1, AppendNotEmpty

LEMMA FirstHeadedType == reports \in Seq(Report) => FirstHeaded \in Nat
  BY FirstHeadedIsFirst

(* What a report or notice of the state looks like. *)
LEMMA TextType ==
  ASSUME TypeOK
  PROVE  /\ \A kind \in Headed : Text(kind) \in Report
         /\ \A kind \in {"initialized", "executed", "completed"} : Text(kind) \in Notice
  BY CollaborationAssumption DEF TypeOK, Text, Report, Notice

(* The same about another task or attempt. *)
LEMMA TextOfPhase ==
  ASSUME TypeOK, NEW kind \in Headed
  PROVE  [Text(kind) EXCEPT !.task = 0, !.attempt = 0] \in Report
  <1>1. [Text(kind) EXCEPT !.task = 0, !.attempt = 0]
          = [kind |-> kind, iteration |-> iteration, task |-> 0, attempt |-> 0]
    <2> DEFINE once == [Text(kind) EXCEPT !.task = 0]
    <2>1. once = [kind |-> kind, iteration |-> iteration, task |-> 0, attempt |-> retry]
      BY DEF Text
    <2> HIDE DEF once
    <2>2. [once EXCEPT !.attempt = 0] = [kind |-> kind, iteration |-> iteration, task |-> 0, attempt |-> 0]
      BY <2>1
    <2>3. [Text(kind) EXCEPT !.task = 0, !.attempt = 0] = [once EXCEPT !.attempt = 0]
      BY DEF once
    <2> QED BY <2>2, <2>3
  <1>2. iteration \in 0 .. MaxIterations /\ 0 \in 0 .. MaxTasks /\ 0 \in 0 .. MaxRetries
    BY CollaborationAssumption DEF TypeOK
  <1> QED BY <1>1, <1>2 DEF Report

LEMMA TextOfAttempt ==
  ASSUME TypeOK, retry < MaxRetries
  PROVE  [Text("code") EXCEPT !.attempt = retry + 1] \in Report
  <1>1. [Text("code") EXCEPT !.attempt = retry + 1]
          = [kind |-> "code", iteration |-> iteration, task |-> task, attempt |-> retry + 1]
    BY DEF Text
  <1>2. /\ iteration \in 0 .. MaxIterations /\ task \in 0 .. MaxTasks
        /\ retry + 1 \in 0 .. MaxRetries /\ "code" \in Headed
    BY CollaborationAssumption DEF TypeOK, Headed
  <1> QED BY <1>1, <1>2 DEF Report

(* Completing the task at hand. *)
LEMMA DoneType ==
  ASSUME TypeOK, task >= 1, Done(task)
  PROVE  /\ tasks' \in Seq({"pending", "completed"}) /\ Len(tasks') = Len(tasks)
         /\ tasks'[task] = "completed"
         /\ \A t \in 1 .. Len(tasks) : t # task => tasks'[t] = tasks[t]
  <1>1. tasks \in Seq({"pending", "completed"}) /\ task \in 1 .. Len(tasks) /\ Len(tasks) \in Nat
    BY DEF TypeOK
  <1>2. tasks' = [tasks EXCEPT ![task] = "completed"]
    BY DEF Done
  <1> QED BY <1>1, <1>2

(* One message more that is no split. *)
LEMMA AboutAppend ==
  ASSUME NEW S, messages \in Seq(S), NEW m, messages' = Append(messages, m), m \in S,
         m.kind # "split", NEW t, NEW kind
  PROVE  /\ m.task = t /\ m.kind = kind => About(t, kind)' = About(t, kind) \cup {Len(messages) + 1}
         /\ ~(m.task = t /\ m.kind = kind) => About(t, kind)' = About(t, kind)
  <1>1. /\ Len(messages) \in Nat /\ Len(messages') = Len(messages) + 1
        /\ messages'[Len(messages) + 1] = m
        /\ \A i \in 1 .. Len(messages) : messages'[i] = messages[i]
    OBVIOUS
  <1>2. ASSUME NEW i \in 1 .. Len(messages)
        PROVE  i \in About(t, kind)' <=> i \in About(t, kind)
    BY <1>1, <1>2 DEF About
  <1>3. Len(messages) + 1 \in About(t, kind)' <=> m.task = t /\ m.kind = kind
    BY <1>1 DEF About
  <1>4. About(t, kind)' \subseteq 1 .. Len(messages) + 1 /\ About(t, kind) \subseteq 1 .. Len(messages)
    BY <1>1 DEF About
  <1> DEFINE n == Len(messages) + 1
  <1>5. \A i \in 1 .. n : i # n => (i \in About(t, kind)' <=> i \in About(t, kind))
    BY <1>1, <1>2
  <1>6. n \notin About(t, kind)
    BY <1>1, <1>4
  <1> HIDE DEF n
  <1>7. CASE m.task = t /\ m.kind = kind
    <2>1. \A i : i \in About(t, kind)' <=> i \in About(t, kind) \cup {n}
      BY <1>1, <1>3, <1>4, <1>5, <1>7 DEF n
    <2> QED BY <1>7, <2>1, Zenon DEF n
  <1>8. CASE ~(m.task = t /\ m.kind = kind)
    <2>1. \A i : i \in About(t, kind)' <=> i \in About(t, kind)
      BY <1>1, <1>3, <1>4, <1>5, <1>6, <1>8 DEF n
    <2> QED BY <1>8, <2>1, Zenon
  <1> QED BY <1>7, <1>8

(* Tasks other than the one spoken of keep what they have, and so does any *)
(* task when no code of it is published.                                   *)
LEMMA ExecutedKept ==
  ASSUME NEW S, messages \in Seq(S), NEW m, messages' = Append(messages, m), m \in S,
         m.kind # "split", NEW t, m.kind = "code" => m.task # t,
         \E i \in About(t, "executed") : \A j \in About(t, "code") : j < i
  PROVE  (\E i \in About(t, "executed") : \A j \in About(t, "code") : j < i)'
  <1>1. About(t, "executed") \subseteq About(t, "executed")'
    BY AboutAppend
  <1>2. About(t, "code")' = About(t, "code")
    BY AboutAppend
  <1> QED BY <1>1, <1>2

(* A message that the task at hand has been executed comes last. *)
LEMMA ExecutedNow ==
  ASSUME NEW S, messages \in Seq(S), NEW m, messages' = Append(messages, m), m \in S,
         m.kind = "executed", NEW t, m.task = t
  PROVE  (\E i \in About(t, "executed") : \A j \in About(t, "code") : j < i)'
  <1>1. Len(messages) + 1 \in About(t, "executed")'
    BY AboutAppend
  <1>2. About(t, "code")' = About(t, "code")
    BY AboutAppend
  <1>3. \A j \in About(t, "code") : j < Len(messages) + 1
    BY DEF About
  <1> QED BY <1>1, <1>2, <1>3
-----------------------------------------------------------------------------
LEMMA CollaborationInit == Init => CollaborationInv
  <1> SUFFICES ASSUME Init PROVE CollaborationInv
    OBVIOUS
  <1>1. TypeOK
    BY CollaborationAssumption DEF Init, TypeOK
  <1>2. TasksFit
    BY DEF Init, TasksFit, AtTask, Over
  <1>3. CountsFit /\ ReportsFit
    BY DEF Init, CountsFit, ReportsFit
  <1>4. ExecutedLast
    BY DEF Init, ExecutedLast
  <1> QED BY <1>1, <1>2, <1>3, <1>4 DEF CollaborationInv

(* The steps that neither say nor complete anything. *)
Quiet ==
  \/ Round \/ StartTask \/ TasksDone \/ GiveUp \/ AnalyseFails \/ ExecuteFails \/ ExecuteBad
  \/ SplitTaskFails \/ DesignFails \/ ImplementFails \/ CritiqueFails

LEMMA TypeStep == CollaborationInv /\ [Next]_vars => TypeOK'
  <1> SUFFICES ASSUME CollaborationInv, [Next]_vars PROVE TypeOK'
    OBVIOUS
  <1> USE CollaborationAssumption DEF CollaborationInv
  <1>0. /\ \A kind \in Headed : Text(kind) \in Report
        /\ \A kind \in {"initialized", "executed", "completed"} : Text(kind) \in Notice
        /\ Headed = {"split", "architecture", "code", "error", "critique"}
    BY TextType DEF Headed
  <1>1. CASE Initialize
    BY <1>0, <1>1 DEF Initialize, Say, TypeOK
  <1>2. CASE Round
    BY <1>2 DEF Round, TypeOK
  <1>3. CASE SplitTaskFails \/ DesignFails \/ ImplementFails \/ CritiqueFails \/ GiveUp
    BY <1>3 DEF SplitTaskFails, DesignFails, ImplementFails, CritiqueFails, GiveUp, Abort, TypeOK
  <1>4. CASE Split
    <2>1. [Text("split") EXCEPT !.task = 0, !.attempt = 0] \in Report
      BY <1>0, TextOfPhase
    <2>2. PICK n \in 0 .. MaxTasks : tasks' = [i \in 1 .. n |-> "pending"]
      BY <1>4 DEF Split, ConvertToDomainTasks
    <2>3. tasks' \in Seq({"pending", "completed"}) /\ Len(tasks') <= MaxTasks
      BY <2>2
    <2> QED BY <1>4, <2>1, <2>3 DEF Split, Publish, TypeOK
  <1>5. CASE Design
    BY <1>0, <1>5 DEF Design, Publish, TypeOK
  <1>6. CASE StartTask
    <2>1. FirstHeaded \in Nat
      BY FirstHeadedType DEF TypeOK
    <2> QED BY <1>6, <2>1 DEF StartTask, TypeOK
  <1>7. CASE TasksDone \/ AnalyseFails \/ ExecuteFails \/ ExecuteBad
    BY <1>7 DEF TasksDone, AnalyseFails, ExecuteFails, ExecuteBad, TypeOK
  <1>8. CASE Implement
    <2>1. [Text("code") EXCEPT !.attempt = retry + 1] \in Report
      BY <1>8, TextOfAttempt DEF Implement
    <2>2. tasks' \in Seq({"pending", "completed"}) /\ Len(tasks') = Len(tasks)
      BY <1>8, DoneType DEF Implement, TasksFit, AtTask, TypeOK
    <2> QED BY <1>8, <2>1, <2>2, SMTT(20) DEF Implement, Publish, TypeOK
  <1>9. CASE ExecuteGood
    <2>1. tasks' \in Seq({"pending", "completed"}) /\ Len(tasks') = Len(tasks)
      BY <1>9, DoneType DEF ExecuteGood, TasksFit, AtTask
    <2> QED BY <1>0, <1>9, <2>1 DEF ExecuteGood, Say, TypeOK
  <1>10. CASE Analyse
    <2>1. retry \in 1 .. MaxRetries
      BY <1>10 DEF Analyse, CountsFit, TypeOK
    <2>2. Append(reference.errors, retry) \in Seq(1 .. MaxRetries)
      BY <2>1 DEF TypeOK
    <2>3. reference' \in [report : Nat, errors : Seq(1 .. MaxRetries)]
      BY <1>10, <2>2 DEF Analyse, TypeOK
    <2> QED BY <1>0, <1>10, <2>3 DEF Analyse, Publish, TypeOK
  <1>11. CASE Critique
    <2>1. [Text("critique") EXCEPT !.task = 0, !.attempt = 0] \in Report
      BY <1>0, TextOfPhase
    <2>2. FirstHeaded \in Nat /\ <<>> \in Seq(1 .. MaxRetries)
      BY FirstHeadedType DEF TypeOK
    <2> QED BY <1>11, <2>1, <2>2 DEF Critique, Publish, TypeOK
  <1>12. CASE Complete
    BY <1>0, <1>12 DEF Complete, Say, TypeOK
  <1>13. CASE UNCHANGED vars
    BY <1>13 DEF vars, TypeOK
  <1> QED BY <1>1, <1>2, <1>3, <1>4, <1>5, <1>6, <1>7, <1>8, <1>9, <1>10, <1>11, <1>12, <1>13
          DEF Next, Step, Execution

(* Where the workflow stands. *)
LEMMA FitStep == CollaborationInv /\ [Next]_vars => TasksFit' /\ CountsFit' /\ ReportsFit'
  <1> SUFFICES ASSUME CollaborationInv, [Next]_vars
               PROVE  TasksFit' /\ CountsFit' /\ ReportsFit'
    OBVIOUS
  <1> USE CollaborationAssumption DEF CollaborationInv, TasksFit, CountsFit, ReportsFit, AtTask, Over
  <1>1. CASE Initialize
    BY <1>1 DEF Initialize, Say, TypeOK, Init
  <1>2. CASE Round
    BY <1>2 DEF Round, TypeOK
  <1>3. CASE SplitTaskFails \/ DesignFails \/ ImplementFails \/ CritiqueFails \/ GiveUp
    BY <1>3 DEF SplitTaskFails, DesignFails, ImplementFails, CritiqueFails, GiveUp, Abort
  <1>4. CASE Split
    <2>1. reports' # <<>>
      <3>1. \E r : reports' = Append(reports, r)
        BY <1>4 DEF Split, Publish
      <3> QED BY <3>1, ReportsGrow
    <2> QED BY <1>4, <2>1 DEF Split, ConvertToDomainTasks, TypeOK
  <1>5. CASE Design
    <2>1. reports' # <<>>
      <3>1. \E r : reports' = Append(reports, r)
        BY <1>5 DEF Design, Publish
      <3> QED BY <3>1, ReportsGrow
    <2> QED BY <1>5, <2>1 DEF Design, TypeOK
  <1>6. CASE StartTask
    BY <1>6 DEF StartTask, TypeOK
  <1>7. CASE TasksDone \/ AnalyseFails \/ ExecuteFails \/ ExecuteBad
    BY <1>7, SMTT(20) DEF TasksDone, AnalyseFails, ExecuteFails, ExecuteBad, TypeOK
  <1>8. CASE Implement
    <2>1. /\ pc = "attempt" /\ task' = task /\ task \in 1 .. Len(tasks) /\ retry' = retry + 1
          /\ reports' # <<>> /\ UNCHANGED iteration
      <3>1. pc = "attempt" /\ task' = task /\ retry' = retry + 1 /\ UNCHANGED iteration
        BY <1>8 DEF Implement
      <3>2. \E r : reports' = Append(reports, r)
        BY <1>8 DEF Implement, Publish
      <3>3. reports' # <<>>
        BY <3>2, ReportsGrow
      <3>4. task \in 1 .. Len(tasks)
        BY <3>1 DEF TypeOK
      <3> QED BY <3>1, <3>3, <3>4
    <2>2. \/ pc' = "execute" /\ UNCHANGED tasks
          \/ pc' = "develop" /\ Done(task)
      BY <1>8 DEF Implement
    <2>3. \A t \in 1 .. Len(tasks) : tasks[t] = "completed" <=> t < task
      BY <2>1
    <2>4. CASE pc' = "execute" /\ UNCHANGED tasks
      BY <2>1, <2>3, <2>4 DEF TypeOK
    <2>5. CASE pc' = "develop" /\ Done(task)
      <3>1. \A t \in 1 .. Len(tasks') : tasks'[t] = "completed" <=> t <= task
        BY <2>1, <2>3, <2>5, DoneType DEF TypeOK
      <3>2. TasksFit'
        BY <2>1, <2>5, <3>1
      <3>3. CountsFit' /\ ReportsFit'
        BY <2>1, <2>5
      <3> HIDE DEF TasksFit, CountsFit, ReportsFit
      <3> QED BY <3>2, <3>3
    <2> QED BY <2>2, <2>4, <2>5
  <1>9. CASE ExecuteGood
    <2>1. /\ pc = "execute" /\ pc' = "develop" /\ task' = task /\ task \in 1 .. Len(tasks)
          /\ Done(task) /\ UNCHANGED <<iteration, reports>>
      BY <1>9 DEF ExecuteGood, Say, TypeOK
    <2>2. \A t \in 1 .. Len(tasks) : tasks[t] = "completed" <=> t < task
      BY <2>1
    <2>3. \A t \in 1 .. Len(tasks') : tasks'[t] = "completed" <=> t <= task
      BY <2>1, <2>2, DoneType DEF TypeOK
    <2>4. TasksFit'
      BY <2>1, <2>3
    <2>5. CountsFit' /\ ReportsFit'
      BY <2>1
    <2> HIDE DEF TasksFit, CountsFit, ReportsFit
    <2> QED BY <2>4, <2>5
  <1>10. CASE Analyse
    <2>1. reports' # <<>>
      <3>1. \E r : reports' = Append(reports, r)
        BY <1>10 DEF Analyse, Publish
      <3> QED BY <3>1, ReportsGrow
    <2> QED BY <1>10, <2>1 DEF Analyse, TypeOK
  <1>11. CASE Critique
    <2>1. reports' # <<>>
      <3>1. \E r : reports' = Append(reports, r)
        BY <1>11 DEF Critique, Publish
      <3> QED BY <3>1, ReportsGrow
    <2> QED BY <1>11, <2>1 DEF Critique, TypeOK
  <1>12. CASE Complete
    BY <1>12 DEF Complete, Say
  <1>13. CASE UNCHANGED vars
    BY <1>13 DEF vars
  <1> QED BY <1>1, <1>2, <1>3, <1>4, <1>5, <1>6, <1>7, <1>8, <1>9, <1>10, <1>11, <1>12, <1>13
          DEF Next, Step, Execution

(* What has been executed stays the last word on a task that is done. *)
LEMMA ExecutedStep == CollaborationInv /\ [Next]_vars => ExecutedLast'
  <1> SUFFICES ASSUME CollaborationInv, [Next]_vars, hasRunner',
                      NEW t \in 1 .. Len(tasks'), tasks'[t] = "completed"
               PROVE  (\E i \in About(t, "executed") : \A j \in About(t, "code") : j < i)'
    BY DEF ExecutedLast
  <1> DEFINE LastWord(u) == \E i \in About(u, "executed") : \A j \in About(u, "code") : j < i
             AnyMessage == Report \cup Notice
  <1>0. /\ messages \in Seq(AnyMessage)
        /\ hasRunner => \A u \in 1 .. Len(tasks) : tasks[u] = "completed" => LastWord(u)
    BY DEF CollaborationInv, TypeOK, ExecutedLast
  <1>1. CASE Quiet \/ UNCHANGED vars
    <2>1. UNCHANGED <<hasRunner, tasks, messages>>
      BY <1>1 DEF Quiet, Round, StartTask, TasksDone, GiveUp, AnalyseFails, ExecuteFails, ExecuteBad,
                  SplitTaskFails, DesignFails, ImplementFails, CritiqueFails, Abort, vars
    <2> QED BY <1>0, <2>1 DEF About
  <1>2. ASSUME NEW m \in AnyMessage, messages' = Append(messages, m), m.kind \notin {"split", "code"},
               UNCHANGED <<hasRunner, tasks>>
        PROVE  LastWord(t)'
    <2>1. LastWord(t)
      BY <1>0, <1>2
    <2> QED BY <1>0, <1>2, <2>1, ExecutedKept
  <1>3. /\ \A kind \in {"initialized", "completed", "executed", "architecture", "error"} :
             Text(kind) \in AnyMessage /\ Text(kind).kind = kind /\ Text(kind).task = task
        /\ [Text("critique") EXCEPT !.task = 0, !.attempt = 0] \in AnyMessage
        /\ [Text("critique") EXCEPT !.task = 0, !.attempt = 0].kind = "critique"
    <2>1. "critique" \in Headed /\ "architecture" \in Headed /\ "error" \in Headed
      BY DEF Headed
    <2>2. \A kind : Text(kind).kind = kind /\ Text(kind).task = task
      BY DEF Text
    <2>3. [Text("critique") EXCEPT !.task = 0, !.attempt = 0].kind = "critique"
      BY DEF Text
    <2>4. [Text("critique") EXCEPT !.task = 0, !.attempt = 0] \in Report
      BY <2>1, TextOfPhase DEF CollaborationInv
    <2> QED BY <2>1, <2>2, <2>3, <2>4, TextType DEF CollaborationInv
  <1>4. CASE Initialize \/ Complete
    BY <1>2, <1>3, <1>4 DEF Initialize, Complete, Say
  <1>5. CASE Design \/ Analyse
    BY <1>2, <1>3, <1>5 DEF Design, Analyse, Publish
  <1>6. CASE Critique
    BY <1>2, <1>3, <1>6 DEF Critique, Publish
  <1>7. CASE Split
    <2>1. tasks'[t] = "pending"
      BY <1>7 DEF Split, ConvertToDomainTasks
    <2> QED BY <2>1
  <1>8. CASE Implement
    <2> DEFINE m == [Text("code") EXCEPT !.attempt = retry + 1]
    <2>1. m \in AnyMessage /\ m.kind = "code" /\ m.task = task
      <3>1. m \in Report
        BY <1>8, TextOfAttempt DEF Implement, CollaborationInv
      <3>2. m.kind = "code" /\ m.task = task
        BY DEF Text
      <3> QED BY <3>1, <3>2
    <2>2. messages' = Append(messages, m) /\ UNCHANGED <<hasRunner, tasks>> /\ pc = "attempt"
      BY <1>8 DEF Implement, Publish
    <2>3. LastWord(t) /\ t < task /\ task \in Nat
      BY <1>0, <2>2 DEF CollaborationInv, TasksFit, AtTask, TypeOK
    <2> HIDE DEF m
    <2>4. m.kind # "split" /\ m.task # t /\ t \in Int
      BY <2>1, <2>3
    <2> QED BY <1>0, <2>1, <2>2, <2>3, <2>4, ExecutedKept
  <1>9. CASE ExecuteGood
    <2> DEFINE m == Text("executed")
    <2>1. m \in AnyMessage /\ m.kind = "executed" /\ m.task = task
      BY <1>3
    <2>2. /\ messages' = Append(messages, m) /\ UNCHANGED hasRunner /\ Done(task)
          /\ pc = "execute" /\ task >= 1
      BY <1>9 DEF ExecuteGood, Say, CollaborationInv, TasksFit, AtTask
    <2> HIDE DEF m
    <2>3. CASE t = task
      <3>1. m.task = t
        BY <2>1, <2>3
      <3> QED BY <1>0, <2>1, <2>2, <3>1, ExecutedNow
    <2>4. CASE t # task
      <3>1. t \in 1 .. Len(tasks) /\ tasks[t] = "completed"
        BY <2>2, <2>4, DoneType DEF CollaborationInv
      <3>2. LastWord(t) /\ m.kind # "split" /\ m.kind # "code"
        BY <1>0, <2>1, <2>2, <3>1
      <3> QED BY <1>0, <2>1, <2>2, <3>2, ExecutedKept
    <2> QED BY <2>3, <2>4
  <1> QED BY <1>1, <1>4, <1>5, <1>6, <1>7, <1>8, <1>9 DEF Next, Step, Execution, Quiet

LEMMA CollaborationStep == CollaborationInv /\ [Next]_vars => CollaborationInv'
  BY TypeStep, FitStep, ExecutedStep DEF CollaborationInv
-----------------------------------------------------------------------------
(* Every variable of the workflow keeps its type, for any numbers of       *)
(* rounds, tasks and attempts (workflow.go:63-428).                        *)
THEOREM CollaborationTypeCorrect == Spec => []TypeOK
  <1>1. CollaborationInv => TypeOK
    BY DEF CollaborationInv
  <1> QED BY <1>1, CollaborationInit, CollaborationStep, PTL DEF Spec

(* No failure is taken for success: a completed task has been executed     *)
(* after its last code, a completed project has only completed tasks       *)
(* (workflow.go:250-350, 408-428).                                         *)
THEOREM CompletedMeansExecutedCorrect == Spec => []CompletedMeansExecuted
  <1>1. CollaborationInv => CompletedMeansExecuted
    BY DEF CollaborationInv, TasksFit, CountsFit, ExecutedLast, CompletedMeansExecuted, Over
  <1> QED BY <1>1, CollaborationInit, CollaborationStep, PTL DEF Spec
-----------------------------------------------------------------------------
(* The report that serves as the architecture of every task, in every      *)
(* round, is the first of all: the split of the first round.               *)
FirstSplitServes ==
  /\ reports # <<>> => reports[1].kind = "split"
  /\ pc \in AtTask => reference.report = 1

LEMMA FirstSplitInit == Init => FirstSplitServes
  BY DEF Init, FirstSplitServes, AtTask

LEMMA FirstSplitStep == CollaborationInv /\ FirstSplitServes /\ [Next]_vars => FirstSplitServes'
  <1> SUFFICES ASSUME CollaborationInv, FirstSplitServes, [Next]_vars PROVE FirstSplitServes'
    OBVIOUS
  <1>0. reports \in Seq(Report) /\ reference \in [report : Nat, errors : Seq(1 .. MaxRetries)]
    BY DEF CollaborationInv, TypeOK
  <1>1. CASE Quiet
    <2>1. reports' = reports
      BY <1>1 DEF Quiet, Round, StartTask, TasksDone, GiveUp, AnalyseFails, ExecuteFails, ExecuteBad,
                  SplitTaskFails, DesignFails, ImplementFails, CritiqueFails, Abort
    <2>2. CASE StartTask
      <3>1. reports # <<>>
        BY <2>2 DEF StartTask, CollaborationInv, ReportsFit
      <3>2. FirstHeaded = 1
        BY <1>0, <3>1, FirstHeadedIsFirst
      <3> QED BY <2>1, <2>2, <3>2 DEF StartTask, FirstSplitServes
    <2>3. CASE Quiet /\ ~StartTask
      BY <2>1, <2>3 DEF Quiet, Round, TasksDone, GiveUp, AnalyseFails, ExecuteFails, ExecuteBad,
                  SplitTaskFails, DesignFails, ImplementFails, CritiqueFails, Abort, FirstSplitServes, AtTask
    <2> QED BY <1>1, <2>2, <2>3
  <1>2. CASE Initialize \/ Complete \/ ExecuteGood
    BY <1>2 DEF Initialize, Complete, ExecuteGood, Say, FirstSplitServes, AtTask
  <1>3. ASSUME NEW m, reports' = Append(reports, m), reports # <<>>
        PROVE  reports' # <<>> /\ reports'[1] = reports[1]
    <2>1. Len(reports) >= 1 /\ Len(reports) \in Nat
      BY <1>0, <1>3
    <2> QED BY <1>0, <1>3, <2>1, AppendNotEmpty
  <1>4. CASE Split
    <2> DEFINE m == [Text("split") EXCEPT !.task = 0, !.attempt = 0]
    <2>1. m.kind = "split"
      BY DEF Text
    <2>2. reports' = Append(reports, m) /\ pc' \notin AtTask
      BY <1>4 DEF Split, Publish, AtTask
    <2> HIDE DEF m
    <2>3. CASE reports = <<>>
      BY <2>1, <2>2, <2>3 DEF FirstSplitServes
    <2>4. CASE reports # <<>>
      BY <1>3, <2>2, <2>4 DEF FirstSplitServes
    <2> QED BY <2>3, <2>4
  <1>5. CASE Design \/ Critique
    <2>1. reports # <<>> /\ pc' \notin AtTask
      BY <1>5 DEF Design, Critique, AtTask, CollaborationInv, ReportsFit
    <2> QED BY <1>3, <1>5, <2>1 DEF Design, Critique, Publish, FirstSplitServes
  <1>6. CASE Implement \/ Analyse
    <2>1. reports # <<>> /\ pc \in AtTask
      BY <1>6 DEF Implement, Analyse, AtTask, CollaborationInv, ReportsFit
    <2>2. reference'.report = reference.report
      BY <1>0, <1>6 DEF Implement, Analyse
    <2> QED BY <1>3, <1>6, <2>1, <2>2 DEF Implement, Analyse, Publish, FirstSplitServes
  <1>7. CASE UNCHANGED vars
    BY <1>7 DEF vars, FirstSplitServes, AtTask
  <1> QED BY <1>1, <1>2, <1>4, <1>5, <1>6, <1>7 DEF Next, Step, Execution, Quiet

(* Where workflow.go:224 looks for the latest architecture report, every   *)
(* task of every round is shown the report of the first split, never a     *)
(* design: all reports begin with the two characters it looks for.         *)
THEOREM PromptShowsFirstSplit == Spec => []FirstSplitServes
  <1> QED BY CollaborationInit, CollaborationStep, FirstSplitInit, FirstSplitStep, PTL DEF Spec
-----------------------------------------------------------------------------
(* The errors on record: none is of a later round, task or attempt, and    *)
(* those of the attempt at hand are still to come.                         *)
ErrorsOfPast ==
  \A i \in 1 .. Len(reports) : reports[i].kind = "error" =>
    /\ reports[i].iteration <= iteration
    /\ reports[i].iteration = iteration =>
         /\ pc \notin {"init", "split", "architecture"}
         /\ reports[i].task <= task
         /\ reports[i].task = task =>
              /\ pc = "attempt" => reports[i].attempt <= retry
              /\ pc \in {"execute", "analyse"} => reports[i].attempt < retry

FeedbackInv == CollaborationInv /\ ErrorsOfPast /\ FeedbackIsOwn

(* A report that is no error is nobody's error. *)
LEMMA OtherReport ==
  ASSUME reports \in Seq(Report), NEW m \in Report, m.kind # "error", reports' = Append(reports, m)
  PROVE  /\ \A i \in 1 .. Len(reports') : reports'[i].kind = "error" =>
              i \in 1 .. Len(reports) /\ reports'[i] = reports[i]
         /\ UNCHANGED <<iteration, task>> =>
              OwnErrors' = OwnErrors /\ \A i \in OwnErrors : reports'[i] = reports[i]
  <1>1. /\ Len(reports) \in Nat /\ Len(reports') = Len(reports) + 1
        /\ reports'[Len(reports) + 1] = m
        /\ \A i \in 1 .. Len(reports) : reports'[i] = reports[i]
    OBVIOUS
  <1>2. \A i \in 1 .. Len(reports') : reports'[i].kind = "error" => i \in 1 .. Len(reports)
    BY <1>1
  <1>3. ASSUME UNCHANGED <<iteration, task>>
        PROVE  \A i : i \in OwnErrors' <=> i \in OwnErrors
    BY <1>1, <1>2, <1>3 DEF OwnErrors
  <1>4. OwnErrors \subseteq 1 .. Len(reports)
    BY DEF OwnErrors
  <1>5. UNCHANGED <<iteration, task>> => OwnErrors' = OwnErrors
    BY <1>3
  <1> QED BY <1>1, <1>2, <1>4, <1>5

(* The prompt of the task at hand changes neither by another report nor by *)
(* a step that leaves reports, errors and task alone.                      *)
LEMMA FeedbackKept ==
  ASSUME FeedbackInv, UNCHANGED <<iteration, task, reference>>, pc \in AtTask,
         \/ UNCHANGED reports
         \/ \E m \in Report : m.kind # "error" /\ reports' = Append(reports, m)
  PROVE  FeedbackIsOwn'
  <1>1. OwnErrors' = OwnErrors /\ \A i \in OwnErrors : reports'[i] = reports[i]
    <2>1. CASE UNCHANGED reports
      BY <2>1 DEF OwnErrors
    <2>2. CASE \E m \in Report : m.kind # "error" /\ reports' = Append(reports, m)
      BY <2>2, OtherReport DEF FeedbackInv, CollaborationInv, TypeOK
    <2> QED BY <2>1, <2>2
  <1> QED BY <1>1 DEF FeedbackInv, FeedbackIsOwn, AtTask

LEMMA FeedbackInit == Init => ErrorsOfPast /\ FeedbackIsOwn
  BY DEF Init, ErrorsOfPast, FeedbackIsOwn

(* Steps that report no error. *)
LEMMA ErrorsStep == FeedbackInv /\ [Next]_vars /\ ~Analyse => ErrorsOfPast'
  <1> SUFFICES ASSUME FeedbackInv, [Next]_vars, ~Analyse PROVE ErrorsOfPast'
    OBVIOUS
  <1>0. /\ reports \in Seq(Report) /\ \A i \in 1 .. Len(reports) : reports[i] \in Report
        /\ iteration \in Nat /\ task \in Nat /\ retry \in Nat
    <2>1. reports \in Seq(Report) /\ iteration \in Nat /\ task \in Nat /\ retry \in Nat
      BY DEF FeedbackInv, CollaborationInv, TypeOK
    <2> QED BY <2>1
  <1>1. \A i \in 1 .. Len(reports) :
          reports[i].iteration \in Nat /\ reports[i].task \in Nat /\ reports[i].attempt \in Nat
    <2>1. \A m \in Report : m.iteration \in Nat /\ m.task \in Nat /\ m.attempt \in Nat
      BY CollaborationAssumption DEF Report
    <2> QED BY <1>0, <2>1
  <1>2. \A i \in 1 .. Len(reports') : reports'[i].kind = "error" =>
          i \in 1 .. Len(reports) /\ reports'[i] = reports[i]
    <2>1. CASE UNCHANGED reports
      BY <2>1
    <2>2. ASSUME NEW m \in Report, m.kind # "error", reports' = Append(reports, m)
          PROVE  \A i \in 1 .. Len(reports') : reports'[i].kind = "error" =>
                   i \in 1 .. Len(reports) /\ reports'[i] = reports[i]
      BY <1>0, <2>2, OtherReport
    <2>3. CASE Split
      <3>1. [Text("split") EXCEPT !.task = 0, !.attempt = 0].kind = "split"
        BY DEF Text
      <3> QED BY <2>2, <2>3, <3>1, TextOfPhase DEF Split, Publish, FeedbackInv, CollaborationInv, Headed
    <2>4. CASE Critique
      <3>1. [Text("critique") EXCEPT !.task = 0, !.attempt = 0].kind = "critique"
        BY DEF Text
      <3> QED BY <2>2, <2>4, <3>1, TextOfPhase DEF Critique, Publish, FeedbackInv, CollaborationInv, Headed
    <2>5. CASE Design
      <3>1. Text("architecture").kind = "architecture"
        BY DEF Text
      <3> QED BY <2>2, <2>5, <3>1, TextType DEF Design, Publish, FeedbackInv, CollaborationInv, Headed
    <2>6. CASE Implement
      <3>1. [Text("code") EXCEPT !.attempt = retry + 1].kind = "code"
        BY DEF Text
      <3> QED BY <2>2, <2>6, <3>1, TextOfAttempt DEF Implement, Publish, FeedbackInv, CollaborationInv
    <2>7. CASE Quiet \/ Initialize \/ Complete \/ ExecuteGood \/ UNCHANGED vars
      BY <2>1, <2>7 DEF Quiet, Round, StartTask, TasksDone, GiveUp, AnalyseFails, ExecuteFails, ExecuteBad,
           SplitTaskFails, DesignFails, ImplementFails, CritiqueFails, Abort, Initialize, Complete,
           ExecuteGood, Say, vars
    <2> QED BY <2>3, <2>4, <2>5, <2>6, <2>7 DEF Next, Step, Execution, Quiet
  <1> SUFFICES ASSUME NEW i \in 1 .. Len(reports), reports[i].kind = "error", reports'[i] = reports[i]
               PROVE  /\ reports[i].iteration <= iteration'
                      /\ reports[i].iteration = iteration' =>
                           /\ pc' \notin {"init", "split", "architecture"}
                           /\ reports[i].task <= task'
                           /\ reports[i].task = task' =>
                                /\ pc' = "attempt" => reports[i].attempt <= retry'
                                /\ pc' \in {"execute", "analyse"} => reports[i].attempt < retry'
    BY <1>2 DEF ErrorsOfPast
  <1>3. /\ reports[i].iteration <= iteration
        /\ reports[i].iteration = iteration =>
             /\ pc \notin {"init", "split", "architecture"}
             /\ reports[i].task <= task
             /\ reports[i].task = task =>
                  /\ pc = "attempt" => reports[i].attempt <= retry
                  /\ pc \in {"execute", "analyse"} => reports[i].attempt < retry
    BY DEF FeedbackInv, ErrorsOfPast
  <1>4. CASE Round \/ StartTask
    BY <1>0, <1>1, <1>3, <1>4 DEF Round, StartTask
  <1>5. CASE TasksDone \/ AnalyseFails \/ ExecuteFails \/ ExecuteBad
    BY <1>0, <1>1, <1>3, <1>5 DEF TasksDone, AnalyseFails, ExecuteFails, ExecuteBad
  <1>6. CASE SplitTaskFails \/ DesignFails \/ ImplementFails \/ CritiqueFails \/ GiveUp
    BY <1>0, <1>1, <1>3, <1>6
       DEF SplitTaskFails, DesignFails, ImplementFails, CritiqueFails, GiveUp, Abort
  <1>7. CASE Split \/ Design \/ Critique
    BY <1>0, <1>1, <1>3, <1>7 DEF Split, Design, Critique
  <1>8. CASE Implement
    BY <1>0, <1>1, <1>3, <1>8 DEF Implement
  <1>9. CASE Initialize \/ Complete \/ ExecuteGood \/ UNCHANGED vars
    BY <1>0, <1>1, <1>3, <1>9 DEF Initialize, Complete, ExecuteGood, vars
  <1> QED BY <1>4, <1>5, <1>6, <1>7, <1>8, <1>9 DEF Next, Step, Execution

(* An analysis adds its own attempt, the last so far, to both.            *)
LEMMA AnalyseStep == FeedbackInv /\ Analyse => ErrorsOfPast' /\ FeedbackIsOwn'
  <1> SUFFICES ASSUME FeedbackInv, Analyse PROVE ErrorsOfPast' /\ FeedbackIsOwn'
    OBVIOUS
  <1> DEFINE m == Text("error")
             n == Len(reports) + 1
             errors == reference.errors
  <1>1. /\ pc = "analyse" /\ pc' = "attempt" /\ UNCHANGED <<iteration, task, retry>>
        /\ reports' = Append(reports, m) /\ reference' = [reference EXCEPT !.errors = Append(@, retry)]
    BY DEF Analyse, Publish
  <1>2. /\ reports \in Seq(Report) /\ errors \in Seq(1 .. MaxRetries)
        /\ reference \in [report : Nat, errors : Seq(1 .. MaxRetries)]
        /\ iteration \in Nat /\ task \in Nat /\ retry \in Nat
    BY DEF FeedbackInv, CollaborationInv, TypeOK
  <1>3. m.kind = "error" /\ m.iteration = iteration /\ m.task = task /\ m.attempt = retry
    BY DEF Text
  <1>4. reference'.errors = Append(errors, retry)
    BY <1>1, <1>2
  <1> HIDE DEF m
  <1>5. /\ Len(reports) \in Nat /\ Len(reports') = n
        /\ reports'[n] = m /\ \A i \in 1 .. Len(reports) : reports'[i] = reports[i]
    BY <1>1, <1>2
  <1>6. OwnErrors' = OwnErrors \cup {n} /\ OwnErrors \subseteq 1 .. Len(reports)
    <2>1. \A i : i \in OwnErrors' <=> i \in OwnErrors \cup {n}
      BY <1>1, <1>3, <1>5 DEF OwnErrors
    <2>2. OwnErrors \subseteq 1 .. Len(reports)
      BY DEF OwnErrors
    <2> QED BY <2>1, <2>2, Zenon
  <1>7. \A i \in OwnErrors : reports[i].attempt < retry
    BY <1>1 DEF OwnErrors, FeedbackInv, ErrorsOfPast
  <1>8. /\ Range(errors) = {reports[i].attempt : i \in OwnErrors}
        /\ \A i, j \in DOMAIN errors : i < j => errors[i] < errors[j]
        /\ \A i, j \in OwnErrors : i < j => reports[i].attempt < reports[j].attempt
    BY <1>1 DEF FeedbackInv, FeedbackIsOwn
  <1>9. ErrorsOfPast'
    <2>1. \A i \in 1 .. Len(reports) : reports[i] \in Report
      BY <1>2
    <2>2. \A i \in 1 .. Len(reports) : reports[i].attempt \in Nat
      BY <2>1, CollaborationAssumption DEF Report
    <2>3. \A i \in 1 .. n : i = n \/ i \in 1 .. Len(reports)
      BY <1>5
    <2> QED BY <1>1, <1>2, <1>3, <1>5, <2>2, <2>3 DEF FeedbackInv, ErrorsOfPast
  <1> HIDE DEF n
  <1>10. Range(reference'.errors) = {reports'[i].attempt : i \in OwnErrors'}
    <2>1. Range(Append(errors, retry)) = Range(errors) \cup {retry}
      <3> DEFINE s == Append(errors, retry)
      <3>1. /\ Len(errors) \in Nat /\ DOMAIN s = 1 .. Len(errors) + 1 /\ DOMAIN errors = 1 .. Len(errors)
            /\ s[Len(errors) + 1] = retry /\ \A i \in 1 .. Len(errors) : s[i] = errors[i]
        BY <1>2
      <3> HIDE DEF s
      <3>2. \A x : x \in Range(s) <=> x \in Range(errors) \cup {retry}
        BY <3>1 DEF Range
      <3> QED BY <3>2, Zenon DEF s
    <2>2. {reports'[i].attempt : i \in OwnErrors'} = {reports[i].attempt : i \in OwnErrors} \cup {retry}
      <3>1. \A i \in OwnErrors : reports'[i].attempt = reports[i].attempt
        BY <1>5, <1>6
      <3>2. reports'[n].attempt = retry
        BY <1>3, <1>5
      <3> QED BY <1>6, <3>1, <3>2
    <2> QED BY <1>4, <1>8, <2>1, <2>2
  <1>11. \A i, j \in DOMAIN reference'.errors : i < j => reference'.errors[i] < reference'.errors[j]
    <2>1. \A i \in DOMAIN errors : errors[i] < retry
      BY <1>7, <1>8 DEF Range
    <2> QED BY <1>2, <1>4, <1>8, <2>1
  <1>12. \A i, j \in OwnErrors' : i < j => reports'[i].attempt < reports'[j].attempt
    <2>1. /\ \A i \in OwnErrors : i < n /\ i \in Int /\ i # n /\ reports'[i].attempt = reports[i].attempt
          /\ n \in Int /\ reports'[n].attempt = retry
      <3>1. n = Len(reports) + 1 /\ Len(reports) \in Nat
        BY <1>5 DEF n
      <3>2. \A i \in OwnErrors : i \in 1 .. Len(reports)
        BY <1>6
      <3>3. reports'[n].attempt = retry /\ \A i \in OwnErrors : reports'[i].attempt = reports[i].attempt
        BY <1>3, <1>5, <3>2
      <3>4. n \in Int /\ \A i \in OwnErrors : i < n /\ i \in Int /\ i # n
        BY <3>1, <3>2
      <3> QED BY <3>3, <3>4
    <2>2. \A i \in OwnErrors : ~(n < i)
      BY <2>1
    <2>3. ~(n < n)
      BY <2>1
    <2> QED BY <1>6, <1>7, <1>8, <2>1, <2>2, <2>3
  <1> QED BY <1>9, <1>10, <1>11, <1>12 DEF FeedbackIsOwn

LEMMA FeedbackStep == FeedbackInv /\ [Next]_vars => FeedbackInv'
  <1> SUFFICES ASSUME FeedbackInv, [Next]_vars, ~Analyse PROVE FeedbackIsOwn'
    BY AnalyseStep, ErrorsStep, CollaborationStep DEF FeedbackInv
  <1>1. CASE StartTask
    <2>1. OwnErrors' = {}
      BY <1>1 DEF StartTask, OwnErrors, FeedbackInv, ErrorsOfPast, CollaborationInv, TypeOK
    <2>2. reference'.errors = <<>>
      BY <1>1 DEF StartTask
    <2> QED BY <2>1, <2>2 DEF FeedbackIsOwn, Range
  <1>2. CASE Implement
    <2>1. /\ [Text("code") EXCEPT !.attempt = retry + 1] \in Report
          /\ [Text("code") EXCEPT !.attempt = retry + 1].kind = "code"
      BY <1>2, TextOfAttempt DEF Implement, FeedbackInv, CollaborationInv, Text
    <2> QED BY <1>2, <2>1, FeedbackKept DEF Implement, Publish, AtTask
  <1>3. CASE AnalyseFails \/ ExecuteFails \/ ExecuteBad
    BY <1>3, FeedbackKept DEF AnalyseFails, ExecuteFails, ExecuteBad, AtTask
  <1>4. CASE UNCHANGED vars
    BY <1>4, FeedbackKept DEF vars, AtTask, FeedbackIsOwn
  <1>5. CASE pc' \notin AtTask
    BY <1>5 DEF FeedbackIsOwn, AtTask
  <1>6. StartTask \/ Implement \/ AnalyseFails \/ ExecuteFails \/ ExecuteBad \/ UNCHANGED vars \/ pc' \notin AtTask
    BY DEF Next, Step, Execution, Initialize, Round, Split, Design, TasksDone, GiveUp, Critique, Complete,
           SplitTaskFails, DesignFails, ImplementFails, CritiqueFails, Abort, ExecuteGood, AtTask
  <1> QED BY <1>1, <1>2, <1>3, <1>4, <1>5, <1>6

(* An error is quoted to the task, the round and the attempts it belongs   *)
(* to, once and in order, however executions and analyses fail             *)
(* (workflow.go:254-324).                                                  *)
THEOREM FeedbackIsOwnCorrect == Spec => []FeedbackIsOwn
  <1>1. FeedbackInv => FeedbackIsOwn
    BY DEF FeedbackInv
  <1>2. Init => FeedbackInv
    BY CollaborationInit, FeedbackInit DEF FeedbackInv
  <1> QED BY <1>1, <1>2, FeedbackStep, PTL DEF Spec
-----------------------------------------------------------------------------
(***************************************************************************)
(* The Docker runner.  Its invariant, DockerInv, is one of each call: its  *)
(* containers are numbered as they are made, what is deferred is its       *)
(* directory and then what this try has made, and whatever is there is     *)
(* deferred or refused.  A step keeps it for the call that takes it, one   *)
(* lemma per action, and leaves the other calls alone (OthersUntouched).   *)
(***************************************************************************)
(* Statements of a method, and how many of those before i are creates. *)
Length(o) == IF o = "validate" THEN 6 ELSE IF o = "tidy" THEN 11 ELSE 8

Creates(o, i) ==
  IF o = "validate" THEN (IF i > 2 THEN 1 ELSE 0)
  ELSE (IF i > 4 THEN 1 ELSE 0) + (IF o = "tidy" /\ i > 7 THEN 1 ELSE 0)

Count(c) == Cardinality(Made(c))

Things(c) == Range(deferred[c])

(* Containers are numbered as they are made. *)
MadeFirst(c) == Count(c) \in Nat /\ Made(c) = {<<c, i>> : i \in 1 .. Count(c)}

(* Where a call is, and how many containers it has made by then. *)
WhereFits(c) ==
  /\ phase[c] = "idle" => answer[c] # "passed" /\ IF callTries[c] = 0 THEN Count(c) = 0
                                                  ELSE op[c] = "retry" /\ callTries[c] < MaxTries
  /\ phase[c] = "body" =>
       /\ at[c] \in 1 .. Length(op[c]) /\ answer[c] = "none"
       /\ Count(c) >= Creates(op[c], at[c])
       /\ Count(c) <= callTries[c] - 1 + Creates(op[c], at[c])
  /\ phase[c] # "idle" => callTries[c] >= 1 /\ (op[c] # "retry" => callTries[c] = 1)
  /\ Count(c) <= callTries[c] + (IF op[c] = "tidy" THEN 1 ELSE 0)

(* What is deferred: the directory first, then what this try has made. *)
DeferredFits(c) ==
  /\ phase[c] \in {"idle", "returned"} => deferred[c] = <<>>
  /\ phase[c] = "body" =>
       Len(deferred[c]) = (IF op[c] # "validate" /\ at[c] > 1 THEN 1 ELSE 0) + Creates(op[c], at[c])
  /\ \A i \in 1 .. Len(deferred[c]) : deferred[c][i] = Dir(c) <=> op[c] # "validate" /\ i = 1
  /\ deferred[c] # <<>> /\ op[c] # "validate" => c \in dirs

(* What is there is to be given back, unless that, or its creation, failed. *)
Owed(c) ==
  /\ c \in dirs => Dir(c) \in refused \cup Things(c)
  /\ \A k \in Made(c) : Present(k) => k \in refused \cup Things(c)

(* The container the body speaks of. *)
CurrentFits(c) ==
  phase[c] = "body" =>
    /\ At(c, "start") => containers[Current(c)] = "created"
    /\ At(c, "wait") => containers[Current(c)] \in {"running", "exited"}
    /\ At(c, "logs") \/ At(c, "inspect") => containers[Current(c)] = "exited"
    /\ op[c] = "tidy" /\ at[c] > 6 => containers[<<c, 1>>] = "exited"

(* A container has an exit code when it has ended. *)
CodeFits(c) ==
  \A i \in 1 .. MaxTries + 1 :
    /\ containers[<<c, i>>] \in {"none", "created", "running"} => code[<<c, i>>] = "none"
    /\ containers[<<c, i>>] = "exited" => code[<<c, i>>] # "none"

(* What has passed has ended. *)
PassedFits(c) ==
  answer[c] = "passed" =>
    /\ Count(c) >= 1 /\ containers[Current(c)] \in {"exited", "removed"} /\ code[Current(c)] = "zero"
    /\ op[c] = "tidy" =>
         Count(c) = 2 /\ containers[<<c, 1>>] \in {"exited", "removed"} /\ code[<<c, 1>>] # "none"

CallInv(c) ==
  /\ MadeFirst(c) /\ WhereFits(c) /\ DeferredFits(c) /\ Owed(c)
  /\ CurrentFits(c) /\ CodeFits(c) /\ PassedFits(c)

DockerInv == DockerTypeOK /\ \A c \in Calls : CallInv(c)
-----------------------------------------------------------------------------
(* The scripts, statement by statement. *)
LEMMA ScriptIs ==
  /\ LET s == Script("validate")
     IN  /\ Len(s) = 6 /\ s[1] = "pull" /\ s[2] = "create" /\ s[3] = "start" /\ s[4] = "wait"
         /\ s[5] = "logs" /\ s[6] = "inspect"
  /\ LET s == Script("tidy")
     IN  /\ Len(s) = 11 /\ s[1] = "mkdir" /\ s[2] = "write" /\ s[3] = "pull" /\ s[4] = "create"
         /\ s[5] = "start" /\ s[6] = "wait" /\ s[7] = "create" /\ s[8] = "start" /\ s[9] = "wait"
         /\ s[10] = "logs" /\ s[11] = "inspect"
  /\ \A o \in {"execute", "retry"} :
       LET s == Script(o)
       IN  /\ Len(s) = 8 /\ s[1] = "mkdir" /\ s[2] = "write" /\ s[3] = "pull" /\ s[4] = "create"
           /\ s[5] = "start" /\ s[6] = "wait" /\ s[7] = "logs" /\ s[8] = "inspect"
  BY DEF Script

(* Where each statement stands. *)
LEMMA Statements ==
  ASSUME NEW o \in Op, NEW i \in 1 .. Length(o)
  PROVE  /\ Len(Script(o)) = Length(o)
         /\ Script(o)[i] = "mkdir" => o # "validate" /\ i = 1
         /\ Script(o)[i] = "write" => o # "validate" /\ i = 2
         /\ Script(o)[i] = "pull" => i = IF o = "validate" THEN 1 ELSE 3
         /\ Script(o)[i] = "create" => i = (IF o = "validate" THEN 2 ELSE 4) \/ (o = "tidy" /\ i = 7)
         /\ Script(o)[i] = "start" => i = (IF o = "validate" THEN 3 ELSE 5) \/ (o = "tidy" /\ i = 8)
         /\ Script(o)[i] = "wait" => i = (IF o = "validate" THEN 4 ELSE 6) \/ (o = "tidy" /\ i = 9)
         /\ Script(o)[i] = "logs" => i = Length(o) - 1
         /\ Script(o)[i] = "inspect" => i = Length(o)
  <1>1. CASE o = "validate"
    <2>1. i = 1 \/ i = 2 \/ i = 3 \/ i = 4 \/ i = 5 \/ i = 6
      BY <1>1 DEF Length
    <2> QED BY <1>1, <2>1, ScriptIs DEF Length
  <1>2. CASE o = "tidy"
    <2>1. \/ i = 1 \/ i = 2 \/ i = 3 \/ i = 4 \/ i = 5 \/ i = 6
          \/ i = 7 \/ i = 8 \/ i = 9 \/ i = 10 \/ i = 11
      BY <1>2 DEF Length
    <2> QED BY <1>2, <2>1, ScriptIs DEF Length
  <1>3. CASE o \in {"execute", "retry"}
    <2>1. i = 1 \/ i = 2 \/ i = 3 \/ i = 4 \/ i = 5 \/ i = 6 \/ i = 7 \/ i = 8
      BY <1>3 DEF Length
    <2> QED BY <1>3, <2>1, ScriptIs DEF Length
  <1> QED BY <1>1, <1>2, <1>3 DEF Op

(* The values of one call. *)
LEMMA CallTypes ==
  ASSUME DockerTypeOK, NEW c \in Calls
  PROVE  /\ op[c] \in Op /\ phase[c] \in {"idle", "body", "unwind", "returned"} /\ at[c] \in Nat
         /\ callTries[c] \in 0 .. MaxTries /\ callTries[c] \in Nat
         /\ deferred[c] \in Seq(Container \cup {Dir(d) : d \in Calls}) /\ Len(deferred[c]) \in Nat
         /\ answer[c] \in {"none", "error", "passed", "failed"}
         /\ MaxTries \in Nat /\ MaxTries >= 1
         /\ \A i \in 1 .. MaxTries + 1 :
              /\ <<c, i>> \in Container /\ <<c, i>> # Dir(c)
              /\ containers[<<c, i>>] \in Life /\ code[<<c, i>>] \in {"none", "zero", "other"}
  <1>1. \A i \in 1 .. MaxTries + 1 : <<c, i>> \in Container /\ <<c, i>> # Dir(c)
    BY TriesAssumption DEF Container, Dir
  <1>2. /\ op[c] \in Op /\ phase[c] \in {"idle", "body", "unwind", "returned"} /\ at[c] \in 1 .. 11
        /\ callTries[c] \in 0 .. MaxTries /\ answer[c] \in {"none", "error", "passed", "failed"}
        /\ deferred[c] \in Seq(Container \cup {Dir(d) : d \in Calls})
    BY DEF DockerTypeOK
  <1>3. \A k \in Container : containers[k] \in Life /\ code[k] \in {"none", "zero", "other"}
    BY DEF DockerTypeOK
  <1>4. Len(deferred[c]) \in Nat
    BY <1>2
  <1> QED BY <1>1, <1>2, <1>3, <1>4, TriesAssumption

(* How many there are in a row. *)
LEMMA RowCount ==
  ASSUME NEW c, NEW n \in Nat
  PROVE  Cardinality({<<c, i>> : i \in 1 .. n}) = n
  <1> DEFINE R == {<<c, i>> : i \in 1 .. n}
             f == [i \in 1 .. n |-> <<c, i>>]
  <1>1. f \in Injection(1 .. n, R)
    BY DEF Injection, IsInjective
  <1>2. f \in Surjection(1 .. n, R)
    BY DEF Surjection
  <1>3. ExistsBijection(1 .. n, R)
    BY <1>1, <1>2 DEF ExistsBijection, Bijection
  <1>4. IsFiniteSet(1 .. n) /\ Cardinality(1 .. n) = n
    BY FS_Interval
  <1> QED BY <1>3, <1>4, FS_Bijection

(* The containers of a call, when none comes into being. *)
LEMMA MadeKept ==
  ASSUME NEW c \in Calls,
         \A i \in 1 .. MaxTries + 1 : containers'[<<c, i>>] = "none" <=> containers[<<c, i>>] = "none"
  PROVE  Made(c)' = Made(c) /\ Count(c)' = Count(c) /\ (MadeFirst(c) => MadeFirst(c)')
  <1>1. \A k \in Container : k[1] = c => k = <<c, k[2]>> /\ k[2] \in 1 .. MaxTries + 1
    BY DEF Container
  <1>2. \A k \in Container : k[1] = c => (containers'[k] = "none" <=> containers[k] = "none")
    BY <1>1
  <1>3. Made(c)' = Made(c)
    BY <1>2 DEF Made
  <1> QED BY <1>3 DEF Count, MadeFirst

(* A call of which a step changes nothing, but for resources that have been *)
(* refused meanwhile.                                                      *)
Untouched(c) ==
  /\ op'[c] = op[c] /\ phase'[c] = phase[c] /\ at'[c] = at[c] /\ callTries'[c] = callTries[c]
  /\ deferred'[c] = deferred[c] /\ answer'[c] = answer[c] /\ (c \in dirs' <=> c \in dirs)
  /\ \A i \in 1 .. MaxTries + 1 :
       containers'[<<c, i>>] = containers[<<c, i>>] /\ code'[<<c, i>>] = code[<<c, i>>]
  /\ refused \subseteq refused'

(* The container a call speaks of is one of its own. *)
LEMMA CurrentIsOwn ==
  ASSUME NEW c \in Calls, MadeFirst(c), Count(c) >= 1
  PROVE  /\ Count(c) \in 1 .. MaxTries + 1 /\ Current(c) = <<c, Count(c)>> /\ Current(c) \in Made(c)
         /\ \A i \in 1 .. MaxTries + 1 : containers[<<c, i>>] # "none" <=> i <= Count(c)
  <1>1. Current(c) = <<c, Count(c)>> /\ Count(c) \in Nat
    BY DEF Current, Count, MadeFirst
  <1>2. Current(c) \in Made(c)
    BY <1>1 DEF MadeFirst
  <1>3. Count(c) \in 1 .. MaxTries + 1
    BY <1>1, <1>2 DEF Made, Container
  <1>4. ASSUME NEW i \in 1 .. MaxTries + 1
        PROVE  containers[<<c, i>>] # "none" <=> i <= Count(c)
    <2>1. containers[<<c, i>>] # "none" <=> <<c, i>> \in Made(c)
      BY DEF Made, Container
    <2> QED BY <1>1, <2>1 DEF MadeFirst
  <1> QED BY <1>1, <1>2, <1>3, <1>4

(* Statements about a container come after its creation, in each try. *)
LEMMA CountInBody ==
  ASSUME DockerTypeOK, NEW c \in Calls, MadeFirst(c), WhereFits(c),
         At(c, "start") \/ At(c, "wait") \/ At(c, "logs") \/ At(c, "inspect")
  PROVE  /\ Count(c) >= 1
         /\ op[c] = "tidy" => Count(c) = Creates(op[c], at[c]) /\ (at[c] > 7 => Count(c) = 2)
                              /\ (at[c] <= 7 => Count(c) = 1)
  <1>1. /\ op[c] \in Op /\ at[c] \in 1 .. Length(op[c]) /\ Count(c) \in Nat
        /\ Count(c) >= Creates(op[c], at[c]) /\ Count(c) <= callTries[c] - 1 + Creates(op[c], at[c])
        /\ op[c] # "retry" => callTries[c] = 1
    BY CallTypes DEF At, WhereFits, MadeFirst
  <1>2. CASE op[c] = "validate"
    <2>1. at[c] > 2
      BY <1>1, <1>2, Statements DEF At, Length
    <2> QED BY <1>1, <1>2, <2>1 DEF Creates
  <1>3. CASE op[c] = "tidy"
    <2>1. at[c] > 4
      BY <1>1, <1>3, Statements DEF At, Length
    <2>2. Creates(op[c], at[c]) = IF at[c] > 7 THEN 2 ELSE 1
      BY <1>1, <1>3, <2>1 DEF Creates
    <2> QED BY <1>1, <1>3, <2>1, <2>2
  <1>4. CASE op[c] \in {"execute", "retry"}
    <2>1. at[c] > 4
      BY <1>1, <1>4, Statements DEF At, Length
    <2> QED BY <1>1, <1>4, <2>1 DEF Creates
  <1> QED BY <1>1, <1>2, <1>3, <1>4 DEF Op

(* A call keeps its invariant through the steps of others. *)
LEMMA UntouchedKept ==
  ASSUME DockerTypeOK, NEW c \in Calls, CallInv(c), Untouched(c)
  PROVE  CallInv(c)'
  <1>1. Made(c)' = Made(c) /\ Count(c)' = Count(c) /\ MadeFirst(c)'
    BY MadeKept DEF Untouched, CallInv
  <1>2. Current(c)' = Current(c) /\ Things(c)' = Things(c) /\ \A s : At(c, s)' <=> At(c, s)
    BY <1>1 DEF Current, Count, Things, At, Untouched
  <1>3. \A k \in Made(c) : containers'[k] = containers[k]
    BY DEF Made, Container, Untouched
  <1>4. \A i \in 1 .. MaxTries + 1 :
          containers'[<<c, i>>] = containers[<<c, i>>] /\ code'[<<c, i>>] = code[<<c, i>>]
    BY DEF Untouched
  <1>5. WhereFits(c)' /\ DeferredFits(c)'
    BY <1>1 DEF CallInv, WhereFits, DeferredFits, Untouched
  <1>6. Owed(c)'
    BY <1>1, <1>2, <1>3 DEF CallInv, Owed, Present, Untouched
  <1>7. CodeFits(c)'
    BY <1>4 DEF CallInv, CodeFits
  <1>8. Count(c) >= 1 => containers'[Current(c)] = containers[Current(c)] /\ code'[Current(c)] = code[Current(c)]
    BY <1>4, CurrentIsOwn DEF CallInv
  <1>9. 1 \in 1 .. MaxTries + 1
    BY TriesAssumption
  <1>10. PassedFits(c)'
    BY <1>1, <1>2, <1>4, <1>8, <1>9 DEF CallInv, PassedFits, Untouched
  <1>11. phase[c] = "body" /\ (At(c, "start") \/ At(c, "wait") \/ At(c, "logs") \/ At(c, "inspect"))
           => Count(c) >= 1
    BY CountInBody DEF CallInv
  <1>12. CurrentFits(c)'
    BY <1>1, <1>2, <1>4, <1>8, <1>9, <1>11 DEF CallInv, CurrentFits, Untouched
  <1> QED BY <1>1, <1>5, <1>6, <1>7, <1>10, <1>12 DEF CallInv

(* A step that leaves all containers alone. *)
LEMMA ContainersKept ==
  ASSUME NEW c \in Calls, CallInv(c), UNCHANGED <<containers, code>>
  PROVE  /\ Made(c)' = Made(c) /\ Count(c)' = Count(c) /\ Current(c)' = Current(c)
         /\ MadeFirst(c)' /\ CodeFits(c)' /\ \A k : Present(k)' <=> Present(k)
  <1>1. Made(c)' = Made(c) /\ Count(c)' = Count(c) /\ MadeFirst(c)'
    BY MadeKept DEF CallInv
  <1>2. CodeFits(c)' /\ \A k : Present(k)' <=> Present(k)
    BY DEF CallInv, CodeFits, Present
  <1> QED BY <1>1, <1>2 DEF Current, Count

(* A return with an error, or with a program that failed. *)
LEMMA ReturnFits ==
  ASSUME DockerTypeOK, NEW c \in Calls, CallInv(c), phase[c] = "body",
         NEW a \in {"error", "failed"}, Return(c, a), UNCHANGED <<op, callTries, deferred, dirs>>,
         Count(c)' <= callTries[c] + (IF op[c] = "tidy" THEN 1 ELSE 0)
  PROVE  WhereFits(c)' /\ DeferredFits(c)' /\ CurrentFits(c)' /\ PassedFits(c)'
  <1>1. phase'[c] = "unwind" /\ answer'[c] = a
    BY DEF Return, DockerTypeOK
  <1>2. WhereFits(c)' /\ CurrentFits(c)' /\ PassedFits(c)'
    BY <1>1 DEF CallInv, WhereFits, CurrentFits, PassedFits
  <1>3. DeferredFits(c)'
    BY <1>1 DEF CallInv, DeferredFits, Dir
  <1> QED BY <1>2, <1>3

(* The same with everything made still there. *)
LEMMA ReturnKeeps ==
  ASSUME DockerTypeOK, NEW c \in Calls, CallInv(c), phase[c] = "body",
         NEW a \in {"error", "failed"}, Return(c, a),
         UNCHANGED <<op, callTries, deferred, dirs, containers, code, refused>>
  PROVE  CallInv(c)'
  <1>1. /\ Made(c)' = Made(c) /\ Count(c)' = Count(c)
        /\ MadeFirst(c)' /\ CodeFits(c)' /\ \A k : Present(k)' <=> Present(k)
    BY ContainersKept
  <1>2. WhereFits(c)' /\ DeferredFits(c)' /\ CurrentFits(c)' /\ PassedFits(c)'
    BY <1>1, ReturnFits DEF CallInv, WhereFits
  <1>3. Owed(c)'
    BY <1>1 DEF CallInv, Owed, Things, Dir
  <1> QED BY <1>1, <1>2, <1>3 DEF CallInv

(* Begin: the first try, or the next one after one that has cleaned up. *)
LEMMA BeginStep ==
  ASSUME DockerTypeOK, NEW c \in Calls, CallInv(c), Begin(c)
  PROVE  CallInv(c)'
  <1>1. /\ phase[c] = "idle" /\ phase'[c] = "body" /\ at'[c] = 1 /\ answer'[c] = "none"
        /\ callTries'[c] = callTries[c] + 1 /\ op'[c] \in Op /\ (callTries[c] # 0 => op'[c] = op[c])
        /\ UNCHANGED <<dirs, containers, code, deferred, refused>>
    <2>1. op[c] \in Op /\ op \in [Calls -> Op]
      BY DEF DockerTypeOK
    <2>2. op'[c] \in Op /\ (callTries[c] # 0 => op'[c] = op[c])
      BY <2>1 DEF Begin
    <2>3. phase'[c] = "body" /\ at'[c] = 1 /\ answer'[c] = "none" /\ callTries'[c] = callTries[c] + 1
      BY DEF Begin, DockerTypeOK
    <2> QED BY <2>2, <2>3 DEF Begin
  <1>2. /\ Made(c)' = Made(c) /\ Count(c)' = Count(c) /\ Current(c)' = Current(c)
        /\ MadeFirst(c)' /\ CodeFits(c)' /\ \A k : Present(k)' <=> Present(k)
    BY <1>1, ContainersKept
  <1>3. /\ callTries[c] \in Nat /\ Count(c) \in Nat /\ deferred[c] = <<>>
        /\ IF callTries[c] = 0 THEN Count(c) = 0 ELSE op[c] = "retry"
        /\ Count(c) <= callTries[c] + (IF op[c] = "tidy" THEN 1 ELSE 0)
    BY <1>1, CallTypes DEF CallInv, MadeFirst, WhereFits, DeferredFits
  <1>4. Creates(op'[c], 1) = 0 /\ Length(op'[c]) >= 1 /\ 1 \in 1 .. Length(op'[c])
    BY DEF Creates, Length
  <1>5. WhereFits(c)'
    BY <1>1, <1>2, <1>3, <1>4 DEF WhereFits
  <1>6. DeferredFits(c)'
    BY <1>1, <1>3, <1>4 DEF DeferredFits
  <1>7. Owed(c)'
    BY <1>1, <1>2 DEF CallInv, Owed, Things, Dir
  <1>8. CurrentFits(c)'
    <2>1. ~At(c, "start")' /\ ~At(c, "wait")' /\ ~At(c, "logs")' /\ ~At(c, "inspect")'
      BY <1>1, <1>4, Statements DEF At, Length
    <2> QED BY <1>1, <2>1 DEF CurrentFits
  <1>9. PassedFits(c)'
    BY <1>1 DEF PassedFits
  <1> QED BY <1>2, <1>5, <1>6, <1>7, <1>8, <1>9 DEF CallInv

(* A statement that goes on to one that makes or waits for nothing. *)
LEMMA ProceedFits ==
  ASSUME DockerTypeOK, NEW c \in Calls, CallInv(c), phase[c] = "body", Proceed(c),
         UNCHANGED <<op, callTries>>, at[c] < Length(op[c])
  PROVE  /\ phase'[c] = "body" /\ at'[c] = at[c] + 1 /\ at'[c] \in 1 .. Length(op[c]) /\ at[c] \in Nat
         /\ answer'[c] = "none" /\ op'[c] = op[c] /\ op[c] \in Op /\ callTries'[c] = callTries[c]
         /\ Count(c) \in Nat /\ PassedFits(c)'
         /\ Count(c)' - Count(c) = Creates(op[c], at'[c]) - Creates(op[c], at[c]) /\ Count(c)' \in Nat
              => WhereFits(c)'
  <1>1. /\ phase'[c] = "body" /\ at'[c] = at[c] + 1 /\ answer'[c] = answer[c]
        /\ op'[c] = op[c] /\ op[c] \in Op /\ callTries'[c] = callTries[c]
        /\ callTries[c] \in Nat
    BY CallTypes DEF Proceed, DockerTypeOK
  <1>2. /\ at[c] \in 1 .. Length(op[c]) /\ answer[c] = "none" /\ Length(op[c]) \in Nat
        /\ Count(c) >= Creates(op[c], at[c]) /\ Count(c) <= callTries[c] - 1 + Creates(op[c], at[c])
        /\ callTries[c] >= 1 /\ (op[c] # "retry" => callTries[c] = 1)
        /\ Count(c) \in Nat
    BY DEF CallInv, WhereFits, MadeFirst, Length
  <1>3. at'[c] \in 1 .. Length(op[c])
    BY <1>1, <1>2
  <1>4. PassedFits(c)'
    BY <1>1, <1>2 DEF PassedFits
  <1>5. Creates(op[c], at[c]) \in Nat /\ Creates(op[c], at'[c]) \in Nat
        /\ Creates(op[c], at'[c]) <= 1 + (IF op[c] = "tidy" THEN 1 ELSE 0)
    BY DEF Creates
  <1>6. Count(c)' - Count(c) = Creates(op[c], at'[c]) - Creates(op[c], at[c]) /\ Count(c)' \in Nat
          => WhereFits(c)'
    <2> SUFFICES ASSUME Count(c)' - Count(c) = Creates(op[c], at'[c]) - Creates(op[c], at[c]), Count(c)' \in Nat
                 PROVE  WhereFits(c)'
      OBVIOUS
    <2>1. /\ Count(c)' >= Creates(op[c], at'[c]) /\ Count(c)' <= callTries[c] - 1 + Creates(op[c], at'[c])
          /\ Count(c)' <= callTries[c] + (IF op[c] = "tidy" THEN 1 ELSE 0)
      BY <1>1, <1>2, <1>5
    <2> QED BY <1>1, <1>2, <1>3, <2>1 DEF WhereFits
  <1> QED BY <1>1, <1>2, <1>3, <1>4, <1>6

(* os.MkdirTemp and the removal deferred after it. *)
LEMMA MakeDirStep ==
  ASSUME DockerTypeOK, NEW c \in Calls, CallInv(c), MakeDir(c)
  PROVE  CallInv(c)'
  <1>1. /\ phase[c] = "body" /\ op[c] \in Op /\ op[c] # "validate" /\ at[c] = 1 /\ at[c] < Length(op[c])
        /\ UNCHANGED <<op, callTries, containers, code, refused>>
    <2>1. at[c] \in 1 .. Length(op[c]) /\ op[c] \in Op /\ phase[c] = "body"
      BY CallTypes DEF MakeDir, At, CallInv, WhereFits
    <2> QED BY <2>1, Statements DEF MakeDir, At, Length
  <1>2. CASE Return(c, "error") /\ UNCHANGED <<deferred, dirs>>
    BY <1>1, <1>2, ReturnKeeps
  <1>3. CASE Proceed(c) /\ Defer(c, Dir(c)) /\ dirs' = dirs \cup {c}
    <2>1. /\ phase'[c] = "body" /\ at'[c] = 2 /\ Count(c) \in Nat /\ PassedFits(c)' /\ op'[c] = op[c]
          /\ at'[c] \in 1 .. Length(op[c])
          /\ Count(c)' - Count(c) = Creates(op[c], at'[c]) - Creates(op[c], at[c]) /\ Count(c)' \in Nat
               => WhereFits(c)'
      BY <1>1, <1>3, ProceedFits
    <2>2. /\ Made(c)' = Made(c) /\ Count(c)' = Count(c)
          /\ MadeFirst(c)' /\ CodeFits(c)' /\ \A k : Present(k)' <=> Present(k)
      BY <1>1, ContainersKept
    <2>3. Creates(op[c], 2) = 0 /\ Creates(op[c], at[c]) = 0
      BY <1>1 DEF Creates
    <2>4. WhereFits(c)'
      BY <2>1, <2>2, <2>3
    <2>5. deferred[c] = <<>>
      <3>1. deferred[c] \in Seq(Container \cup {Dir(d) : d \in Calls})
        BY CallTypes
      <3>2. Len(deferred[c]) = 0
        BY <1>1, <2>3 DEF CallInv, DeferredFits
      <3> QED BY <3>1, <3>2
    <2>6. deferred'[c] = <<Dir(c)>>
      BY <1>3, <2>5 DEF Defer, DockerTypeOK
    <2>7. DeferredFits(c)'
      <3>1. /\ Len(deferred'[c]) = 1 /\ \A i \in 1 .. Len(deferred'[c]) : i = 1 /\ deferred'[c][i] = Dir(c)
            /\ Dir(c)' = Dir(c)
        BY <2>6 DEF Dir
      <3> QED BY <1>1, <1>3, <2>1, <2>3, <3>1 DEF DeferredFits
    <2>8. Owed(c)'
      <3>1. Things(c) = {} /\ Things(c)' = {Dir(c)} /\ Dir(c)' = Dir(c)
        BY <2>5, <2>6 DEF Things, Range, Dir
      <3> QED BY <1>1, <2>2, <3>1 DEF CallInv, Owed
    <2>9. CurrentFits(c)'
      <3>1. ~At(c, "start")' /\ ~At(c, "wait")' /\ ~At(c, "logs")' /\ ~At(c, "inspect")'
        BY <1>1, <2>1, Statements DEF At, Length
      <3> QED BY <2>1, <3>1 DEF CurrentFits
    <2> QED BY <2>1, <2>2, <2>4, <2>7, <2>8, <2>9 DEF CallInv
  <1> QED BY <1>2, <1>3 DEF MakeDir

(* Going on without anything made: what is deferred stays. *)
LEMMA ProceedKeeps ==
  ASSUME DockerTypeOK, NEW c \in Calls, CallInv(c), phase[c] = "body", Proceed(c),
         UNCHANGED <<op, callTries, dirs, containers, code, deferred, refused>>, at[c] < Length(op[c]),
         Creates(op[c], at[c] + 1) = Creates(op[c], at[c]), op[c] # "validate" => at[c] > 1,
         CurrentFits(c)'
  PROVE  CallInv(c)'
  <1>1. /\ phase'[c] = "body" /\ at'[c] = at[c] + 1 /\ Count(c) \in Nat /\ PassedFits(c)' /\ op'[c] = op[c]
        /\ at[c] \in Nat
        /\ Count(c)' - Count(c) = Creates(op[c], at'[c]) - Creates(op[c], at[c]) /\ Count(c)' \in Nat
             => WhereFits(c)'
    BY ProceedFits
  <1>2. /\ Made(c)' = Made(c) /\ Count(c)' = Count(c)
        /\ MadeFirst(c)' /\ CodeFits(c)' /\ \A k : Present(k)' <=> Present(k)
    BY ContainersKept
  <1>3. WhereFits(c)'
    <2>1. Creates(op[c], at[c]) \in Nat
      BY DEF Creates
    <2> QED BY <1>1, <1>2, <2>1
  <1>4. DeferredFits(c)'
    BY <1>1 DEF CallInv, DeferredFits, Dir
  <1>5. Owed(c)'
    BY <1>2 DEF CallInv, Owed, Things, Dir
  <1> QED BY <1>1, <1>2, <1>3, <1>4, <1>5 DEF CallInv

(* Steps that make nothing new. *)
LEMMA WritePullLogsStep ==
  ASSUME DockerTypeOK, NEW c \in Calls, CallInv(c), WritePullLogs(c)
  PROVE  CallInv(c)'
  <1>1. /\ phase[c] = "body" /\ op[c] \in Op /\ at[c] \in 1 .. Length(op[c]) /\ Length(op[c]) \in Nat
        /\ UNCHANGED <<op, callTries, dirs, containers, code, deferred, ended, refused>>
    BY CallTypes DEF WritePullLogs, At, CallInv, WhereFits, Length
  <1>2. CASE Return(c, "error")
    BY <1>1, <1>2, ReturnKeeps
  <1>3. CASE Proceed(c) /\ (At(c, "write") \/ At(c, "pull"))
    <2>1. /\ at[c] < Length(op[c]) /\ Creates(op[c], at[c] + 1) = Creates(op[c], at[c])
          /\ (op[c] # "validate" => at[c] > 1 /\ at[c] <= 3) /\ (op[c] = "validate" => at[c] = 1)
      BY <1>1, <1>3, Statements DEF At, Length, Creates
    <2>2. CurrentFits(c)'
      <3>1. at'[c] = at[c] + 1 /\ op'[c] = op[c] /\ at'[c] \in 1 .. Length(op[c])
        BY <1>1, <1>3, <2>1, ProceedFits
      <3>2. ~At(c, "start")' /\ ~At(c, "wait")' /\ ~At(c, "logs")' /\ ~At(c, "inspect")'
        <4>1. CASE op[c] = "validate"
          BY <1>1, <2>1, <3>1, <4>1, Statements DEF At, Length
        <4>2. CASE op[c] # "validate"
          BY <1>1, <2>1, <3>1, <4>2, Statements DEF At, Length
        <4> QED BY <4>1, <4>2
      <3> QED BY <1>1, <2>1, <3>1, <3>2 DEF CurrentFits
    <2> QED BY <1>1, <1>3, <2>1, <2>2, ProceedKeeps
  <1>4. CASE Proceed(c) /\ At(c, "logs")
    <2>1. at[c] = Length(op[c]) - 1
      BY <1>1, <1>4, Statements DEF At
    <2>2. /\ at[c] < Length(op[c]) /\ Creates(op[c], at[c] + 1) = Creates(op[c], at[c])
          /\ (op[c] # "validate" => at[c] > 1)
      BY <1>1, <2>1 DEF Length, Creates, Op
    <2>3. CurrentFits(c)'
      <3>1. at'[c] = Length(op[c]) /\ op'[c] = op[c] /\ at'[c] \in 1 .. Length(op[c])
        BY <1>1, <1>4, <2>1, <2>2, ProceedFits
      <3>2. ~At(c, "start")' /\ ~At(c, "wait")'
        BY <1>1, <3>1, Statements DEF At, Length
      <3>3. Current(c)' = Current(c) /\ containers[Current(c)] = "exited"
        BY <1>1, <1>4, ContainersKept DEF CallInv, CurrentFits
      <3>4. op[c] = "tidy" => at[c] = 10
        BY <2>1 DEF Length
      <3>5. op[c] = "tidy" => containers[<<c, 1>>] = "exited"
        BY <1>1, <3>4 DEF CallInv, CurrentFits
      <3> QED BY <1>1, <3>1, <3>2, <3>3, <3>5 DEF CurrentFits
    <2> QED BY <1>1, <1>4, <2>2, <2>3, ProceedKeeps
  <1> QED BY <1>2, <1>3, <1>4 DEF WritePullLogs

(* The wait for the container's end, or its failure. *)
LEMMA WaitStep ==
  ASSUME DockerTypeOK, NEW c \in Calls, CallInv(c), Wait(c)
  PROVE  CallInv(c)'
  <1>1. /\ phase[c] = "body" /\ op[c] \in Op /\ at[c] \in 1 .. Length(op[c]) /\ Length(op[c]) \in Nat
        /\ At(c, "wait")
        /\ UNCHANGED <<op, callTries, dirs, containers, code, deferred, ended, refused>>
    BY CallTypes DEF Wait, At, CallInv, WhereFits, Length
  <1>2. CASE Return(c, "error")
    BY <1>1, <1>2, ReturnKeeps
  <1>3. CASE Proceed(c) /\ containers[Current(c)] = "exited"
    <2>1. at[c] = (IF op[c] = "validate" THEN 4 ELSE 6) \/ (op[c] = "tidy" /\ at[c] = 9)
      BY <1>1, Statements DEF At
    <2>2. /\ at[c] < Length(op[c]) /\ Creates(op[c], at[c] + 1) = Creates(op[c], at[c])
          /\ (op[c] # "validate" => at[c] > 1)
      BY <1>1, <2>1 DEF Length, Creates, Op
    <2>3. CurrentFits(c)'
      <3>1. at'[c] = at[c] + 1 /\ op'[c] = op[c] /\ at'[c] \in 1 .. Length(op[c])
        BY <1>1, <1>3, <2>2, ProceedFits
      <3>2. ~At(c, "start")' /\ ~At(c, "wait")'
        <4>1. CASE op[c] = "validate"
          BY <1>1, <2>1, <3>1, <4>1, Statements DEF At
        <4>2. CASE op[c] # "validate"
          BY <1>1, <2>1, <3>1, <4>2, Statements DEF At
        <4> QED BY <4>1, <4>2
      <3>3. Current(c)' = Current(c)
        BY <1>1, ContainersKept
      <3>4. op[c] = "tidy" /\ at[c] = 6 => Current(c) = <<c, 1>>
        BY <1>1, CountInBody DEF CallInv, Current, Count
      <3>5. op[c] = "tidy" /\ at[c] = 9 => containers[<<c, 1>>] = "exited"
        BY <1>1 DEF CallInv, CurrentFits
      <3>6. op[c] = "tidy" => containers[<<c, 1>>] = "exited"
        BY <1>3, <2>1, <3>4, <3>5
      <3> QED BY <1>1, <1>3, <3>1, <3>2, <3>3, <3>6 DEF CurrentFits
    <2> QED BY <1>1, <1>3, <2>2, <2>3, ProceedKeeps
  <1> QED BY <1>2, <1>3 DEF Wait

(* The exit code is read of the last container, which has ended. *)
LEMMA InspectStep ==
  ASSUME DockerTypeOK, NEW c \in Calls, CallInv(c), Inspect(c)
  PROVE  CallInv(c)'
  <1>1. /\ phase[c] = "body" /\ op[c] \in Op /\ At(c, "inspect")
        /\ UNCHANGED <<op, callTries, dirs, containers, code, deferred, ended, refused>>
    BY CallTypes DEF Inspect, At
  <1>2. CASE Return(c, "error") \/ Return(c, "failed")
    BY <1>1, <1>2, ReturnKeeps
  <1>3. CASE Return(c, "passed") /\ code[Current(c)] # "other"
    <2>1. phase'[c] = "unwind" /\ answer'[c] = "passed" /\ op'[c] = op[c] /\ callTries'[c] = callTries[c]
      BY <1>1, <1>3 DEF Return, DockerTypeOK
    <2>2. /\ Made(c)' = Made(c) /\ Count(c)' = Count(c) /\ Current(c)' = Current(c)
          /\ MadeFirst(c)' /\ CodeFits(c)' /\ \A k : Present(k)' <=> Present(k)
      BY <1>1, ContainersKept
    <2>3. WhereFits(c)'
      BY <1>1, <2>1, <2>2 DEF CallInv, WhereFits
    <2>4. DeferredFits(c)'
      BY <1>1, <2>1 DEF CallInv, DeferredFits, Dir
    <2>5. Owed(c)'
      BY <1>1, <2>2 DEF CallInv, Owed, Things, Dir
    <2>6. CurrentFits(c)'
      BY <2>1 DEF CurrentFits
    <2>7. PassedFits(c)'
      <3>1. Count(c) >= 1 /\ (op[c] = "tidy" /\ at[c] > 7 => Count(c) = 2)
        BY <1>1, CountInBody DEF CallInv
      <3>2. Current(c) = <<c, Count(c)>> /\ Count(c) \in 1 .. MaxTries + 1
        BY <3>1, CurrentIsOwn DEF CallInv
      <3>3. containers[Current(c)] = "exited" /\ code[Current(c)] = "zero"
        <4>1. containers[Current(c)] = "exited"
          BY <1>1 DEF CallInv, CurrentFits
        <4>2. code[Current(c)] # "none" /\ code[Current(c)] \in {"none", "zero", "other"}
          <5> DEFINE i == Count(c)
          <5>1. i \in 1 .. MaxTries + 1 /\ Current(c) = <<c, i>> /\ containers[<<c, i>>] = "exited"
            BY <3>2, <4>1
          <5> HIDE DEF i
          <5>2. code[<<c, i>>] # "none"
            BY <5>1 DEF CallInv, CodeFits
          <5>3. code[<<c, i>>] \in {"none", "zero", "other"}
            BY <5>1, CallTypes
          <5> QED BY <5>1, <5>2, <5>3
        <4> QED BY <1>3, <4>1, <4>2
      <3>4. op[c] = "tidy" => at[c] = 11
        BY <1>1, Statements DEF At, CallInv, WhereFits, Length
      <3>5. op[c] = "tidy" => Count(c) = 2 /\ containers[<<c, 1>>] = "exited" /\ code[<<c, 1>>] # "none"
        <4>1. 1 \in 1 .. MaxTries + 1
          BY TriesAssumption
        <4> QED BY <1>1, <3>1, <3>4, <4>1 DEF CallInv, CurrentFits, CodeFits
      <3> QED BY <1>1, <2>1, <2>2, <3>1, <3>3, <3>5 DEF PassedFits
    <2> QED BY <2>2, <2>3, <2>4, <2>5, <2>6, <2>7 DEF CallInv
  <1> QED BY <1>2, <1>3 DEF Inspect

(* The container that a create makes is the next one of its call. *)
LEMMA NewIsNext ==
  ASSUME DockerTypeOK, NEW c \in Calls, CallInv(c), At(c, "create")
  PROVE  /\ NewContainer(c) = <<c, Count(c) + 1>> /\ Count(c) \in Nat
         /\ Count(c) + 1 \in 1 .. MaxTries + 1 /\ containers[NewContainer(c)] = "none"
         /\ code[NewContainer(c)] = "none" /\ NewContainer(c) \in Container
         /\ Count(c) + 1 <= callTries[c] + (IF op[c] = "tidy" THEN 1 ELSE 0)
         /\ at[c] < Length(op[c]) /\ (op[c] # "validate" => at[c] > 1)
         /\ Creates(op[c], at[c] + 1) = Creates(op[c], at[c]) + 1
         /\ op[c] = "tidy" /\ at[c] > 4 => Count(c) >= 1
         /\ at[c] = (IF op[c] = "validate" THEN 2 ELSE 4) \/ (op[c] = "tidy" /\ at[c] = 7)
  <1>1. /\ phase[c] = "body" /\ op[c] \in Op /\ at[c] \in 1 .. Length(op[c]) /\ Length(op[c]) \in Nat
        /\ Count(c) \in Nat /\ callTries[c] \in 1 .. MaxTries /\ (op[c] # "retry" => callTries[c] = 1)
        /\ Count(c) >= Creates(op[c], at[c]) /\ Count(c) <= callTries[c] - 1 + Creates(op[c], at[c])
    <2>1. phase[c] = "body" /\ op[c] \in Op /\ callTries[c] \in 0 .. MaxTries
      BY CallTypes DEF At
    <2>2. /\ at[c] \in 1 .. Length(op[c]) /\ Count(c) \in Nat /\ callTries[c] >= 1
          /\ (op[c] # "retry" => callTries[c] = 1)
          /\ Count(c) >= Creates(op[c], at[c]) /\ Count(c) <= callTries[c] - 1 + Creates(op[c], at[c])
      BY <2>1 DEF CallInv, WhereFits, MadeFirst
    <2> QED BY <2>1, <2>2, TriesAssumption DEF Length
  <1>2. at[c] = (IF op[c] = "validate" THEN 2 ELSE 4) \/ (op[c] = "tidy" /\ at[c] = 7)
    BY <1>1, Statements DEF At
  <1>3. /\ at[c] < Length(op[c]) /\ (op[c] # "validate" => at[c] > 1)
        /\ Creates(op[c], at[c] + 1) = Creates(op[c], at[c]) + 1
        /\ Creates(op[c], at[c]) = IF op[c] = "tidy" /\ at[c] = 7 THEN 1 ELSE 0
    BY <1>2 DEF Length, Creates
  <1>4. /\ Count(c) + 1 <= callTries[c] + (IF op[c] = "tidy" THEN 1 ELSE 0)
        /\ op[c] = "tidy" /\ at[c] > 4 => Count(c) >= 1
    <2>1. CASE op[c] = "tidy" /\ at[c] = 7
      BY <1>1, <1>3, <2>1
    <2>2. CASE ~(op[c] = "tidy" /\ at[c] = 7)
      <3>1. op[c] = "tidy" => at[c] = 4
        BY <1>2, <2>2
      <3> QED BY <1>1, <1>3, <2>2, <3>1
    <2> QED BY <2>1, <2>2
  <1>5. Count(c) + 1 \in 1 .. MaxTries + 1
    BY <1>1, <1>4, TriesAssumption
  <1>6. NewContainer(c) = <<c, Count(c) + 1>> /\ NewContainer(c) \in Container
    BY <1>5 DEF NewContainer, Count, Container
  <1>7. containers[NewContainer(c)] = "none"
    <2>1. NewContainer(c) \notin Made(c)
      BY <1>1, <1>6 DEF CallInv, MadeFirst
    <2> QED BY <1>6, <2>1 DEF Made
  <1>8. code[NewContainer(c)] = "none"
    BY <1>5, <1>6, <1>7 DEF CallInv, CodeFits
  <1> QED BY <1>1, <1>2, <1>3, <1>4, <1>5, <1>6, <1>7, <1>8

(* What a creation changes of its call, answered or not. *)
LEMMA CreateMakes ==
  ASSUME DockerTypeOK, NEW c \in Calls, CallInv(c), At(c, "create"),
         containers' = [containers EXCEPT ![NewContainer(c)] = "created"], UNCHANGED code
  PROVE  /\ Made(c)' = Made(c) \cup {NewContainer(c)} /\ Count(c)' = Count(c) + 1
         /\ MadeFirst(c)' /\ CodeFits(c)' /\ Current(c)' = NewContainer(c)
         /\ containers'[NewContainer(c)] = "created"
         /\ \A k \in Container : k # NewContainer(c) => containers'[k] = containers[k]
  <1> DEFINE new == NewContainer(c)
             n == Count(c) + 1
  <1>1. new = <<c, n>> /\ n \in 1 .. MaxTries + 1 /\ new \in Container /\ n \in Nat /\ code[new] = "none"
        /\ Count(c) \in Nat
    BY NewIsNext
  <1> HIDE DEF new, n
  <1>2. containers'[new] = "created" /\ \A k \in Container : k # new => containers'[k] = containers[k]
    BY <1>1 DEF DockerTypeOK, new
  <1>3. Made(c)' = Made(c) \cup {new}
    BY <1>1, <1>2 DEF Made
  <1>4. Made(c) = {<<c, i>> : i \in 1 .. Count(c)}
    BY DEF CallInv, MadeFirst
  <1>5. Made(c)' = {<<c, i>> : i \in 1 .. n}
    <2>1. 1 .. n = (1 .. Count(c)) \cup {n}
      BY <1>1 DEF n
    <2> QED BY <1>1, <1>3, <1>4, <2>1
  <1>6. Count(c)' = n
    BY <1>1, <1>5, RowCount DEF Count
  <1>7. MadeFirst(c)'
    BY <1>1, <1>5, <1>6 DEF MadeFirst
  <1>8. CodeFits(c)'
    <2>1. \A i \in 1 .. MaxTries + 1 : <<c, i>> \in Container
      BY CallTypes
    <2> QED BY <1>1, <1>2, <2>1 DEF CallInv, CodeFits
  <1>9. Current(c)' = new
    BY <1>1, <1>6 DEF Current, Count
  <1> QED BY <1>2, <1>3, <1>6, <1>7, <1>8, <1>9 DEF new, n

(* ContainerCreate in its three outcomes: made, not made, made unanswered. *)
LEMMA CreateStep ==
  ASSUME DockerTypeOK, NEW c \in Calls, CallInv(c), Create(c)
  PROVE  CallInv(c)'
  <1> DEFINE new == NewContainer(c)
  <1>1. /\ phase[c] = "body" /\ op[c] \in Op /\ At(c, "create")
        /\ UNCHANGED <<op, callTries, dirs, code, ended>>
    BY CallTypes DEF Create, At
  <1>2. CASE Return(c, "error") /\ UNCHANGED <<containers, deferred, refused>>
    BY <1>1, <1>2, ReturnKeeps
  <1>3. CASE /\ containers' = [containers EXCEPT ![new] = "created"]
             /\ refused' = refused \cup {new} /\ Return(c, "error") /\ UNCHANGED deferred
    <2>1. /\ Made(c)' = Made(c) \cup {new} /\ Count(c)' = Count(c) + 1
          /\ MadeFirst(c)' /\ CodeFits(c)' /\ containers'[new] = "created"
          /\ \A k \in Container : k # new => containers'[k] = containers[k]
      BY <1>1, <1>3, CreateMakes
    <2>2. WhereFits(c)' /\ DeferredFits(c)' /\ CurrentFits(c)' /\ PassedFits(c)'
      BY <1>1, <1>3, <2>1, NewIsNext, ReturnFits
    <2>3. Owed(c)'
      <3>1. Made(c) \subseteq Container
        BY DEF Made
      <3>2. Things(c)' = Things(c) /\ Dir(c)' = Dir(c)
        BY <1>3 DEF Things, Dir
      <3> QED BY <1>1, <1>3, <2>1, <3>1, <3>2 DEF CallInv, Owed, Present
    <2> QED BY <2>1, <2>2, <2>3 DEF CallInv
  <1>4. CASE /\ containers' = [containers EXCEPT ![new] = "created"]
             /\ Defer(c, new) /\ Proceed(c) /\ UNCHANGED refused
    <2>1. /\ Made(c)' = Made(c) \cup {new} /\ Count(c)' = Count(c) + 1
          /\ MadeFirst(c)' /\ CodeFits(c)' /\ containers'[new] = "created" /\ Current(c)' = new
          /\ \A k \in Container : k # new => containers'[k] = containers[k]
      BY <1>1, <1>4, CreateMakes
    <2>2. /\ new = <<c, Count(c) + 1>> /\ Count(c) \in Nat /\ new \in Container
          /\ at[c] < Length(op[c]) /\ (op[c] # "validate" => at[c] > 1)
          /\ Creates(op[c], at[c] + 1) = Creates(op[c], at[c]) + 1
          /\ op[c] = "tidy" /\ at[c] > 4 => Count(c) >= 1
          /\ at[c] = (IF op[c] = "validate" THEN 2 ELSE 4) \/ (op[c] = "tidy" /\ at[c] = 7)
      BY <1>1, NewIsNext
    <2>3. /\ phase'[c] = "body" /\ at'[c] = at[c] + 1 /\ at'[c] \in 1 .. Length(op[c]) /\ at[c] \in Nat
          /\ op'[c] = op[c] /\ PassedFits(c)'
          /\ Count(c)' - Count(c) = Creates(op[c], at'[c]) - Creates(op[c], at[c]) /\ Count(c)' \in Nat
               => WhereFits(c)'
      BY <1>1, <1>4, <2>2, ProceedFits
    <2>4. WhereFits(c)'
      <3>1. Creates(op[c], at[c]) \in Nat
        BY DEF Creates
      <3> QED BY <2>1, <2>2, <2>3, <3>1
    <2>5. /\ deferred'[c] = Append(deferred[c], new) /\ Dir(c)' = Dir(c)
          /\ deferred[c] \in Seq(Container \cup {Dir(d) : d \in Calls}) /\ Len(deferred[c]) \in Nat
      <3>1. deferred'[c] = Append(deferred[c], new)
        BY <1>4 DEF Defer, DockerTypeOK
      <3> QED BY <3>1, CallTypes DEF Dir
    <2> HIDE DEF new
    <2>6. /\ Len(deferred'[c]) = Len(deferred[c]) + 1 /\ deferred'[c][Len(deferred[c]) + 1] = new
          /\ \A i \in 1 .. Len(deferred[c]) : deferred'[c][i] = deferred[c][i]
          /\ DOMAIN deferred'[c] = 1 .. Len(deferred[c]) + 1 /\ DOMAIN deferred[c] = 1 .. Len(deferred[c])
      BY <2>5
    <2>7. new # Dir(c)
      BY <2>2 DEF Dir
    <2>8. DeferredFits(c)'
      <3>1. Len(deferred[c]) = (IF op[c] # "validate" /\ at[c] > 1 THEN 1 ELSE 0) + Creates(op[c], at[c])
        BY <1>1 DEF CallInv, DeferredFits
      <3>2. Len(deferred'[c]) = (IF op[c] # "validate" /\ at'[c] > 1 THEN 1 ELSE 0) + Creates(op[c], at'[c])
        <4>1. Creates(op[c], at'[c]) = Creates(op[c], at[c]) + 1 /\ Creates(op[c], at[c]) \in Nat
          <5>1. Creates(op[c], at[c]) \in Nat
            BY DEF Creates
          <5> QED BY <2>2, <2>3, <5>1
        <4>2. op[c] # "validate" => at[c] > 1 /\ at'[c] > 1
          BY <2>2, <2>3
        <4> QED BY <2>6, <3>1, <4>1, <4>2
      <3>3. op[c] # "validate" => Len(deferred[c]) >= 1
        BY <2>2, <3>1 DEF Creates
      <3>4. \A i \in 1 .. Len(deferred'[c]) : deferred'[c][i] = Dir(c) <=> op[c] # "validate" /\ i = 1
        <4>1. \A i \in 1 .. Len(deferred'[c]) : i \in 1 .. Len(deferred[c]) \/ i = Len(deferred[c]) + 1
          BY <2>5, <2>6
        <4>2. \A i \in 1 .. Len(deferred[c]) : deferred[c][i] = Dir(c) <=> op[c] # "validate" /\ i = 1
          BY DEF CallInv, DeferredFits
        <4>3. ~(op[c] # "validate" /\ Len(deferred[c]) + 1 = 1)
          BY <2>5, <3>3
        <4> QED BY <2>6, <2>7, <4>1, <4>2, <4>3
      <3>5. op[c] # "validate" => c \in dirs
        <4>1. op[c] # "validate" => deferred[c] # <<>>
          BY <3>3
        <4> QED BY <4>1 DEF CallInv, DeferredFits
      <3> QED BY <1>1, <2>3, <2>5, <3>2, <3>4, <3>5 DEF DeferredFits
    <2>9. Owed(c)'
      <3>1. Made(c) \subseteq Container
        BY DEF Made
      <3>2. Things(c)' = Things(c) \cup {new}
        <4>1. \A x : x \in Things(c)' <=> x \in Things(c) \cup {new}
          BY <2>5, <2>6 DEF Things, Range
        <4> QED BY <4>1
      <3>3. \A k \in Made(c) : k # new => (Present(k)' <=> Present(k))
        BY <2>1, <3>1 DEF Present
      <3> QED BY <1>1, <1>4, <2>1, <2>5, <3>2, <3>3 DEF CallInv, Owed
    <2>10. CurrentFits(c)'
      <3>1. ~At(c, "wait")' /\ ~At(c, "logs")' /\ ~At(c, "inspect")'
        BY <1>1, <2>2, <2>3, Statements DEF At, Length
      <3>2. op[c] = "tidy" /\ at'[c] > 6 => containers'[<<c, 1>>] = "exited"
        <4> SUFFICES ASSUME op[c] = "tidy", at'[c] > 6 PROVE containers'[<<c, 1>>] = "exited"
          OBVIOUS
        <4>1. at[c] = 7 /\ Count(c) >= 1
          BY <2>2, <2>3
        <4>2. containers[<<c, 1>>] = "exited" /\ <<c, 1>> \in Container
          BY <1>1, <4>1, TriesAssumption DEF CallInv, CurrentFits, Container
        <4>3. <<c, 1>> # new
          BY <2>2, <4>1
        <4> QED BY <2>1, <4>2, <4>3
      <3> QED BY <1>1, <2>1, <2>3, <3>1, <3>2 DEF CurrentFits
    <2> QED BY <2>1, <2>3, <2>4, <2>8, <2>9, <2>10 DEF CallInv
  <1> QED BY <1>2, <1>3, <1>4 DEF Create

(* ContainerStart, which may start the container and report an error. *)
LEMMA StartStep ==
  ASSUME DockerTypeOK, NEW c \in Calls, CallInv(c), Start(c)
  PROVE  CallInv(c)'
  <1> DEFINE k0 == Current(c)
  <1>1. /\ phase[c] = "body" /\ op[c] \in Op /\ At(c, "start") /\ containers[k0] = "created"
        /\ Count(c) >= 1 /\ Count(c) \in 1 .. MaxTries + 1 /\ k0 = <<c, Count(c)>> /\ k0 \in Made(c)
        /\ k0 \in Container
        /\ (op[c] = "tidy" /\ at[c] > 7 => Count(c) = 2)
        /\ UNCHANGED <<op, callTries, dirs, code, deferred, ended, refused>>
    <2>1. At(c, "start") /\ phase[c] = "body" /\ UNCHANGED <<op, callTries, dirs, code, deferred, ended, refused>>
      BY DEF Start, At
    <2>2. Count(c) >= 1 /\ (op[c] = "tidy" /\ at[c] > 7 => Count(c) = 2)
      BY <2>1, CountInBody DEF CallInv
    <2>3. Count(c) \in 1 .. MaxTries + 1 /\ k0 = <<c, Count(c)>> /\ k0 \in Made(c)
      BY <2>2, CurrentIsOwn DEF CallInv
    <2>4. containers[k0] = "created"
      BY <2>1 DEF CallInv, CurrentFits
    <2> QED BY <2>1, <2>2, <2>3, <2>4, CallTypes DEF Made
  <1> HIDE DEF k0
  <1>2. CASE UNCHANGED containers
    <2>1. Return(c, "error")
      BY <1>1, <1>2 DEF Start, k0
    <2> QED BY <1>1, <1>2, <2>1, ReturnKeeps
  <1>3. CASE containers' = [containers EXCEPT ![k0] = "running"]
    <2>1. containers'[k0] = "running" /\ \A k \in Container : k # k0 => containers'[k] = containers[k]
      BY <1>1, <1>3 DEF DockerTypeOK
    <2>2. /\ Made(c)' = Made(c) /\ Count(c)' = Count(c) /\ MadeFirst(c)' /\ Current(c)' = k0
      <3>1. \A i \in 1 .. MaxTries + 1 : containers'[<<c, i>>] = "none" <=> containers[<<c, i>>] = "none"
        <4>1. \A i \in 1 .. MaxTries + 1 : <<c, i>> \in Container
          BY CallTypes
        <4> QED BY <1>1, <2>1, <4>1
      <3> QED BY <3>1, MadeKept DEF CallInv, Current, Count, k0
    <2>3. CodeFits(c)'
      <3>1. \A i \in 1 .. MaxTries + 1 : <<c, i>> \in Container
        BY CallTypes
      <3> QED BY <1>1, <2>1, <3>1 DEF CallInv, CodeFits
    <2>4. Owed(c)'
      <3>1. \A k \in Made(c) : Present(k)' <=> Present(k)
        BY <1>1, <2>1 DEF Present, Made
      <3> QED BY <1>1, <2>2, <3>1 DEF CallInv, Owed, Things, Dir
    <2>5. CASE Return(c, "error")
      <3>1. WhereFits(c)' /\ DeferredFits(c)' /\ CurrentFits(c)' /\ PassedFits(c)'
        BY <1>1, <2>2, <2>5, ReturnFits DEF CallInv, WhereFits
      <3> QED BY <2>2, <2>3, <2>4, <3>1 DEF CallInv
    <2>6. CASE Proceed(c)
      <3>1. at[c] = (IF op[c] = "validate" THEN 3 ELSE 5) \/ (op[c] = "tidy" /\ at[c] = 8)
        BY <1>1, Statements DEF At, CallInv, WhereFits
      <3>2. /\ at[c] < Length(op[c]) /\ Creates(op[c], at[c] + 1) = Creates(op[c], at[c])
            /\ (op[c] # "validate" => at[c] > 1)
        BY <3>1 DEF Length, Creates
      <3>3. /\ phase'[c] = "body" /\ at'[c] = at[c] + 1 /\ at'[c] \in 1 .. Length(op[c]) /\ at[c] \in Nat
            /\ op'[c] = op[c] /\ PassedFits(c)' /\ Count(c) \in Nat
            /\ Count(c)' - Count(c) = Creates(op[c], at'[c]) - Creates(op[c], at[c]) /\ Count(c)' \in Nat
                 => WhereFits(c)'
        BY <1>1, <2>6, <3>2, ProceedFits
      <3>4. WhereFits(c)'
        <4>1. Creates(op[c], at[c]) \in Nat
          BY DEF Creates
        <4> QED BY <2>2, <3>2, <3>3, <4>1
      <3>5. DeferredFits(c)'
        BY <1>1, <3>2, <3>3 DEF CallInv, DeferredFits, Dir
      <3>6. CurrentFits(c)'
        <4>1. ~At(c, "start")' /\ ~At(c, "logs")' /\ ~At(c, "inspect")'
          <5>1. CASE op[c] = "validate"
            BY <1>1, <3>1, <3>3, <5>1, Statements DEF At, Length
          <5>2. CASE op[c] # "validate"
            BY <1>1, <3>1, <3>3, <5>2, Statements DEF At, Length
          <5> QED BY <5>1, <5>2
        <4>2. op[c] = "tidy" /\ at'[c] > 6 => containers'[<<c, 1>>] = "exited"
          <5> SUFFICES ASSUME op[c] = "tidy", at'[c] > 6 PROVE containers'[<<c, 1>>] = "exited"
            OBVIOUS
          <5>1. at[c] = 8 /\ Count(c) = 2
            BY <1>1, <3>1, <3>3
          <5>2. containers[<<c, 1>>] = "exited" /\ <<c, 1>> \in Container
            BY <1>1, <5>1, TriesAssumption DEF CallInv, CurrentFits, Container
          <5> QED BY <1>1, <2>1, <5>1, <5>2
        <4> QED BY <1>1, <2>1, <2>2, <3>3, <4>1, <4>2 DEF CurrentFits
      <3> QED BY <2>2, <2>3, <2>4, <3>3, <3>4, <3>5, <3>6 DEF CallInv
    <2> QED BY <2>5, <2>6 DEF Start
  <1> QED BY <1>2, <1>3 DEF Start, k0

(* The last deferred call, and those before it. *)
LEMMA FrontIs ==
  ASSUME NEW S, NEW s \in Seq(S), s # <<>>
  PROVE  /\ Front(s) \in Seq(S) /\ Len(Front(s)) = Len(s) - 1 /\ Len(s) \in Nat /\ Len(s) >= 1
         /\ Last(s) = s[Len(s)] /\ Last(s) \in S
         /\ \A i \in 1 .. Len(s) - 1 : Front(s)[i] = s[i]
         /\ Range(s) \subseteq Range(Front(s)) \cup {Last(s)} /\ Range(Front(s)) \subseteq Range(s)
         /\ Last(s) \in Range(s)
  <1>1. Len(s) \in Nat /\ Len(s) >= 1 /\ DOMAIN s = 1 .. Len(s)
    OBVIOUS
  <1>2. Front(s) \in Seq(S) /\ Len(Front(s)) = Len(s) - 1
    BY <1>1 DEF Front
  <1>3. \A i \in 1 .. Len(s) - 1 : Front(s)[i] = s[i]
    BY <1>1 DEF Front
  <1>4. Last(s) = s[Len(s)] /\ Last(s) \in S
    BY <1>1 DEF Last
  <1>5. DOMAIN Front(s) = 1 .. Len(s) - 1
    BY <1>1, <1>2
  <1>6. Range(s) \subseteq Range(Front(s)) \cup {Last(s)}
    BY <1>1, <1>3, <1>4, <1>5 DEF Range
  <1>7. Range(Front(s)) \subseteq Range(s) /\ Last(s) \in Range(s)
    BY <1>1, <1>3, <1>4, <1>5 DEF Range
  <1> QED BY <1>1, <1>2, <1>3, <1>4, <1>6, <1>7

(* What a deferred call removes is the directory, or a container, of its   *)
(* own call.                                                               *)
LEMMA LastIsOwn ==
  ASSUME DockerTypeOK, NEW c \in Calls, deferred[c] # <<>>
  PROVE  /\ Last(deferred[c]) \in {Dir(c)} \cup Made(c)
         /\ Last(deferred[c]) \in Container \cup {Dir(d) : d \in Calls}
         /\ \A k \in Made(c) : k \in Container /\ k # Dir(c)
  <1>1. Last(deferred[c]) \in Range(deferred[c])
        /\ Last(deferred[c]) \in Container \cup {Dir(d) : d \in Calls}
    BY CallTypes, FrontIs
  <1>2. \A k \in Made(c) : k \in Container /\ k # Dir(c)
    BY TriesAssumption DEF Made, Container, Dir
  <1> QED BY <1>1, <1>2 DEF DockerTypeOK

(* One deferred call: the thing it names is gone, or refused. *)
LEMMA UnwindStep ==
  ASSUME DockerTypeOK, NEW c \in Calls, CallInv(c), Unwind(c)
  PROVE  CallInv(c)'
  <1> DEFINE d == Last(deferred[c])
  <1>1. /\ phase[c] = "unwind" /\ deferred[c] # <<>> /\ Undo(c, d)
        /\ UNCHANGED <<op, phase, at, callTries, code, ended, answer>>
    BY DEF Unwind
  <1>2. deferred'[c] = Front(deferred[c])
    BY DEF Unwind, DockerTypeOK
  <1>3. /\ d \in {Dir(c)} \cup Made(c) /\ d \in Things(c) /\ d = deferred[c][Len(deferred[c])]
        /\ Things(c) \subseteq Things(c)' \cup {d} /\ Things(c)' \subseteq Things(c)
        /\ Len(deferred[c]) \in Nat /\ Len(deferred[c]) >= 1 /\ Len(deferred'[c]) = Len(deferred[c]) - 1
        /\ \A i \in 1 .. Len(deferred'[c]) : deferred'[c][i] = deferred[c][i]
    <2>1. deferred[c] \in Seq(Container \cup {Dir(x) : x \in Calls})
      BY CallTypes
    <2>2. /\ d = deferred[c][Len(deferred[c])] /\ d \in Range(deferred[c])
          /\ Range(deferred[c]) \subseteq Range(deferred'[c]) \cup {d}
          /\ Range(deferred'[c]) \subseteq Range(deferred[c])
          /\ Len(deferred[c]) \in Nat /\ Len(deferred[c]) >= 1 /\ Len(deferred'[c]) = Len(deferred[c]) - 1
          /\ \A i \in 1 .. Len(deferred[c]) - 1 : deferred'[c][i] = deferred[c][i]
      BY ONLY <1>1, <1>2, <2>1, FrontIs
    <2>3. d \in {Dir(c)} \cup Made(c)
      BY <1>1, LastIsOwn
    <2> QED BY <2>2, <2>3 DEF Things
  <1>4. \A k \in Made(c) : k \in Container /\ k # Dir(c)
    BY <1>1, LastIsOwn
  <1> HIDE DEF d
  <1>5. /\ \A k \in Container : k # d => containers'[k] = containers[k]
        /\ d \in Container => containers'[d] \in {containers[d], "removed"}
        /\ d \in Container /\ containers'[d] # "removed" => d \in refused'
        /\ Dir(c) \notin Container => containers' = containers \/ d # Dir(c)
        /\ refused \subseteq refused'
    <2>1. CASE d = Dir(c) /\ UNCHANGED <<containers, refused>>
      BY <1>4, <2>1, CallTypes DEF Container, Dir, DockerTypeOK
    <2>2. CASE d # Dir(c) /\ containers' = [containers EXCEPT ![d] = "removed"] /\ UNCHANGED <<dirs, refused>>
      BY <2>2 DEF DockerTypeOK
    <2>3. CASE refused' = refused \cup {d} /\ UNCHANGED <<dirs, containers>>
      BY <2>3
    <2> QED BY <1>1, <2>1, <2>2, <2>3 DEF Undo
  <1>6. \A i \in 1 .. MaxTries + 1 :
          /\ containers'[<<c, i>>] = containers[<<c, i>>] \/ containers'[<<c, i>>] = "removed"
          /\ containers'[<<c, i>>] = "none" <=> containers[<<c, i>>] = "none"
    <2> TAKE i \in 1 .. MaxTries + 1
    <2>1. <<c, i>> \in Container /\ <<c, i>> # Dir(c)
      BY CallTypes
    <2>2. <<c, i>> = d => containers[<<c, i>>] # "none"
      BY <1>3, <2>1 DEF Made
    <2> QED BY <1>5, <2>1, <2>2
  <1>7. Made(c)' = Made(c) /\ Count(c)' = Count(c) /\ MadeFirst(c)' /\ Current(c)' = Current(c)
    BY <1>6, MadeKept DEF CallInv, Current, Count
  <1>8. WhereFits(c)' /\ CurrentFits(c)'
    BY <1>1, <1>7 DEF CallInv, WhereFits, CurrentFits
  <1>9. CodeFits(c)'
    BY <1>1, <1>6 DEF CallInv, CodeFits
  <1>10. PassedFits(c)'
    <2>1. Count(c) >= 1 => Count(c) \in 1 .. MaxTries + 1 /\ Current(c) = <<c, Count(c)>>
      BY CurrentIsOwn DEF CallInv
    <2>2. 1 \in 1 .. MaxTries + 1
      BY TriesAssumption
    <2> QED BY <1>1, <1>6, <1>7, <2>1, <2>2 DEF CallInv, PassedFits
  <1>11. DeferredFits(c)'
    <2>1. \A i \in 1 .. Len(deferred'[c]) : i \in 1 .. Len(deferred[c])
      BY <1>3
    <2>2. \A i \in 1 .. Len(deferred'[c]) : deferred'[c][i] = Dir(c) <=> op[c] # "validate" /\ i = 1
      BY <1>3, <2>1 DEF CallInv, DeferredFits
    <2>3. deferred'[c] # <<>> /\ op[c] # "validate" => c \in dirs'
      <3> SUFFICES ASSUME deferred'[c] # <<>>, op[c] # "validate" PROVE c \in dirs'
        OBVIOUS
      <3>1. Len(deferred[c]) # 1
        <4>1. deferred'[c] \in Seq(Container \cup {Dir(x) : x \in Calls})
          BY <1>1, <1>2, FrontIs, CallTypes
        <4> QED BY <1>3, <4>1
      <3>2. d # Dir(c)
        BY <1>3, <3>1 DEF CallInv, DeferredFits
      <3>3. c \in dirs
        BY <1>1 DEF CallInv, DeferredFits
      <3> QED BY <1>1, <3>2, <3>3 DEF Undo
    <2> QED BY <1>1, <2>2, <2>3 DEF DeferredFits, Dir
  <1>12. Owed(c)'
    <2>1. c \in dirs' => Dir(c) \in refused' \cup Things(c)'
      <3>1. CASE Dir(c) # d
        <4>1. c \in dirs' => c \in dirs
          BY <1>1 DEF Undo
        <4> QED BY <1>3, <1>5, <3>1, <4>1 DEF CallInv, Owed
      <3>2. CASE Dir(c) = d
        BY <1>1, <3>2 DEF Undo
      <3> QED BY <3>1, <3>2
    <2>2. \A k \in Made(c) : Present(k)' => k \in refused' \cup Things(c)'
      <3> TAKE k \in Made(c)
      <3>1. CASE k # d
        BY <1>3, <1>4, <1>5, <3>1 DEF CallInv, Owed, Present
      <3>2. CASE k = d
        BY <1>4, <1>5, <3>2 DEF Present
      <3> QED BY <3>1, <3>2
    <2> QED BY <1>7, <2>1, <2>2 DEF Owed, Dir
  <1> QED BY <1>7, <1>8, <1>9, <1>10, <1>11, <1>12 DEF CallInv

(* The end of a call or of a try: nothing is deferred any more. *)
LEMMA FinishStep ==
  ASSUME DockerTypeOK, NEW c \in Calls, CallInv(c), Finish(c)
  PROVE  CallInv(c)'
  <1>1. /\ phase[c] = "unwind" /\ deferred[c] = <<>>
        /\ UNCHANGED <<op, at, callTries, dirs, containers, code, deferred, ended, refused>>
    BY DEF Finish
  <1>2. /\ phase'[c] = "idle" => answer'[c] # "passed" /\ op[c] = "retry" /\ callTries[c] < MaxTries
        /\ phase'[c] \in {"idle", "returned"} /\ (answer'[c] = "passed" => answer[c] = "passed")
    BY DEF Finish, DockerTypeOK
  <1>3. /\ Made(c)' = Made(c) /\ Count(c)' = Count(c) /\ Current(c)' = Current(c)
        /\ MadeFirst(c)' /\ CodeFits(c)' /\ \A k : Present(k)' <=> Present(k)
    BY <1>1, ContainersKept
  <1>4. WhereFits(c)'
    <2>1. callTries[c] \in Nat /\ callTries[c] >= 1 /\ (op[c] # "retry" => callTries[c] = 1)
          /\ Count(c) <= callTries[c] + (IF op[c] = "tidy" THEN 1 ELSE 0)
      BY <1>1, CallTypes DEF CallInv, WhereFits
    <2> QED BY <1>1, <1>2, <1>3, <2>1 DEF WhereFits
  <1>5. DeferredFits(c)'
    BY <1>1, <1>2 DEF DeferredFits, CallInv, Dir
  <1>6. Owed(c)'
    BY <1>1, <1>3 DEF CallInv, Owed, Things, Dir
  <1>7. CurrentFits(c)' /\ PassedFits(c)'
    BY <1>1, <1>2, <1>3 DEF CallInv, CurrentFits, PassedFits
  <1> QED BY <1>3, <1>4, <1>5, <1>6, <1>7 DEF CallInv

(* A container's end gives it an exit code and changes nothing else. *)
LEMMA ExitStep ==
  ASSUME DockerTypeOK, NEW c \in Calls, CallInv(c), NEW k \in Container, Exit(k), k[1] = c
  PROVE  CallInv(c)'
  <1>1. /\ containers[k] = "running" /\ containers'[k] = "exited" /\ code'[k] \in {"zero", "other"}
        /\ \A j \in Container : j # k => containers'[j] = containers[j] /\ code'[j] = code[j]
        /\ UNCHANGED <<op, phase, at, callTries, dirs, deferred, ended, refused, answer>>
    BY DEF Exit, DockerTypeOK
  <1>2. \A i \in 1 .. MaxTries + 1 :
          /\ <<c, i>> \in Container
          /\ containers'[<<c, i>>] = "none" <=> containers[<<c, i>>] = "none"
          /\ containers[<<c, i>>] # "running"
               => containers'[<<c, i>>] = containers[<<c, i>>] /\ code'[<<c, i>>] = code[<<c, i>>]
          /\ containers[<<c, i>>] = "running" => containers'[<<c, i>>] \in {"running", "exited"}
    <2>1. \A i \in 1 .. MaxTries + 1 : <<c, i>> \in Container
      BY CallTypes
    <2> QED BY <1>1, <2>1
  <1>3. Made(c)' = Made(c) /\ Count(c)' = Count(c) /\ MadeFirst(c)' /\ Current(c)' = Current(c)
    BY <1>2, MadeKept DEF CallInv, Current, Count
  <1>4. WhereFits(c)' /\ DeferredFits(c)'
    BY <1>1, <1>3 DEF CallInv, WhereFits, DeferredFits, Dir
  <1>5. Owed(c)'
    <2>1. \A j \in Made(c) : Present(j)' => Present(j)
      BY <1>1 DEF Present, Made
    <2> QED BY <1>1, <1>3, <2>1 DEF CallInv, Owed, Things, Dir
  <1>6. CodeFits(c)'
    <2> SUFFICES ASSUME NEW i \in 1 .. MaxTries + 1
                 PROVE  /\ containers'[<<c, i>>] \in {"none", "created", "running"} => code'[<<c, i>>] = "none"
                        /\ containers'[<<c, i>>] = "exited" => code'[<<c, i>>] # "none"
      BY DEF CodeFits
    <2>1. CASE <<c, i>> = k
      BY <1>1, <2>1
    <2>2. CASE <<c, i>> # k
      BY <1>1, <1>2, <2>2 DEF CallInv, CodeFits
    <2> QED BY <2>1, <2>2
  <1>7. Count(c) >= 1 => Count(c) \in 1 .. MaxTries + 1 /\ Current(c) = <<c, Count(c)>>
    BY CurrentIsOwn DEF CallInv
  <1>8. 1 \in 1 .. MaxTries + 1
    BY TriesAssumption
  <1>9. PassedFits(c)'
    BY <1>1, <1>2, <1>3, <1>7, <1>8 DEF CallInv, PassedFits
  <1>10. CurrentFits(c)'
    <2>1. At(c, "start") \/ At(c, "wait") \/ At(c, "logs") \/ At(c, "inspect") => Count(c) >= 1
      BY CountInBody DEF CallInv
    <2>2. \A s : At(c, s)' <=> At(c, s)
      BY <1>1 DEF At
    <2> QED BY <1>1, <1>2, <1>3, <1>7, <1>8, <2>1, <2>2 DEF CallInv, CurrentFits
  <1> QED BY <1>3, <1>4, <1>5, <1>6, <1>9, <1>10 DEF CallInv

(* A call disturbs no other: its containers and its directory are its own. *)
LEMMA OthersUntouched ==
  ASSUME DockerTypeOK, NEW c \in Calls, NEW d \in Calls, d # c, CallInv(c), Call(c) \/ EndContext(c)
  PROVE  Untouched(d)
  <1>1. \A i \in 1 .. MaxTries + 1 :
          /\ <<d, i>> \in Container
          /\ <<d, i>> # NewContainer(c) /\ <<d, i>> # Current(c) /\ <<d, i>> # Dir(c) /\ <<d, i>> \notin Made(c)
    BY CallTypes DEF NewContainer, Current, Dir, Made
  <1>2. CASE Begin(c) \/ Finish(c) \/ EndContext(c)
    BY <1>2 DEF Begin, Finish, EndContext, Untouched, DockerTypeOK
  <1>3. CASE MakeDir(c)
    BY <1>3 DEF MakeDir, Proceed, Return, Defer, Untouched, DockerTypeOK
  <1>4. CASE WritePullLogs(c) \/ Wait(c) \/ Inspect(c)
    BY <1>4 DEF WritePullLogs, Wait, Inspect, Proceed, Return, Untouched, DockerTypeOK
  <1>5. CASE Create(c)
    <2>1. /\ op'[d] = op[d] /\ phase'[d] = phase[d] /\ at'[d] = at[d] /\ callTries'[d] = callTries[d]
          /\ deferred'[d] = deferred[d] /\ answer'[d] = answer[d] /\ (d \in dirs' <=> d \in dirs)
          /\ code' = code /\ refused \subseteq refused'
      BY <1>5 DEF Create, Proceed, Return, Defer, DockerTypeOK
    <2>2. \A i \in 1 .. MaxTries + 1 : containers'[<<d, i>>] = containers[<<d, i>>]
      BY <1>1, <1>5 DEF Create, DockerTypeOK
    <2> QED BY <2>1, <2>2 DEF Untouched
  <1>6. CASE Start(c)
    <2>1. /\ op'[d] = op[d] /\ phase'[d] = phase[d] /\ at'[d] = at[d] /\ callTries'[d] = callTries[d]
          /\ deferred'[d] = deferred[d] /\ answer'[d] = answer[d] /\ (d \in dirs' <=> d \in dirs)
          /\ code' = code /\ refused \subseteq refused'
      BY <1>6 DEF Start, Proceed, Return, DockerTypeOK
    <2>2. \A i \in 1 .. MaxTries + 1 : containers'[<<d, i>>] = containers[<<d, i>>]
      BY <1>1, <1>6 DEF Start, DockerTypeOK
    <2> QED BY <2>1, <2>2 DEF Untouched
  <1>7. CASE Unwind(c)
    <2>1. deferred[c] # <<>> /\ Undo(c, Last(deferred[c]))
      BY <1>7 DEF Unwind
    <2>2. /\ op'[d] = op[d] /\ phase'[d] = phase[d] /\ at'[d] = at[d] /\ callTries'[d] = callTries[d]
          /\ deferred'[d] = deferred[d] /\ answer'[d] = answer[d] /\ code' = code
      BY <1>7 DEF Unwind, DockerTypeOK
    <2>3. (d \in dirs' <=> d \in dirs) /\ refused \subseteq refused'
      BY <2>1 DEF Undo
    <2>4. Last(deferred[c]) \in {Dir(c)} \cup Made(c)
      BY <2>1, LastIsOwn
    <2>5. \A i \in 1 .. MaxTries + 1 : containers'[<<d, i>>] = containers[<<d, i>>]
      <3>1. \A i \in 1 .. MaxTries + 1 : <<d, i>> # Last(deferred[c])
        BY <1>1, <2>4
      <3> QED BY <1>1, <2>1, <3>1 DEF Undo, DockerTypeOK
    <2> QED BY <2>2, <2>3, <2>5 DEF Untouched
  <1> QED BY <1>2, <1>3, <1>4, <1>5, <1>6, <1>7 DEF Call, Statement

(* What a call of its own does to it. *)
LEMMA CallStep ==
  ASSUME DockerTypeOK, NEW c \in Calls, CallInv(c), Call(c) \/ EndContext(c)
  PROVE  CallInv(c)'
  <1>1. CASE EndContext(c)
    <2>1. Untouched(c)
      BY <1>1 DEF EndContext, Untouched
    <2> QED BY <2>1, UntouchedKept
  <1>2. CASE Begin(c) \/ Unwind(c) \/ Finish(c)
    BY <1>2, BeginStep, UnwindStep, FinishStep
  <1>3. CASE Statement(c)
    BY <1>3, MakeDirStep, WritePullLogsStep, CreateStep, StartStep, WaitStep, InspectStep DEF Statement
  <1> QED BY <1>1, <1>2, <1>3 DEF Call

(* DockerTypeOK in two parts: the shape of the variables, and, call by     *)
(* call, what may be deferred.                                             *)
Shape ==
  /\ op \in [Calls -> Op]
  /\ phase \in [Calls -> {"idle", "body", "unwind", "returned"}]
  /\ at \in [Calls -> 1 .. 11]
  /\ callTries \in [Calls -> 0 .. MaxTries]
  /\ dirs \subseteq Calls
  /\ containers \in [Container -> Life]
  /\ code \in [Container -> {"none", "zero", "other"}]
  /\ deferred \in [Calls -> Seq(Container \cup {Dir(c) : c \in Calls})]
  /\ ended \subseteq Calls
  /\ refused \subseteq Container \cup {Dir(c) : c \in Calls}
  /\ answer \in [Calls -> {"none", "error", "passed", "failed"}]

DeferredOwn(c) == Len(deferred[c]) <= 3 /\ Range(deferred[c]) \subseteq {Dir(c)} \cup Made(c)

(* The parts make DockerTypeOK. *)
LEMMA TwoParts == DockerTypeOK <=> Shape /\ \A c \in Calls : DeferredOwn(c)
  BY DEF DockerTypeOK, Shape, DeferredOwn

(* One more deferred call. *)
LEMMA AppendType ==
  ASSUME NEW S, NEW D, NEW c \in D, NEW f \in [D -> Seq(S)], NEW x \in S
  PROVE  [f EXCEPT ![c] = Append(@, x)] \in [D -> Seq(S)]
  <1>1. Append(f[c], x) \in Seq(S)
    OBVIOUS
  <1> QED BY <1>1

(* Where a statement leaves its call. *)
LEMMA StatementShape ==
  ASSUME DockerTypeOK, NEW c \in Calls, phase[c] = "body", WhereFits(c)', UNCHANGED op,
         Proceed(c) \/ \E a \in {"error", "passed", "failed"} : Return(c, a)
  PROVE  /\ phase' \in [Calls -> {"idle", "body", "unwind", "returned"}]
         /\ at' \in [Calls -> 1 .. 11]
         /\ answer' \in [Calls -> {"none", "error", "passed", "failed"}]
         /\ phase'[c] = "body" \/ phase'[c] = "unwind"
  <1>1. CASE Proceed(c)
    <2>1. phase'[c] = "body" /\ at'[c] = at[c] + 1
      BY <1>1 DEF Proceed, DockerTypeOK
    <2>2. at'[c] \in 1 .. 11
      BY <2>1 DEF WhereFits, Length
    <2> QED BY <1>1, <2>1, <2>2 DEF Proceed, DockerTypeOK
  <1>2. CASE \E a \in {"error", "passed", "failed"} : Return(c, a)
    BY <1>2 DEF Return, DockerTypeOK
  <1> QED BY <1>1, <1>2

(* Types after a statement of a body. *)
LEMMA StatementTypes ==
  ASSUME DockerTypeOK, NEW c \in Calls, CallInv(c), CallInv(c)', Statement(c)
  PROVE  Shape'
  <1>1. Shape /\ WhereFits(c)'
    BY TwoParts DEF CallInv
  <1>2. /\ phase[c] = "body" /\ UNCHANGED <<op, callTries, code, ended>>
        /\ Proceed(c) \/ \E a \in {"error", "passed", "failed"} : Return(c, a)
    <2>1. CASE MakeDir(c)
      BY <2>1 DEF MakeDir, At
    <2>2. CASE WritePullLogs(c) \/ Wait(c)
      BY <2>2 DEF WritePullLogs, Wait, At
    <2>3. CASE Create(c) \/ Start(c)
      BY <2>3 DEF Create, Start, At
    <2>4. CASE Inspect(c)
      BY <2>4 DEF Inspect, At
    <2> QED BY <2>1, <2>2, <2>3, <2>4 DEF Statement
  <1>3. /\ phase' \in [Calls -> {"idle", "body", "unwind", "returned"}]
        /\ at' \in [Calls -> 1 .. 11] /\ answer' \in [Calls -> {"none", "error", "passed", "failed"}]
    BY <1>1, <1>2, StatementShape
  <1>4. /\ dirs' \subseteq Calls /\ refused' \subseteq Container \cup {Dir(d) : d \in Calls}
        /\ containers' \in [Container -> Life]
        /\ deferred' \in [Calls -> Seq(Container \cup {Dir(d) : d \in Calls})]
    <2>1. CASE MakeDir(c)
      <3>1. CASE UNCHANGED <<deferred, dirs>>
        BY <1>1, <2>1, <3>1 DEF MakeDir, Shape
      <3>2. CASE Defer(c, Dir(c)) /\ dirs' = dirs \cup {c}
        <4> DEFINE S == Container \cup {Dir(d) : d \in Calls}
        <4>1. deferred \in [Calls -> Seq(S)] /\ Dir(c) \in S
          BY <1>1 DEF Shape
        <4> HIDE DEF S
        <4>2. deferred' \in [Calls -> Seq(S)]
          BY <3>2, <4>1, AppendType DEF Defer
        <4> QED BY <1>1, <2>1, <3>2, <4>2 DEF MakeDir, Shape, S
      <3> QED BY <2>1, <3>1, <3>2 DEF MakeDir
    <2>2. CASE WritePullLogs(c) \/ Wait(c) \/ Inspect(c)
      BY <1>1, <2>2 DEF WritePullLogs, Wait, Inspect, Shape
    <2>3. CASE Create(c)
      <3>1. NewContainer(c) \in Container
        BY <2>3, NewIsNext DEF Create
      <3>2. containers' \in [Container -> Life]
        BY <1>1, <2>3 DEF Create, Shape, Life
      <3>3. refused' \subseteq Container \cup {Dir(d) : d \in Calls}
        BY <1>1, <2>3, <3>1 DEF Create, Shape
      <3>4. deferred' \in [Calls -> Seq(Container \cup {Dir(d) : d \in Calls})]
        <4>1. CASE UNCHANGED deferred
          BY <1>1, <4>1 DEF Shape
        <4>2. CASE Defer(c, NewContainer(c))
          <5> DEFINE S == Container \cup {Dir(d) : d \in Calls}
          <5>1. deferred \in [Calls -> Seq(S)] /\ NewContainer(c) \in S
            BY <1>1, <3>1 DEF Shape
          <5> HIDE DEF S
          <5>2. deferred' \in [Calls -> Seq(S)]
            BY <4>2, <5>1, AppendType DEF Defer
          <5> QED BY <5>2 DEF S
        <4> QED BY <2>3, <4>1, <4>2 DEF Create
      <3> QED BY <1>1, <2>3, <3>2, <3>3, <3>4 DEF Create, Shape
    <2>4. CASE Start(c)
      BY <1>1, <2>4 DEF Start, Shape, Life
    <2> QED BY <1>2, <2>1, <2>2, <2>3, <2>4 DEF Statement
  <1> QED BY <1>1, <1>2, <1>3, <1>4 DEF Shape, Dir, Container

(* Types after any step of a call. *)
LEMMA CallTypesKept ==
  ASSUME DockerTypeOK, NEW c \in Calls, CallInv(c), CallInv(c)', Call(c) \/ EndContext(c)
  PROVE  Shape'
  <1>1. Shape
    BY TwoParts
  <1>2. CASE Statement(c)
    BY <1>2, StatementTypes
  <1>3. CASE Begin(c)
    <2>1. callTries[c] + 1 \in 0 .. MaxTries
      <3>1. callTries[c] # 0 => callTries[c] < MaxTries
        <4>1. phase[c] = "idle" /\ WhereFits(c)
          BY <1>3 DEF Begin, CallInv
        <4> QED BY <4>1 DEF WhereFits
      <3>2. callTries[c] \in Nat /\ MaxTries \in Nat /\ MaxTries >= 1
        BY CallTypes
      <3> QED BY <3>1, <3>2
    <2>2. op' \in [Calls -> Op]
      BY <1>1, <1>3 DEF Begin, Shape
    <2>3. /\ callTries' \in [Calls -> 0 .. MaxTries] /\ phase' \in [Calls -> {"idle", "body", "unwind", "returned"}]
          /\ at' \in [Calls -> 1 .. 11] /\ answer' \in [Calls -> {"none", "error", "passed", "failed"}]
      BY <1>1, <1>3, <2>1 DEF Begin, Shape
    <2> QED BY <1>1, <1>3, <2>2, <2>3 DEF Begin, Shape, Dir, Container
  <1>4. CASE Finish(c)
    BY <1>1, <1>4 DEF Finish, Shape, Dir, Container
  <1>5. CASE EndContext(c)
    BY <1>1, <1>5 DEF EndContext, Shape, Dir, Container
  <1>6. CASE Unwind(c)
    <2>1. deferred[c] # <<>> /\ Undo(c, Last(deferred[c]))
      BY <1>6 DEF Unwind
    <2>2. Last(deferred[c]) \in Container \cup {Dir(d) : d \in Calls}
      BY <2>1, LastIsOwn
    <2>3. /\ dirs' \subseteq Calls /\ refused' \subseteq Container \cup {Dir(d) : d \in Calls}
          /\ containers' \in [Container -> Life]
      BY <1>1, <2>1, <2>2 DEF Undo, Shape, Life
    <2>4. Front(deferred[c]) \in Seq(Container \cup {Dir(d) : d \in Calls})
      BY <2>1, CallTypes, FrontIs
    <2> QED BY <1>1, <1>6, <2>3, <2>4 DEF Unwind, Shape, Dir, Container
  <1> QED BY <1>2, <1>3, <1>4, <1>5, <1>6 DEF Call

(* What is deferred grows by what a statement has just made. *)
LEMMA DeferredOwnKept ==
  ASSUME DockerTypeOK, NEW c \in Calls, CallInv(c), CallInv(c)', Shape', Call(c) \/ EndContext(c)
  PROVE  DeferredOwn(c)'
  <1>1. Len(deferred[c]) <= 3 /\ Range(deferred[c]) \subseteq {Dir(c)} \cup Made(c) /\ Dir(c)' = Dir(c)
    BY DEF DockerTypeOK, Dir
  <1>2. \/ deferred'[c] = deferred[c]
        \/ deferred[c] # <<>> /\ deferred'[c] = Front(deferred[c])
        \/ phase'[c] = "body" /\ deferred'[c] = Append(deferred[c], Dir(c))
        \/ /\ phase'[c] = "body" /\ deferred'[c] = Append(deferred[c], NewContainer(c))
           /\ NewContainer(c) \in Made(c)'
    <2>1. CASE Create(c)
      <3>1. CASE UNCHANGED deferred
        BY <3>1
      <3>2. CASE /\ containers' = [containers EXCEPT ![NewContainer(c)] = "created"]
                 /\ Defer(c, NewContainer(c)) /\ Proceed(c)
        <4>1. phase'[c] = "body" /\ deferred'[c] = Append(deferred[c], NewContainer(c))
          BY <2>1, <3>2 DEF Create, At, Proceed, Defer, DockerTypeOK
        <4>2. NewContainer(c) \in Made(c)'
          BY <2>1, <3>2, CreateMakes DEF Create
        <4> QED BY <4>1, <4>2
      <3> QED BY <2>1, <3>1, <3>2 DEF Create
    <2>2. CASE MakeDir(c)
      BY <2>2 DEF MakeDir, At, Proceed, Return, Defer, DockerTypeOK
    <2>3. CASE Unwind(c)
      BY <2>3 DEF Unwind, DockerTypeOK
    <2>4. CASE ~Create(c) /\ ~MakeDir(c) /\ ~Unwind(c)
      <3>1. UNCHANGED deferred
        BY <2>4 DEF Call, Statement, Begin, WritePullLogs, Start, Wait, Inspect, Finish, EndContext
      <3> QED BY <3>1
    <2> QED BY <2>1, <2>2, <2>3, <2>4
  <1>3. Made(c) \subseteq Made(c)'
    <2>1. CASE Create(c)
      <3>1. CASE UNCHANGED containers
        BY <3>1 DEF Made
      <3>2. CASE containers' = [containers EXCEPT ![NewContainer(c)] = "created"]
        BY <2>1, <3>2, CreateMakes DEF Create
      <3> QED BY <2>1, <3>1, <3>2 DEF Create
    <2>2. CASE Start(c)
      BY <2>2 DEF Start, Made, DockerTypeOK
    <2>3. CASE Unwind(c)
      BY <2>3 DEF Unwind, Undo, Made, DockerTypeOK
    <2>4. CASE ~Create(c) /\ ~Start(c) /\ ~Unwind(c)
      <3>1. UNCHANGED containers
        BY <2>4 DEF Call, Statement, Begin, MakeDir, WritePullLogs, Wait, Inspect, Finish, EndContext
      <3> QED BY <3>1 DEF Made
    <2> QED BY <2>1, <2>2, <2>3, <2>4
  <1>4. deferred[c] \in Seq(Container \cup {Dir(d) : d \in Calls}) /\ Len(deferred[c]) \in Nat
    BY CallTypes
  <1>5. phase'[c] = "body" => Len(deferred'[c]) <= 3
    BY DEF CallInv, DeferredFits, Creates
  <1>6. CASE deferred'[c] = deferred[c]
    BY <1>1, <1>3, <1>6 DEF DeferredOwn
  <1>7. CASE deferred[c] # <<>> /\ deferred'[c] = Front(deferred[c])
    <2>1. Range(Front(deferred[c])) \subseteq Range(deferred[c]) /\ Len(Front(deferred[c])) = Len(deferred[c]) - 1
      BY <1>4, <1>7, FrontIs
    <2> QED BY <1>1, <1>3, <1>4, <1>7, <2>1 DEF DeferredOwn
  <1>8. ASSUME NEW new, new = Dir(c) \/ new \in Made(c)', phase'[c] = "body",
               deferred'[c] = Append(deferred[c], new)
        PROVE  DeferredOwn(c)'
    <2>1. Range(deferred'[c]) \subseteq Range(deferred[c]) \cup {new}
      BY <1>4, <1>8 DEF Range
    <2> QED BY <1>1, <1>3, <1>5, <1>8, <2>1 DEF DeferredOwn
  <1> QED BY <1>2, <1>6, <1>7, <1>8

(* The parts of the invariant are kept by every step. *)
LEMMA DockerInit_Inv == DockerInit => DockerInv
  <1> SUFFICES ASSUME DockerInit PROVE DockerInv
    OBVIOUS
  <1>1. \A c \in Calls : deferred[c] = <<>> /\ Made(c) = {} /\ Range(deferred[c]) = {}
    BY DEF DockerInit, Made, Range
  <1>2. DockerTypeOK
    <2>1. \A c \in Calls : DeferredOwn(c)
      BY <1>1 DEF DeferredOwn
    <2>2. Shape
      <3>1. 0 \in 0 .. MaxTries /\ 1 \in 1 .. 11
        BY TriesAssumption
      <3>2. <<>> \in Seq(Container \cup {Dir(c) : c \in Calls})
        OBVIOUS
      <3> QED BY <3>1, <3>2 DEF DockerInit, Shape, Op, Life
    <2> QED BY <2>1, <2>2, TwoParts
  <1>3. ASSUME NEW c \in Calls PROVE CallInv(c)
    <2>1. /\ phase[c] = "idle" /\ answer[c] = "none" /\ callTries[c] = 0 /\ deferred[c] = <<>>
          /\ c \notin dirs /\ op[c] = "execute" /\ Made(c) = {}
          /\ \A k \in Container : containers[k] = "none" /\ code[k] = "none"
      BY <1>1 DEF DockerInit
    <2>2. Count(c) = 0
      BY <2>1, FS_EmptySet DEF Count
    <2>3. MadeFirst(c)
      BY <2>1, <2>2 DEF MadeFirst
    <2>4. WhereFits(c) /\ CurrentFits(c) /\ PassedFits(c)
      BY <2>1, <2>2 DEF WhereFits, CurrentFits, PassedFits
    <2>5. DeferredFits(c) /\ Owed(c)
      BY <2>1 DEF DeferredFits, Owed
    <2>6. CodeFits(c)
      <3>1. \A i \in 1 .. MaxTries + 1 : <<c, i>> \in Container
        BY <1>2, CallTypes
      <3> QED BY <2>1, <3>1 DEF CodeFits
    <2> QED BY <2>3, <2>4, <2>5, <2>6 DEF CallInv
  <1> QED BY <1>2, <1>3 DEF DockerInv

(* The bound on what is deferred for a call that a step does not touch. *)
LEMMA UntouchedOwn ==
  ASSUME DockerTypeOK, NEW d \in Calls, Untouched(d)
  PROVE  DeferredOwn(d)'
  <1>1. Made(d)' = Made(d)
    BY MadeKept DEF Untouched
  <1> QED BY <1>1 DEF DockerTypeOK, DeferredOwn, Dir, Untouched

(* Each step: the call that takes it, and the calls it leaves alone. *)
LEMMA DockerNext_Inv ==
  ASSUME DockerInv, [DockerNext]_dockerVars
  PROVE  DockerInv'
  <1>1. DockerTypeOK /\ Shape /\ \A c \in Calls : CallInv(c)
    BY TwoParts DEF DockerInv
  <1>2. ASSUME NEW c \in Calls, Call(c) \/ EndContext(c)
        PROVE  DockerInv'
    <2>1. CallInv(c)'
      BY <1>1, <1>2, CallStep
    <2>2. Shape'
      BY <1>1, <1>2, <2>1, CallTypesKept
    <2>3. ASSUME NEW d \in Calls PROVE CallInv(d)' /\ DeferredOwn(d)'
      <3>1. CASE d = c
        BY <1>1, <1>2, <2>1, <2>2, <3>1, DeferredOwnKept
      <3>2. CASE d # c
        <4>1. Untouched(d)
          BY <1>1, <1>2, <3>2, OthersUntouched
        <4> QED BY <1>1, <4>1, UntouchedKept, UntouchedOwn
      <3> QED BY <3>1, <3>2
    <2>4. DockerTypeOK'
      <3>1. Shape' /\ (\A d \in Calls : DeferredOwn(d)') => DockerTypeOK'
        BY DEF DockerTypeOK, Shape, DeferredOwn
      <3> QED BY <2>2, <2>3, <3>1
    <2> QED BY <2>3, <2>4 DEF DockerInv
  <1>3. ASSUME NEW k \in Container, Exit(k)
        PROVE  DockerInv'
    <2>1. Shape'
      BY <1>1, <1>3 DEF Exit, Shape, Life, Dir, Container
    <2>2. \A d \in Calls : Made(d)' = Made(d)
      BY <1>1, <1>3 DEF Exit, Made, Shape
    <2>3. \A d \in Calls : DeferredOwn(d)'
      BY <1>1, <1>3, <2>2 DEF Exit, DockerTypeOK, DeferredOwn, Dir
    <2>4. ASSUME NEW d \in Calls PROVE CallInv(d)'
      <3>1. CASE k[1] = d
        BY <1>1, <1>3, <3>1, ExitStep
      <3>2. CASE k[1] # d
        <4>1. \A i \in 1 .. MaxTries + 1 : <<d, i>> # k /\ <<d, i>> \in Container
          <5>1. \A i \in 1 .. MaxTries + 1 : <<d, i>>[1] = d
            OBVIOUS
          <5> QED BY <1>1, <3>2, <5>1, CallTypes
        <4>2. Untouched(d)
          BY <1>1, <1>3, <4>1 DEF Exit, Shape, Untouched
        <4> QED BY <1>1, <4>2, UntouchedKept
      <3> QED BY <3>1, <3>2
    <2>5. DockerTypeOK'
      BY <2>1, <2>3 DEF DockerTypeOK, Shape, DeferredOwn
    <2> QED BY <2>4, <2>5 DEF DockerInv
  <1>4. CASE UNCHANGED dockerVars
    <2>1. Shape' /\ \A d \in Calls : Untouched(d)
      BY <1>1, <1>4 DEF dockerVars, Shape, Untouched, Dir, Container
    <2>2. \A d \in Calls : CallInv(d)' /\ DeferredOwn(d)'
      BY <1>1, <2>1, UntouchedKept, UntouchedOwn
    <2>3. DockerTypeOK'
      BY <2>1, <2>2 DEF DockerTypeOK, Shape, DeferredOwn
    <2> QED BY <2>2, <2>3 DEF DockerInv
  <1> QED BY <1>2, <1>3, <1>4 DEF DockerNext

(* The invariant in every behaviour of the runner. *)
LEMMA DockerInvHolds == DockerSpec => []DockerInv
  BY DockerInit_Inv, DockerNext_Inv, PTL DEF DockerSpec

(***************************************************************************)
(* The types of DockerRunner.tla in every behaviour: at most three things  *)
(* are deferred at a time, all of them of the call's own making.           *)
(***************************************************************************)
THEOREM DockerTypeCorrect == DockerSpec => []DockerTypeOK
  <1>1. DockerInv => DockerTypeOK
    BY DEF DockerInv
  <1> QED BY <1>1, DockerInvHolds, PTL

(***************************************************************************)
(* For every number of calls and of tries, whatever fails: all paths out   *)
(* of the three bodies of docker_run.go give back what was made, and the   *)
(* directory of a call outlives its containers.                            *)
(***************************************************************************)
THEOREM NothingLeftBehindCorrect == DockerSpec => []NothingLeftBehind
  <1>1. DockerInv => NothingLeftBehind
    <2> SUFFICES ASSUME DockerInv, NEW c \in Calls
                 PROVE  /\ phase[c] = "returned" /\ c \in dirs => Dir(c) \in refused
                        /\ \A k \in Made(c) : Present(k) =>
                             \/ k \in refused
                             \/ phase[c] # "returned" /\ (op[c] = "validate" \/ c \in dirs)
      BY DEF NothingLeftBehind
    <2>1. Owed(c) /\ DeferredFits(c)
      BY DEF DockerInv, CallInv
    <2>2. deferred[c] = <<>> => Things(c) = {}
      BY DEF Things, Range
    <2> QED BY <2>1, <2>2 DEF Owed, DeferredFits
  <1> QED BY <1>1, DockerInvHolds, PTL

(***************************************************************************)
(* For every number of calls and of tries: "passed" is the exit code of    *)
(* the call's last container, which has ended, and go mod tidy has ended   *)
(* before it (docker_run.go:215-241, 333-350).                             *)
(***************************************************************************)
THEOREM PassedIsRealCorrect == DockerSpec => []PassedIsReal
  <1>1. DockerInv => PassedIsReal
    BY DEF DockerInv, CallInv, PassedFits, PassedIsReal, Count
  <1> QED BY <1>1, DockerInvHolds, PTL
-----------------------------------------------------------------------------
(***************************************************************************)
(* The composition of MCAgents.tla is one of each component: a step of one *)
(* is a step of its own specification and a stutter of the other two.      *)
(***************************************************************************)
LEMMA RoomIsEach == RoomSpec => Spec /\ ChatSpec /\ DockerSpec
  <1>1. RoomInit => Init /\ ChatInit /\ DockerInit
    BY DEF RoomInit
  <1>2. [RoomNext]_All => [Next]_vars /\ [ChatNext]_chatVars /\ [DockerNext]_dockerVars
    BY DEF RoomNext, All
  <1> QED BY <1>1, <1>2, PTL DEF RoomSpec, Spec, ChatSpec, DockerSpec

(***************************************************************************)
(* The workflow, the chat and the runner stay within their types, for any  *)
(* number of tasks, agents, calls and tries.                               *)
(***************************************************************************)
THEOREM RoomTypesCorrect == RoomSpec => []TypesOK
  <1>1. TypeOK /\ ChatTypeOK /\ DockerTypeOK => TypesOK
    BY DEF TypesOK
  <1> QED BY <1>1, RoomIsEach, CollaborationTypeCorrect, MeetingTypeCorrect, DockerTypeCorrect, PTL
=============================================================================
