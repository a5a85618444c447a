------------------------------ MODULE Meeting ------------------------------
(***************************************************************************)
(* The group chat of engine/chat_engine.go over a domain.MeetingRoom: the  *)
(* agents speak in turn; each turn asks the primary provider and, after    *)
(* too many failures of one agent or an answer that reads like a failure,  *)
(* the backup provider, from then on for everybody.  StartMeeting returns  *)
(* at the first turn without an answer and may be called again.            *)
(***************************************************************************)
EXTENDS Naturals, Sequences, FiniteSets

CONSTANTS
  Agents,       \* number of agents
  MaxRounds,    \* MaxRounds of the room
  MaxFailures,  \* maxFailures of completeWithFallback
  MaxStarts     \* bound on the calls of StartMeeting

ASSUME MeetingAssumption ==
  /\ Agents \in Nat \ {0} /\ MaxRounds \in Nat
  /\ MaxFailures \in Nat \ {0} /\ MaxStarts \in Nat

VARIABLES
  stage,      \* where StartMeeting is, or how it ended
  starts,     \* calls of StartMeeting
  hasBackup,  \* BackupProvider # nil
  speaker,    \* CurrentSpeaker, from 0
  round,      \* CurrentRound
  talk,       \* sender of each message; Agents stands for "System"
  failures,   \* FailureCount
  useBackup   \* UseBackup

chatVars == <<stage, starts, hasBackup, speaker, round, talk, failures, useBackup>>

Agent == 0 .. Agents - 1

System == Agents

ChatTypeOK ==
  /\ stage \in {"idle", "turn", "backup", "finished", "failed", "crashed"}
  /\ starts \in 0 .. MaxStarts
  /\ hasBackup \in BOOLEAN
  /\ speaker \in Agent
  /\ round \in 0 .. MaxRounds
  /\ talk \in Seq(Agent \cup {System})
  /\ failures \in [Agent -> Nat]
  /\ useBackup \in BOOLEAN

ChatInit ==
  /\ stage = "idle"
  /\ starts = 0
  /\ hasBackup \in BOOLEAN
  /\ speaker = 0
  /\ round = 0
  /\ talk = <<>>
  /\ failures = [a \in Agent |-> 0]
  /\ useBackup = FALSE
-----------------------------------------------------------------------------
(* The head of the loop: !IsFinished(). *)
Goon(r) == stage' = IF r < MaxRounds THEN "turn" ELSE "finished"

(* The initial message is added whenever a meeting is started or resumed. *)
StartMeeting ==
  /\ stage \in {"idle", "failed", "finished"} /\ starts < MaxStarts
  /\ starts' = starts + 1
  /\ talk' = Append(talk, System)
  /\ Goon(round)
  /\ UNCHANGED <<hasBackup, speaker, round, failures, useBackup>>

(* AddMessage and GetNextSpeaker. *)
Speak ==
  /\ talk' = Append(talk, speaker)
  /\ speaker' = (speaker + 1) % Agents
  /\ round' = IF speaker' = 0 THEN round + 1 ELSE round
  /\ Goon(round')

(* The speaker loses the floor when its turn fails: a mistake. *)
FailPassesOn(how) ==
  /\ stage' = how
  /\ speaker' = (speaker + 1) % Agents
  /\ round' = IF speaker' = 0 THEN round + 1 ELSE round
  /\ UNCHANGED talk

(* Nothing is said and the speaker keeps the floor. *)
Fail(how) == stage' = how /\ UNCHANGED <<talk, speaker, round>>

OnBackup == useBackup /\ hasBackup

AskPrimary ==
  /\ stage = "turn" /\ ~OnBackup
  /\ failures' = [failures EXCEPT ![speaker] = 0]
  /\ Speak
  /\ UNCHANGED <<starts, hasBackup, useBackup>>

(* An error, or an answer with a failure indicator, and what follows it. *)
AskPrimaryFails ==
  /\ stage = "turn" /\ ~OnBackup
  /\ \E indicator \in BOOLEAN :
       /\ failures' = [failures EXCEPT ![speaker] = IF indicator THEN MaxFailures ELSE @ + 1]
       /\ \/ /\ failures'[speaker] >= MaxFailures /\ hasBackup
             /\ useBackup' = TRUE /\ stage' = "backup"
             /\ UNCHANGED <<talk, speaker, round>>
          \/ /\ ~(failures'[speaker] >= MaxFailures /\ hasBackup)
             /\ Fail(IF indicator THEN "crashed" ELSE "failed")
             /\ UNCHANGED useBackup
  /\ UNCHANGED <<starts, hasBackup>>

AskBackup ==
  /\ stage = "backup" \/ (stage = "turn" /\ OnBackup)
  /\ Speak \/ Fail("failed")
  /\ UNCHANGED <<starts, hasBackup, failures, useBackup>>

ChatNext == StartMeeting \/ AskPrimary \/ AskPrimaryFails \/ AskBackup

ChatSpec == ChatInit /\ [][ChatNext]_chatVars
-----------------------------------------------------------------------------
(* How often a sender has spoken. *)
Spoken(a) == Cardinality({i \in 1 .. Len(talk) : talk[i] = a})

(***************************************************************************)
(* Turns are fair, through failures, resumptions and the change of         *)
(* provider: every agent has spoken once in each complete round, and those *)
(* before the current speaker once more.                                   *)
(***************************************************************************)
TurnsAreFair ==
  \A a \in Agent : Spoken(a) = round + (IF a < speaker THEN 1 ELSE 0)

(***************************************************************************)
(* A turn without an answer returns an error (chat_engine.go:148 says the  *)
(* original one): the caller never goes on with neither.                   *)
(***************************************************************************)
AnswerOrError == stage # "crashed"
=============================================================================
