------------------------------ MODULE MCAgents ------------------------------
(***************************************************************************)
(* The two users of a MeetingRoom, the collaboration workflow and the      *)
(* group chat, and the Docker runner, for TLC.  A room serves one of the   *)
(* first two; a call of the runner changes nothing of theirs.  They never  *)
(* take steps side by side: a behaviour is one of the three.               *)
(***************************************************************************)
EXTENDS Collaboration, Meeting, DockerRunner

CONSTANT c1

All == <<vars, chatVars, dockerVars>>

NoCall == \A c \in Calls : phase[c] = "idle" /\ callTries[c] = 0

RoomInit == Init /\ ChatInit /\ DockerInit

RoomNext ==
  \/ Next /\ stage = "idle" /\ NoCall /\ UNCHANGED <<chatVars, dockerVars>>
  \/ ChatNext /\ pc = "init" /\ NoCall /\ UNCHANGED <<vars, dockerVars>>
  \/ DockerNext /\ pc = "init" /\ stage = "idle" /\ UNCHANGED <<vars, chatVars>>

RoomSpec == RoomInit /\ [][RoomNext]_All

RoomStep == Step /\ stage = "idle" /\ NoCall /\ UNCHANGED <<chatVars, dockerVars>>

DockerStep(c) ==
  /\ Waiting(c) => c \in ended
  /\ Call(c) /\ ~NoCall /\ UNCHANGED <<vars, chatVars>>

DeadlineStep(c) == EndContext(c) /\ UNCHANGED <<vars, chatVars>>

(* Fairness of the workflow and of the runner, as in their own modules. *)
FairRoomSpec ==
  /\ RoomSpec
  /\ WF_All(RoomStep)
  /\ \A c \in Calls : WF_All(DockerStep(c)) /\ WF_All(DeadlineStep(c))

(* The components stay within their types. *)
TypesOK == TypeOK /\ ChatTypeOK /\ DockerTypeOK

(* The workflow ends or waits for a program, unless it is not what runs. *)
WorkflowEndsHere == <>(stage # "idle" \/ ~NoCall) \/ WorkflowEnds
=============================================================================
