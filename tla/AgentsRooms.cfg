\* The workflow: two rounds, up to two tasks a round, three attempts a task.
\* The chat: two agents, two rounds, five calls of StartMeeting.
\* The runner: one call of any method; ExecuteWithRetry may try twice.
CONSTANTS
  MaxIterations = 2
  MaxRetries = 3
  MaxTasks = 2
  Agents = 2
  MaxRounds = 2
  MaxFailures = 3
  MaxStarts = 5
  c1 = c1
  Calls = {c1}
  MaxTries = 2
SPECIFICATION FairRoomSpec
INVARIANTS TypesOK CompletedMeansExecuted FeedbackIsOwn TurnsAreFair NothingLeftBehind PassedIsReal
PROPERTIES WorkflowEndsHere CallsEnd
CHECK_DEADLOCK FALSE
