\* One call of StartMeeting with two agents and one round.
CONSTANTS
  c1 = c1
  Calls = {c1}
  MaxTries = 1
  MaxIterations = 1
  MaxRetries = 1
  MaxTasks = 0
  Agents = 2
  MaxRounds = 1
  MaxFailures = 3
  MaxStarts = 1
SPECIFICATION RoomSpec
INVARIANT AnswerOrError
CHECK_DEADLOCK FALSE
