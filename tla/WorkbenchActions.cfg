\* One run, two requests for the same action, a restart, fairness.
CONSTANTS
  r1 = r1
  r2 = r2
  a1 = a1
  a2 = a2
  Run = {r1}
  Act = {a1, a2}
  RepairAction = {"docker-self-heal"}
  Unlimited = {"docker-self-heal"}
  Enabled = {"sandbox", "preflight", "repair", "docker"}
  None = None
  Torn = Torn
  MaxSecond = 1
  MaxRestarts = 1
SPECIFICATION FairSpec
INVARIANTS RunningActionHasRequest SavedWhenQuiet
PROPERTY RequestsEnd
CHECK_DEADLOCK FALSE
