\* Two runs of one second and one action.
CONSTANTS
  r1 = r1
  r2 = r2
  a1 = a1
  a2 = a2
  Run = {r1, r2}
  Act = {a1}
  RepairAction = {"rerun-preflight"}
  Unlimited = {}
  Enabled = {"preflight"}
  None = None
  Torn = Torn
  MaxSecond = 1
  MaxRestarts = 0
SPECIFICATION Spec
INVARIANT OutcomeOnSameReport
CHECK_DEADLOCK FALSE
