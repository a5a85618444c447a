\* Two runs that may share an ID or a snapshot, one action, a restart.
CONSTANTS
  r1 = r1
  r2 = r2
  a1 = a1
  a2 = a2
  Run = {r1, r2}
  Act = {a1}
  RepairAction = {}
  Unlimited = {}
  Enabled = {"snapshot"}
  None = None
  Torn = Torn
  MaxSecond = 2
  MaxRestarts = 1
SPECIFICATION Spec
SYMMETRY MCSymmetry
INVARIANTS TypeOK RunningMeansInFlight ListedOnce 
CHECK_DEADLOCK FALSE
