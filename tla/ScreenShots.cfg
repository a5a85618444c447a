\* Two captures, a clear, a task and a restart, with room for one image.
CONSTANTS
  s1 = s1
  s2 = s2
  c1 = c1
  t1 = t1
  Shot = {s1, s2}
  Clearer = {c1}
  Task = {t1}
  None = None
  Keep = 1
  AnalyzeOnCapture = TRUE
  MaxSaves = 1
  MaxRestarts = 1
SPECIFICATION Spec
SYMMETRY MCSymmetry
INVARIANTS TypeOK InsightFitsImage ShownImageKept PendingHasAnalyst
PROPERTY ClearedReturnOnlyByRestart
CHECK_DEADLOCK FALSE
