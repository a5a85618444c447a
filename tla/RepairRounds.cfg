\* Three rounds, two failure signatures, two versions and one other writer.
CONSTANTS
  s1 = s1
  s2 = s2
  v1 = v1
  v2 = v2
  MaxRounds = 3
  Signature = {s1, s2}
  Version = {v1, v2}
  NoManifest = NoManifest
  MaxEdits = 1
SPECIFICATION FairSpec
INVARIANTS ContinuesOnlyOnProgress EndsWithReason
PROPERTIES ImplementsRetry LoopEnds
CHECK_DEADLOCK FALSE
