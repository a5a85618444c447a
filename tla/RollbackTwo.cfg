\* Two concurrent rollbacks and another writer, whose one write may fall between any two steps; p2 may be
\* missed by any capture, so that there is a difference without that write, and cannot be removed.
CONSTANTS
  p1 = p1
  p2 = p2
  p3 = p3
  c1 = c1
  c2 = c2
  h1 = h1
  h2 = h2
  Absent = Absent
  Path = {p1, p2}
  Candidate = {p1, p2}
  Content = {c1, c2}
  Damaged = c2
  Handler = {h1, h2}
  Flaky = {p2}
  Stuck = {p2}
  MaxEdits = 1
SPECIFICATION FairSpec
INVARIANTS TypeOK CompletedMeansRestored
PROPERTIES BystandersSurvive RollbackEnds
