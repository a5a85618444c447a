\* What the testing guide promises, with one file whose reads may fail.
CONSTANTS
  p1 = p1
  p2 = p2
  p3 = p3
  c1 = c1
  c2 = c2
  h1 = h1
  h2 = h2
  Absent = Absent
  Path = {p1, p2}
  Candidate = {p1, p2}
  Content = {c1, c2}
  Damaged = c2
  Handler = {h1}
  Flaky = {p2}
  Stuck = {}
  MaxEdits = 0
SPECIFICATION Spec
INVARIANT RollbackRestoresDifferences
