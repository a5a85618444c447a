\* Two actions of one run on the same workspace, and one write of an editor.
CONSTANTS
  h1 = h1
  h2 = h2
  Handler = {h1, h2}
  MaxEdits = 1
SPECIFICATION Spec
SYMMETRY Symmetry
INVARIANTS CommittedWasTested CompletedMeansSound
CHECK_DEADLOCK FALSE
