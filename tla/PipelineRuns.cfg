CONSTANTS
  r1 = r1
  r2 = r2
  i1 = i1
  i2 = i2
  Run = {r1, r2}
  Id = {i1, i2}
  File <- Files
  GoFile = {"service.go", "notes_test.go"}
  Tracked = {"service.go", "NOTES.md", "notes_test.go", "PATCH_PLAN.md", "NEXT_STEPS.md"}
  Auxiliary = {"NOTES.md", "notes_test.go", "PATCH_PLAN.md", "NEXT_STEPS.md"}
  Indexed = {"service.go", "NOTES.md"}
  Initial = {"service.go", "NOTES.md", "go.mod"}
  Dir <- Dirs
  Module = "go.mod"
  PatchNotes = {"PATCH_PLAN.md", "NEXT_STEPS.md"}
  Scaffold = {"service.go", "go.mod"}
  Nobody = Nobody
  Absent = Absent
  NoManifest = NoManifest
  MaxRounds = 1
  Proposable = {"service.go", "notes_test.go"}
  MaxFaults = 1
INVARIANTS
  TypeOK
  
  RollbackOffered
  PassedMeansSound
  BundleSurvives
SPECIFICATION Spec
CHECK_DEADLOCK FALSE
SYMMETRY Symmetry
