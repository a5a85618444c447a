----------------------------- MODULE MCPipeline -----------------------------
EXTENDS Pipeline, TLC

CONSTANTS r1, r2, i1, i2

Files == {"service.go", "NOTES.md", "notes_test.go", "PATCH_PLAN.md", "NEXT_STEPS.md", "go.mod"}

Dirs ==
  [f \in Files |-> CASE f = "service.go" -> "companion"
                     [] f \in {"NOTES.md", "notes_test.go"} -> "docs"
                     [] f \in {"PATCH_PLAN.md", "NEXT_STEPS.md"} -> "generated_patches"
                     [] f = "go.mod" -> "."]

Symmetry == Permutations({r1, r2}) \cup Permutations({i1, i2})
=============================================================================
