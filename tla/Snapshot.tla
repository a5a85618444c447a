------------------------------ MODULE Snapshot ------------------------------
(***************************************************************************)
(* The workspace snapshot of snapshot/manifest.go as operators on maps.    *)
(*                                                                         *)
(* A workspace maps every path to a content, or to Absent when there is no *)
(* such file.  A manifest maps the candidate paths to the content it       *)
(* recorded, or to Absent when it holds no FileRecord of the path, so the  *)
(* hash, size and mode of a record are abstracted to the content they are  *)
(* computed from.  Paths are an unordered set: the code sorts the records  *)
(* of a manifest and the three lists of a Diff, and no result depends on   *)
(* that order.                                                             *)
(***************************************************************************)
CONSTANTS
  Path,        \* the files below the workspace root
  Content,     \* file contents
  Absent,      \* there is no such file, or no record of it
  Candidate    \* files outside excluded directories with a tracked extension

ASSUME AbsentAssumption == Absent \notin Content

ASSUME CandidateAssumption == Candidate \subseteq Path

Workspace == [Path -> Content \cup {Absent}]

Manifest == [Candidate -> Content \cup {Absent}]

EmptyManifest == [p \in Candidate |-> Absent]

Recorded(m) == {p \in Candidate : m[p] # Absent}

(***************************************************************************)
(* One file of Capture's walk.  A file whose read fails gets no record and *)
(* no error: the walk function returns nil.                                *)
(***************************************************************************)
Record(m, ws, p, readable) == [m EXCEPT ![p] = IF readable THEN ws[p] ELSE Absent]

(***************************************************************************)
(* Capture of a workspace nobody is writing to, hidden being the files     *)
(* whose read fails.                                                       *)
(***************************************************************************)
Capture(ws, hidden) == [p \in Candidate |-> IF p \in hidden THEN Absent ELSE ws[p]]

Compare(before, after) ==
  [added    |-> Recorded(after) \ Recorded(before),
   modified |-> {p \in Recorded(before) \cap Recorded(after) : before[p] # after[p]},
   deleted  |-> Recorded(before) \ Recorded(after)]

Changed(diff) == diff.added \cup diff.modified \cup diff.deleted

(***************************************************************************)
(* Restore without errors and without concurrent writers.  The removal of  *)
(* the files in stuck fails, which the code ignores; every record of       *)
(* before is written back, changed or not.                                 *)
(***************************************************************************)
Restore(ws, before, diff, stuck) ==
  [p \in Path |-> IF p \in Recorded(before) THEN before[p]
                  ELSE IF p \in diff.added \ stuck THEN Absent ELSE ws[p]]
=============================================================================
