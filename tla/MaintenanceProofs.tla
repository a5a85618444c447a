-------------------------- MODULE MaintenanceProofs --------------------------
(***************************************************************************)
(* Proofs about Maintenance, for any number of requests and edits.         *)
(*                                                                         *)
(* While the latest tests of a request count as passed, the areas that     *)
(* nobody else wrote since they began are sound: it does not write itself, *)
(* since its script does not go back from the tests to a command that      *)
(* writes.  An area of its scope that is not sound was then written by     *)
(* another; were that an action whose tests have passed since, the same    *)
(* would hold of it and of its own writes.                                 *)
(***************************************************************************)
EXTENDS Maintenance, TLAPS

(* The commands of each kind of action, as a set. *)
Names(k) ==
  CASE k = "autofix-commit" -> {"collect", "format", "tidy", "test", "vet", "lint", "add", "commit",
                                "last-test", "last-vet"}
    [] k = "docker-self-heal" -> {"first", "tidy", "format", "test", "vet", "last-test", "last-vet"}
    [] OTHER -> {"last-test", "last-vet"}

AtOwnCommand == \A h \in Handler : at[h] \in Names(kind[h]) \cup {"idle", "ended"}

(* Commands after the tests of the local fix. *)
Past == {"vet", "lint", "add", "commit"}

(* Commands at which tests of the request, past or not, may count. *)
Answering == Past \cup {"last-test", "last-vet", "ended"}

TestsAtTests == \A h \in testing : at[h] \in {"test", "first", "last-test"}

PassedIsSound == \A h \in Handler : passed[h] => scope \ foreign[h] \subseteq sound

OwnIsNotForeign == \A h \in Handler : \A a \in Area : writer[a] = h => a \notin foreign[h]

PassedWhere ==
  \A h \in Handler : /\ passed[h] => at[h] \in Answering
                     /\ at[h] \in Past => passed[h]
                     /\ outcome[h] = "completed" => at[h] = "ended" /\ passed[h]

(* What is staged when a request comes to its commit. *)
StagedWasTested ==
  \A s \in index : \A h \in Handler : at[h] = "commit" => scope \subseteq s.sound \cup s.open[h]

(* Where requests stand, and what they have staged and committed. *)
Places ==
  /\ AtOwnCommand
  /\ TestsAtTests
  /\ PassedWhere
  /\ StagedWasTested
  /\ CommittedWasTested

MaintenanceInv == TypeOK /\ Places /\ PassedIsSound /\ OwnIsNotForeign
-----------------------------------------------------------------------------
(* Proceed goes on to a command of the script; from the tests on it does   *)
(* not come back to one that writes, and to the commit only from git add.  *)
LEMMA ProceedGoesOn ==
  ASSUME NEW h \in Handler, TypeOK, AtOwnCommand, Proceed(h),
         at[h] \notin {"idle", "last-test", "last-vet", "ended"}
  PROVE  \E c \in Names(kind[h]) :
           /\ at' = [at EXCEPT ![h] = c] /\ erred' = erred
           /\ at[h] \in Past => c \in Past \cup {"last-test"}
           /\ at[h] = "test" => c = "vet"
           /\ at[h] \notin Past \cup {"test"} => c \in {"format", "tidy", "test"}
           /\ c = "commit" => at[h] = "add"
<1> DEFINE script == Script(kind[h])
           i == CHOOSE j \in DOMAIN script : script[j] = at[h]
           next == script[i + 1]
           Follows(c) == /\ at[h] \in Past => c \in Past \cup {"last-test"}
                         /\ at[h] = "test" => c = "vet"
                         /\ at[h] \notin Past \cup {"test"} => c \in {"format", "tidy", "test"}
                         /\ c = "commit" => at[h] = "add"
<1>0. at' = [at EXCEPT ![h] = next] /\ erred' = erred
  BY DEF Proceed
<1>1. CASE kind[h] = "autofix-commit"
  <2>1. script = <<"collect", "format", "tidy", "test", "vet", "lint", "add", "commit",
                   "last-test", "last-vet">>
    BY <1>1 DEF Script
  <2>a. /\ DOMAIN script = 1 .. 10
        /\ script[1] = "collect"
        /\ script[2] = "format"
        /\ script[3] = "tidy"
        /\ script[4] = "test"
        /\ script[5] = "vet"
        /\ script[6] = "lint"
        /\ script[7] = "add"
        /\ script[8] = "commit"
        /\ script[9] = "last-test"
        /\ script[10] = "last-vet"
    BY <2>1
  <2> HIDE DEF script
  <2>2. at[h] \in {"collect", "format", "tidy", "test", "vet", "lint", "add", "commit"}
    BY <1>1 DEF AtOwnCommand, Names
  <2>3. \E j \in 1 .. 8 : script[j] = at[h]
    BY <2>a, <2>2
  <2>4. i \in 1 .. 10 /\ script[i] = at[h]
    BY <2>a, <2>3
  <2> HIDE DEF i
  <2>5. next \in Names(kind[h]) /\ Follows(next)
    BY <1>1, <2>a, <2>2, <2>4 DEF Names, Past
  <2>6. QED BY <1>0, <2>5
<1>2. CASE kind[h] = "docker-self-heal"
  <2>1. script = <<"first", "tidy", "format", "test", "vet", "last-test", "last-vet">>
    BY <1>2 DEF Script
  <2>a. /\ DOMAIN script = 1 .. 7
        /\ script[1] = "first"
        /\ script[2] = "tidy"
        /\ script[3] = "format"
        /\ script[4] = "test"
        /\ script[5] = "vet"
        /\ script[6] = "last-test"
        /\ script[7] = "last-vet"
    BY <2>1
  <2> HIDE DEF script
  <2>2. at[h] \in {"first", "tidy", "format", "test", "vet"}
    BY <1>2 DEF AtOwnCommand, Names
  <2>3. \E j \in 1 .. 5 : script[j] = at[h]
    BY <2>a, <2>2
  <2>4. i \in 1 .. 7 /\ script[i] = at[h]
    BY <2>a, <2>3
  <2> HIDE DEF i
  <2>5. next \in Names(kind[h]) /\ Follows(next)
    BY <1>2, <2>a, <2>2, <2>4 DEF Names, Past
  <2>6. QED BY <1>0, <2>5
<1>3. kind[h] # "preflight-rerun"
  BY DEF AtOwnCommand, Names
<1>4. QED BY <1>1, <1>2, <1>3 DEF TypeOK, Kind

(* What has passed is sound, or open to the tests of another. *)
LEMMA PassedVouches ==
  ASSUME MaintenanceInv, NEW h \in Handler, passed[h]
  PROVE  scope \subseteq sound \cup Open(h)
<1> USE DEF MaintenanceInv
<1> SUFFICES ASSUME NEW a \in scope, a \notin sound PROVE a \in Open(h)
  OBVIOUS
<1>1. a \in Area /\ a \in foreign[h]
  BY DEF TypeOK, PassedIsSound
<1>2. ASSUME writer[a] \in Handler, passed[writer[a]] PROVE FALSE
  <2>1. a \in foreign[writer[a]]
    BY <1>2 DEF PassedIsSound
  <2>2. QED BY <1>1, <1>2, <2>1 DEF OwnIsNotForeign
<1>3. QED BY <1>1, <1>2 DEF Open

(* A step of one request that moves on and leaves the files alone.  Its    *)
(* tests may lose what they said.                                          *)
LEMMA MovesKeep ==
  ASSUME MaintenanceInv, NEW h \in Handler, NEW c \in Names(kind[h]),
         at[h] \notin {"last-vet", "ended"}, at' = [at EXCEPT ![h] = c],
         c = "commit" => at[h] = "commit",
         testing' \subseteq testing, h \notin testing',
         passed'[h] \in BOOLEAN, passed' = [passed EXCEPT ![h] = passed'[h]],
         passed'[h] => (passed[h] \/ scope \ foreign[h] \subseteq sound) /\ c \in Answering,
         c \in Past => passed'[h],
         erred' \in [Handler -> BOOLEAN],
         UNCHANGED <<kind, scope, outcome, left, sound, writer, foreign, index, commits, edits>>
  PROVE  MaintenanceInv'
<1> USE DEF MaintenanceInv, Places
<1>1. c \in Command
  BY DEF Names, Command, TypeOK, Kind
<1>2. passed' \in [Handler -> BOOLEAN]
  BY DEF TypeOK
<1>3. TypeOK'
  BY <1>1, <1>2 DEF TypeOK, Staged, Writer
<1>4. AtOwnCommand' /\ CommittedWasTested'
  BY DEF AtOwnCommand, TypeOK, CommittedWasTested
<1>5. TestsAtTests'
  BY DEF TestsAtTests, TypeOK
<1>6. \A g \in Handler : g # h => passed'[g] = passed[g] /\ at'[g] = at[g]
  BY DEF TypeOK
<1>7. at'[h] = c
  BY DEF TypeOK
<1>8. PassedWhere'
  BY <1>6, <1>7 DEF PassedWhere
<1>9. StagedWasTested'
  BY <1>6, <1>7 DEF StagedWasTested
<1>10. PassedIsSound' /\ OwnIsNotForeign'
  BY <1>6 DEF PassedIsSound, OwnIsNotForeign
<1>11. QED BY <1>3, <1>4, <1>5, <1>8, <1>9, <1>10

(* A step that leaves the tests out. *)
LEMMA PlainKeep ==
  ASSUME MaintenanceInv, NEW h \in Handler, NEW c \in Names(kind[h]),
         at[h] \notin {"last-vet", "ended", "test", "first", "last-test"}, at' = [at EXCEPT ![h] = c],
         c # "commit", c \in Past => at[h] \in Past, at[h] \in Past => c \in Answering,
         erred' \in [Handler -> BOOLEAN],
         UNCHANGED <<kind, scope, testing, passed, outcome, left, sound, writer, foreign, index, commits, edits>>
  PROVE  MaintenanceInv'
<1>1. h \notin testing /\ TypeOK
  BY DEF MaintenanceInv, Places, TestsAtTests
<1>2. passed[h] => at[h] \in Past
  BY DEF MaintenanceInv, Places, PassedWhere, Answering
<1>3. at[h] \in Past => passed[h]
  BY DEF MaintenanceInv, Places, PassedWhere
<1>4. passed' = [passed EXCEPT ![h] = passed'[h]] /\ passed'[h] \in BOOLEAN /\ passed'[h] = passed[h]
  BY <1>1 DEF TypeOK
<1>5. QED BY <1>1, <1>2, <1>3, <1>4, MovesKeep

(* A go test begins: what the one before said no longer counts. *)
LEMMA StartTestKeeps ==
  ASSUME MaintenanceInv, NEW h \in Handler, StartTest(h)
  PROVE  MaintenanceInv'
<1> USE DEF MaintenanceInv, Places
<1>1. /\ at[h] \in {"test", "first", "last-test"} /\ testing' = testing \cup {h}
      /\ passed' = [passed EXCEPT ![h] = FALSE] /\ foreign' = [foreign EXCEPT ![h] = {}]
      /\ UNCHANGED <<kind, scope, at, erred, outcome, left, sound, writer, index, commits, edits>>
  BY DEF StartTest
<1>2. TypeOK'
  BY <1>1 DEF TypeOK, Staged, Writer
<1>3. AtOwnCommand' /\ TestsAtTests' /\ StagedWasTested' /\ CommittedWasTested'
  BY <1>1 DEF AtOwnCommand, TestsAtTests, StagedWasTested, CommittedWasTested
<1>4. PassedWhere'
  BY <1>1 DEF PassedWhere, TypeOK, Past
<1>5. \A g \in Handler : /\ passed'[g] => passed[g] /\ g # h
                         /\ foreign'[g] = IF g = h THEN {} ELSE foreign[g]
  BY <1>1 DEF TypeOK
<1>6. PassedIsSound' /\ OwnIsNotForeign'
  BY <1>1, <1>5 DEF PassedIsSound, OwnIsNotForeign
<1>7. QED BY <1>2, <1>3, <1>4, <1>6

(* A go test ends and the request goes on from it. *)
LEMMA EndTestKeeps ==
  ASSUME MaintenanceInv, NEW h \in Handler, NEW good \in BOOLEAN, EndTest(h, good), Alone(h),
         NEW c \in Names(kind[h]) \ {"commit"}, at' = [at EXCEPT ![h] = c], erred' \in [Handler -> BOOLEAN],
         IF good THEN c \in Answering ELSE c \notin Past
  PROVE  MaintenanceInv'
<1>1. /\ h \in testing /\ testing' = testing \ {h} /\ passed' = [passed EXCEPT ![h] = good]
      /\ good => scope \ foreign[h] \subseteq sound
      /\ UNCHANGED <<kind, scope, outcome, left, sound, writer, foreign, index, commits, edits>>
  BY DEF EndTest, Alone, Untouched
<1>2. TypeOK /\ at[h] \notin {"last-vet", "ended"}
  BY <1>1 DEF MaintenanceInv, Places, TestsAtTests
<1>3. passed'[h] = good
  BY <1>1, <1>2 DEF TypeOK
<1>4. QED BY <1>1, <1>2, <1>3, MovesKeep

(* What writing does to the files and to what the tests have said. *)
LEMMA WriteKeeps ==
  ASSUME MaintenanceInv, NEW by \in Handler \cup {"editor"}, NEW areas \in SUBSET Area, Write(by, areas),
         by \in Handler => ~passed[by], UNCHANGED <<scope, passed>>
  PROVE  /\ sound' \subseteq Area /\ writer' \in [Area -> Writer] /\ foreign' \in [Handler -> SUBSET Area]
         /\ PassedIsSound' /\ OwnIsNotForeign'
<1> USE DEF MaintenanceInv
<1>1. sound' \subseteq Area /\ sound \ areas \subseteq sound'
  BY DEF Write, TypeOK
<1>2. \A a \in Area : writer'[a] = IF a \in areas THEN by ELSE writer[a]
  BY DEF Write
<1>3. writer' \in [Area -> Writer]
  BY DEF Write, TypeOK, Writer
<1>4. \A h \in Handler : foreign'[h] = IF h = by THEN foreign[h] \ areas ELSE foreign[h] \cup areas
  BY DEF Write
<1>5. foreign' \in [Handler -> SUBSET Area]
  BY DEF Write, TypeOK
<1>6. PassedIsSound'
  BY <1>1, <1>4 DEF PassedIsSound
<1>7. OwnIsNotForeign'
  BY <1>2, <1>4, HandlerAssumption DEF OwnIsNotForeign
<1>8. QED BY <1>1, <1>3, <1>5, <1>6, <1>7

(* A request writes before its tests. *)
LEMMA RewriteKeeps ==
  ASSUME MaintenanceInv, NEW h \in Handler, Rewrite(h)
  PROVE  MaintenanceInv'
<1> USE DEF MaintenanceInv, Places
<1>1. PICK areas \in SUBSET Area : Write(h, areas)
  BY DEF Rewrite
<1>2. /\ at[h] \in {"format", "tidy"}
      /\ UNCHANGED <<kind, scope, testing, passed, outcome, left, commits, edits, index>>
  BY DEF Rewrite, Alone
<1>3. \E c \in Names(kind[h]) \ Past : at' = [at EXCEPT ![h] = c] /\ erred' \in [Handler -> BOOLEAN]
  <2>1. CASE Proceed(h)
    BY <1>2, <2>1, ProceedGoesOn DEF TypeOK, Past
  <2>2. CASE kind[h] = "autofix-commit" /\ Abandon(h)
    BY <2>2 DEF Abandon, Names, Past, TypeOK
  <2>3. QED BY <2>1, <2>2 DEF Rewrite
<1>4. PICK c \in Names(kind[h]) \ Past :
        at' = [at EXCEPT ![h] = c] /\ erred' \in [Handler -> BOOLEAN]
  BY <1>3
<1>5. c \in Command
  BY DEF Names, Command, TypeOK, Kind
<1>6. ~passed[h]
  BY <1>2 DEF PassedWhere, Answering, Past
<1>7. /\ sound' \subseteq Area /\ writer' \in [Area -> Writer] /\ foreign' \in [Handler -> SUBSET Area]
      /\ PassedIsSound' /\ OwnIsNotForeign'
  BY <1>1, <1>2, <1>6, WriteKeeps
<1>8. TypeOK'
  BY <1>2, <1>4, <1>5, <1>7 DEF TypeOK, Staged, Writer
<1>9. AtOwnCommand' /\ CommittedWasTested'
  BY <1>2, <1>4 DEF AtOwnCommand, TypeOK, CommittedWasTested
<1>10. TestsAtTests' /\ StagedWasTested'
  BY <1>2, <1>4 DEF TestsAtTests, StagedWasTested, TypeOK, Past
<1>11. PassedWhere'
  BY <1>2, <1>4, <1>6 DEF PassedWhere, TypeOK
<1>12. QED BY <1>7, <1>8, <1>9, <1>10, <1>11

(* The editor takes areas from whoever has tested them. *)
LEMMA EditKeeps ==
  ASSUME MaintenanceInv, Edit
  PROVE  MaintenanceInv'
<1> USE DEF MaintenanceInv, Places
<1>1. PICK areas \in SUBSET Area : Write("editor", areas)
  BY DEF Edit
<1>2. /\ edits < MaxEdits /\ edits' = edits + 1
      /\ UNCHANGED <<kind, scope, at, erred, testing, passed, outcome, left, index, commits>>
  BY DEF Edit
<1>3. /\ sound' \subseteq Area /\ writer' \in [Area -> Writer] /\ foreign' \in [Handler -> SUBSET Area]
      /\ PassedIsSound' /\ OwnIsNotForeign'
  BY <1>1, <1>2, WriteKeeps, HandlerAssumption
<1>4. TypeOK'
  BY <1>2, <1>3, MaxEditsAssumption DEF TypeOK, Staged, Writer
<1>5. AtOwnCommand' /\ TestsAtTests' /\ PassedWhere' /\ StagedWasTested' /\ CommittedWasTested'
  BY <1>2 DEF AtOwnCommand, TestsAtTests, PassedWhere, StagedWasTested, CommittedWasTested
<1>6. QED BY <1>3, <1>4, <1>5

(* git add stages what the request, and any other, has passed its tests. *)
LEMMA AddKeeps ==
  ASSUME MaintenanceInv, NEW h \in Handler, Add(h)
  PROVE  MaintenanceInv'
<1> USE DEF MaintenanceInv, Places
<1>0. /\ at[h] = "add"
      /\ UNCHANGED <<kind, scope, testing, passed, outcome, left, sound, writer, foreign, commits, edits>>
  BY DEF Add, Alone, Untouched
<1>1. "last-test" \in Names(kind[h])
  BY DEF Names
<1>2. CASE at' = [at EXCEPT ![h] = "last-test"] /\ UNCHANGED <<erred, index>>
  BY <1>0, <1>1, <1>2, PlainKeep DEF Past, Answering, TypeOK
<1>3. CASE Abandon(h) /\ UNCHANGED index
  <2>1. erred' \in [Handler -> BOOLEAN] /\ at' = [at EXCEPT ![h] = "last-test"]
    BY <1>3 DEF Abandon, TypeOK
  <2>2. QED BY <1>0, <1>1, <1>3, <2>1, PlainKeep DEF Past, Answering
<1>4. CASE Proceed(h) /\ index' = {[sound |-> sound, open |-> [g \in Handler |-> Open(g)]]}
  <2>1. PICK c \in Names(kind[h]) :
          at' = [at EXCEPT ![h] = c] /\ erred' = erred /\ c \in Past \cup {"last-test"}
    BY <1>0, <1>4, ProceedGoesOn DEF Past
  <2>2. c \in Command
    BY DEF Names, Command, TypeOK, Kind
  <2>3. \A g \in Handler : Open(g) \subseteq Area
    BY DEF Open, TypeOK
  <2>4. [sound |-> sound, open |-> [g \in Handler |-> Open(g)]] \in Staged
    BY <2>3 DEF Staged, TypeOK
  <2>5. index' \in SUBSET Staged /\ \A s, t \in index' : s = t
    BY <1>4, <2>4
  <2>6. TypeOK'
    BY <1>0, <2>1, <2>2, <2>5 DEF TypeOK
  <2>7. AtOwnCommand' /\ CommittedWasTested' /\ TestsAtTests' /\ PassedIsSound' /\ OwnIsNotForeign'
    BY <1>0, <2>1 DEF AtOwnCommand, CommittedWasTested, TestsAtTests, PassedIsSound, OwnIsNotForeign, TypeOK
  <2>8. PassedWhere'
    BY <1>0, <2>1 DEF PassedWhere, TypeOK, Past, Answering
  <2>9. StagedWasTested'
    <3> SUFFICES ASSUME NEW g \in Handler, at'[g] = "commit" PROVE scope \subseteq sound \cup Open(g)
      BY <1>0, <1>4 DEF StagedWasTested
    <3>1. passed[g]
      BY <1>0, <2>8 DEF PassedWhere, Past
    <3>2. QED BY <3>1, PassedVouches
  <2>10. QED BY <2>6, <2>7, <2>8, <2>9
<1>5. QED BY <1>2, <1>3, <1>4 DEF Add

(* git commit takes what was staged after the tests of its request. *)
LEMMA CommitKeeps ==
  ASSUME MaintenanceInv, NEW h \in Handler, Commit(h)
  PROVE  MaintenanceInv'
<1> USE DEF MaintenanceInv, Places
<1>0. /\ at[h] = "commit"
      /\ UNCHANGED <<kind, scope, testing, passed, outcome, left, sound, writer, foreign, edits>>
  BY DEF Commit, Untouched
<1>1. CASE Abandon(h) /\ UNCHANGED <<commits, index>>
  <2>1. erred' \in [Handler -> BOOLEAN] /\ at' = [at EXCEPT ![h] = "last-test"]
    BY <1>1 DEF Abandon, TypeOK
  <2>2. "last-test" \in Names(kind[h])
    BY DEF Names
  <2>3. QED BY <1>0, <1>1, <2>1, <2>2, PlainKeep DEF Past, Answering
<1>2. CASE /\ Proceed(h) /\ index' = {}
           /\ \E s \in index :
                commits' = commits \cup {[by |-> h, sound |-> s.sound, open |-> s.open[h]]}
  <2>1. PICK c \in Names(kind[h]) :
          at' = [at EXCEPT ![h] = c] /\ erred' = erred /\ c \in Past \cup {"last-test"} /\ c # "commit"
    BY <1>0, <1>2, ProceedGoesOn DEF Past
  <2>2. PICK s \in index :
          commits' = commits \cup {[by |-> h, sound |-> s.sound, open |-> s.open[h]]}
    BY <1>2
  <2>3. c \in Command
    BY DEF Names, Command, TypeOK, Kind
  <2>4. s.sound \subseteq Area /\ s.open[h] \subseteq Area
    BY DEF TypeOK, Staged
  <2>5. TypeOK'
    BY <1>0, <1>2, <2>1, <2>2, <2>3, <2>4 DEF TypeOK
  <2>6. scope \subseteq s.sound \cup s.open[h]
    BY <1>0 DEF StagedWasTested
  <2>7. CommittedWasTested'
    BY <1>0, <2>2, <2>6 DEF CommittedWasTested
  <2>8. AtOwnCommand' /\ TestsAtTests' /\ StagedWasTested' /\ PassedIsSound' /\ OwnIsNotForeign'
    BY <1>0, <1>2, <2>1 DEF AtOwnCommand, TestsAtTests, StagedWasTested, PassedIsSound, OwnIsNotForeign, TypeOK
  <2>9. PassedWhere'
    BY <1>0, <2>1 DEF PassedWhere, TypeOK, Past, Answering
  <2>10. QED BY <2>5, <2>7, <2>8, <2>9
<1>3. QED BY <1>1, <1>2 DEF Commit

(* The last check gives the action its status. *)
LEMMA LastVetKeeps ==
  ASSUME MaintenanceInv, NEW h \in Handler, LastVet(h)
  PROVE  MaintenanceInv'
<1> USE DEF MaintenanceInv, Places
<1>1. PICK o \in {"completed", "failed"} : Conclude(h, o) /\ (o = "completed" => passed[h])
  BY DEF LastVet
<1>2. /\ at[h] = "last-vet" /\ at' = [at EXCEPT ![h] = "ended"] /\ outcome' = [outcome EXCEPT ![h] = o]
      /\ UNCHANGED <<kind, scope, erred, testing, passed, left, sound, writer, foreign, index, commits, edits>>
  BY <1>1 DEF LastVet, Conclude, Untouched
<1>3. TypeOK'
  BY <1>1, <1>2 DEF TypeOK, Staged, Writer, Command
<1>4. AtOwnCommand' /\ CommittedWasTested' /\ StagedWasTested' /\ PassedIsSound' /\ OwnIsNotForeign'
  BY <1>2 DEF AtOwnCommand, CommittedWasTested, StagedWasTested, PassedIsSound, OwnIsNotForeign, TypeOK
<1>5. TestsAtTests'
  BY <1>2 DEF TestsAtTests, TypeOK
<1>6. PassedWhere'
  BY <1>1, <1>2 DEF PassedWhere, TypeOK, Past, Answering
<1>7. QED BY <1>3, <1>4, <1>5, <1>6

(* Every other step of a request moves on, or ends its tests. *)
LEMMA OtherStepsKeep ==
  ASSUME MaintenanceInv, NEW h \in Handler,
         \/ Begin(h) \/ Collect(h) \/ Test(h) \/ FirstTest(h) \/ Vet(h) \/ LastTest(h)
  PROVE  MaintenanceInv'
<1> USE DEF MaintenanceInv, Places
<1>0. "last-test" \in Names(kind[h]) /\ "last-vet" \in Names(kind[h])
  BY DEF Names
<1>1. ASSUME Abandon(h), Alone(h), Untouched, UNCHANGED <<testing, passed, index>>,
             at[h] \notin {"last-vet", "ended", "test", "first", "last-test"}
      PROVE  MaintenanceInv'
  <2>1. erred' \in [Handler -> BOOLEAN] /\ at' = [at EXCEPT ![h] = "last-test"]
    BY <1>1 DEF Abandon, TypeOK
  <2>2. QED BY <1>0, <1>1, <2>1, PlainKeep DEF Alone, Untouched, Past, Answering
<1>2. ASSUME Proceed(h), Alone(h), Untouched, UNCHANGED <<testing, passed, index>>,
             at[h] \in {"collect", "vet", "lint"}
      PROVE  MaintenanceInv'
  <2>1. PICK c \in Names(kind[h]) :
          /\ at' = [at EXCEPT ![h] = c] /\ erred' = erred /\ c # "commit"
          /\ c \in Past => at[h] \in Past
          /\ at[h] \in Past => c \in Answering
    BY <1>2, ProceedGoesOn DEF Past, Answering
  <2>2. QED BY <1>2, <2>1, PlainKeep DEF Alone, Untouched, TypeOK
<1>3. CASE Begin(h)
  <2>1. PICK c \in {"collect", "first", "last-test"} : c = Head(Script(kind[h]))
    BY DEF TypeOK, Kind, Script
  <2>2. c \in Names(kind[h])
    BY <2>1 DEF TypeOK, Kind, Script, Names
  <2>3. QED BY <1>3, <2>1, <2>2, PlainKeep DEF Begin, Past, TypeOK
<1>4. CASE Collect(h)
  BY <1>1, <1>2, <1>4 DEF Collect
<1>5. CASE Vet(h)
  BY <1>1, <1>2, <1>5 DEF Vet
<1>6. CASE Test(h)
  <2>1. CASE EndTest(h, TRUE) /\ Proceed(h)
    <3>1. PICK c \in Names(kind[h]) : at' = [at EXCEPT ![h] = c] /\ erred' = erred /\ c = "vet"
      BY <1>6, <2>1, ProceedGoesOn DEF Test
    <3>2. c \in Answering /\ c # "commit" /\ erred' \in [Handler -> BOOLEAN]
      BY <3>1 DEF Answering, Past, TypeOK
    <3>3. QED BY <1>6, <2>1, <3>1, <3>2, EndTestKeeps DEF Test
  <2>2. CASE EndTest(h, FALSE) /\ Abandon(h)
    <3>1. erred' \in [Handler -> BOOLEAN] /\ at' = [at EXCEPT ![h] = "last-test"]
      BY <2>2 DEF Abandon, TypeOK
    <3>2. QED BY <1>0, <1>6, <2>2, <3>1, EndTestKeeps DEF Test, Past
  <2>3. QED BY <1>6, <2>1, <2>2 DEF Test
<1>7. CASE FirstTest(h)
  <2>1. CASE EndTest(h, TRUE) /\ at' = [at EXCEPT ![h] = "vet"] /\ UNCHANGED erred
    <3>1. kind[h] = "docker-self-heal"
      BY <1>7 DEF FirstTest, AtOwnCommand, Names, TypeOK, Kind
    <3>2. "vet" \in Names(kind[h]) /\ "vet" \in Answering /\ erred' \in [Handler -> BOOLEAN]
      BY <2>1, <3>1 DEF Names, Answering, Past, TypeOK
    <3>3. QED BY <1>7, <2>1, <3>2, EndTestKeeps DEF FirstTest
  <2>2. CASE EndTest(h, FALSE) /\ Proceed(h)
    <3>1. PICK c \in Names(kind[h]) :
            at' = [at EXCEPT ![h] = c] /\ erred' = erred /\ c \in {"format", "tidy", "test"}
      BY <1>7, <2>2, ProceedGoesOn DEF FirstTest, Past
    <3>2. c \notin Past /\ c # "commit" /\ erred' \in [Handler -> BOOLEAN]
      BY <3>1 DEF Past, TypeOK
    <3>3. QED BY <1>7, <2>2, <3>1, <3>2, EndTestKeeps DEF FirstTest
  <2>3. CASE EndTest(h, FALSE) /\ Abandon(h)
    <3>1. erred' \in [Handler -> BOOLEAN] /\ at' = [at EXCEPT ![h] = "last-test"]
      BY <2>3 DEF Abandon, TypeOK
    <3>2. QED BY <1>0, <1>7, <2>3, <3>1, EndTestKeeps DEF FirstTest, Past
  <2>4. QED BY <1>7, <2>1, <2>2, <2>3 DEF FirstTest
<1>8. CASE LastTest(h)
  <2>1. PICK good \in BOOLEAN : EndTest(h, good)
    BY <1>8 DEF LastTest
  <2>2. "last-vet" \in Answering /\ "last-vet" \notin Past /\ erred' \in [Handler -> BOOLEAN]
    BY <1>8 DEF Answering, Past, LastTest, TypeOK
  <2>3. QED BY <1>0, <1>8, <2>1, <2>2, EndTestKeeps DEF LastTest
<1>9. QED BY <1>3, <1>4, <1>5, <1>6, <1>7, <1>8
-----------------------------------------------------------------------------
(* Nobody has tested or written anything yet. *)
LEMMA InvInitially == Init => MaintenanceInv
<1> SUFFICES ASSUME Init PROVE MaintenanceInv
  OBVIOUS
<1>1. TypeOK
  BY MaxEditsAssumption DEF Init, TypeOK, Area, Command, Writer
<1>2. Places
  BY DEF Init, Places, AtOwnCommand, TestsAtTests, PassedWhere, StagedWasTested, CommittedWasTested, Past
<1>3. PassedIsSound /\ OwnIsNotForeign
  BY DEF Init, PassedIsSound, OwnIsNotForeign
<1>4. QED BY <1>1, <1>2, <1>3 DEF MaintenanceInv

(* Every step keeps the invariant. *)
LEMMA InvPreserved == MaintenanceInv /\ [Next]_vars => MaintenanceInv'
<1> SUFFICES ASSUME MaintenanceInv, [Next]_vars PROVE MaintenanceInv'
  OBVIOUS
<1>1. ASSUME NEW h \in Handler, Step(h) PROVE MaintenanceInv'
  BY <1>1, OtherStepsKeep, StartTestKeeps, RewriteKeeps, AddKeeps, CommitKeeps, LastVetKeeps DEF Step
<1>2. ASSUME left' \subseteq Handler,
             UNCHANGED <<kind, scope, at, erred, testing, passed, outcome, sound, writer, foreign, index,
                         commits, edits>>
      PROVE  MaintenanceInv'
  <2>1. TypeOK'
    BY <1>2 DEF MaintenanceInv, TypeOK, Staged, Writer
  <2>2. Places' /\ PassedIsSound' /\ OwnIsNotForeign'
    BY <1>2 DEF MaintenanceInv, Places, AtOwnCommand, TestsAtTests, PassedWhere, StagedWasTested,
                CommittedWasTested, PassedIsSound, OwnIsNotForeign
  <2>3. QED BY <2>1, <2>2 DEF MaintenanceInv
<1>3. ASSUME NEW h \in Handler, Leave(h) PROVE MaintenanceInv'
  BY <1>2, <1>3 DEF Leave, Untouched, MaintenanceInv, TypeOK
<1>4. CASE Edit
  BY <1>4, EditKeeps
<1>5. CASE UNCHANGED vars
  BY <1>2, <1>5 DEF vars, MaintenanceInv, TypeOK
<1>6. QED BY <1>1, <1>3, <1>4, <1>5 DEF Next

(***************************************************************************)
(* Type correctness of the maintenance actions.                            *)
(***************************************************************************)
THEOREM MaintenanceTypeCorrect == Spec => []TypeOK
<1>1. MaintenanceInv => TypeOK
  BY DEF MaintenanceInv
<1>2. QED BY InvInitially, InvPreserved, <1>1, PTL DEF Spec

(***************************************************************************)
(* What the local fix commits of its packages passes the tests, for any    *)
(* number of actions and edits before, during and after them; only what    *)
(* somebody else wrote since they began and has not yet tested may not     *)
(* (actions_advanced.go:123-224).                                          *)
(***************************************************************************)
THEOREM CommittedCorrect == Spec => []CommittedWasTested
<1>1. MaintenanceInv => CommittedWasTested
  BY DEF MaintenanceInv, Places
<1>2. QED BY InvInitially, InvPreserved, <1>1, PTL DEF Spec

(***************************************************************************)
(* An action that reports "completed" leaves its packages sound but for    *)
(* what somebody else wrote since its last tests began and has not tested  *)
(* with success: of any number of actions the last one to write answers.   *)
(***************************************************************************)
THEOREM CompletedCorrect == Spec => []CompletedMeansSound
<1>1. MaintenanceInv => CompletedMeansSound
  BY PassedVouches DEF MaintenanceInv, Places, PassedWhere, CompletedMeansSound
<1>2. QED BY InvInitially, InvPreserved, <1>1, PTL DEF Spec
=============================================================================
