----------------------------- MODULE CacheProofs -----------------------------
(***************************************************************************)
(* Theorems about DocumentCache, for every value of its constants.         *)
(*                                                                         *)
(* The tables agree with each other at every step, the ones inside a call  *)
(* included.  What the safety properties leave out, and IInv adds, is what *)
(* holds while a file is being read again: it is in no table of files and  *)
(* no box is bound to it (Owned).                                          *)
(***************************************************************************)
EXTENDS DocumentCache, TLAPS

Owned ==
    /\ \A b \in bound : b.file \in paths
    /\ job.op = "skip" => job.file \in wsFiles
    /\ job.op \in {"parse", "stamp"} => job.file \in Files \ wsFiles

(* The boxes of one file have different names.                              *)
Distinct == \A a, b \in bound : a.file = b.file /\ a.name = b.name => a = b

Agreement == NoDangling /\ NoLeak /\ NoEmptySet /\ ProjectSound /\ FilesAgree /\ Owned
             /\ Distinct

IInv == TypeOK /\ Agreement /\ LookupsSucceed

-----------------------------------------------------------------------------
(* The tables of boxes all hold the same ones, and a file's boxes are bound *)
(* to it, so the lookups of remove_file and record_file succeed.            *)
LEMMA SameBoxes ==
    ASSUME Agreement
    PROVE  /\ bound = store /\ located = store /\ wsBBs = store
           /\ prjBBs \subseteq store
  BY DEF Agreement, NoDangling, NoLeak

(* With the tables in agreement, no lookup of remove_file or record_file    *)
(* can fail.                                                                *)
LEMMA NoThrow ==
    ASSUME Agreement, NEW f, NEW p
    PROVE  ~RemoveThrows(f) /\ ~RecordThrows(f, p)
<1>1. f \in wsFiles => f \in paths
  BY DEF Agreement, FilesAgree
<1>2. \A b \in BoxesOf(f) : b.name \in wsNames
  BY SameBoxes DEF Agreement, NoEmptySet, Names, BoxesOf
<1>3. QED
  BY <1>1, <1>2 DEF RemoveThrows, RecordThrows

(* What an overlay holds, and that it keeps one box per name.               *)
LEMMA OverlayFacts ==
    ASSUME NEW old, NEW new,
           \A a, b \in old : a.name = b.name => a = b,
           \A a, b \in new : a.name = b.name => a = b
    PROVE  /\ \A a, b \in Overlay(old, new) : a.name = b.name => a = b
           /\ Overlay(old, new) \subseteq old \union new
  BY DEF Overlay, Names

(* Removing a file keeps the agreement, whatever call it is a part of.      *)
LEMMA RemoveStep ==
    ASSUME TypeOK, Agreement, NEW f \in Files, f \in wsFiles, job.op = "idle",
           RemoveFile(f),
           job'.op = "parse", job'.file = f
    PROVE  Agreement'
<1> DEFINE B == BoxesOf(f)
<1>1. /\ bound = store /\ located = store /\ wsBBs = store /\ prjBBs \subseteq store
      /\ B = {b \in store : b.file = f}
  BY SameBoxes DEF BoxesOf
<1>2. /\ store' = store \ B /\ bound' = store \ B /\ located' = store \ B
      /\ wsBBs' = store \ B /\ prjBBs' = prjBBs \ (prjBBs \intersect B)
      /\ wsNames' = wsNames \ (Names(B) \ Names(store \ B))
      /\ paths' = paths \ {f} /\ prjFiles' = prjFiles \ {f} /\ wsFiles' = wsFiles \ {f}
      /\ stamp' = [stamp EXCEPT ![f] = 0]
  BY <1>1 DEF RemoveFile, Destroyed, ProjectEntries, VacantNames
<1>3. NoDangling' /\ NoLeak'
  BY <1>1, <1>2 DEF NoDangling, NoLeak
<1>4. NoEmptySet'
  <2>1. wsNames = Names(store)
    BY <1>1 DEF Agreement, NoEmptySet
  <2>2. Names(store) \ (Names(B) \ Names(store \ B)) = Names(store \ B)
    BY DEF Names
  <2>3. wsNames' = Names(wsBBs')
    BY <1>2, <2>1, <2>2
  <2>4. QED
    BY <2>3 DEF NoEmptySet, Names
<1>5. ProjectSound'
  <2>1. ProjectSound
    BY DEF Agreement
  <2>2. QED
    BY <1>1, <1>2, <2>1 DEF ProjectSound
<1>6. FilesAgree'
  <2>1. FilesAgree
    BY DEF Agreement
  <2>2. stamp \in [Files -> Nat]
    BY DEF TypeOK
  <2>3. wsFiles' = {g \in Files : stamp'[g] # 0}
    BY <1>2, <2>1, <2>2 DEF FilesAgree
  <2>4. prjFiles' \subseteq wsFiles' /\ paths' = wsFiles'
    BY <1>2, <2>1 DEF FilesAgree
  <2>5. QED
    BY <2>3, <2>4 DEF FilesAgree
<1>7. Owned' /\ Distinct'
  <2>1. Owned /\ Distinct
    BY DEF Agreement
  <2>2. QED
    BY <1>1, <1>2, <2>1 DEF Owned, Distinct
<1>8. QED
  BY <1>3, <1>4, <1>5, <1>6, <1>7 DEF Agreement

(* Recording a file that is processed keeps the agreement.                  *)
LEMMA RecordStep ==
    ASSUME TypeOK, Agreement, NEW f \in Files, NEW p, RecordFile(f, p), f \in paths,
           \/ job.op \in {"idle", "skip"} /\ f \in wsFiles /\ UNCHANGED stamp
           \/ /\ job.op = "stamp" /\ f = job.file
              /\ stamp' = [stamp EXCEPT ![f] = clock],
           UNCHANGED <<store, paths, bound, located, wsNames, wsBBs>>,
           job'.op = "idle"
    PROVE  Agreement'
<1>1. NoDangling /\ NoLeak /\ NoEmptySet /\ ProjectSound /\ FilesAgree /\ Owned /\ Distinct
  BY DEF Agreement
<1>2. bound = store /\ BoxesOf(f) \subseteq store /\ prjBBs \subseteq store
  BY SameBoxes DEF BoxesOf
<1>3. \A a, b \in BoxesOf(f) : a.name = b.name => a = b
  BY <1>1 DEF BoxesOf, Distinct
<1>4. /\ prjBBs' \subseteq prjBBs \union BoxesOf(f)
      /\ p \/ prjBBs' = prjBBs
      /\ \A a, b \in prjBBs' : a.name = b.name => a = b
  BY <1>1, <1>3, OverlayFacts DEF RecordFile, ProjectSound
<1>5. NoDangling' /\ NoLeak' /\ NoEmptySet' /\ Distinct'
  BY <1>1, <1>2, <1>4 DEF NoDangling, NoLeak, NoEmptySet, Distinct, Names
<1>6. ProjectSound'
  <2>1. \A b \in prjBBs' : b.file \in prjFiles'
    BY <1>1, <1>4 DEF RecordFile, ProjectSound, BoxesOf
  <2>2. QED
    BY <1>4, <2>1 DEF ProjectSound
<1>7. FilesAgree'
  <2>1. clock # 0
    BY DEF TypeOK
  <2>2. QED
    BY <1>1, <2>1 DEF FilesAgree, RecordFile, TypeOK
<1>8. Owned'
  BY <1>1 DEF Owned
<1>9. QED
  BY <1>1, <1>5, <1>6, <1>7, <1>8 DEF Agreement

(* Entering the boxes of a parsed file keeps the agreement.                 *)
LEMMA ParseStep ==
    ASSUME TypeOK, Agreement, ProcessParse
    PROVE  Agreement' /\ job'.op = "stamp"
<1> DEFINE f == job.file
<1>0. PICK text \in TextsOf(f) \ {Gone} :
         Bind(f, {[file |-> f, name |-> m, born |-> clock] : m \in text})
  BY DEF ProcessParse
<1> DEFINE new == {[file |-> f, name |-> m, born |-> clock] : m \in text}
<1>1. NoDangling /\ NoLeak /\ NoEmptySet /\ ProjectSound /\ FilesAgree /\ Owned /\ Distinct
  BY DEF Agreement
<1>2. /\ job.op = "parse" /\ f \in Files /\ f \notin wsFiles /\ f \notin prjFiles
      /\ f \notin paths /\ BoxesOf(f) = {}
      /\ UNCHANGED <<prjFiles, wsFiles, stamp>>
      /\ job'.op = "stamp" /\ job'.file = f
  BY <1>1 DEF ProcessParse, Owned, FilesAgree, BoxesOf, files, TypeOK, Jobs
<1>4. CASE new = {}
  <2>1. /\ paths' = paths \union {f} /\ bound' = bound
        /\ UNCHANGED <<store, located, prjBBs, wsNames, wsBBs>>
    BY <1>0, <1>2, <1>4 DEF Bind, EmptyEntry
  <2>2. NoDangling' /\ NoLeak' /\ NoEmptySet' /\ ProjectSound' /\ Distinct'
    BY <1>1, <1>2, <2>1 DEF NoDangling, NoLeak, NoEmptySet, ProjectSound, Distinct, Names
  <2>3. FilesAgree' /\ Owned'
    BY <1>1, <1>2, <2>1 DEF FilesAgree, Owned
  <2>4. QED
    BY <1>2, <2>2, <2>3 DEF Agreement
<1>5. CASE new # {}
  <2>1. /\ paths' = paths \union {f} /\ bound' = bound \union new
        /\ store' = store \union new /\ located' = located \union new
        /\ wsBBs' = wsBBs \union new /\ wsNames' = wsNames \union Names(new)
        /\ prjBBs' = prjBBs
    BY <1>0, <1>2, <1>5 DEF Bind
  <2>2. \A b \in new : b.file = f /\ b = [file |-> f, name |-> b.name, born |-> clock]
    OBVIOUS
  <2>3. NoDangling' /\ NoLeak' /\ ProjectSound'
    BY <1>1, <1>2, <2>1 DEF NoDangling, NoLeak, ProjectSound
  <2>4. NoEmptySet'
    <3>1. Names(wsBBs \union new) = Names(wsBBs) \union Names(new)
      BY DEF Names
    <3>2. wsNames' = Names(wsBBs')
      BY <1>1, <2>1, <3>1 DEF NoEmptySet
    <3>3. QED
      BY <3>2 DEF NoEmptySet, Names
  <2>5. Distinct'
    <3>1. \A b \in bound : b.file # f
      BY <1>2 DEF BoxesOf
    <3>2. QED
      BY <1>1, <2>1, <2>2, <3>1 DEF Distinct
  <2>6. FilesAgree'
    BY <1>1, <1>2, <2>1 DEF FilesAgree
  <2>7. Owned'
    BY <1>1, <1>2, <2>1, <2>2 DEF Owned
  <2>8. QED
    BY <1>2, <2>3, <2>4, <2>5, <2>6, <2>7 DEF Agreement
<1>6. QED
  BY <1>4, <1>5
-----------------------------------------------------------------------------
(* A modified file is removed; nothing else of process_file's first look    *)
(* touches a table.                                                         *)
LEMMA ModifiedStep ==
    ASSUME TypeOK, Agreement, NEW f \in Files, NEW p \in BOOLEAN, job.op = "idle",
           ProcessModified(f, p)
    PROVE  Agreement' /\ job'.op = "parse"
<1>1. RemoveFile(f) /\ Start("parse", f, KeptInProject(f, p)) /\ f \in wsFiles
  BY NoThrow DEF ProcessModified, IsModified, Agreement, FilesAgree
<1>2. job'.op = "parse" /\ job'.file = f
  BY <1>1 DEF Start
<1>3. QED
  BY <1>1, <1>2, RemoveStep

(* The steps that touch no table.                                           *)
LEMMA OtherStep ==
    ASSUME Agreement, UNCHANGED <<boxes, prjFiles, wsFiles, stamp>>,
           \/ job' = job
           \/ job.op = "idle" /\ job'.op = "parse" /\ job'.file \in Files
              /\ stamp[job'.file] = 0
           \/ job.op = "idle" /\ job'.op = "skip" /\ job'.file \in Files
              /\ stamp[job'.file] # 0
           \/ job.op \in {"idle", "parse"} /\ job'.op \in {"idle", "dead"}
    PROVE  Agreement'
<1>1. NoDangling /\ NoLeak /\ NoEmptySet /\ ProjectSound /\ FilesAgree /\ Owned /\ Distinct
  BY DEF Agreement
<1>2. NoDangling' /\ NoLeak' /\ NoEmptySet' /\ ProjectSound' /\ Distinct'
  BY <1>1 DEF NoDangling, NoLeak, NoEmptySet, ProjectSound, Distinct, Names, boxes
<1>3. FilesAgree'
  BY <1>1 DEF FilesAgree, boxes
<1>4. Owned'
  BY <1>1 DEF Owned, FilesAgree, boxes
<1>5. QED
  BY <1>2, <1>3, <1>4 DEF Agreement

(* process_file's first look keeps the agreement.                           *)
LEMMA FileStep ==
    ASSUME TypeOK, Agreement, NEW f \in Files, NEW p \in BOOLEAN, job.op = "idle",
           ProcessFile(f, p)
    PROVE  Agreement' /\ job'.op # "threw"
<1>1. CASE ProcessMissing(f)
  <2>1. job' = job /\ UNCHANGED <<boxes, prjFiles, wsFiles, stamp>>
    BY <1>1 DEF ProcessMissing, cache, files
  <2>2. QED
    BY <2>1, OtherStep
<1>2. CASE ProcessUnmodified(f, p)
  <2>1. /\ job'.op = "skip" /\ job'.file = f /\ stamp[f] # 0
        /\ UNCHANGED <<boxes, prjFiles, wsFiles, stamp>>
    BY <1>2 DEF ProcessUnmodified, Start, cache, files
  <2>2. QED
    BY <2>1, OtherStep
<1>3. CASE ProcessModified(f, p)
  BY <1>3, ModifiedStep
<1>4. CASE ProcessNew(f, p)
  <2>1. /\ job'.op = "parse" /\ job'.file = f /\ stamp[f] = 0
        /\ UNCHANGED <<boxes, prjFiles, wsFiles, stamp>>
    BY <1>4 DEF ProcessNew, Start, cache, files
  <2>2. QED
    BY <2>1, OtherStep
<1>5. QED
  BY <1>1, <1>2, <1>3, <1>4 DEF ProcessFile

(* A call that throws leaves the tables as they are.                        *)
LEMMA RaiseStep ==
    ASSUME TypeOK, Raise
    PROVE  /\ job' \in Jobs /\ job'.op \in {"idle", "dead"} /\ job'.at \in {0, job.at}
           /\ iter' \in {iter, NoIteration} /\ due' \in {{}, due}
<1>1. job \in Jobs
  BY DEF TypeOK
<1>2. CASE job' = Idle /\ iter' = NoIteration /\ due' = {}
  <2>1. Idle \in Jobs /\ Idle.op = "idle" /\ Idle.at = 0
    BY DEF Idle, Jobs
  <2>2. QED
    BY <1>2, <2>1
<1>3. CASE job' = [job EXCEPT !.op = "dead"] /\ UNCHANGED <<iter, due>>
  BY <1>1, <1>3 DEF Jobs
<1>4. QED
  BY <1>2, <1>3 DEF Raise

(* Every step keeps the tables in agreement, and no lookup fails.           *)
LEMMA AgreeStep == IInv /\ [Next]_vars => Agreement' /\ LookupsSucceed'
<1> SUFFICES ASSUME TypeOK, Agreement, LookupsSucceed, [Next]_vars
             PROVE  Agreement' /\ job'.op # "threw"
  BY DEF IInv, LookupsSucceed
<1>1. job.op # "threw"
  BY DEF LookupsSucceed
<1>2. ASSUME NEW f \in Files, Delete(f) \/ \E c \in Contents : Edit(f, c)
      PROVE  Agreement' /\ job'.op # "threw"
  <2>1. job' = job /\ UNCHANGED <<boxes, prjFiles, wsFiles, stamp>>
    BY <1>2 DEF Delete, Edit, cache, files
  <2>2. QED
    BY <1>1, <2>1, OtherStep
<1>3. CASE ProcessSkip
  <2>1. /\ job.op = "skip" /\ job.file \in Files /\ ~RecordThrows(job.file, job.prj)
        /\ job.file \in wsFiles /\ job.file \in paths
    BY <1>3, NoThrow DEF ProcessSkip, Agreement, Owned, FilesAgree
  <2>2. RecordFile(job.file, job.prj) /\ job' = Idle
    BY <1>3, <2>1 DEF ProcessSkip
  <2>3. QED
    BY <1>3, <2>1, <2>2, RecordStep DEF ProcessSkip, Idle
<1>4. CASE ProcessParse
  BY <1>4, ParseStep
<1>5. CASE ProcessStamp
  <2>1. /\ job.op = "stamp" /\ job.file \in Files /\ ~RecordThrows(job.file, job.prj)
        /\ job.file \in paths
    BY <1>5, NoThrow DEF ProcessStamp, Agreement, Owned, FilesAgree
  <2>2. RecordFile(job.file, job.prj) /\ job' = Idle
    BY <1>5, <2>1 DEF ProcessStamp
  <2>3. QED
    BY <1>5, <2>1, <2>2, RecordStep DEF ProcessStamp, StampTime, Idle
<1>6. ASSUME NEW f \in Files, NEW p \in BOOLEAN, CallProcess(f, p)
      PROVE  Agreement' /\ job'.op # "threw"
  BY <1>6, FileStep DEF CallProcess, Free
<1>7. CASE ClearProject
  <2>1. /\ prjFiles' = {} /\ prjBBs' = {} /\ job' = job
        /\ UNCHANGED <<store, paths, bound, located, wsNames, wsBBs, wsFiles, stamp>>
    BY <1>7 DEF ClearProject
  <2>2. NoDangling' /\ NoLeak' /\ NoEmptySet' /\ ProjectSound' /\ Distinct'
    BY <2>1 DEF Agreement, NoDangling, NoLeak, NoEmptySet, ProjectSound, Distinct, Names
  <2>3. FilesAgree' /\ Owned'
    BY <2>1 DEF Agreement, FilesAgree, Owned
  <2>4. QED
    BY <1>1, <2>1, <2>2, <2>3 DEF Agreement
<1>8. ASSUME NEW m \in Modules, AddModule(m)
      PROVE  Agreement' /\ job'.op # "threw"
  <2>1. job.op = "idle"
    BY <1>8 DEF AddModule, Free
  <2>2. PICK b \in BoxesNamed(m) :
           IF b \notin located \/ RecordThrows(b.file, TRUE)
           THEN job' = [job EXCEPT !.op = "threw"]
                /\ UNCHANGED <<prjFiles, wsFiles, prjBBs>>
           ELSE UNCHANGED job /\ RecordFile(b.file, TRUE)
    BY <1>8 DEF AddModule
  <2>3. b \in located /\ b \in bound /\ b.file \in Files
    BY SameBoxes DEF BoxesNamed, TypeOK, Box
  <2>4. b.file \in paths /\ b.file \in wsFiles
    BY <2>1, <2>3 DEF Agreement, Owned, FilesAgree
  <2>5. UNCHANGED job /\ RecordFile(b.file, TRUE)
    BY <2>2, <2>3, NoThrow
  <2>6. QED
    BY <1>8, <2>1, <2>3, <2>4, <2>5, RecordStep DEF AddModule
<1>9. ASSUME NEW f \in Files, NEW u \in Uris, RecordUri(f, u)
      PROVE  Agreement' /\ job'.op # "threw"
  <2>1. job' = job /\ UNCHANGED <<boxes, prjFiles, wsFiles, stamp>>
    BY <1>9 DEF RecordUri
  <2>2. QED
    BY <1>1, <2>1, OtherStep
<1>10. CASE \/ \E prjOnly \in BOOLEAN : RefreshStart(prjOnly)
            \/ EnableSharedSourceManager \/ DisableSharedSourceManager
            \/ RefreshTurn \/ RefreshEnd \/ Over \/ UNCHANGED vars
  <2>1. job' = job /\ UNCHANGED <<boxes, prjFiles, wsFiles, stamp>>
    BY <1>10 DEF RefreshStart, EnableSharedSourceManager, DisableSharedSourceManager,
                 RefreshTurn, RefreshEnd, Over, vars, cache, files
  <2>2. QED
    BY <1>1, <2>1, OtherStep
<1>11. ASSUME NEW f \in Files, RefreshVisit(f)
       PROVE  Agreement' /\ job'.op # "threw"
  BY <1>11, FileStep DEF RefreshVisit
<1>12. ASSUME NEW f \in Files, RefreshModified(f)
       PROVE  Agreement' /\ job'.op # "threw"
  BY <1>12, ModifiedStep DEF RefreshModified
<1>13. CASE RefreshCrash
  <2>1. /\ job.op = "idle" /\ job'.op = "dead"
        /\ UNCHANGED <<boxes, prjFiles, wsFiles, stamp>>
    BY <1>13 DEF RefreshCrash, cache, files, TypeOK, Jobs
  <2>2. QED
    BY <2>1, OtherStep
<1>14. CASE Failure
  <2>1. /\ job.op \in {"idle", "parse"} /\ job'.op \in {"idle", "dead"}
        /\ UNCHANGED <<boxes, prjFiles, wsFiles, stamp>>
    BY <1>14, RaiseStep DEF Failure, ParseFails, ProcessThrows, cache, files
  <2>2. QED
    BY <2>1, OtherStep
<1>15. QED
  BY <1>2, <1>3, <1>4, <1>5, <1>6, <1>7, <1>8, <1>9, <1>10, <1>11, <1>12, <1>13, <1>14
  DEF Next, FileSystem, Process, Call, Refresh
-----------------------------------------------------------------------------
(* Type correctness, operation by operation.                                *)
TablesOK ==
    /\ store \subseteq Box /\ bound \subseteq Box /\ located \subseteq Box
    /\ prjBBs \subseteq Box /\ wsBBs \subseteq Box
    /\ paths \subseteq Files /\ wsNames \subseteq Modules
    /\ prjFiles \subseteq Files /\ wsFiles \subseteq Files
    /\ stamp \in [Files -> Nat] /\ clientUri \in [Files -> Uris \union {NoUri}]
WorldOK ==
    /\ disk \in [Files -> Contents \union {Gone}] /\ mtime \in [Files -> Nat]
    /\ clock \in Nat \ {0} /\ edits \in Nat
ManagerOK ==
    /\ shared \in BOOLEAN /\ texts \in [Files -> Contents \union {Gone, Unread}]
    /\ textAt \in [Files -> Nat]
CallsOK ==
    /\ job \in Jobs /\ iter \in Iterations
    /\ readAt \in [Files -> Nat] /\ due \subseteq Files

(* TypeOK in parts, each of which most operations leave alone.              *)
LEMMA TypeParts == TypeOK <=> WorldOK /\ TablesOK /\ ManagerOK /\ CallsOK
  BY DEF TypeOK, WorldOK, TablesOK, ManagerOK, CallsOK

(* A manager that is made or dropped has read nothing.                      *)
LEMMA ManagerTyped ==
    ASSUME ManagerOK, NewManager \/ DropManager \/ EnsureManager \/ UNCHANGED manager
    PROVE  ManagerOK'
<1>1. CASE UNCHANGED manager
  BY <1>1 DEF ManagerOK, manager
<1>2. ASSUME NothingRead
      PROVE  /\ texts' \in [Files -> Contents \union {Gone, Unread}]
             /\ textAt' \in [Files -> Nat]
  BY <1>2 DEF NothingRead
<1>3. CASE NewManager \/ DropManager
  BY <1>2, <1>3 DEF ManagerOK, NewManager, DropManager
<1>4. QED
  BY <1>1, <1>3 DEF EnsureManager

(* remove_file keeps the types of the tables.                               *)
LEMMA RemoveTyped ==
    ASSUME TablesOK, NEW f, RemoveFile(f)
    PROVE  TablesOK'
<1>1. CASE f \in wsFiles
  BY <1>1 DEF RemoveFile, TablesOK
<1>2. CASE f \notin wsFiles
  BY <1>2 DEF RemoveFile, TablesOK, cache, boxes, files
<1>3. QED
  BY <1>1, <1>2

(* record_file keeps the types of the tables.                               *)
LEMMA RecordTyped ==
    ASSUME TablesOK, NEW f \in Files, NEW p, RecordFile(f, p),
           UNCHANGED <<store, paths, bound, located, wsNames, wsBBs, clientUri>>,
           stamp' \in [Files -> Nat]
    PROVE  TablesOK'
<1>1. prjBBs' \subseteq Box
  BY DEF RecordFile, TablesOK, Overlay, BoxesOf
<1>2. prjFiles' \subseteq Files /\ wsFiles' \subseteq Files
  BY DEF RecordFile, TablesOK
<1>3. QED
  BY <1>1, <1>2 DEF TablesOK

(* Entering the boxes of a parsed file keeps the types of the tables.       *)
LEMMA BindTyped ==
    ASSUME TypeOK, NEW f \in Files, NEW text \in TextsOf(f) \ {Gone}, UNCHANGED files,
           Bind(f, {[file |-> f, name |-> m, born |-> clock] : m \in text})
    PROVE  TablesOK'
<1> DEFINE new == {[file |-> f, name |-> m, born |-> clock] : m \in text}
<1>1. text \subseteq Modules /\ clock \in Nat
  BY ContentAssumption DEF TypeOK, TextsOf
<1>2. new \subseteq Box /\ Names(new) \subseteq Modules
  BY <1>1 DEF Box, Names
<1>3. Overlay(prjBBs, new) \subseteq Box
  BY <1>2 DEF Overlay, TypeOK
<1>4. Bind(f, new)
  OBVIOUS
<1> HIDE DEF new
<1>5. QED
  BY <1>2, <1>3, <1>4 DEF Bind, EmptyEntry, TypeOK, TablesOK, files, BoxesOf

(* A call of process_file that starts is a job.                             *)
LEMMA JobTyped ==
    ASSUME NEW op \in {"idle", "skip", "parse", "stamp", "threw", "dead"},
           NEW f \in Files, NEW p \in BOOLEAN, clock \in Nat, Start(op, f, p)
    PROVE  job' \in Jobs
  BY DEF Start, Jobs

(* A call of process_file that moves on or ends is a job.                   *)
LEMMA EndTyped ==
    ASSUME job \in Jobs,
           NEW op \in {"idle", "skip", "parse", "stamp", "threw", "dead"}
    PROVE  [job EXCEPT !.op = op] \in Jobs /\ Idle \in Jobs
  BY DEF Jobs, Idle

(* process_file's first look at a file keeps the types.                     *)
LEMMA FileTyped ==
    ASSUME TypeOK, NEW f \in Files, NEW p \in BOOLEAN, ProcessFile(f, p)
    PROVE  WorldOK' /\ TablesOK' /\ job' \in Jobs /\ readAt' = readAt
<1>1. WorldOK /\ TablesOK /\ clock \in Nat /\ job \in Jobs
  BY TypeParts DEF TypeOK
<1>2. UNCHANGED <<world, clock>> /\ readAt' = readAt
  BY DEF ProcessFile, ProcessMissing, ProcessUnmodified, ProcessModified, ProcessNew
<1>3. WorldOK'
  BY <1>1, <1>2 DEF WorldOK, world
<1>4. job' \in Jobs
  <2>1. KeptInProject(f, p) \in BOOLEAN
    BY DEF KeptInProject
  <2>2. \/ job' = job
        \/ Start("skip", f, p) \/ Start("parse", f, p) \/ Start("threw", f, p)
        \/ Start("parse", f, KeptInProject(f, p))
    BY DEF ProcessFile, ProcessMissing, ProcessUnmodified, ProcessModified, ProcessNew
  <2>3. QED
    BY <1>1, <2>1, <2>2, JobTyped
<1>5. UNCHANGED cache \/ RemoveFile(f)
  BY DEF ProcessFile, ProcessMissing, ProcessUnmodified, ProcessModified, ProcessNew
<1>6. TablesOK'
  <2>1. CASE UNCHANGED cache
    BY <1>1, <2>1 DEF TablesOK, cache, boxes, files
  <2>2. QED
    BY <1>1, <1>5, <2>1, RemoveTyped
<1>7. QED
  BY <1>2, <1>3, <1>4, <1>6

(* What is loaded is what the manager had or what is on disk.               *)
LEMMA LoadTyped ==
    ASSUME TypeOK, NEW f \in Files, NEW text \in TextsOf(f), Load(f, text)
    PROVE  ManagerOK' /\ ReadTime(f) \in Nat
<1>1. text \in Contents \union {Gone, Unread} /\ ReadTime(f) \in Nat
  BY DEF TypeOK, TextsOf, ReadTime
<1>2. QED
  BY <1>1 DEF ManagerOK, Load, TypeOK

(* Every step keeps the types of the manager.                               *)
LEMMA ManagerStep == ASSUME TypeOK, Owned, [Next]_vars PROVE ManagerOK'
<1>1. ManagerOK
  BY TypeParts
<1>2. ASSUME NewManager \/ DropManager \/ EnsureManager \/ UNCHANGED manager
      PROVE  ManagerOK'
  BY <1>1, <1>2, ManagerTyped
<1>3. ASSUME NEW f, NEW p, ProcessFile(f, p)
      PROVE  EnsureManager \/ UNCHANGED manager
  BY <1>3 DEF ProcessFile, ProcessMissing, ProcessUnmodified, ProcessModified, ProcessNew
<1>4. CASE ProcessParse \/ ParseFails
  <2>1. job.file \in Files /\ \E text \in TextsOf(job.file) : Load(job.file, text)
    BY <1>4 DEF ProcessParse, ParseFails, Owned
  <2>2. QED
    BY <2>1, LoadTyped
<1>5. CASE \/ FileSystem \/ ProcessThrows \/ ProcessSkip \/ ClearProject \/ Over
           \/ UNCHANGED vars \/ RefreshCrash \/ RefreshTurn \/ RefreshEnd
           \/ \E m \in Modules : AddModule(m)
           \/ \E f \in Files, u \in Uris : RecordUri(f, u)
           \/ \E prjOnly \in BOOLEAN : RefreshStart(prjOnly)
  <2>1. UNCHANGED manager
    BY <1>5 DEF FileSystem, Edit, Delete, ProcessThrows, ProcessSkip, ClearProject, Over,
                vars, RefreshCrash, RefreshTurn, RefreshEnd, AddModule, RecordUri,
                RefreshStart
  <2>2. QED
    BY <1>2, <2>1
<1>6. CASE ProcessStamp \/ EnableSharedSourceManager \/ DisableSharedSourceManager
  BY <1>2, <1>6 DEF ProcessStamp, EnableSharedSourceManager, DisableSharedSourceManager
<1>7. CASE \E f \in Files, p \in BOOLEAN : CallProcess(f, p)
  BY <1>2, <1>3, <1>7 DEF CallProcess
<1>8. CASE \E f \in Files : RefreshVisit(f) \/ RefreshModified(f)
  BY <1>2, <1>3, <1>8 DEF RefreshVisit, RefreshModified, ProcessFile
<1>9. QED
  BY <1>4, <1>5, <1>6, <1>7, <1>8 DEF Next, Process, Failure, Call, Refresh

(* Every step preserves the types.                                          *)
LEMMA TypeStep == TypeOK /\ Owned /\ [Next]_vars => TypeOK'
<1> SUFFICES ASSUME TypeOK, Owned, [Next]_vars
             PROVE  WorldOK' /\ TablesOK' /\ CallsOK'
  BY ManagerStep DEF TypeOK, WorldOK, TablesOK, ManagerOK, CallsOK
<1>1. WorldOK /\ TablesOK /\ CallsOK
  BY TypeParts
<1>2. ASSUME NEW f \in Files, Delete(f) \/ \E c \in Contents : Edit(f, c)
      PROVE  WorldOK' /\ TablesOK' /\ CallsOK'
  <2>1. UNCHANGED <<cache, job, iter, readAt, due>>
    BY <1>2 DEF Delete, Edit
  <2>2. TablesOK' /\ CallsOK'
    BY <1>1, <2>1 DEF TablesOK, CallsOK, cache, boxes, files
  <2>3. WorldOK'
    BY <1>1, <1>2 DEF WorldOK, Delete, Edit
  <2>4. QED
    BY <2>2, <2>3
<1>3. ASSUME ProcessSkip \/ ProcessStamp
      PROVE  WorldOK' /\ TablesOK' /\ CallsOK'
  <2>1. job.file \in Files
    BY <1>1, <1>3 DEF Owned, ProcessSkip, ProcessStamp, TablesOK
  <2>2. stamp' \in [Files -> Nat]
    BY <1>1, <1>3 DEF ProcessSkip, ProcessStamp, StampTime, TablesOK, WorldOK
  <2>3. WorldOK'
    BY <1>1, <1>3 DEF ProcessSkip, ProcessStamp, WorldOK, world
  <2>4. CallsOK'
    BY <1>1, <1>3, EndTyped DEF ProcessSkip, ProcessStamp, CallsOK
  <2>5. ASSUME RecordFile(job.file, job.prj)
        PROVE  TablesOK'
    BY <1>1, <1>3, <2>1, <2>2, <2>5, RecordTyped DEF ProcessSkip, ProcessStamp
  <2>6. ASSUME UNCHANGED <<prjFiles, wsFiles, prjBBs>>
        PROVE  TablesOK'
    BY <1>1, <1>3, <2>2, <2>6 DEF ProcessSkip, ProcessStamp, TablesOK
  <2>7. QED
    BY <1>3, <2>3, <2>4, <2>5, <2>6 DEF ProcessSkip, ProcessStamp
<1>4. ASSUME ProcessParse
      PROVE  WorldOK' /\ TablesOK' /\ CallsOK'
  <2>1. job.file \in Files
    BY <1>4 DEF Owned, ProcessParse
  <2>2. WorldOK'
    BY <1>1, <1>4 DEF ProcessParse, WorldOK, world
  <2>3. CallsOK'
    <3>1. readAt' \in [Files -> Nat]
      BY <1>1, <1>4, <2>1, LoadTyped DEF ProcessParse, CallsOK
    <3>2. job' \in Jobs
      BY <1>1, <1>4, EndTyped DEF ProcessParse, CallsOK
    <3>3. QED
      BY <1>1, <1>4, <3>1, <3>2 DEF ProcessParse, CallsOK
  <2>4. TablesOK'
    BY <1>4, <2>1, BindTyped DEF ProcessParse
  <2>5. QED
    BY <2>2, <2>3, <2>4
<1>5. ASSUME NEW f \in Files, NEW p \in BOOLEAN,
             CallProcess(f, p)
      PROVE  WorldOK' /\ TablesOK' /\ CallsOK'
  <2>1. ProcessFile(f, p) /\ UNCHANGED <<iter, due>>
    BY <1>5 DEF CallProcess
  <2>2. QED
    BY <1>1, <2>1, FileTyped DEF CallsOK
<1>6. ASSUME ClearProject \/ \E f \in Files, u \in Uris : RecordUri(f, u)
      PROVE  WorldOK' /\ TablesOK' /\ CallsOK'
  <2>1. WorldOK' /\ CallsOK'
    BY <1>1, <1>6 DEF ClearProject, RecordUri, WorldOK, CallsOK, world
  <2>2. TablesOK'
    BY <1>1, <1>6 DEF ClearProject, RecordUri, TablesOK, boxes
  <2>3. QED
    BY <2>1, <2>2
<1>7. ASSUME NEW m \in Modules, AddModule(m)
      PROVE  WorldOK' /\ TablesOK' /\ CallsOK'
  <2>1. PICK b \in BoxesNamed(m) :
           IF b \notin located \/ RecordThrows(b.file, TRUE)
           THEN job' = [job EXCEPT !.op = "threw"]
                /\ UNCHANGED <<prjFiles, wsFiles, prjBBs>>
           ELSE UNCHANGED job /\ RecordFile(b.file, TRUE)
    BY <1>7 DEF AddModule
  <2>2. b.file \in Files
    BY <1>1 DEF BoxesNamed, TablesOK, Box
  <2>3. WorldOK' /\ CallsOK'
    <3>1. job' \in Jobs
      BY <1>1, <2>1, EndTyped DEF CallsOK
    <3>2. QED
      BY <1>1, <1>7, <3>1 DEF AddModule, WorldOK, CallsOK, world
  <2>4. stamp' \in [Files -> Nat]
    BY <1>1, <1>7 DEF AddModule, TablesOK
  <2>5. ASSUME RecordFile(b.file, TRUE)
        PROVE  TablesOK'
    BY <1>1, <1>7, <2>2, <2>4, <2>5, RecordTyped DEF AddModule
  <2>6. ASSUME UNCHANGED <<prjFiles, wsFiles, prjBBs>>
        PROVE  TablesOK'
    BY <1>1, <1>7, <2>4, <2>6 DEF AddModule, TablesOK
  <2>7. QED
    BY <2>1, <2>3, <2>5, <2>6
<1>8. ASSUME \/ \E prjOnly \in BOOLEAN : RefreshStart(prjOnly)
             \/ RefreshTurn \/ RefreshEnd
             \/ EnableSharedSourceManager \/ DisableSharedSourceManager
      PROVE  WorldOK' /\ TablesOK' /\ CallsOK'
  <2>1. WorldOK' /\ TablesOK' /\ job' = job /\ readAt' = readAt
    BY <1>1, <1>8 DEF RefreshStart, RefreshTurn, RefreshEnd, EnableSharedSourceManager,
                      DisableSharedSourceManager, WorldOK, TablesOK, world, cache, boxes,
                      files
  <2>2. iter' \in Iterations
    <3>1. prjFiles \subseteq Files /\ wsFiles \subseteq Files /\ iter \in Iterations
      BY <1>1 DEF TablesOK, CallsOK
    <3>2. CASE \E prjOnly \in BOOLEAN : RefreshStart(prjOnly)
      BY <3>1, <3>2 DEF RefreshStart, Iterations
    <3>3. CASE RefreshTurn
      BY <3>1, <3>3 DEF RefreshTurn, Iterations
    <3>4. CASE RefreshEnd
      BY <3>4 DEF RefreshEnd, NoIteration, Iterations
    <3>5. QED
      BY <1>8, <3>1, <3>2, <3>3, <3>4 DEF EnableSharedSourceManager,
                                          DisableSharedSourceManager
  <2>3. due' \subseteq Files
    BY <1>1, <1>8 DEF RefreshStart, RefreshTurn, RefreshEnd, EnableSharedSourceManager,
                      DisableSharedSourceManager, CallsOK, TablesOK
  <2>4. QED
    BY <1>1, <2>1, <2>2, <2>3 DEF CallsOK
<1>9. ASSUME NEW f \in Files, RefreshVisit(f) \/ RefreshModified(f)
      PROVE  WorldOK' /\ TablesOK' /\ CallsOK'
  <2>1. ProcessFile(f, iter.over = "prj") /\ due' = due \ {f}
    BY <1>9 DEF RefreshVisit, RefreshModified, ProcessFile
  <2>2. WorldOK' /\ TablesOK' /\ job' \in Jobs /\ readAt' = readAt
    BY <2>1, FileTyped
  <2>3. iter' \in Iterations
    BY <1>1, <1>9 DEF RefreshVisit, RefreshModified, CallsOK, Iterations, TablesOK
  <2>4. QED
    BY <1>1, <2>1, <2>2, <2>3 DEF CallsOK
<1>10. ASSUME RefreshCrash
       PROVE  WorldOK' /\ TablesOK' /\ CallsOK'
  <2>1. job' \in Jobs
    BY <1>1, <1>10, EndTyped DEF RefreshCrash, CallsOK
  <2>2. QED
    BY <1>1, <1>10, <2>1 DEF RefreshCrash, WorldOK, TablesOK, CallsOK, world, cache,
                             boxes, files
<1>11. ASSUME Over \/ UNCHANGED vars
       PROVE  WorldOK' /\ TablesOK' /\ CallsOK'
  BY <1>1, <1>11 DEF Over, vars, WorldOK, TablesOK, CallsOK, world, cache, boxes, files
<1>12. ASSUME Failure
       PROVE  WorldOK' /\ TablesOK' /\ CallsOK'
  <2>1. Raise /\ UNCHANGED <<world, clock, cache, readAt>>
    BY <1>12 DEF Failure, ParseFails, ProcessThrows
  <2>2. WorldOK' /\ TablesOK'
    BY <1>1, <2>1 DEF WorldOK, TablesOK, world, cache, boxes, files
  <2>3. NoIteration \in Iterations
    BY DEF NoIteration, Iterations
  <2>4. CallsOK'
    BY <1>1, <2>1, <2>3, RaiseStep DEF CallsOK
  <2>5. QED
    BY <2>2, <2>4
<1>13. QED
  BY <1>2, <1>3, <1>4, <1>5, <1>6, <1>7, <1>8, <1>9, <1>10, <1>11, <1>12
  DEF Next, FileSystem, Process, Call, Refresh
-----------------------------------------------------------------------------
(* The empty cache satisfies the invariant.                                 *)
LEMMA InitIInv == Init => IInv
<1> SUFFICES ASSUME Init PROVE IInv
  OBVIOUS
<1>1. job.op = "idle" /\ job \in Jobs /\ iter \in Iterations
  BY DEF Init, Idle, NoIteration, Jobs, Iterations
<1>2. TypeOK
  <2>1. clock \in Nat \ {0}
    BY DEF Init
  <2>2. /\ texts \in [Files -> Contents \union {Gone, Unread}]
        /\ textAt \in [Files -> Nat] /\ shared \in BOOLEAN
    BY DEF Init
  <2>3. QED
    BY <1>1, <2>1, <2>2 DEF Init, TypeOK
<1>3. NoDangling /\ NoLeak /\ NoEmptySet /\ ProjectSound /\ Distinct
  BY DEF Init, NoDangling, NoLeak, NoEmptySet, ProjectSound, Distinct, Names
<1>4. FilesAgree /\ Owned
  BY <1>1 DEF Init, FilesAgree, Owned
<1>5. QED
  BY <1>1, <1>2, <1>3, <1>4 DEF IInv, Agreement, LookupsSucceed

(* IInv is inductive, so it holds in every reachable state: the tables agree*)
(* and every lookup succeeds, whatever is called and edited.               *)
THEOREM Inductive == Spec => []IInv
<1>1. IInv /\ [Next]_vars => IInv'
  BY AgreeStep, TypeStep DEF IInv, Agreement
<1>2. QED
  BY <1>1, InitIInv, PTL DEF Spec

(* Every variable keeps its type.                                           *)
THEOREM TypeCorrect == Spec => []TypeOK
<1>1. IInv => TypeOK
  BY DEF IInv
<1>2. QED
  BY <1>1, Inductive, PTL

(* No table of the cache refers to a black box that was destroyed.          *)
THEOREM NeverDangles == Spec => []NoDangling
<1>1. IInv => NoDangling
  BY DEF IInv, Agreement
<1>2. QED
  BY <1>1, Inductive, PTL

(* Every black box that exists is reachable from its file and its name.     *)
THEOREM NeverLeaks == Spec => []NoLeak
<1>1. IInv => NoLeak
  BY DEF IInv, Agreement
<1>2. QED
  BY <1>1, Inductive, PTL

(* No at() of remove_file, record_file or get_file_from_module throws.      *)
THEOREM NeverThrows == Spec => []LookupsSucceed
<1>1. IInv => LookupsSucceed
  BY DEF IInv
<1>2. QED
  BY <1>1, Inductive, PTL

(* No name is kept with an empty set of black boxes, none is lost.          *)
THEOREM NeverEmpty == Spec => []NoEmptySet
<1>1. IInv => NoEmptySet
  BY DEF IInv, Agreement
<1>2. QED
  BY <1>1, Inductive, PTL

(* The project's modules are of the project's files, one for each name.     *)
THEOREM ProjectStaysSound == Spec => []ProjectSound
<1>1. IInv => ProjectSound
  BY DEF IInv, Agreement
<1>2. QED
  BY <1>1, Inductive, PTL

(* The tables that list files agree, except on a file being read again.     *)
THEOREM FilesStayAgreed == Spec => []FilesAgree
<1>1. IInv => FilesAgree
  BY DEF IInv, Agreement
<1>2. QED
  BY <1>1, Inductive, PTL

-----------------------------------------------------------------------------
(* A file leaves the project by clear_project or because its own parse      *)
(* failed after it was removed to be read again; every other call keeps it, *)
(* those that throw included.                                               *)
THEOREM ProjectKept == Spec => KeepsProject
<1> DEFINE Kept == \A f \in InProject \ InProject' :
                      ClearProject \/ (job.file = f /\ ParseFails)
<1>1. ASSUME NEW f \in Files, NEW p \in BOOLEAN, IInv, job.op = "idle",
             ProcessFile(f, p)
      PROVE  InProject \subseteq InProject'
  <2>1. InProject = prjFiles
    BY <1>1 DEF InProject
  <2>2. CASE ProcessModified(f, p)
    <3>1. RemoveFile(f) /\ Start("parse", f, KeptInProject(f, p))
      BY <1>1, <2>2, NoThrow DEF ProcessModified, IInv
    <3>2. job'.op = "parse" /\ job'.file = f /\ job'.prj = (f \in prjFiles)
      BY <3>1 DEF Start, KeptInProject
    <3>3. prjFiles \subseteq prjFiles' \union {f}
      BY <3>1 DEF RemoveFile, cache, files
    <3>4. QED
      BY <2>1, <3>2, <3>3 DEF InProject
  <2>3. CASE UNCHANGED cache
    BY <2>1, <2>3 DEF InProject, cache, files
  <2>4. QED
    BY <1>1, <2>2, <2>3 DEF ProcessFile, ProcessMissing, ProcessUnmodified, ProcessNew
<1>2. ASSUME IInv, ProcessSkip \/ ProcessStamp
      PROVE  InProject \subseteq InProject'
  <2>1. RecordFile(job.file, job.prj)
    BY <1>2, NoThrow DEF ProcessSkip, ProcessStamp, IInv
  <2>2. QED
    BY <1>2, <2>1 DEF InProject, RecordFile, ProcessSkip, ProcessStamp
<1>3. ASSUME IInv, ProcessParse
      PROVE  InProject \subseteq InProject'
  <2>1. /\ job' = [job EXCEPT !.op = "stamp"] /\ job \in Jobs
        /\ prjFiles' = prjFiles /\ job.op = "parse"
    BY <1>3 DEF ProcessParse, IInv, TypeOK, files
  <2>2. job'.op = "stamp" /\ job'.file = job.file /\ job'.prj = job.prj
    BY <2>1 DEF Jobs
  <2>3. QED
    BY <2>1, <2>2 DEF InProject
<1>4. ASSUME IInv, NEW m \in Modules, AddModule(m)
      PROVE  InProject \subseteq InProject'
  <2>1. prjFiles \subseteq prjFiles'
    BY <1>4 DEF AddModule, RecordFile
  <2>2. QED
    BY <1>4, <2>1 DEF AddModule, Free, InProject
<1>5. ASSUME UNCHANGED <<prjFiles, job>>
      PROVE  InProject \subseteq InProject'
  BY <1>5 DEF InProject
<1>6. ASSUME RefreshCrash \/ ProcessThrows
      PROVE  InProject \subseteq InProject'
  <2>1. job.op = "idle" /\ prjFiles' = prjFiles
    BY <1>6 DEF RefreshCrash, ProcessThrows, cache, files
  <2>2. QED
    BY <2>1 DEF InProject
<1>7. IInv /\ [Next]_vars => Kept \/ UNCHANGED vars
  <2> SUFFICES ASSUME IInv, [Next]_vars
               PROVE  Kept
    OBVIOUS
  <2>0. InProject \subseteq InProject' => Kept
    OBVIOUS
  <2>1. ASSUME NEW f \in Files,
               \/ Delete(f) \/ \E c \in Contents : Edit(f, c)
               \/ \E u \in Uris : RecordUri(f, u)
        PROVE  Kept
    BY <1>5, <2>0, <2>1 DEF Delete, Edit, RecordUri, cache, files
  <2>2. CASE Process
    BY <1>2, <1>3, <2>0, <2>2 DEF Process
  <2>3. ASSUME NEW f \in Files, NEW p \in BOOLEAN, CallProcess(f, p)
        PROVE  Kept
    BY <1>1, <2>0, <2>3 DEF CallProcess, Free
  <2>4. ASSUME NEW f \in Files, RefreshVisit(f) \/ RefreshModified(f)
        PROVE  Kept
    <3>1. job.op = "idle" /\ ProcessFile(f, iter.over = "prj")
      BY <2>4 DEF RefreshVisit, RefreshModified, ProcessFile
    <3>2. QED
      BY <1>1, <2>0, <3>1
  <2>5. CASE RefreshCrash \/ ProcessThrows
    BY <1>6, <2>0, <2>5
  <2>6. CASE \/ \E prjOnly \in BOOLEAN : RefreshStart(prjOnly)
             \/ EnableSharedSourceManager \/ DisableSharedSourceManager
             \/ RefreshTurn \/ RefreshEnd \/ Over \/ UNCHANGED vars
    BY <1>5, <2>0, <2>6 DEF RefreshStart, EnableSharedSourceManager,
         DisableSharedSourceManager, RefreshTurn, RefreshEnd, Over, vars, cache, files
  <2>7. CASE ClearProject
    BY <2>7
  <2>8. CASE \E m \in Modules : AddModule(m)
    BY <1>4, <2>0, <2>8
  <2>9. CASE ParseFails
    <3>1. prjFiles' = prjFiles /\ job.op = "parse"
      BY <2>9 DEF ParseFails, cache, files
    <3>2. InProject \ InProject' \subseteq {job.file}
      BY <3>1 DEF InProject
    <3>3. QED
      BY <2>9, <3>2
  <2>10. QED
    BY <2>1, <2>2, <2>3, <2>4, <2>5, <2>6, <2>7, <2>8, <2>9
    DEF Next, FileSystem, Failure, Call, Refresh
<1>8. QED
  BY <1>7, Inductive, PTL DEF Spec, KeepsProject
-----------------------------------------------------------------------------
(* Currency.  The boxes bound to a file name what the file defines unless   *)
(* it was edited since its text was read, the text the manager has of a file*)
(* is the file's unless it was edited since it was read, and a call that found a file          *)
(* unmodified still does as long as no edit is younger than the call.       *)
Clocked ==
    (\A f \in Files : readAt[f] <= clock /\ mtime[f] <= clock) /\ job.at <= clock
Parsed ==
    \A f \in paths : Exists(f) /\ mtime[f] <= readAt[f] => Names(BoxesOf(f)) = disk[f]
Checked == job.op = "skip" /\ mtime[job.file] <= job.at
               => mtime[job.file] <= stamp[job.file]
Loaded ==
    \A f \in Files :
        /\ textAt[f] <= clock
        /\ texts[f] \notin {Gone, Unread} /\ Exists(f) /\ mtime[f] <= textAt[f]
               => texts[f] = disk[f]
Current == Clocked /\ Parsed /\ Checked /\ Loaded

(* An empty cache is current.                                               *)
LEMMA InitCurrent == Init => Current
  BY DEF Init, Current, Clocked, Parsed, Checked, Loaded, Idle

(* The texts of the manager stay what they are, or are dropped.             *)
Untouched == UNCHANGED manager \/ NothingRead
LEMMA ManagerCases ==
    ASSUME NewManager \/ DropManager \/ EnsureManager \/ UNCHANGED manager
    PROVE  Untouched
  BY DEF NewManager, DropManager, EnsureManager, Untouched

LEMMA LoadedKept ==
    ASSUME TypeOK, Loaded, UNCHANGED <<disk, mtime>>, clock' >= clock, clock' \in Nat,
           Untouched
    PROVE  Loaded'
<1>1. CASE UNCHANGED manager
  <2>1. textAt \in [Files -> Nat] /\ clock \in Nat
    BY DEF TypeOK
  <2>2. QED
    BY <1>1, <2>1 DEF Loaded, manager, Exists
<1>2. CASE NothingRead
  BY <1>2 DEF Loaded, NothingRead
<1>3. QED
  BY <1>1, <1>2 DEF Untouched

(* A step that neither parses nor removes a file, nor changes one.          *)
LEMMA CurrentKept ==
    ASSUME TypeOK, Current, UNCHANGED <<disk, mtime, bound, paths, readAt>>,
           clock' >= clock, clock' \in Nat, job'.at <= clock',
           job'.op # "skip", Untouched
    PROVE  Current'
<1>1. Clocked'
  BY DEF Current, Clocked, TypeOK
<1>2. Parsed'
  BY DEF Current, Parsed, Exists, BoxesOf, Names
<1>3. Loaded'
  BY LoadedKept DEF Current
<1>4. QED
  BY <1>1, <1>2, <1>3 DEF Current, Checked

(* The steps of the file system: an edit is younger than every reading.     *)
LEMMA CurrentEdit ==
    ASSUME TypeOK, Owned, wsFiles \subseteq Files, paths \subseteq Files, Current,
           NEW g \in Files, Delete(g) \/ \E c \in Contents : Edit(g, c)
    PROVE  Current'
<1>1. UNCHANGED <<bound, paths, readAt, job, stamp, texts, textAt>>
  BY DEF Delete, Edit, cache, boxes, files, manager
<1>2. CASE Delete(g)
  <2>1. /\ disk' = [disk EXCEPT ![g] = Gone] /\ UNCHANGED <<mtime, clock>>
        /\ disk \in [Files -> Contents \union {Gone}]
    BY <1>2 DEF Delete, TypeOK
  <2>2. Clocked' /\ Checked'
    BY <1>1, <2>1 DEF Current, Clocked, Checked
  <2>3. Parsed'
    BY <1>1, <2>1 DEF Current, Parsed, Exists, BoxesOf, Names
  <2>4. Loaded'
    BY <1>1, <2>1 DEF Current, Loaded, Exists
  <2>5. QED
    BY <2>2, <2>3, <2>4 DEF Current
<1>3. ASSUME NEW c \in Contents, Edit(g, c)
      PROVE  Current'
  <2>1. /\ disk' = [disk EXCEPT ![g] = c] /\ mtime' = [mtime EXCEPT ![g] = clock + 1]
        /\ clock' = clock + 1 /\ disk \in [Files -> Contents \union {Gone}]
        /\ mtime \in [Files -> Nat] /\ readAt \in [Files -> Nat] /\ clock \in Nat
        /\ job.at \in Nat /\ textAt \in [Files -> Nat]
    BY <1>3 DEF Edit, TypeOK, Jobs
  <2>2. Clocked'
    BY <1>1, <2>1 DEF Current, Clocked
  <2>3. Checked'
    BY <1>1, <2>1 DEF Current, Clocked, Checked, Owned
  <2>4. Parsed'
    <3>1. ~(mtime'[g] <= readAt'[g])
      BY <1>1, <2>1 DEF Current, Clocked
    <3>2. \A f \in Files \ {g} : disk'[f] = disk[f] /\ mtime'[f] = mtime[f]
      BY <2>1
    <3>3. QED
      BY <1>1, <3>1, <3>2 DEF Current, Parsed, Exists, BoxesOf, Names
  <2>5. Loaded'
    <3>1. ASSUME NEW f \in Files
          PROVE  /\ textAt[f] <= clock' /\ (f = g => ~(mtime'[f] <= textAt[f]))
                 /\ (f # g => disk'[f] = disk[f] /\ mtime'[f] = mtime[f])
      <4>1. textAt[f] \in Nat /\ textAt[f] <= clock
        BY <2>1 DEF Current, Loaded
      <4>2. QED
        BY <2>1, <4>1
    <3>2. QED
      BY <1>1, <3>1 DEF Current, Loaded, Exists
  <2>6. QED
    BY <2>2, <2>3, <2>4, <2>5 DEF Current
<1>4. QED
  BY <1>2, <1>3

(* What is loaded is the file's text, unless it was edited after that.      *)
LEMMA LoadFacts ==
    ASSUME TypeOK, Current, NEW f \in Files, NEW text \in TextsOf(f), Load(f, text),
           UNCHANGED <<disk, mtime, clock>>
    PROVE  /\ ReadTime(f) \in Nat /\ ReadTime(f) <= clock
           /\ text # Gone /\ Exists(f) /\ mtime[f] <= ReadTime(f) => text = disk[f]
           /\ Loaded'
<1>1. /\ textAt \in [Files -> Nat] /\ clock \in Nat
      /\ texts \in [Files -> Contents \union {Gone, Unread}]
      /\ texts' = [texts EXCEPT ![f] = text]
      /\ textAt' = [textAt EXCEPT ![f] = ReadTime(f)]
  BY DEF TypeOK, Load
<1>2. Loaded
  BY DEF Current
<1>3. /\ ReadTime(f) \in Nat /\ ReadTime(f) <= clock
      /\ text # Gone /\ Exists(f) /\ mtime[f] <= ReadTime(f) => text = disk[f]
  <2>1. CASE texts[f] = Unread
    BY <1>1, <2>1 DEF TextsOf, ReadTime
  <2>2. CASE texts[f] # Unread
    BY <1>1, <1>2, <2>2 DEF TextsOf, ReadTime, Loaded
  <2>3. QED
    BY <2>1, <2>2
<1>4. Loaded'
  <2>1. ASSUME NEW g \in Files
        PROVE  /\ textAt'[g] <= clock
               /\ texts'[g] \notin {Gone, Unread} /\ Exists(g) /\ mtime[g] <= textAt'[g]
                      => texts'[g] = disk[g]
    <3>1. CASE g = f
      BY <1>1, <1>3, <3>1
    <3>2. CASE g # f
      BY <1>1, <1>2, <3>2 DEF Loaded
    <3>3. QED
      BY <3>1, <3>2
  <2>2. QED
    BY <2>1 DEF Loaded, Exists
<1>5. QED
  BY <1>3, <1>4

(* A parse enters what the text of the file defines.                        *)
LEMMA CurrentParse ==
    ASSUME TypeOK, Agreement, Current, ProcessParse, NEW f, f = job.file
    PROVE  Current'
<1>1. /\ f \in Files /\ BoxesOf(f) = {} /\ f \notin prjFiles
      /\ UNCHANGED <<disk, mtime, clock>>
  BY DEF Agreement, Owned, FilesAgree, BoxesOf, ProcessParse, world
<1>2. job'.op = "stamp" /\ job'.at = job.at
  BY DEF ProcessParse, TypeOK, Jobs
<1>3. PICK text \in TextsOf(f) \ {Gone} :
         /\ Load(f, text)
         /\ Bind(f, {[file |-> f, name |-> m, born |-> clock] : m \in text})
  BY DEF ProcessParse
<1> DEFINE new == {[file |-> f, name |-> m, born |-> clock] : m \in text}
<1>4. /\ ReadTime(f) \in Nat /\ ReadTime(f) <= clock /\ Loaded'
      /\ Exists(f) /\ mtime[f] <= ReadTime(f) => text = disk[f]
  BY <1>1, <1>3, LoadFacts
<1>5. Current'
  <2>1. /\ paths' = paths \union {f} /\ bound' = bound \union new
        /\ readAt' = [readAt EXCEPT ![f] = ReadTime(f)]
    <3>1. Bind(f, new) /\ readAt' = [readAt EXCEPT ![f] = ReadTime(f)]
      BY <1>3 DEF ProcessParse
    <3>2. QED
      BY <1>1, <3>1 DEF Bind, EmptyEntry
  <2>2. Clocked'
    BY <1>1, <1>2, <1>4, <2>1 DEF Current, Clocked, TypeOK
  <2>3. Parsed'
    <3>1. BoxesOf(f)' = new
      BY <1>1, <2>1 DEF BoxesOf
    <3>2. Names(new) = text
      <4>1. \A b \in new : b.name \in text
        OBVIOUS
      <4>2. ASSUME NEW m \in text
            PROVE  \E b \in new : b.name = m
        <5>1. [file |-> f, name |-> m, born |-> clock] \in new
          OBVIOUS
        <5>2. QED
          BY <5>1
      <4>3. QED
        BY <4>1, <4>2 DEF Names
    <3>3. Exists(f)' /\ mtime'[f] <= readAt'[f] => Names(BoxesOf(f)') = disk'[f]
      <4>1. readAt'[f] = ReadTime(f)
        BY <1>1, <2>1 DEF TypeOK
      <4>2. QED
        BY <1>1, <1>4, <3>1, <3>2, <4>1 DEF Exists
    <3>4. \A g \in paths : g # f => BoxesOf(g)' = BoxesOf(g)
      BY <2>1 DEF BoxesOf
    <3>5. \A g \in paths : g # f => readAt'[g] = readAt[g]
      BY <1>1, <2>1 DEF TypeOK
    <3>6. ASSUME NEW g \in paths', Exists(g)', mtime'[g] <= readAt'[g]
          PROVE  Names(BoxesOf(g)') = disk'[g]
      <4>1. CASE g = f
        BY <3>3, <3>6, <4>1
      <4>2. CASE g # f
        <5>1. g \in paths /\ Exists(g) /\ mtime[g] <= readAt[g]
          BY <1>1, <2>1, <3>5, <3>6, <4>2 DEF Exists
        <5>2. Names(BoxesOf(g)) = disk[g]
          BY <5>1 DEF Current, Parsed
        <5>3. QED
          BY <1>1, <3>4, <4>2, <5>1, <5>2
      <4>3. QED
        BY <4>1, <4>2
    <3>7. \A g \in paths' : Exists(g)' /\ mtime'[g] <= readAt'[g]
             => Names(BoxesOf(g)') = disk'[g]
      BY <3>6
    <3>8. QED
      BY <3>7 DEF Parsed, Names, BoxesOf, Exists
  <2>4. QED
    BY <1>2, <1>4, <2>2, <2>3 DEF Current, Checked
<1>6. QED
  BY <1>5

(* process_file's first look.                                               *)
LEMMA CurrentFile ==
    ASSUME TypeOK, Agreement, Current, NEW f \in Files, NEW p \in BOOLEAN,
           job.op = "idle", ProcessFile(f, p)
    PROVE  Current'
<1>1. /\ UNCHANGED <<disk, mtime, clock, readAt>> /\ clock \in Nat
      /\ readAt \in [Files -> Nat] /\ Untouched
  BY ManagerCases DEF ProcessFile, ProcessMissing, ProcessUnmodified, ProcessModified,
         ProcessNew, world, TypeOK, Untouched
<1>0. Loaded'
  <2>1. clock' \in Nat /\ clock' >= clock
    BY <1>1
  <2>2. QED
    BY <1>1, <2>1, LoadedKept DEF Current
<1>2. CASE ProcessMissing(f)
  <2>1. job' = job /\ UNCHANGED <<bound, paths>>
    BY <1>2 DEF ProcessMissing, cache, boxes
  <2>2. QED
    BY <1>1, <2>1, CurrentKept DEF Current, Clocked
<1>3. CASE ProcessUnmodified(f, p)
  <2>1. /\ job'.op = "skip" /\ job'.file = f /\ job'.at = clock
        /\ mtime[f] <= stamp[f] /\ UNCHANGED <<bound, paths, stamp>>
    BY <1>3 DEF ProcessUnmodified, Start, Unmodified, cache, boxes, files
  <2>2. Clocked' /\ Checked'
    BY <1>1, <2>1 DEF Current, Clocked, Checked
  <2>3. Parsed'
    BY <1>1, <2>1 DEF Current, Parsed, Exists, BoxesOf, Names
  <2>4. QED
    BY <1>0, <2>2, <2>3 DEF Current
<1>4. CASE ProcessModified(f, p)
  <2>1. RemoveFile(f) /\ Start("parse", f, KeptInProject(f, p)) /\ f \in wsFiles
    BY <1>4, NoThrow DEF ProcessModified, IsModified, Agreement, FilesAgree
  <2>2. job'.op = "parse" /\ job'.at = clock
    BY <2>1 DEF Start
  <2>3. bound' = bound \ BoxesOf(f) /\ paths' = paths \ {f}
    BY <2>1 DEF RemoveFile
  <2>4. Clocked' /\ Checked'
    BY <1>1, <2>2 DEF Current, Clocked, Checked
  <2>5. Parsed'
    <3>1. \A g \in paths' : g \in paths /\ BoxesOf(g)' = BoxesOf(g)
      BY <2>3 DEF BoxesOf
    <3>2. ASSUME NEW g \in paths', Exists(g)', mtime'[g] <= readAt'[g]
          PROVE  Names(BoxesOf(g)') = disk'[g]
      <4>1. g \in paths /\ Exists(g) /\ mtime[g] <= readAt[g]
        BY <1>1, <3>1, <3>2 DEF Exists
      <4>2. Names(BoxesOf(g)) = disk[g]
        BY <4>1 DEF Current, Parsed
      <4>3. QED
        BY <1>1, <3>1, <4>2
    <3>3. \A g \in paths' : Exists(g)' /\ mtime'[g] <= readAt'[g]
             => Names(BoxesOf(g)') = disk'[g]
      BY <3>2
    <3>4. QED
      BY <3>3 DEF Parsed, Names, BoxesOf, Exists
  <2>6. QED
    BY <1>0, <2>4, <2>5 DEF Current
<1>5. CASE ProcessNew(f, p)
  <2>1. /\ job'.op = "parse" /\ job'.at = clock /\ UNCHANGED <<bound, paths>>
    BY <1>5 DEF ProcessNew, Start, cache, boxes
  <2>2. QED
    BY <1>1, <2>1, CurrentKept
<1>6. QED
  BY <1>2, <1>3, <1>4, <1>5 DEF ProcessFile

(* Every step keeps the cache current.                                      *)
LEMMA CurrentStep == IInv /\ Current /\ [Next]_vars => Current'
<1> SUFFICES ASSUME TypeOK, Agreement, Current, [Next]_vars
             PROVE  Current'
  BY DEF IInv
<1>1. clock \in Nat /\ clock + 1 >= clock /\ clock >= clock /\ job.at <= clock
      /\ job.at <= clock + 1 /\ 0 <= clock /\ job.at \in Nat
  BY DEF TypeOK, Current, Clocked, Jobs
<1>2. ASSUME NEW f \in Files, Delete(f) \/ \E c \in Contents : Edit(f, c)
      PROVE  Current'
  BY <1>2, CurrentEdit DEF Agreement, TypeOK
<1>3. CASE ProcessSkip \/ ProcessStamp
  <2>1. RecordFile(job.file, job.prj) /\ job' = Idle
    BY <1>3, NoThrow DEF ProcessSkip, ProcessStamp
  <2>2. UNCHANGED <<disk, mtime, bound, paths, readAt>> /\ clock' = clock
    BY <1>3 DEF ProcessSkip, ProcessStamp, world
  <2>3. job'.at = 0 /\ job'.op # "skip"
    BY <2>1 DEF Idle
  <2>4. Untouched
    BY <1>3, NoThrow, ManagerCases DEF ProcessSkip, ProcessStamp
  <2>5. QED
    BY <1>1, <2>2, <2>3, <2>4, CurrentKept
<1>4. CASE ProcessParse
  BY <1>4, CurrentParse
<1>5. ASSUME NEW f \in Files, NEW p \in BOOLEAN, job.op = "idle", ProcessFile(f, p)
      PROVE  Current'
  BY <1>5, CurrentFile
<1>6. CASE Over \/ UNCHANGED vars
  BY <1>6 DEF Over, vars, cache, boxes, files, world, manager, Current, Clocked, Parsed,
              Checked, Loaded, Exists, BoxesOf, Names
<1>7. ASSUME job.op = "idle", job'.op # "skip", job'.at = job.at, Untouched,
             UNCHANGED <<world, clock, bound, paths, readAt>>
      PROVE  Current'
  BY <1>1, <1>7, CurrentKept DEF world
<1>8. CASE \/ ClearProject \/ \E f \in Files, u \in Uris : RecordUri(f, u)
           \/ \E prjOnly \in BOOLEAN : RefreshStart(prjOnly)
           \/ RefreshTurn \/ RefreshEnd
           \/ EnableSharedSourceManager \/ DisableSharedSourceManager
  <2>1. Untouched
    BY <1>8, ManagerCases DEF ClearProject, RecordUri, RefreshStart, RefreshTurn,
       RefreshEnd, EnableSharedSourceManager, DisableSharedSourceManager, Untouched
  <2>2. QED
    BY <1>7, <1>8, <2>1 DEF ClearProject, RecordUri, RefreshStart, RefreshTurn, RefreshEnd,
       EnableSharedSourceManager, DisableSharedSourceManager, Free, cache, boxes
<1>9. ASSUME NEW m \in Modules, AddModule(m)
      PROVE  Current'
  <2>1. job' = job \/ job' = [job EXCEPT !.op = "threw"]
    BY <1>9 DEF AddModule
  <2>2. job'.at = job.at /\ job'.op # "skip" /\ job.op = "idle"
    BY <1>9, <2>1 DEF AddModule, Free, TypeOK, Jobs
  <2>3. QED
    BY <1>7, <1>9, <2>2 DEF AddModule, Untouched
<1>10. CASE RefreshCrash
  <2>1. job'.at = job.at /\ job'.op = "dead" /\ job.op = "idle"
    BY <1>10 DEF RefreshCrash, TypeOK, Jobs
  <2>2. QED
    BY <1>7, <1>10, <2>1 DEF RefreshCrash, cache, boxes, Untouched
<1>11. ASSUME NEW f \in Files, RefreshVisit(f) \/ RefreshModified(f)
       PROVE  Current'
  <2>1. job.op = "idle" /\ ProcessFile(f, iter.over = "prj")
    BY <1>11 DEF RefreshVisit, RefreshModified, ProcessFile
  <2>2. QED
    BY <1>5, <2>1
<1>12. CASE Failure
  <2>1. Raise /\ UNCHANGED <<world, clock, cache, readAt>>
    BY <1>12 DEF Failure, ParseFails, ProcessThrows
  <2>2. job'.op # "skip" /\ job'.at <= clock'
    BY <1>1, <2>1, RaiseStep
  <2>3. CASE ParseFails
    <3>1. job.file \in Files /\ Gone \in TextsOf(job.file) /\ Load(job.file, Gone)
      BY <2>3 DEF ParseFails, Agreement, Owned
    <3>2. UNCHANGED <<disk, mtime, clock>>
      BY <2>1 DEF world
    <3>3. Loaded'
      BY <3>1, <3>2, LoadFacts
    <3>4. Clocked'
      BY <2>1, <2>2, <3>2 DEF Current, Clocked
    <3>5. Parsed'
      BY <2>1, <3>2 DEF cache, boxes, Current, Parsed, Exists, BoxesOf, Names
    <3>6. QED
      BY <2>2, <3>3, <3>4, <3>5 DEF Current, Checked
  <2>4. CASE ProcessThrows
    BY <1>1, <2>1, <2>2, <2>4, CurrentKept DEF ProcessThrows, world, cache, boxes, Untouched
  <2>5. QED
    BY <1>12, <2>3, <2>4 DEF Failure
<1>13. QED
  BY <1>2, <1>3, <1>4, <1>5, <1>6, <1>8, <1>9, <1>10, <1>11, <1>12
  DEF Next, FileSystem, Process, Call, CallProcess, Free, Refresh

(* A file taken for unmodified holds what the cache says it does, unless it *)
(* was edited after its text was read and before its stamp.                             *)
THEOREM SkipsAreCurrent == Spec => []SkipIsCurrent
<1>1. IInv /\ Current => SkipIsCurrent
  <2> SUFFICES ASSUME IInv, Current, job.op = "skip", Exists(job.file),
                      mtime[job.file] <= job.at
               PROVE  Names(BoxesOf(job.file)) = disk[job.file] \/ Raced(job.file)
    BY DEF SkipIsCurrent
  <2>1. job.file \in paths /\ job.file \in Files
    BY DEF IInv, TypeOK, Agreement, Owned, FilesAgree
  <2>2. mtime[job.file] <= stamp[job.file]
    BY DEF Current, Checked
  <2>3. mtime[job.file] \in Nat /\ readAt[job.file] \in Nat
    BY <2>1 DEF IInv, TypeOK
  <2>4. CASE mtime[job.file] <= readAt[job.file]
    BY <2>1, <2>4 DEF Current, Parsed
  <2>5. CASE readAt[job.file] < mtime[job.file]
    BY <2>2, <2>5 DEF Raced
  <2>6. QED
    BY <2>3, <2>4, <2>5
<1>2. Init /\ IInv => Current
  BY InitCurrent
<1>3. QED
  BY <1>1, <1>2, InitIInv, Inductive, CurrentStep, PTL DEF Spec
=============================================================================
