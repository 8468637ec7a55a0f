---------------------------- MODULE DocumentCache ----------------------------
(***************************************************************************)
(* DiplomatDocumentCache (lsp-server/diplomat/src/                         *)
(* diplomat_document_cache.cpp): the tables that bind source files, the    *)
(* modules they define and the project, and the file system they describe. *)
(*                                                                         *)
(* One thread uses the cache, one call at a time, but files change while a *)
(* call runs: process_file is split where it looks at the file system.     *)
(* A call that throws is given up where it stands.  executeCommand catches *)
(* the exception, and the next call finds what was left, the source        *)
(* manager with the texts it has read included.                            *)
(*                                                                         *)
(* A black box is the record of its file, its module and the time it was   *)
(* read, which identifies the object: a file is read again only when it is *)
(* newer than its stamp.  A table whose values are black boxes is the set  *)
(* of them, since each is kept under its own file or module name; the keys *)
(* of the tables that may hold an empty list are kept apart.               *)
(***************************************************************************)
EXTENDS Naturals

CONSTANTS
    Files,     \* standardized paths
    Modules,   \* module names
    Contents,  \* what a file may define: sets of modules
    Uris,      \* the URIs a client may give a file
    Gone,      \* stands for the content of a file that cannot be read
    Unread,    \* stands for a text the source manager does not have
    MaxEdits   \* bound: changes of the file system

NoFile == "none"
NoUri  == "none"

ASSUME ContentAssumption ==
    Contents \subseteq SUBSET Modules /\ Gone \notin Contents
ASSUME UnreadAssumption == Unread \notin Contents \union {Gone}
ASSUME UriAssumption == NoUri \notin Uris
ASSUME BoundAssumption == MaxEdits \in Nat

VARIABLES
    \* The file system
    disk,      \* what each file holds
    mtime,     \* fs::last_write_time
    clock,     \* time, which every edit advances
    edits,     \* changes so far
    \* The cache
    store,     \* _bb_storage: the black boxes that exist
    paths,     \* the keys of _path_to_bb
    bound,     \* its values
    located,   \* the keys of _bb_to_path
    prjBBs,    \* _prj_module_to_bb
    wsNames,   \* the keys of _ws_module_to_bb
    wsBBs,     \* its values
    prjFiles, wsFiles,
    stamp,     \* _processed_timestamp, 0 where there is none
    clientUri, \* _doc_path_to_client_uri
    \* The source manager the parses share
    shared,    \* _sm is set
    texts,     \* what it has read of each file, once and for all
    textAt,    \* history: when
    \* The calls
    job,       \* the call of process_file that runs
    iter,      \* the iteration of refresh
    \* History
    readAt,    \* when the text of each file in the cache was read
    due        \* files refresh owes a visit: in the project and modified

world == <<disk, mtime, edits>>
boxes == <<store, paths, bound, located, prjBBs, wsNames, wsBBs>>
files == <<prjFiles, wsFiles, stamp, clientUri>>
cache == <<boxes, files>>
manager == <<shared, texts, textAt>>
vars  == <<world, clock, cache, manager, job, iter, readAt, due>>

Box == [file : Files, name : Modules, born : Nat]

(* auto: the call made the manager itself.  "threw": a lookup with at()     *)
(* failed.  "dead": the process is over, by an exception nobody catches or  *)
(* by undefined behaviour.                                                  *)
Jobs == [op : {"idle", "skip", "parse", "stamp", "threw", "dead"},
         file : Files \union {NoFile}, prj : BOOLEAN, at : Nat, auto : BOOLEAN]
Iterations == [over : {"none", "prj", "ws"}, left : SUBSET Files,
               prjOnly : BOOLEAN]

TypeOK ==
    /\ disk \in [Files -> Contents \union {Gone}] /\ mtime \in [Files -> Nat]
    /\ clock \in Nat \ {0} /\ edits \in Nat
    /\ store \subseteq Box /\ bound \subseteq Box /\ located \subseteq Box
    /\ prjBBs \subseteq Box /\ wsBBs \subseteq Box
    /\ paths \subseteq Files /\ wsNames \subseteq Modules
    /\ prjFiles \subseteq Files /\ wsFiles \subseteq Files
    /\ stamp \in [Files -> Nat] /\ clientUri \in [Files -> Uris \union {NoUri}]
    /\ shared \in BOOLEAN /\ texts \in [Files -> Contents \union {Gone, Unread}]
    /\ textAt \in [Files -> Nat]
    /\ job \in Jobs /\ iter \in Iterations
    /\ readAt \in [Files -> Nat] /\ due \subseteq Files

Idle == [op |-> "idle", file |-> NoFile, prj |-> FALSE, at |-> 0, auto |-> FALSE]
NoIteration == [over |-> "none", left |-> {}, prjOnly |-> TRUE]

Init ==
    /\ disk \in [Files -> Contents \union {Gone}]
    /\ mtime = [f \in Files |-> 0] /\ clock = 1 /\ edits = 0
    /\ store = {} /\ paths = {} /\ bound = {} /\ located = {}
    /\ prjBBs = {} /\ wsNames = {} /\ wsBBs = {}
    /\ prjFiles = {} /\ wsFiles = {}
    /\ stamp = [f \in Files |-> 0] /\ clientUri = [f \in Files |-> NoUri]
    /\ shared = FALSE /\ texts = [f \in Files |-> Unread]
    /\ textAt = [f \in Files |-> 0]
    /\ job = Idle /\ iter = NoIteration
    /\ readAt = [f \in Files |-> 0] /\ due = {}

Names(boxSet) == {b.name : b \in boxSet}
Exists(f) == disk[f] # Gone

(* _path_to_bb.at(f)                                                        *)
BoxesOf(f) == {b \in bound : b.file = f}

(* map[name] = box, for each of the new boxes.                              *)
Overlay(old, new) == {b \in old : b.name \notin Names(new)} \union new

-----------------------------------------------------------------------------
(* The file system, changed by editors and other programs.                  *)

Edit(f, c) ==
    /\ edits < MaxEdits
    /\ disk' = [disk EXCEPT ![f] = c]
    /\ clock' = clock + 1
    /\ mtime' = [mtime EXCEPT ![f] = clock + 1]
    /\ edits' = edits + 1
    /\ UNCHANGED <<cache, manager, job, iter, readAt, due>>

Delete(f) ==
    /\ edits < MaxEdits /\ Exists(f)
    /\ disk' = [disk EXCEPT ![f] = Gone]
    /\ edits' = edits + 1
    /\ UNCHANGED <<mtime, clock, cache, manager, job, iter, readAt, due>>

-----------------------------------------------------------------------------
(* The operations process_file is made of.                                  *)

(* remove_file: the boxes of the file are destroyed, and the references to  *)
(* them and to the file go with them.                                       *)
RemoveThrows(f) ==
    f \in wsFiles /\ (f \notin paths \/ \E b \in BoxesOf(f) : b.name \notin wsNames)

Destroyed_None(f) == {}
Destroyed(f) == BoxesOf(f)

(* The project's entry goes only if it is the box of this file.             *)
ProjectEntries_None(f) == {}
ProjectEntries(f) == prjBBs \intersect BoxesOf(f)

(* A name whose set of boxes has become empty is erased.                    *)
VacantNames_None(f) == {}
VacantNames(f) == Names(BoxesOf(f)) \ Names(wsBBs \ BoxesOf(f))

RemoveFile(f) ==
    IF f \in wsFiles
    THEN /\ store' = store \ Destroyed(f)
         /\ located' = located \ BoxesOf(f)
         /\ prjBBs' = prjBBs \ ProjectEntries(f)
         /\ wsBBs' = wsBBs \ BoxesOf(f)
         /\ wsNames' = wsNames \ VacantNames(f)
         /\ bound' = bound \ BoxesOf(f)
         /\ paths' = paths \ {f}
         /\ clientUri' = [clientUri EXCEPT ![f] = NoUri]
         /\ prjFiles' = prjFiles \ {f}
         /\ wsFiles' = wsFiles \ {f}
         /\ stamp' = [stamp EXCEPT ![f] = 0]
    ELSE UNCHANGED cache

(* record_file.  Only a file that was in the workspace already pushes its   *)
(* modules to the project.                                                  *)
RecordThrows(f, p) == p /\ f \in wsFiles /\ f \notin paths

RecordFile_OneSet(f, p) ==
    /\ prjFiles' = IF p THEN prjFiles \union {f} ELSE prjFiles
    /\ wsFiles' = IF p THEN wsFiles ELSE wsFiles \union {f}
    /\ prjBBs' = IF p /\ f \in wsFiles THEN Overlay(prjBBs, BoxesOf(f)) ELSE prjBBs

RecordFile(f, p) ==
    /\ prjFiles' = IF p THEN prjFiles \union {f} ELSE prjFiles
    /\ wsFiles' = wsFiles \union {f}
    /\ prjBBs' = IF p /\ f \in wsFiles THEN Overlay(prjBBs, BoxesOf(f)) ELSE prjBBs

(* The boxes of a parsed file, entered in the tables.  A file without any   *)
(* module is entered with an empty list.                                    *)
EmptyEntry_Skipped(f) == UNCHANGED <<paths, bound>>
EmptyEntry(f) == paths' = paths \union {f} /\ bound' = bound \ BoxesOf(f)

Bind(f, new) ==
    \/ /\ new = {} /\ EmptyEntry(f)
       /\ UNCHANGED <<store, located, prjBBs, wsNames, wsBBs>>
    \/ /\ new # {} /\ f \in prjFiles
       /\ store' = store \union new
       /\ prjBBs' = Overlay(prjBBs, new)
       /\ UNCHANGED <<paths, bound, located, wsNames, wsBBs>>
    \/ /\ new # {} /\ f \notin prjFiles
       /\ store' = store \union new
       /\ wsBBs' = wsBBs \union new
       /\ wsNames' = wsNames \union Names(new)
       /\ paths' = paths \union {f}
       /\ bound' = bound \union new
       /\ located' = located \union new
       /\ UNCHANGED prjBBs

-----------------------------------------------------------------------------
(* The shared source manager.                                               *)

NothingRead ==
    texts' = [f \in Files |-> Unread] /\ textAt' = [f \in Files |-> 0]
NewManager  == shared' = TRUE /\ NothingRead
DropManager == shared' = FALSE /\ NothingRead
EnsureManager == IF shared THEN UNCHANGED manager ELSE NewManager

(* What the manager reads: the text it has, however old, or what is on disk *)
(* now if it can be opened.  It keeps what it got, a failure too.           *)
TextsOf(f) == IF texts[f] = Unread THEN {disk[f], Gone} ELSE {texts[f]}
ReadTime(f) == IF texts[f] = Unread THEN clock ELSE textAt[f]
Load(f, text) ==
    /\ texts' = [texts EXCEPT ![f] = text]
    /\ textAt' = [textAt EXCEPT ![f] = ReadTime(f)]
    /\ UNCHANGED shared

(* An exception leaves every call that runs: executeCommand catches it and  *)
(* the server goes on, or the message was no command and the process ends.  *)
Raise ==
    \/ job' = Idle /\ iter' = NoIteration /\ due' = {}
    \/ job' = [job EXCEPT !.op = "dead"] /\ UNCHANGED <<iter, due>>

-----------------------------------------------------------------------------
(* process_file(f, p), up to its first look at the content of the file.     *)

Unmodified_Swapped(f) == stamp[f] <= mtime[f]
Unmodified(f) == mtime[f] <= stamp[f]

Start(op, f, p) == job' = [op |-> op, file |-> f, prj |-> p, at |-> clock,
                            auto |-> ~shared]

(* The file does not exist: an error is logged and nothing changes.         *)
ProcessMissing(f) ==
    ~Exists(f) /\ UNCHANGED <<world, clock, cache, manager, job, readAt>>

ProcessUnmodified(f, p) ==
    /\ Exists(f) /\ stamp[f] # 0 /\ Unmodified(f)
    /\ Start("skip", f, p)
    /\ UNCHANGED <<world, clock, cache, manager, readAt>>

(* A modified file is removed and read again, in the project if it was.     *)
KeptInProject_Argument(f, p) == p
KeptInProject(f, p) == f \in prjFiles

IsModified(f) == Exists(f) /\ stamp[f] # 0 /\ ~Unmodified(f)

ProcessModified(f, p) ==
    /\ IsModified(f)
    /\ IF RemoveThrows(f)
       THEN Start("threw", f, p) /\ UNCHANGED <<cache, manager>>
       ELSE Start("parse", f, KeptInProject(f, p)) /\ RemoveFile(f) /\ EnsureManager
    /\ UNCHANGED <<world, clock, readAt>>

ProcessNew(f, p) ==
    /\ Exists(f) /\ stamp[f] = 0
    /\ Start("parse", f, p) /\ EnsureManager
    /\ UNCHANGED <<world, clock, cache, readAt>>

ProcessFile(f, p) ==
    \/ ProcessMissing(f) \/ ProcessUnmodified(f, p)
    \/ ProcessModified(f, p) \/ ProcessNew(f, p)

(* exists() or last_write_time() throws: nothing has changed yet.           *)
ProcessThrows ==
    /\ job.op = "idle"
    /\ iter.over = "none" \/ iter.left # {}
    /\ Raise
    /\ UNCHANGED <<world, clock, cache, manager, readAt>>

(* An unmodified file is only recorded.                                     *)
ProcessSkip ==
    /\ job.op = "skip"
    /\ IF RecordThrows(job.file, job.prj)
       THEN job' = [job EXCEPT !.op = "threw"] /\ UNCHANGED <<prjFiles, wsFiles, prjBBs>>
       ELSE job' = Idle /\ RecordFile(job.file, job.prj)
    /\ UNCHANGED <<world, clock, store, paths, bound, located, wsNames, wsBBs,
                   stamp, clientUri, manager, iter, readAt, due>>

(* The file is read and its modules are entered.                            *)
ProcessParse ==
    /\ job.op = "parse"
    /\ \E text \in TextsOf(job.file) \ {Gone} :
         /\ Load(job.file, text)
         /\ Bind(job.file,
                 {[file |-> job.file, name |-> m, born |-> clock] : m \in text})
    /\ readAt' = [readAt EXCEPT ![job.file] = ReadTime(job.file)]
    /\ job' = [job EXCEPT !.op = "stamp"]
    /\ UNCHANGED <<world, clock, files, iter, due>>

(* value() throws when there is no text: the file is in no table any more,  *)
(* and the manager stays set.                                               *)
ParseFails ==
    /\ job.op = "parse" /\ Gone \in TextsOf(job.file)
    /\ Load(job.file, Gone)
    /\ Raise
    /\ UNCHANGED <<world, clock, cache, readAt>>

(* The file is stamped with the time it is now, then recorded.              *)
StampTime_Backdated == clock - 2
StampTime == clock

ProcessStamp ==
    /\ job.op = "stamp"
    /\ stamp' = [stamp EXCEPT ![job.file] = StampTime]
    /\ IF RecordThrows(job.file, job.prj)
       THEN /\ job' = [job EXCEPT !.op = "threw"]
            /\ UNCHANGED <<prjFiles, wsFiles, prjBBs, manager>>
       ELSE /\ job' = Idle /\ RecordFile(job.file, job.prj)
            /\ IF job.auto THEN DropManager ELSE UNCHANGED manager
    /\ UNCHANGED <<world, clock, store, paths, bound, located, wsNames, wsBBs,
                   clientUri, iter, readAt, due>>

-----------------------------------------------------------------------------
(* The calls the server makes while no other call runs.                     *)

Free == job.op = "idle" /\ iter.over = "none"

(* didSave and the reading of the workspace pass FALSE, set_project TRUE.   *)
CallProcess(f, p) ==
    Free /\ ProcessFile(f, p) /\ UNCHANGED <<iter, due>>

ClearProject_FilesOnly ==
    /\ Free
    /\ prjFiles' = {} /\ UNCHANGED prjBBs
    /\ UNCHANGED <<world, clock, store, paths, bound, located, wsNames, wsBBs,
                   wsFiles, stamp, clientUri, manager, job, iter, readAt, due>>

ClearProject ==
    /\ Free
    /\ prjFiles' = {} /\ prjBBs' = {}
    /\ UNCHANGED <<world, clock, store, paths, bound, located, wsNames, wsBBs,
                   wsFiles, stamp, clientUri, manager, job, iter, readAt, due>>

(* The reading of the workspace sets a manager for all its calls; one that  *)
(* was left behind stays.                                                   *)
EnableSharedSourceManager ==
    /\ Free /\ EnsureManager
    /\ UNCHANGED <<world, clock, cache, job, iter, readAt, due>>

DisableSharedSourceManager ==
    /\ Free /\ DropManager
    /\ UNCHANGED <<world, clock, cache, job, iter, readAt, due>>

(* get_bb_by_module: the project's, else any of the workspace's.            *)
BoxesNamed(m) ==
    LET inProject == {b \in prjBBs : b.name = m}
    IN  IF inProject # {} THEN inProject ELSE {b \in wsBBs : b.name = m}

(* got_module_in_project                                                    *)
GotModuleInProject(m) == m \in Names(prjBBs)

(* _add_module_to_project_tree records the file of the box it is given.     *)
AddModule(m) ==
    /\ Free
    /\ \E b \in BoxesNamed(m) :
         IF b \notin located \/ RecordThrows(b.file, TRUE)
         THEN job' = [job EXCEPT !.op = "threw"] /\ UNCHANGED <<prjFiles, wsFiles, prjBBs>>
         ELSE UNCHANGED job /\ RecordFile(b.file, TRUE)
    /\ UNCHANGED <<world, clock, store, paths, bound, located, wsNames, wsBBs,
                   stamp, clientUri, manager, iter, readAt, due>>

(* didOpen: record_uri                                                      *)
RecordUri(f, u) ==
    /\ Free
    /\ clientUri' = [clientUri EXCEPT ![f] = u]
    /\ UNCHANGED <<world, clock, boxes, prjFiles, wsFiles, stamp, manager,
                   job, iter, readAt, due>>

-----------------------------------------------------------------------------
(* refresh: a loop over the project's files, then over the workspace's.     *)

RefreshStart(prjOnly) ==
    /\ Free
    /\ iter' = [over |-> "prj", left |-> prjFiles, prjOnly |-> prjOnly]
    /\ due' = {f \in prjFiles : IsModified(f)}
    /\ UNCHANGED <<world, clock, cache, manager, job, readAt>>

(* A file that has not changed since its stamp leaves the iteration sound.  *)
RefreshVisit(f) ==
    /\ job.op = "idle" /\ f \in iter.left /\ ~IsModified(f)
    /\ ProcessFile(f, iter.over = "prj")
    /\ iter' = [iter EXCEPT !.left = @ \ {f}]
    /\ due' = due \ {f}

(* A modified file is erased from the set that is iterated, and inserted    *)
(* again: the iterator dangles.  The loop goes on anywhere, or the process  *)
(* ends.                                                                    *)
RefreshModified(f) ==
    /\ job.op = "idle" /\ f \in iter.left /\ IsModified(f)
    /\ ProcessModified(f, iter.over = "prj")
    /\ \E left \in SUBSET wsFiles : iter' = [iter EXCEPT !.left = left]
    /\ due' = due \ {f}

RefreshCrash ==
    /\ job.op = "idle" /\ \E f \in iter.left : IsModified(f)
    /\ job' = [job EXCEPT !.op = "dead"]
    /\ UNCHANGED <<world, clock, cache, manager, iter, readAt, due>>

RefreshTurn ==
    /\ job.op = "idle" /\ iter.over = "prj" /\ iter.left = {} /\ ~iter.prjOnly
    /\ iter' = [iter EXCEPT !.over = "ws", !.left = wsFiles]
    /\ UNCHANGED <<world, clock, cache, manager, job, readAt, due>>

RefreshEnd ==
    /\ job.op = "idle" /\ iter.left = {}
    /\ iter.over = "ws" \/ (iter.over = "prj" /\ iter.prjOnly)
    /\ iter' = NoIteration
    /\ UNCHANGED <<world, clock, cache, manager, job, readAt, due>>

-----------------------------------------------------------------------------
FileSystem ==
    \E f \in Files : Delete(f) \/ \E c \in Contents : Edit(f, c)

Process == ProcessSkip \/ ProcessParse \/ ProcessStamp
Failure == ParseFails \/ ProcessThrows

Call ==
    \/ \E f \in Files, p \in BOOLEAN : CallProcess(f, p)
    \/ ClearProject \/ EnableSharedSourceManager \/ DisableSharedSourceManager
    \/ \E m \in Modules : AddModule(m)
    \/ \E f \in Files, u \in Uris : RecordUri(f, u)
    \/ \E prjOnly \in BOOLEAN : RefreshStart(prjOnly)

Refresh ==
    \/ \E f \in Files : RefreshVisit(f) \/ RefreshModified(f)
    \/ RefreshCrash \/ RefreshTurn \/ RefreshEnd

(* The process has ended: not a deadlock.                                   *)
Over == job.op \in {"threw", "dead"} /\ UNCHANGED vars

Next == FileSystem \/ Process \/ Failure \/ Call \/ Refresh \/ Over

Spec == Init /\ [][Next]_vars

-----------------------------------------------------------------------------
(* Safety.                                                                  *)

(* No table refers to a black box that has been destroyed.                  *)
NoDangling == bound \union located \union prjBBs \union wsBBs \subseteq store

(* Every black box that exists is found by its file and by its name, and    *)
(* its file is found from it, so remove_file will find it.                  *)
NoLeak == store \subseteq bound \intersect located \intersect wsBBs

(* No call of at() fails in remove_file, record_file or                     *)
(* get_file_from_module.                                                    *)
LookupsSucceed == job.op # "threw"

(* A name is kept in _ws_module_to_bb as long as some box bears it and no   *)
(* longer: get_bb_by_module takes the first element without a look.         *)
NoEmptySet == wsNames = Names(wsBBs)

(* The project's table holds modules of project files only, one per name.   *)
ProjectSound ==
    /\ \A b \in prjBBs : b.file \in prjFiles
    /\ \A a, b \in prjBBs : a.name = b.name => a = b

(* The four tables that list files list the same ones: those processed and  *)
(* not being read again.                                                    *)
FilesAgree ==
    /\ prjFiles \subseteq wsFiles
    /\ wsFiles = {f \in Files : stamp[f] # 0}
    /\ paths \ wsFiles = IF job.op = "stamp" THEN {job.file} ELSE {}
    /\ wsFiles \subseteq paths

(* Edited after its text was read and before it was stamped: while the      *)
(* server read it, or at any time since a call that threw left the manager  *)
(* set with an older text of it.                                            *)
Raced(f) == readAt[f] < mtime[f] /\ mtime[f] <= stamp[f]

(* process_file takes a file for unmodified only if the cache holds what    *)
(* the file defines, or else what it defined when its text was read: the    *)
(* file was edited since, before the stamp was given.                       *)
SkipIsCurrent ==
    job.op = "skip" /\ Exists(job.file) /\ mtime[job.file] <= job.at
        => Names(BoxesOf(job.file)) = disk[job.file] \/ Raced(job.file)

(* A file leaves the project by clear_project, or when it is read again and *)
(* that very parse fails: no other call loses one, whoever calls it with    *)
(* in_prj or without, and whatever throws.                                  *)
InProject ==
    prjFiles \union
        (IF job.op \in {"parse", "stamp"} /\ job.prj THEN {job.file} ELSE {})
KeepsProject ==
    [][\A f \in InProject \ InProject' :
          ClearProject \/ (job.file = f /\ ParseFails)]_vars

-----------------------------------------------------------------------------
(* What the comments of the code say and the code does not do.              *)

(* diplomat_document_cache.cpp:185: a file processed before is checked for  *)
(* modification: one that passes the check is cached as it is.              *)
UnmodifiedIsCurrent ==
    \A f \in Files : Exists(f) /\ stamp[f] # 0 /\ Unmodified(f)
                        => Names(BoxesOf(f)) = disk[f]

(* diplomat_document_cache.hpp:218: process_file is not able to remove a    *)
(* file from the project.                                                   *)
OnlyClearProjectRemoves == [][InProject \subseteq InProject' \/ ClearProject]_vars

(* diplomat_document_cache.hpp:91: refresh covers all updated files.        *)
RefreshComplete == iter.over = "none" => due = {}
=============================================================================
