------------------------------- MODULE Design -------------------------------
(***************************************************************************)
(* The compilation pipeline of DiplomatLSP and the handlers that use what  *)
(* it leaves behind.  One thread runs one handler after the other, and a   *)
(* compilation is several steps because each of them can throw: then the   *)
(* server survives if the handler was invoked by executeCommand (module    *)
(* LspServer), with everything done so far in place.  The workspace that   *)
(* is read and the tree validity are module Workspace.                     *)
(***************************************************************************)
EXTENDS DiagnosticClient

VARIABLES
  pc,               \* the phase of the compilation in progress, or "idle"
  via,              \* how its handler was invoked: "direct" or "command"
  server,           \* "up", "dead" (exception), "crashed" (null pointer)
  compilation,      \* _compilation holds one
  index,            \* "none", or built from the compilation: "current",
                    \* with its references missing: "partial", from an earlier one: "old"
  broken_emitted,   \* _broken_index_emitted
  completed,        \* history: the last compilation ran to its end
  reported,         \* history: problems with a place the last compilation reported
  refusals,         \* history: tolerant requests refused since the index was usable
  opened            \* history: files the client opened under its own URI

state == <<compilation, index, broken_emitted>>
history == <<completed, reported, refusals, opened>>
vars == <<diagVars, pc, via, server, state, history>>

Phases == {"idle", "reading", "issuing", "indexing", "referencing", "analysing"}

(* Definition and references complain about a broken index once, not at    *)
(* each request, until the index was restored.                             *)
BrokenToldOnce == refusals <= 1

(* Type invariant.                                                         *)
DTypeOK ==
  /\ DiagTypeOK
  /\ pc \in Phases /\ via \in {"direct", "command"}
  /\ server \in {"up", "dead", "crashed"}
  /\ compilation \in BOOLEAN /\ index \in {"none", "current", "partial", "old"}
  /\ broken_emitted \in BOOLEAN /\ completed \in BOOLEAN
  /\ reported \subseteq Problems /\ refusals \in 0 .. 2 /\ BrokenToldOnce /\ opened \subseteq Files

DInit ==
  /\ DiagInit
  /\ pc = "idle" /\ via = "direct" /\ server = "up"
  /\ compilation = FALSE /\ index = "none" /\ broken_emitted = TRUE
  /\ completed = TRUE /\ reported = {} /\ refusals = 0 /\ opened = {}

Idle == server = "up" /\ pc = "idle"
At_(phase) == server = "up" /\ pc = phase
Goto(phase) == pc' = phase /\ UNCHANGED <<via, server>>

-----------------------------------------------------------------------------
(* The compilation                                                         *)

(* didSave, set-top, push-config and set-project end in a compilation.     *)
StartCompile(how) ==
  /\ Idle
  /\ pc' = "reading" /\ via' = how
  /\ UNCHANGED <<diagVars, server, state, history>>

(* full-index drops the compilation before it reads the workspace.         *)
ForceClearIndex(how) ==
  /\ Idle
  /\ pc' = "reading" /\ via' = how
  /\ compilation' = FALSE
  /\ broken_emitted' = TRUE
  /\ UNCHANGED <<diagVars, server, index, history>>

Throw ==
  /\ pc' = "idle" /\ via' = "direct"
  /\ server' = IF via = "direct" THEN "dead" ELSE "up"
  /\ completed' = FALSE

(* A directory or a file that vanished: nothing was replaced yet.          *)
ReadFails ==
  /\ At_("reading")
  /\ Throw
  /\ UNCHANGED <<diagVars, state, reported, refusals, opened>>

(* Source manager, diagnostic client and compilation are replaced, the     *)
(* trees added and elaborated; the index is that of before.                *)
Renew ==
  /\ At_("reading")
  /\ Goto("issuing")
  /\ NewClient
  /\ compilation' = TRUE
  /\ index' = IF index = "none" THEN "none" ELSE "old"
  /\ reported' = {}
  /\ UNCHANGED <<broken_emitted, completed, refusals, opened>>

(* Diagnostics of the elaboration, and later of the analysis.              *)
Issue(p) ==
  /\ At_("issuing") \/ At_("analysing")
  /\ p \notin reported
  /\ ReportNew(p)
  /\ reported' = IF Place[p] = Nowhere THEN reported ELSE reported \cup {p}
  /\ UNCHANGED <<pc, via, server, state, completed, refusals, opened>>

IssueNote(f) ==
  /\ At_("issuing") \/ At_("analysing")
  /\ \E d \in records : d.problem = last /\ d.note = NoNote
  /\ ReportRelated(f)
  /\ UNCHANGED <<pc, via, server, state, history>>

(* canonical() of a file that is gone.                                     *)
IssueFails ==
  /\ At_("issuing") \/ At_("analysing")
  /\ Throw
  /\ UNCHANGED <<diagVars, state, reported, refusals, opened>>

Elaborated ==
  /\ At_("issuing")
  /\ Goto("indexing")
  /\ UNCHANGED <<diagVars, state, history>>

(* What the handler of runtime_error leaves, if it keeps the index.        *)
IndexLost_Kept == UNCHANGED index

IndexLost == index' = "none"

(* The symbols: the index is replaced, or lost to a runtime_error, or, by  *)
(* any other exception, left as it was.                                    *)
IndexSymbols ==
  /\ At_("indexing")
  /\ \/ index' = "partial" /\ Goto("referencing") /\ UNCHANGED completed
     \/ IndexLost /\ Goto("analysing") /\ UNCHANGED completed
     \/ Throw /\ UNCHANGED index
  /\ UNCHANGED <<diagVars, compilation, broken_emitted, reported, refusals, opened>>

IndexReferences ==
  /\ At_("referencing")
  /\ \/ /\ index' = "current" /\ Goto("analysing")
        /\ broken_emitted' = FALSE
        /\ refusals' = 0
        /\ UNCHANGED completed
     \/ /\ IndexLost /\ Goto("analysing")
        /\ UNCHANGED <<broken_emitted, refusals, completed>>
     \/ Throw /\ UNCHANGED <<index, broken_emitted, refusals>>
  /\ UNCHANGED <<diagVars, compilation, reported, opened>>

Finish ==
  /\ At_("analysing")
  /\ pc' = "idle" /\ via' = "direct" /\ UNCHANGED server
  /\ Emit
  /\ completed' = TRUE
  /\ UNCHANGED <<state, reported, refusals, opened>>

-----------------------------------------------------------------------------
(* Handlers that use the results                                           *)

(* didOpen: the record of the file moves to the URI of the client, if the  *)
(* file exists.                                                            *)
SaveClientUri(f, u) ==
  /\ Idle
  /\ Remap(PathUri(f), u)
  /\ opened' = IF u = ClientUri(f) THEN opened \cup {f} ELSE opened \ {f}
  /\ UNCHANGED <<pc, via, server, state, completed, reported, refusals>>

(* The refusal is not remembered.                                          *)
Refused_Forgotten == UNCHANGED broken_emitted

(* _assert_index without an index: an error for a strict caller or the     *)
(* first time, a line in the log from then on.                             *)
Refused == broken_emitted' = TRUE

(* completion and rename (strict), definition and references (tolerant).   *)
AssertIndex(strict) ==
  /\ Idle
  /\ index = "none"
  /\ Refused
  /\ refusals' = IF strict \/ broken_emitted \/ refusals = 2 THEN refusals ELSE refusals + 1
  /\ UNCHANGED <<diagVars, pc, via, server, compilation, index, completed, reported, opened>>

Crash ==
  /\ server' = "crashed"
  /\ UNCHANGED <<diagVars, pc, via, state, history>>

(* resolve-paths and get-hierarchy ask for an index, then use the          *)
(* compilation; list-symbols uses the index without asking.                *)
QueryHierarchy == Idle /\ index # "none" /\ ~compilation /\ Crash
ListSymbols == Idle /\ index = "none" /\ Crash

Handlers ==
  \/ \E how \in {"direct", "command"} : StartCompile(how) \/ ForceClearIndex(how)
  \/ \E f \in Files : \E u \in {PathUri(f), ClientUri(f)} : SaveClientUri(f, u)
  \/ \E strict \in BOOLEAN : AssertIndex(strict)
  \/ QueryHierarchy
  \/ ListSymbols

Compile ==
  \/ ReadFails \/ Renew
  \/ \E p \in Problems : Issue(p)
  \/ \E f \in Files : IssueNote(f)
  \/ IssueFails \/ Elaborated \/ IndexSymbols \/ IndexReferences \/ Finish

DNext == Handlers \/ Compile

DSpec == DInit /\ [][DNext]_vars

-----------------------------------------------------------------------------
(* Properties                                                              *)

Done == Idle /\ completed

(* The client never sees a file under two URIs at a time, be it as the     *)
(* place of a problem or in a note of another file's problem.              *)
OneUriPerFile ==
  \A u, v \in {d.uri : d \in display} \cup ({d.note : d \in display} \ {NoNote}) :
    FileOf(u) = FileOf(v) => u = v

(* After a compilation that ran to its end the client shows each problem   *)
(* it reported, once, and no other: not those of the compilations before,  *)
(* also when some of these were cut short by an exception, nor under URIs  *)
(* that were given up since.                                               *)
ProblemsExact ==
  Done => /\ {d.problem : d \in display} = reported
          /\ Cardinality(display) = Cardinality(reported)
          /\ OneUriPerFile

(* A compilation that ran to its end leaves no index of an earlier one,    *)
(* and none without its references.                                        *)
IndexCurrent == Done => index \in {"none", "current"}

(* The URI that the client opened a file with stays the one its problems   *)
(* are shown under.                                                        *)
ClientUriKept ==
  Done => \A d \in display : FileOf(d.uri) \in opened => d.uri # PathUri(FileOf(d.uri))

(* No handler uses an index or a compilation that is not there.            *)
NoNullUse == server # "crashed"
=============================================================================
