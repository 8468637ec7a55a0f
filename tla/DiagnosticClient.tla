-------------------------- MODULE DiagnosticClient --------------------------
(***************************************************************************)
(* LSPDiagnosticClient: what a compilation reports, kept by URI until it   *)
(* is published, and what the client displays.  A file has the URI that    *)
(* follows from its path, and may have another one that the client uses    *)
(* for it (a symbolic link).  A problem is reported once per compilation;  *)
(* a note may follow it, which names a place in some file.                 *)
(***************************************************************************)
EXTENDS Naturals, FiniteSets

CONSTANTS
  Files,
  Problems,     \* what a compilation can report
  Place,        \* for each problem the file it is in, or Nowhere
  Nowhere

ASSUME PlaceAssumption == Nowhere \notin Files /\ Place \in [Problems -> Files \cup {Nowhere}]

VARIABLES
  keys,         \* URIs that _diagnostics has a record for
  records,      \* the diagnostics in these records
  last,         \* the diagnostic that _last_publication ends with
  display       \* the diagnostics that the client shows

diagVars == <<keys, records, last, display>>

PathUri(f) == <<"path", f>>
ClientUri(f) == <<"client", f>>
URIs == {PathUri(f) : f \in Files} \cup {ClientUri(f) : f \in Files}
FileOf(u) == u[2]

NoNote == <<"no", "note">>
Diagnostics == [uri : URIs, problem : Problems, note : URIs \cup {NoNote}]
At(u, ds) == {d \in ds : d.uri = u}

DiagTypeOK ==
  /\ keys \subseteq URIs
  /\ records \subseteq Diagnostics
  /\ last \in Problems \cup {Nowhere}
  /\ display \subseteq Diagnostics

DiagInit == keys = {} /\ records = {} /\ last = Nowhere /\ display = {}

-----------------------------------------------------------------------------

(* A new client starts with nothing to erase.                              *)
NewClient_Unseeded == keys' = {} /\ records' = {} /\ last' = Nowhere /\ UNCHANGED display

(* The new client takes over the URIs of the previous one, without their   *)
(* diagnostics.  Nothing is reported as related before it reported a       *)
(* problem, so what _last_publication points to until then is not read.    *)
NewClient == records' = {} /\ last' = Nowhere /\ UNCHANGED <<keys, display>>

(* get_uri goes by the path alone.                                         *)
ReportNew(p) ==
  IF Place[p] = Nowhere
  THEN last' = Nowhere /\ UNCHANGED <<keys, records, display>>
  ELSE LET u == PathUri(Place[p]) IN
       /\ keys' = keys \cup {u}
       /\ records' = records \cup {[uri |-> u, problem |-> p, note |-> NoNote]}
       /\ last' = p
       /\ UNCHANGED display

(* A note is added to the diagnostic that was reported last, if that had   *)
(* a place.  One note for each problem.                                    *)
ReportRelated(f) ==
  /\ records' = {IF d.problem = last THEN [d EXCEPT !.note = PathUri(f)] ELSE d : d \in records}
  /\ UNCHANGED <<keys, last, display>>

Erase(shown, from) == {d \in shown : d.uri \notin from}

(* Every record is published, the empty ones too, and replaces what the    *)
(* client has for its URI; then the empty ones are dropped.                *)
Published == Erase(display, keys) \cup records

Emit ==
  /\ display' = Published
  /\ keys' = {d.uri : d \in records}
  /\ UNCHANGED <<records, last>>

Renamed(d, from, to) ==
  [d EXCEPT !.uri = IF @ = from THEN to ELSE @,
            !.note = IF @ = from THEN to ELSE @]

(* The record moves to its new URI, unless that has one already: then it   *)
(* is destroyed.  An empty record stays behind under the old URI, and      *)
(* everything is published.                                                *)
Remap(from, to) ==
  LET moved == IF to \in keys THEN records \ At(from, records) ELSE records
      renamed == {Renamed(d, from, to) : d \in moved} IN
  IF from = to \/ from \notin keys
  THEN UNCHANGED diagVars
  ELSE /\ records' = renamed
       /\ keys' = {d.uri : d \in renamed}
       /\ display' = Erase(display, keys \cup {to}) \cup renamed
       /\ UNCHANGED last
=============================================================================
