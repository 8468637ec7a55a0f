----------------------------- MODULE DesignProofs -----------------------------
(***************************************************************************)
(* Theorems about Design, for every set of files and problems and every    *)
(* place of a problem.  What the client shows after a compilation rests    *)
(* on two facts: a URI under which something is shown always has a record  *)
(* (Shown), whatever was cut short, and while a compilation runs its       *)
(* records hold what it reported, on paths (Issued).  Between compilations *)
(* records and display are the same (Settled).                             *)
(***************************************************************************)
EXTENDS Design, FiniteSetTheorems, FunctionTheorems, TLAPS

(* The records of a compilation that reported the problems P.              *)
Covers(ds, P) ==
  /\ {d.problem : d \in ds} = P
  /\ \A d, e \in ds : d.problem = e.problem => d = e

(* A file is named by one of its URIs only.                                *)
OneUri(ds) ==
  /\ \A d, e \in ds : FileOf(d.uri) = FileOf(e.uri) => d.uri = e.uri
  /\ \A d, e \in ds : d.note # NoNote /\ FileOf(e.uri) = FileOf(d.note) => e.uri = d.note
  /\ \A d, e \in ds : d.note # NoNote /\ e.note # NoNote /\ FileOf(d.note) = FileOf(e.note)
                        => d.note = e.note

OnPaths(ds) ==
  \A d \in ds : \E f \in Files : d.uri = PathUri(f) /\
                                 (d.note = NoNote \/ \E g \in Files : d.note = PathUri(g))

Shown == \A d \in display \cup records : d.uri \in keys

Issued ==
  pc \in {"issuing", "indexing", "referencing", "analysing"}
    => Covers(records, reported) /\ OnPaths(records)

Settled ==
  pc = "idle" /\ completed
    => /\ display = records /\ keys = {d.uri : d \in records}
       /\ Covers(records, reported) /\ OneUri(records)

Indexed ==
  pc = "analysing" \/ (pc = "idle" /\ completed) => index \in {"none", "current"}

Told == /\ ~broken_emitted => refusals = 0
        /\ refusals \in {0, 1}

ClientInv == Shown /\ Issued /\ Settled /\ IsFiniteSet(reported)

DIInv == DTypeOK /\ Indexed /\ Told

-----------------------------------------------------------------------------
(* Types, the index and the refusals.                                      *)

LEMMA URIFacts ==
  /\ \A f \in Files : PathUri(f) \in URIs /\ FileOf(PathUri(f)) = f
  /\ \A f \in Files : ClientUri(f) \in URIs /\ FileOf(ClientUri(f)) = f
  /\ \A u \in URIs : \E f \in Files : u = PathUri(f) \/ u = ClientUri(f)
  /\ \A f, g : PathUri(f) # ClientUri(g)
  /\ NoNote \notin URIs
BY DEF URIs, PathUri, ClientUri, FileOf, NoNote

LEMMA RenamedFacts ==
  ASSUME NEW d \in Diagnostics, NEW from \in URIs, NEW to \in URIs
  PROVE  /\ Renamed(d, from, to) \in Diagnostics
         /\ Renamed(d, from, to).problem = d.problem
         /\ Renamed(d, from, to).uri = IF d.uri = from THEN to ELSE d.uri
         /\ Renamed(d, from, to).note = IF d.note = from THEN to ELSE d.note
BY DEF Renamed, Diagnostics

LEMMA RemapTypes ==
  ASSUME DiagTypeOK, NEW from \in URIs, NEW to \in URIs, Remap(from, to)
  PROVE  DiagTypeOK'
<1> DEFINE moved == IF to \in keys THEN records \ At(from, records) ELSE records
           renamed == {Renamed(d, from, to) : d \in moved}
<1>1. CASE from = to \/ from \notin keys
  BY <1>1 DEF Remap, diagVars, DiagTypeOK
<1>2. CASE ~(from = to \/ from \notin keys)
  <2>1. moved \subseteq Diagnostics
    BY DEF DiagTypeOK, At
  <2>2. renamed \subseteq Diagnostics
    BY <2>1, RenamedFacts
  <2>3. /\ records' = renamed /\ keys' = {d.uri : d \in renamed} /\ last' = last
        /\ display' = Erase(display, keys \cup {to}) \cup renamed
    BY <1>2 DEF Remap
  <2>4. \A d \in renamed : d.uri \in URIs
    BY <2>2 DEF Diagnostics
  <2>5. QED
    BY <2>2, <2>3, <2>4 DEF DiagTypeOK, Erase
<1>3. QED
  BY <1>1, <1>2

LEMMA ReportTypes ==
  ASSUME DiagTypeOK, NEW p \in Problems, ReportNew(p)
  PROVE  DiagTypeOK'
<1>1. CASE Place[p] = Nowhere
  BY <1>1 DEF ReportNew, DiagTypeOK
<1>2. CASE Place[p] # Nowhere
  <2>1. Place[p] \in Files
    BY <1>2, PlaceAssumption
  <2>2. [uri |-> PathUri(Place[p]), problem |-> p, note |-> NoNote] \in Diagnostics
    BY <2>1, URIFacts DEF Diagnostics
  <2>3. QED
    BY <1>2, <2>1, <2>2, URIFacts DEF ReportNew, DiagTypeOK
<1>3. QED
  BY <1>1, <1>2

LEMMA RelatedTypes ==
  ASSUME DiagTypeOK, NEW f \in Files, ReportRelated(f)
  PROVE  DiagTypeOK'
<1>1. ASSUME NEW d \in Diagnostics PROVE [d EXCEPT !.note = PathUri(f)] \in Diagnostics
  BY URIFacts DEF Diagnostics
<1>2. records' \subseteq Diagnostics
  BY <1>1 DEF ReportRelated, DiagTypeOK
<1>3. QED
  BY <1>2 DEF ReportRelated, DiagTypeOK

LEMMA EmitTypes == ASSUME DiagTypeOK, Emit PROVE DiagTypeOK'
<1>1. \A d \in records : d.uri \in URIs
  BY DEF DiagTypeOK, Diagnostics
<1>2. QED
  BY <1>1 DEF Emit, Published, Erase, DiagTypeOK

(* The tables of the diagnostic client keep their types.                   *)
LEMMA DiagTypes == ASSUME DTypeOK, [DNext]_vars PROVE DiagTypeOK'
<1> USE DEF DTypeOK
<1>1. ASSUME NEW p \in Problems, Issue(p) PROVE DiagTypeOK'
  BY <1>1, ReportTypes DEF Issue
<1>2. ASSUME NEW f \in Files, IssueNote(f) PROVE DiagTypeOK'
  BY <1>2, RelatedTypes DEF IssueNote
<1>3. CASE Finish
  BY <1>3, EmitTypes DEF Finish
<1>4. ASSUME NEW f \in Files, NEW u \in {PathUri(f), ClientUri(f)}, SaveClientUri(f, u)
      PROVE  DiagTypeOK'
  <2>1. PathUri(f) \in URIs /\ u \in URIs
    BY URIFacts
  <2>2. QED
    BY <1>4, <2>1, RemapTypes DEF SaveClientUri
<1>5. CASE Renew
  BY <1>5 DEF Renew, NewClient, DiagTypeOK
<1>6. CASE \/ \E how \in {"direct", "command"} : StartCompile(how) \/ ForceClearIndex(how)
           \/ \E strict \in BOOLEAN : AssertIndex(strict)
           \/ QueryHierarchy \/ ListSymbols \/ ReadFails \/ IssueFails \/ Elaborated
           \/ IndexSymbols \/ IndexReferences \/ UNCHANGED vars
  <2>1. UNCHANGED diagVars
    BY <1>6 DEF StartCompile, ForceClearIndex, AssertIndex, QueryHierarchy, ListSymbols, Crash,
                ReadFails, IssueFails, Elaborated, IndexSymbols, IndexReferences, vars
  <2>2. QED
    BY <2>1 DEF diagVars, DiagTypeOK
<1>7. QED
  BY <1>1, <1>2, <1>3, <1>4, <1>5, <1>6 DEF DNext, Handlers, Compile

LEMMA InitTypes == ASSUME DInit PROVE DIInv
<1>1. DiagTypeOK
  BY DEF DInit, DiagInit, DiagTypeOK
<1>2. refusals \in 0 .. 2 /\ refusals \in {0, 1} /\ BrokenToldOnce
  BY DEF DInit, BrokenToldOnce
<1>3. broken_emitted \in BOOLEAN /\ completed \in BOOLEAN /\ compilation \in BOOLEAN
  BY DEF DInit
<1>4. Told /\ Indexed
  BY DEF DInit, Told, Indexed
<1>5. QED
  BY <1>1, <1>2, <1>3, <1>4 DEF DInit, DIInv, DTypeOK, Phases

LEMMA IndexStep == ASSUME DIInv, [DNext]_vars PROVE DIInv'
<1> USE DEF DIInv, DTypeOK, Phases, BrokenToldOnce, Indexed, Told
<1>1. DiagTypeOK'
  BY DiagTypes
<1>2. ASSUME NEW how \in {"direct", "command"}, StartCompile(how) \/ ForceClearIndex(how)
      PROVE  DIInv'
  BY <1>1, <1>2 DEF StartCompile, ForceClearIndex, Idle, state, history
<1>3. CASE ReadFails \/ IssueFails
  BY <1>1, <1>3 DEF ReadFails, IssueFails, Throw, state
<1>4. CASE Renew
  BY <1>1, <1>4 DEF Renew, Goto
<1>5. ASSUME NEW p \in Problems, Issue(p) PROVE DIInv'
  BY <1>1, <1>5 DEF Issue, state
<1>6. ASSUME NEW f \in Files, IssueNote(f) PROVE DIInv'
  BY <1>1, <1>6 DEF IssueNote, state, history
<1>7. CASE Elaborated
  BY <1>1, <1>7 DEF Elaborated, Goto, state, history
<1>8. CASE IndexSymbols
  BY <1>1, <1>8 DEF IndexSymbols, IndexLost, Goto, Throw
<1>9. CASE IndexReferences
  <2>1. UNCHANGED <<compilation, reported, opened>>
    BY <1>9 DEF IndexReferences
  <2>2. CASE /\ index' = "current" /\ Goto("analysing")
             /\ broken_emitted' = FALSE /\ refusals' = 0 /\ UNCHANGED completed
    <3>1. Told' /\ Indexed' /\ refusals' \in 0 .. 2 /\ BrokenToldOnce'
      BY <2>2
    <3>2. broken_emitted' \in BOOLEAN /\ completed' \in BOOLEAN
      BY <2>2
    <3>3. pc' \in Phases /\ via' = via /\ server' = server /\ index' = "current"
      BY <2>2 DEF Goto
    <3>4. QED
      BY <1>1, <2>1, <3>1, <3>2, <3>3
  <2>3. CASE /\ IndexLost /\ Goto("analysing")
             /\ UNCHANGED <<broken_emitted, refusals, completed>>
    BY <1>1, <2>1, <2>3 DEF Goto, IndexLost
  <2>4. CASE Throw /\ UNCHANGED <<index, broken_emitted, refusals>>
    BY <1>1, <2>1, <2>4 DEF Throw
  <2>5. QED
    BY <1>9, <2>2, <2>3, <2>4 DEF IndexReferences
<1>10. CASE Finish
  <2>1. pc = "analysing" /\ pc' = "idle" /\ via' = "direct" /\ server' = server /\ completed'
    BY <1>10 DEF Finish, At_
  <2>2. UNCHANGED <<compilation, index, broken_emitted, reported, refusals, opened>>
    BY <1>10 DEF Finish, state
  <2>3. QED
    BY <1>1, <2>1, <2>2
<1>11. ASSUME NEW f \in Files, NEW u \in {PathUri(f), ClientUri(f)}, SaveClientUri(f, u)
       PROVE  DIInv'
  BY <1>1, <1>11 DEF SaveClientUri, state
<1>12. ASSUME NEW strict \in BOOLEAN, AssertIndex(strict) PROVE DIInv'
  BY <1>1, <1>12 DEF AssertIndex, Refused, Idle
<1>13. CASE QueryHierarchy \/ ListSymbols
  BY <1>1, <1>13 DEF QueryHierarchy, ListSymbols, Crash, state, history
<1>14. CASE UNCHANGED vars
  BY <1>1, <1>14 DEF vars, state, history
<1>15. QED
  BY <1>2, <1>3, <1>4, <1>5, <1>6, <1>7, <1>8, <1>9, <1>10, <1>11, <1>12, <1>13, <1>14
     DEF DNext, Handlers, Compile

LEMMA IndexInvariant == DSpec => []DIInv
<1>1. DIInv /\ [DNext]_vars => DIInv'
  BY IndexStep
<1>2. QED
  BY <1>1, InitTypes, PTL DEF DSpec

(* Every value keeps its type, and a broken index is complained about once *)
(* until it was restored, however compilations fail in between.            *)
THEOREM DTypesHold == DSpec => []DTypeOK
<1>1. DIInv => DTypeOK
  BY DEF DIInv
<1>2. QED
  BY <1>1, IndexInvariant, PTL

(* A compilation that ran to its end leaves no index of an earlier one and *)
(* none without references, although two of the three ways its indexing    *)
(* can fail leave an old or a partial one behind.                          *)
THEOREM IndexStaysCurrent == DSpec => []IndexCurrent
<1>1. DIInv => IndexCurrent
  BY DEF DIInv, Indexed, IndexCurrent, Done, Idle
<1>2. QED
  BY <1>1, IndexInvariant, PTL

-----------------------------------------------------------------------------
(* What the client shows.                                                  *)

(* One record for each problem.                                            *)
LEMMA CoversCardinality ==
  ASSUME NEW ds, NEW P, IsFiniteSet(P), Covers(ds, P)
  PROVE  Cardinality(ds) = Cardinality(P)
<1> DEFINE f == [p \in P |-> CHOOSE d \in ds : d.problem = p]
<1>1. \A p \in P : f[p] \in ds /\ f[p].problem = p
  BY DEF Covers
<1>2. \A d \in ds : d.problem \in P /\ f[d.problem] = d
  BY <1>1 DEF Covers
<1>3. f \in Bijection(P, ds)
  BY <1>1, <1>2, Fun_IsBij
<1>4. QED
  BY <1>3, FS_Bijection DEF ExistsBijection

(* The first report of a problem.                                          *)
LEMMA ReportCovers ==
  ASSUME DTypeOK, NEW p \in Problems, p \notin reported, ReportNew(p),
         reported' = IF Place[p] = Nowhere THEN reported ELSE reported \cup {p},
         Covers(records, reported), OnPaths(records), Shown, IsFiniteSet(reported)
  PROVE  /\ Covers(records', reported') /\ OnPaths(records')
         /\ Shown' /\ IsFiniteSet(reported')
<1>1. CASE Place[p] = Nowhere
  BY <1>1 DEF ReportNew, Shown
<1>2. CASE Place[p] # Nowhere
  <2> DEFINE new == [uri |-> PathUri(Place[p]), problem |-> p, note |-> NoNote]
  <2>1. Place[p] \in Files
    BY <1>2, PlaceAssumption
  <2>2. /\ records' = records \cup {new} /\ keys' = keys \cup {new.uri}
        /\ display' = display /\ reported' = reported \cup {p}
    BY <1>2 DEF ReportNew
  <2>3. new.problem = p /\ new.uri = PathUri(Place[p]) /\ new.note = NoNote
    OBVIOUS
  <2>4. \A d \in records : d.problem # p
    BY DEF Covers
  <2> HIDE DEF new
  <2>5. Covers(records', reported')
    BY <2>2, <2>3, <2>4 DEF Covers
  <2>6. OnPaths(records')
    BY <2>1, <2>2, <2>3 DEF OnPaths
  <2>7. Shown'
    BY <2>2 DEF Shown
  <2>8. QED
    BY <2>2, <2>5, <2>6, <2>7, FS_AddElement
<1>3. QED
  BY <1>1, <1>2

(* A note changes neither the problem nor the place of a record.           *)
LEMMA NoteCovers ==
  ASSUME DTypeOK, NEW f \in Files, ReportRelated(f),
         Covers(records, reported), OnPaths(records), Shown
  PROVE  Covers(records', reported) /\ OnPaths(records') /\ Shown'
<1> DEFINE noted(d) == IF d.problem = last THEN [d EXCEPT !.note = PathUri(f)] ELSE d
<1>1. \A d \in records : /\ noted(d).problem = d.problem /\ noted(d).uri = d.uri
                          /\ noted(d).note \in {d.note, PathUri(f)}
  BY DEF DTypeOK, DiagTypeOK, Diagnostics
<1>2. records' = {noted(d) : d \in records} /\ keys' = keys /\ display' = display
  BY DEF ReportRelated
<1> HIDE DEF noted
<1>3. Covers(records', reported)
  BY <1>1, <1>2 DEF Covers
<1>4. OnPaths(records')
  BY <1>1, <1>2 DEF OnPaths
<1>5. Shown'
  BY <1>1, <1>2 DEF Shown
<1>6. QED
  BY <1>3, <1>4, <1>5

(* What is published replaces all that was shown.                          *)
LEMMA EmitSettles ==
  ASSUME DTypeOK, Emit, Covers(records, reported), OnPaths(records), Shown
  PROVE  /\ display' = records' /\ keys' = {d.uri : d \in records'}
         /\ Covers(records', reported) /\ OneUri(records') /\ Shown'
<1>1. display' = records /\ records' = records /\ keys' = {d.uri : d \in records}
  BY DEF Emit, Published, Erase, Shown
<1>2. OneUri(records)
  BY URIFacts DEF OnPaths, OneUri
<1>3. QED
  BY <1>1, <1>2 DEF Shown

(* Whatever is shown keeps a record when a record moves.                   *)
LEMMA RemapShown ==
  ASSUME Shown, NEW from, NEW to, Remap(from, to)
  PROVE  Shown'
<1> DEFINE moved == IF to \in keys THEN records \ At(from, records) ELSE records
           renamed == {Renamed(d, from, to) : d \in moved}
<1>1. CASE from = to \/ from \notin keys
  BY <1>1 DEF Remap, diagVars, Shown
<1>2. CASE ~(from = to \/ from \notin keys)
  <2>1. /\ records' = renamed /\ keys' = {d.uri : d \in renamed}
        /\ display' = Erase(display, keys \cup {to}) \cup renamed
    BY <1>2 DEF Remap
  <2> HIDE DEF renamed
  <2>2. display' = renamed
    BY <2>1 DEF Erase, Shown
  <2>3. QED
    BY <2>1, <2>2 DEF Shown
<1>3. QED
  BY <1>1, <1>2

(* The record of a file moves with everything that names the file, and     *)
(* none is destroyed: the file has no other URI.                           *)
LEMMA RemapSettles ==
  ASSUME DTypeOK, NEW f \in Files, NEW to \in URIs, FileOf(to) = f, Remap(PathUri(f), to), Shown,
         display = records, keys = {d.uri : d \in records},
         Covers(records, reported), OneUri(records)
  PROVE  /\ display' = records' /\ keys' = {d.uri : d \in records'}
         /\ Covers(records', reported) /\ OneUri(records')
<1> DEFINE from == PathUri(f)
           renamed == {Renamed(d, from, to) : d \in records}
<1>1. CASE from = to \/ from \notin keys
  BY <1>1 DEF Remap, diagVars
<1>2. CASE ~(from = to \/ from \notin keys)
  <2>1. to \notin keys
    BY <1>2, URIFacts DEF OneUri
  <2>2. /\ records' = renamed /\ keys' = {d.uri : d \in renamed}
        /\ display' = Erase(display, keys \cup {to}) \cup renamed
    BY <1>2, <2>1 DEF Remap
  <2>3. display' = renamed
    BY <2>2 DEF Erase, Shown
  <2>4. \A d \in records :
          /\ d.uri \in URIs /\ d.note \in URIs \cup {NoNote}
          /\ Renamed(d, from, to).problem = d.problem
          /\ Renamed(d, from, to).uri = IF d.uri = from THEN to ELSE d.uri
          /\ Renamed(d, from, to).note = IF d.note = from THEN to ELSE d.note
    BY RenamedFacts, URIFacts DEF DTypeOK, DiagTypeOK, Diagnostics
  <2>5. Covers(renamed, reported)
    BY <2>4 DEF Covers
  <2>6. PICK e \in records : e.uri = from
    BY <1>2
  <2>7. FileOf(from) = f /\ from # NoNote /\ to # NoNote
    BY URIFacts
  <2>8. OneUri(renamed)
    <3> DEFINE New(u) == IF u = from THEN to ELSE u
    <3>1. \A d \in records : FileOf(d.uri) = f => d.uri = from
      BY <2>6, <2>7 DEF OneUri
    <3>2. \A d \in records : d.note # NoNote /\ FileOf(d.note) = f => d.note = from
      BY <2>6, <2>7 DEF OneUri
    <3>3. \A d, g \in records : FileOf(New(d.uri)) = FileOf(New(g.uri)) => New(d.uri) = New(g.uri)
      BY <2>7, <3>1 DEF OneUri
    <3>4. \A d, g \in records : d.note # NoNote /\ FileOf(New(g.uri)) = FileOf(New(d.note))
                                  => New(g.uri) = New(d.note)
      BY <2>7, <3>1, <3>2 DEF OneUri
    <3>5. \A d, g \in records : /\ d.note # NoNote /\ g.note # NoNote
                                 /\ FileOf(New(d.note)) = FileOf(New(g.note))
                                 => New(d.note) = New(g.note)
      BY <2>7, <3>2 DEF OneUri
    <3>6. \A d \in records : New(d.note) # NoNote => d.note # NoNote
      BY <2>7
    <3>7. \A r \in renamed : \E d \in records : r.uri = New(d.uri) /\ r.note = New(d.note)
      BY <2>4
    <3> HIDE DEF New, renamed
    <3>8. QED
      BY <3>3, <3>4, <3>5, <3>6, <3>7 DEF OneUri
  <2>9. QED
    BY <2>2, <2>3, <2>5, <2>8
<1>3. QED
  BY <1>1, <1>2

LEMMA ClientStep == ASSUME DIInv, ClientInv, [DNext]_vars PROVE ClientInv'
<1> DEFINE Running == {"issuing", "indexing", "referencing", "analysing"}
<1>types. DTypeOK
  BY DEF DIInv
<1>1. ASSUME NEW how \in {"direct", "command"}, StartCompile(how) \/ ForceClearIndex(how)
      PROVE  ClientInv'
  BY <1>1 DEF StartCompile, ForceClearIndex, diagVars, history, ClientInv, Shown, Issued, Settled
<1>2. CASE ReadFails \/ IssueFails
  BY <1>2 DEF ReadFails, IssueFails, Throw, diagVars, ClientInv, Shown, Issued, Settled
<1>3. CASE Renew
  <2>1. /\ pc' = "issuing" /\ records' = {} /\ reported' = {}
        /\ keys' = keys /\ display' = display
    BY <1>3 DEF Renew, Goto, NewClient
  <2>2. Covers({}, {}) /\ OnPaths({}) /\ IsFiniteSet({})
    BY FS_EmptySet DEF Covers, OnPaths
  <2>3. QED
    BY <2>1, <2>2 DEF ClientInv, Shown, Issued, Settled
<1>4. ASSUME NEW p \in Problems, Issue(p) PROVE ClientInv'
  <2>1. pc' = pc /\ pc \in {"issuing", "analysing"} /\ p \notin reported /\ ReportNew(p)
    BY <1>4 DEF Issue, At_
  <2>2. reported' = IF Place[p] = Nowhere THEN reported ELSE reported \cup {p}
    BY <1>4 DEF Issue
  <2>3. Covers(records, reported) /\ OnPaths(records) /\ Shown /\ IsFiniteSet(reported)
    BY <2>1 DEF ClientInv, Issued
  <2>4. Covers(records', reported') /\ OnPaths(records') /\ Shown' /\ IsFiniteSet(reported')
    BY <1>types, <2>1, <2>2, <2>3, ReportCovers
  <2>5. QED
    BY <2>1, <2>4 DEF ClientInv, Issued, Settled
<1>5. ASSUME NEW f \in Files, IssueNote(f) PROVE ClientInv'
  <2>1. /\ pc' = pc /\ pc \in {"issuing", "analysing"} /\ ReportRelated(f)
        /\ reported' = reported
    BY <1>5 DEF IssueNote, At_, history
  <2>2. Covers(records, reported) /\ OnPaths(records) /\ Shown
    BY <2>1 DEF ClientInv, Issued
  <2>3. Covers(records', reported) /\ OnPaths(records') /\ Shown'
    BY <1>types, <2>1, <2>2, NoteCovers
  <2>4. QED
    BY <2>1, <2>3 DEF ClientInv, Issued, Settled
<1>6. CASE Elaborated \/ IndexSymbols \/ IndexReferences
  <2>1. /\ UNCHANGED <<diagVars, reported>> /\ pc \in Running
        /\ pc' \in Running \/ (pc' = "idle" /\ completed' = FALSE)
    BY <1>6 DEF Elaborated, IndexSymbols, IndexReferences, Goto, Throw, At_, history
  <2>2. QED
    BY <2>1 DEF diagVars, ClientInv, Shown, Issued, Settled
<1>7. CASE Finish
  <2>1. pc = "analysing" /\ pc' = "idle" /\ Emit /\ reported' = reported
    BY <1>7 DEF Finish, At_
  <2>2. Covers(records, reported) /\ OnPaths(records) /\ Shown
    BY <2>1 DEF ClientInv, Issued
  <2>3. /\ display' = records' /\ keys' = {d.uri : d \in records'}
        /\ Covers(records', reported) /\ OneUri(records') /\ Shown'
    BY <1>types, <2>1, <2>2, EmitSettles
  <2>4. QED
    BY <2>1, <2>3 DEF ClientInv, Issued, Settled
<1>8. ASSUME NEW f \in Files, NEW u \in {PathUri(f), ClientUri(f)}, SaveClientUri(f, u)
      PROVE  ClientInv'
  <2>1. /\ pc = "idle" /\ pc' = pc /\ completed' = completed /\ reported' = reported
        /\ Remap(PathUri(f), u)
    BY <1>8 DEF SaveClientUri, Idle
  <2>2. u \in URIs /\ FileOf(u) = f
    BY URIFacts
  <2>3. Shown'
    BY <2>1, RemapShown DEF ClientInv
  <2>4. Settled'
    <3> SUFFICES ASSUME completed
                 PROVE  /\ display' = records' /\ keys' = {d.uri : d \in records'}
                        /\ Covers(records', reported) /\ OneUri(records')
      BY <2>1 DEF Settled
    <3>1. QED
      BY <1>types, <2>1, <2>2, RemapSettles DEF ClientInv, Settled
  <2>5. QED
    BY <2>1, <2>3, <2>4 DEF ClientInv, Issued
<1>9. CASE \/ \E strict \in BOOLEAN : AssertIndex(strict)
           \/ QueryHierarchy \/ ListSymbols \/ UNCHANGED vars
  <2>1. UNCHANGED <<diagVars, pc, completed, reported>>
    BY <1>9 DEF AssertIndex, QueryHierarchy, ListSymbols, Crash, vars, history
  <2>2. QED
    BY <2>1 DEF diagVars, ClientInv, Shown, Issued, Settled
<1>10. QED
  BY <1>1, <1>2, <1>3, <1>4, <1>5, <1>6, <1>7, <1>8, <1>9 DEF DNext, Handlers, Compile

LEMMA ClientInvariant == DSpec => []ClientInv
<1>1. DInit => ClientInv
  BY FS_EmptySet DEF DInit, DiagInit, ClientInv, Shown, Issued, Settled, Covers, OneUri
<1>2. DIInv /\ ClientInv /\ [DNext]_vars => ClientInv'
  BY ClientStep
<1>3. QED
  BY <1>1, <1>2, IndexInvariant, PTL DEF DSpec

(* After a compilation that ran to its end the client shows the problems   *)
(* it reported, each once and each file under one URI, whatever was shown  *)
(* before, whichever compilations failed and whichever URIs were moved.    *)
THEOREM ProblemsStayExact == DSpec => []ProblemsExact
<1>1. ClientInv => ProblemsExact
  <2> SUFFICES ASSUME ClientInv, Done PROVE
        /\ {d.problem : d \in display} = reported
        /\ Cardinality(display) = Cardinality(reported)
        /\ OneUriPerFile
    BY DEF ProblemsExact
  <2>1. display = records /\ Covers(records, reported) /\ OneUri(records)
    BY DEF ClientInv, Settled, Done, Idle
  <2>2. Cardinality(display) = Cardinality(reported)
    BY <2>1, CoversCardinality DEF ClientInv
  <2>3. OneUriPerFile
    BY <2>1 DEF OneUri, OneUriPerFile
  <2>4. QED
    BY <2>1, <2>2, <2>3 DEF Covers
<1>2. QED
  BY <1>1, ClientInvariant, PTL
=============================================================================
