------------------------------ MODULE IndexProofs ------------------------------
(***************************************************************************)
(* The index of every design: every value of Source, Files and UnnamedIds. *)
(* In turn:                                                                *)
(*                                                                         *)
(*   - IdxInv.  A reference is recorded for the symbol that a lookup       *)
(*     returned; that this is a declared symbol takes an invariant about   *)
(*     the scopes: their names stand for declared symbols (Known), through *)
(*     every way a scope is created, reused under an alias, or given a     *)
(*     name after it was closed.                                           *)
(*   - RecInv.  What the files record is a word of the text, or a place    *)
(*     that declares, so that no record begins inside another.             *)
(*   - TreeInv.  Some function gives every scope the body of the text      *)
(*     whose members it holds (Tree), and during the visit the frames of   *)
(*     the elaboration are those of the open scopes (Visiting).            *)
(*   - BindInv.  What is visible in a scope belongs to the text around its *)
(*     body, and what is recorded for an identifier was visible there.     *)
(*                                                                         *)
(* The last two hold of the texts that the index can tell apart            *)
(* (Unambiguous).                                                          *)
(***************************************************************************)
EXTENDS Indexer, SequenceFacts

(* The scopes are a sequence of records with a content.                    *)
Shaped(ss) ==
  /\ \E S : ss \in Seq(S)
  /\ \A s \in DOMAIN ss : "content" \in DOMAIN ss[s]

(* The scopes ss name nothing but what the scopes tt name.                 *)
NamesFrom(ss, tt) ==
  \A s \in DOMAIN ss : \A c \in DOMAIN ss[s].content :
    s \in DOMAIN tt /\ c \in DOMAIN tt[s].content /\ ss[s].content[c] = tt[s].content[c]

(* The names of the scopes ss stand for members of D.                      *)
NamesIn(ss, D) ==
  \A s \in DOMAIN ss : \A c \in DOMAIN ss[s].content : ss[s].content[c] \in D

Known == NamesIn(scopes, DOMAIN symbols)

Listed == \A s \in DOMAIN symbols : "refs" \in DOMAIN symbols[s]

IdxInv == Shaped(scopes) /\ Known /\ Listed /\ ReferencesAgree

-----------------------------------------------------------------------------
(* Scopes.                                                                 *)

LEMMA NamesFromSelf == ASSUME NEW ss PROVE NamesFrom(ss, ss)
BY DEF NamesFrom

LEMMA NamesFromChain ==
  ASSUME NEW ss, NEW tt, NEW uu, NamesFrom(ss, tt), NamesFrom(tt, uu)
  PROVE  NamesFrom(ss, uu)
BY DEF NamesFrom

(* What has the places of a sequence is one.                               *)
LEMMA SamePlaces ==
  ASSUME NEW S, NEW ss \in Seq(S), NEW tt, tt = [s \in DOMAIN ss |-> tt[s]]
  PROVE  \E T : tt \in Seq(T)
<1> DEFINE T == {tt[s] : s \in DOMAIN ss}
<1>1. Len(ss) \in Nat /\ DOMAIN ss = 1 .. Len(ss)
  OBVIOUS
<1>2. [s \in DOMAIN ss |-> tt[s]] \in [DOMAIN ss -> T]
  OBVIOUS
<1>3. tt \in [1 .. Len(ss) -> T]
  BY <1>1, <1>2, Zenon
<1> HIDE DEF T
<1>4. tt \in Seq(T)
  BY <1>1, <1>3
<1>5. QED
  BY <1>4

(* A change of a scope that is not one of its content.                     *)
LEMMA SameContent ==
  ASSUME NEW ss, Shaped(ss), NEW tt, tt = [s \in DOMAIN ss |-> tt[s]],
         \A s \in DOMAIN ss : "content" \in DOMAIN tt[s] /\ tt[s].content = ss[s].content
  PROVE  Shaped(tt) /\ NamesFrom(tt, ss) /\ DOMAIN tt = DOMAIN ss
<1>1. DOMAIN tt = DOMAIN ss
  BY Zenon
<1>2. \E T : tt \in Seq(T)
  BY SamePlaces DEF Shaped
<1>3. QED
  BY <1>1, <1>2 DEF Shaped, NamesFrom

LEMMA CountedNames ==
  ASSUME NEW ss, Shaped(ss), NEW p, NEW name
  PROVE  /\ Shaped(Counted(ss, p, name)) /\ NamesFrom(Counted(ss, p, name), ss)
         /\ DOMAIN Counted(ss, p, name) = DOMAIN ss
<1> DEFINE tt == [ss EXCEPT ![p].unnamed = @ + 1]
<1>1. tt = [s \in DOMAIN ss |-> tt[s]]
  OBVIOUS
<1>2. \A s \in DOMAIN ss : "content" \in DOMAIN tt[s] /\ tt[s].content = ss[s].content
  BY DEF Shaped
<1> HIDE DEF tt
<1>3. Shaped(tt) /\ NamesFrom(tt, ss) /\ DOMAIN tt = DOMAIN ss
  BY <1>1, <1>2, SameContent
<1>4. Counted(ss, p, name) = tt \/ Counted(ss, p, name) = ss
  BY DEF Counted, tt
<1>5. QED
  BY <1>3, <1>4, NamesFromSelf

LEMMA AppendedNames ==
  ASSUME NEW ss, Shaped(ss), NEW name, NEW parent, NEW path, NEW virtual, NEW anonymous
  PROVE  LET tt == Append(ss, NewScope(name, parent, path, virtual, anonymous))
         IN  Shaped(tt) /\ NamesFrom(tt, ss)
<1> DEFINE new == NewScope(name, parent, path, virtual, anonymous)
           tt == Append(ss, new)
<1>1. "content" \in DOMAIN new /\ DOMAIN new.content = {}
  BY DEF NewScope, Empty
<1> HIDE DEF new
<1>2. PICK S : ss \in Seq(S)
  BY DEF Shaped
<1>3. ss \in Seq(S \cup {new})
  BY <1>2
<1>4. /\ tt \in Seq(S \cup {new}) /\ Len(tt) = Len(ss) + 1 /\ Len(ss) \in Nat
      /\ tt[Len(ss) + 1] = new /\ \A s \in 1 .. Len(ss) : tt[s] = ss[s]
      /\ DOMAIN ss = 1 .. Len(ss) /\ DOMAIN tt = 1 .. Len(ss) + 1
  BY <1>3
<1> HIDE DEF tt
<1>5. \A s \in DOMAIN tt : (s \in DOMAIN ss /\ tt[s] = ss[s]) \/ tt[s] = new
  BY <1>4
<1>6. Shaped(tt)
  BY <1>1, <1>4, <1>5 DEF Shaped
<1>7. NamesFrom(tt, ss)
  BY <1>1, <1>5 DEF NamesFrom
<1>8. QED
  BY <1>6, <1>7 DEF tt, new

LEMMA ChildNames ==
  ASSUME NEW ss, Shaped(ss), NEW p, NEW name, NEW virtual
  PROVE  LET tt == AddChild(ss, p, name, virtual).scopes
         IN  Shaped(tt) /\ NamesFrom(tt, ss)
<1> DEFINE counted == Counted(ss, p, name)
           used == UsedName(ss, p, name)
           listed == [counted EXCEPT ![p].children = Put(@, used, Len(ss) + 1)]
           path == Append(ss[p].path, used)
           grown == Append(listed, NewScope(used, p, path, virtual, name = ""))
<1>1. Shaped(counted) /\ NamesFrom(counted, ss)
  BY CountedNames
<1>2. \/ AddChild(ss, p, name, virtual).scopes = counted
      \/ AddChild(ss, p, name, virtual).scopes = grown
  BY DEF AddChild
<1> HIDE DEF counted, used, path
<1>3. Shaped(listed) /\ NamesFrom(listed, counted)
  <2>1. listed = [s \in DOMAIN counted |-> listed[s]]
    OBVIOUS
  <2>2. \A s \in DOMAIN counted :
          "content" \in DOMAIN listed[s] /\ listed[s].content = counted[s].content
    BY <1>1 DEF Shaped
  <2> HIDE DEF listed
  <2>3. QED
    BY <1>1, <2>1, <2>2, SameContent
<1> HIDE DEF listed
<1>4. Shaped(grown) /\ NamesFrom(grown, listed)
  BY <1>3, AppendedNames
<1> HIDE DEF grown
<1>5. NamesFrom(grown, ss)
  BY <1>1, <1>3, <1>4, NamesFromChain
<1>6. QED
  BY <1>1, <1>2, <1>4, <1>5

LEMMA AliasNames ==
  ASSUME NEW ss, Shaped(ss), NEW p, NEW target, NEW alias
  PROVE  LET tt == AddChildAlias(ss, p, target, alias).scopes
         IN  Shaped(tt) /\ NamesFrom(tt, ss)
<1> DEFINE counted == Counted(ss, p, alias)
           used == UsedName(ss, p, alias)
           listed == [counted EXCEPT ![p].aliases = Put(@, used, target)]
<1>1. Shaped(counted) /\ NamesFrom(counted, ss)
  BY CountedNames
<1>2. \/ AddChildAlias(ss, p, target, alias).scopes = counted
      \/ AddChildAlias(ss, p, target, alias).scopes = listed
  BY DEF AddChildAlias
<1> HIDE DEF counted, used
<1>3. Shaped(listed) /\ NamesFrom(listed, counted)
  <2>1. listed = [s \in DOMAIN counted |-> listed[s]]
    OBVIOUS
  <2>2. \A s \in DOMAIN counted :
          "content" \in DOMAIN listed[s] /\ listed[s].content = counted[s].content
    BY <1>1 DEF Shaped
  <2> HIDE DEF listed
  <2>3. QED
    BY <1>1, <2>1, <2>2, SameContent
<1> HIDE DEF listed
<1>4. NamesFrom(listed, ss)
  BY <1>1, <1>3, NamesFromChain
<1>5. QED
  BY <1>1, <1>2, <1>3, <1>4

(* add_symbol of a scope, for a declared symbol.                           *)
LEMMA RegisteringNames ==
  ASSUME NEW ss, Shaped(ss), NEW s, NEW name, NEW range, NEW D, NamesIn(ss, D), range \in D
  PROVE  LET tt == Registering(ss, s, name, range)
         IN  Shaped(tt) /\ NamesIn(tt, D)
<1> DEFINE at == NameAt(name, range)
           tt == [ss EXCEPT ![s].content = Put(@, at, range)]
<1>1. Registering(ss, s, name, range) = tt
  BY DEF Registering
<1> HIDE DEF at
<1>2. tt = [x \in DOMAIN ss |-> tt[x]]
  OBVIOUS
<1>3. \A x \in DOMAIN ss : \/ tt[x] = ss[x]
                         \/ /\ "content" \in DOMAIN tt[x]
                            /\ tt[x].content = Put(ss[x].content, at, range)
  BY DEF Shaped
<1> HIDE DEF tt
<1>4. DOMAIN tt = DOMAIN ss
  BY <1>2, Zenon
<1>5. \E T : tt \in Seq(T)
  BY <1>2, SamePlaces DEF Shaped
<1>6. Shaped(tt)
  BY <1>3, <1>4, <1>5 DEF Shaped
<1>7. ASSUME NEW x \in DOMAIN tt, NEW c \in DOMAIN tt[x].content
      PROVE  tt[x].content[c] \in D
  <2>1. x \in DOMAIN ss
    BY <1>4
  <2>2. CASE tt[x] = ss[x]
    BY <2>1, <2>2 DEF NamesIn
  <2>3. CASE tt[x].content = Put(ss[x].content, at, range)
    <3>1. /\ DOMAIN Put(ss[x].content, at, range) = DOMAIN ss[x].content \cup {at}
          /\ Put(ss[x].content, at, range)[c] = IF c = at THEN range ELSE ss[x].content[c]
      BY <2>3 DEF Put
    <3>2. QED
      BY <2>1, <2>3, <3>1 DEF NamesIn
  <2>4. QED
    BY <1>3, <2>1, <2>2, <2>3
<1>8. QED
  BY <1>1, <1>6, <1>7 DEF NamesIn

LEMMA NamesStay ==
  ASSUME NEW ss, NEW tt, NEW D, NEW E, NamesFrom(ss, tt), NamesIn(tt, D), D \subseteq E
  PROVE  NamesIn(ss, E)
BY DEF NamesFrom, NamesIn

(* A lookup finds nothing, or a declared symbol.                           *)
LEMMA LookupDeclared ==
  ASSUME Known, NEW s, NEW name, Lookup(s, name) # None
  PROVE  Lookup(s, name) \in DOMAIN symbols
<1> DEFINE holders == {a \in Visible(s) : name \in DOMAIN scopes[a].content}
           nearest == {a \in holders : \A b \in holders : b <= a}
           a == CHOOSE x \in nearest : TRUE
<1>1. nearest # {} /\ Lookup(s, name) = scopes[a].content[name]
  BY DEF Lookup
<1>2. a \in nearest
  BY <1>1
<1>3. a \in DOMAIN scopes /\ name \in DOMAIN scopes[a].content
  BY <1>2 DEF Visible, Above
<1> HIDE DEF a
<1>4. QED
  BY <1>1, <1>3 DEF Known, NamesIn

LEMMA ImportedDeclared ==
  ASSUME Known, NEW file, NEW name, NEW t \in Imported(file, name).symbols
  PROVE  t \in DOMAIN symbols
<1>1. \E s : t = Lookup(s, name) /\ t # None
  BY DEF Imported
<1>2. QED
  BY <1>1, LookupDeclared

-----------------------------------------------------------------------------
(* The records of the files and the lists of the symbols.                  *)

LEMMA AddSymbolAgrees ==
  ASSUME Listed, ReferencesAgree, NEW name, NEW range, AddSymbol(name, range)
  PROVE  /\ Listed' /\ ReferencesAgree'
         /\ DOMAIN symbols \subseteq DOMAIN symbols' /\ range \in DOMAIN symbols'
<1>1. CASE range \in DOMAIN symbols
  BY <1>1 DEF AddSymbol, Listed, ReferencesAgree
<1>2. CASE range \notin DOMAIN symbols
  <2>1. /\ symbols' = Put(symbols, range, [name |-> name, refs |-> {}])
        /\ references' = WithReference(range, range, TRUE)
    BY <1>2 DEF AddSymbol
  <2>2. /\ DOMAIN symbols' = DOMAIN symbols \cup {range}
        /\ \A s \in DOMAIN symbols : symbols'[s] = symbols[s]
        /\ symbols'[range] = [name |-> name, refs |-> {}]
    BY <1>2, <2>1 DEF Put
  <2>3. Listed'
    BY <2>2 DEF Listed
  <2>4. CASE ~IsFirst(range)
    <3>1. references' = references
      BY <2>1, <2>4 DEF WithReference
    <3>2. QED
      BY <1>2, <2>2, <2>3, <3>1 DEF ReferencesAgree
  <2>5. CASE IsFirst(range)
    <3> DEFINE at == <<range.file, range.start>>
               new == [range |-> range, symbol |-> range, definition |-> TRUE]
    <3>1. references' = Put(references, at, new) /\ at \notin DOMAIN references
      BY <2>1, <2>5 DEF WithReference, IsFirst
    <3>2. /\ DOMAIN references' = DOMAIN references \cup {at}
          /\ \A k \in DOMAIN references : references'[k] = references[k]
          /\ references'[at] = new
      BY <3>1 DEF Put
    <3>3. ASSUME NEW k \in DOMAIN references'
          PROVE  LET r == references'[k]
                 IN  /\ r.symbol \in DOMAIN symbols'
                     /\ k = <<r.range.file, r.range.start>>
                     /\ r.definition => r.range = r.symbol
                     /\ ~r.definition => r.range \in symbols'[r.symbol].refs
      <4>1. CASE k \in DOMAIN references
        BY <1>2, <2>2, <3>2, <4>1 DEF ReferencesAgree
      <4>2. CASE k = at
        BY <2>2, <3>2, <4>2
      <4>3. QED
        BY <3>2, <4>1, <4>2
    <3>4. ASSUME NEW s \in DOMAIN symbols', NEW r \in symbols'[s].refs
          PROVE  LET k == <<r.file, r.start>>
                 IN  /\ k \in DOMAIN references'
                     /\ references'[k].symbol = s /\ references'[k].range = r
      <4>1. s \in DOMAIN symbols /\ r \in symbols[s].refs
        BY <1>2, <2>2
      <4>2. QED
        BY <3>2, <4>1 DEF ReferencesAgree
    <3>5. ReferencesAgree'
      BY <3>3, <3>4 DEF ReferencesAgree
    <3>6. QED
      BY <2>2, <2>3, <3>5
  <2>6. QED
    BY <2>4, <2>5
<1>3. QED
  BY <1>1, <1>2

LEMMA AddReferenceAgrees ==
  ASSUME Listed, ReferencesAgree, NEW symbol \in DOMAIN symbols, NEW range,
         AddReference(symbol, range)
  PROVE  Listed' /\ ReferencesAgree' /\ DOMAIN symbols' = DOMAIN symbols
<1>1. CASE ~IsFirst(range)
  BY <1>1 DEF AddReference, WithReference, Listed, ReferencesAgree
<1>2. CASE IsFirst(range)
  <2> DEFINE at == <<range.file, range.start>>
             new == [range |-> range, symbol |-> symbol, definition |-> FALSE]
  <2>1. /\ references' = Put(references, at, new) /\ at \notin DOMAIN references
        /\ symbols' = [symbols EXCEPT ![symbol].refs = @ \cup {range}]
    BY <1>2 DEF AddReference, WithReference, IsFirst
  <2>2. /\ DOMAIN references' = DOMAIN references \cup {at}
        /\ \A k \in DOMAIN references : references'[k] = references[k]
        /\ references'[at] = new
    BY <2>1 DEF Put
  <2>3. /\ DOMAIN symbols' = DOMAIN symbols
        /\ \A s \in DOMAIN symbols : s # symbol => symbols'[s] = symbols[s]
        /\ "refs" \in DOMAIN symbols'[symbol]
        /\ symbols'[symbol].refs = symbols[symbol].refs \cup {range}
    BY <2>1 DEF Listed
  <2>4. Listed'
    BY <2>3 DEF Listed
  <2>5. ASSUME NEW k \in DOMAIN references'
        PROVE  LET r == references'[k]
               IN  /\ r.symbol \in DOMAIN symbols'
                   /\ k = <<r.range.file, r.range.start>>
                   /\ r.definition => r.range = r.symbol
                   /\ ~r.definition => r.range \in symbols'[r.symbol].refs
    <3>1. CASE k \in DOMAIN references
      BY <2>2, <2>3, <3>1 DEF ReferencesAgree
    <3>2. CASE k = at
      BY <2>2, <2>3, <3>2
    <3>3. QED
      BY <2>2, <3>1, <3>2
  <2>6. ASSUME NEW s \in DOMAIN symbols', NEW r \in symbols'[s].refs
        PROVE  LET k == <<r.file, r.start>>
               IN  /\ k \in DOMAIN references'
                   /\ references'[k].symbol = s /\ references'[k].range = r
    <3>1. CASE r \in symbols[s].refs
      BY <2>2, <2>3, <3>1 DEF ReferencesAgree
    <3>2. CASE r \notin symbols[s].refs
      <4>1. s = symbol /\ r = range
        BY <2>3, <3>2
      <4>2. QED
        BY <2>2, <4>1
    <3>3. QED
      BY <3>1, <3>2
  <2>7. ReferencesAgree'
    BY <2>5, <2>6 DEF ReferencesAgree
  <2>8. QED
    BY <2>3, <2>4, <2>7
<1>3. QED
  BY <1>1, <1>2

-----------------------------------------------------------------------------
(* The visits.                                                             *)

(* A scope is opened while the symbols of the files are in place.          *)
LEMMA OpenScopeNames ==
  ASSUME NEW ss, Shaped(ss), NEW D, NamesIn(ss, D), NEW body, NEW owner, NEW name,
         NEW virtual, OpenScope(ss, body, owner, name, virtual)
  PROVE  Shaped(scopes') /\ NamesIn(scopes', D)
<1> DEFINE range == Text[body].range
           child == AddChild(ss, Current, name, virtual)
<1>1. CASE \E d \in Duplicates(ss, range) : scopes' = AddChildAlias(ss, Current, d, name).scopes
  <2>1. PICK d : scopes' = AddChildAlias(ss, Current, d, name).scopes
    BY <1>1
  <2>2. Shaped(scopes') /\ NamesFrom(scopes', ss)
    BY <2>1, AliasNames
  <2>3. QED
    BY <2>2, NamesStay
<1>2. CASE scopes' = [child.scopes EXCEPT ![child.id].range = range]
  <2> DEFINE tt == child.scopes
             id == child.id
             uu == [tt EXCEPT ![id].range = range]
  <2>1. Shaped(tt) /\ NamesFrom(tt, ss)
    BY ChildNames
  <2> HIDE DEF child, range
  <2>2. uu = [s \in DOMAIN tt |-> uu[s]]
    OBVIOUS
  <2> HIDE DEF tt, id
  <2>3. \A s \in DOMAIN tt : "content" \in DOMAIN uu[s] /\ uu[s].content = tt[s].content
    BY <2>1 DEF Shaped
  <2>4. scopes' = uu
    BY <1>2 DEF tt, id
  <2> HIDE DEF uu
  <2>5. Shaped(uu) /\ NamesFrom(uu, tt)
    BY <2>1, <2>2, <2>3, SameContent
  <2>6. QED
    BY <2>1, <2>4, <2>5, NamesFromChain, NamesStay
<1>3. \/ \E d \in Duplicates(ss, range) : scopes' = AddChildAlias(ss, Current, d, name).scopes
      \/ scopes' = [child.scopes EXCEPT ![child.id].range = range]
  BY DEF OpenScope
<1>4. QED
  BY <1>1, <1>2, <1>3

(* A symbol is declared and its name given to the scope s.                 *)
LEMMA DeclaredNames ==
  ASSUME IdxInv, NEW s, NEW name, NEW range, AddSymbol(name, range)
  PROVE  /\ Listed' /\ ReferencesAgree'
         /\ Shaped(Registering(scopes, s, name, range))
         /\ NamesIn(Registering(scopes, s, name, range), DOMAIN symbols')
<1>1. /\ Listed' /\ ReferencesAgree'
      /\ DOMAIN symbols \subseteq DOMAIN symbols' /\ range \in DOMAIN symbols'
  BY AddSymbolAgrees DEF IdxInv
<1>2. Shaped(scopes) /\ NamesIn(scopes, DOMAIN symbols')
  BY <1>1 DEF IdxInv, Known, NamesIn
<1>3. QED
  BY <1>1, <1>2, RegisteringNames

LEMMA OpensAgree ==
  ASSUME IdxInv, NEW body, NEW owner, NEW name, NEW virtual,
         OpenScope(scopes, body, owner, name, virtual), UNCHANGED <<symbols, references>>
  PROVE  IdxInv'
<1>1. Shaped(scopes') /\ NamesIn(scopes', DOMAIN symbols)
  BY OpenScopeNames DEF IdxInv, Known
<1>2. QED
  BY <1>1 DEF IdxInv, Known, Listed, ReferencesAgree

LEMMA InstanceAgrees ==
  ASSUME IdxInv, NEW n, HandleInstance(n)
  PROVE  IdxInv'
<1>1. CASE Text[n].range = NoRange \/ Text[n].name = ""
  BY <1>1, OpensAgree DEF HandleInstance
<1>2. CASE ~(Text[n].range = NoRange \/ Text[n].name = "")
  <2> DEFINE name == Text[n].name
             range == Text[n].range
             ss == Registering(scopes, Current, name, range)
  <2>1. AddSymbol(name, range) /\ OpenScope(ss, Text[n].of, n, name, FALSE)
    BY <1>2 DEF HandleInstance
  <2>2. Listed' /\ ReferencesAgree' /\ Shaped(ss) /\ NamesIn(ss, DOMAIN symbols')
    BY <2>1, DeclaredNames
  <2> HIDE DEF ss
  <2>3. Shaped(scopes') /\ NamesIn(scopes', DOMAIN symbols')
    BY <2>1, <2>2, OpenScopeNames
  <2>4. QED
    BY <2>2, <2>3 DEF IdxInv, Known
<1>3. QED
  BY <1>1, <1>2

LEMMA SymbolAgrees ==
  ASSUME IdxInv, NEW n, HandleSymbol(n)
  PROVE  IdxInv'
BY DeclaredNames DEF HandleSymbol, IdxInv, Known

(* Nothing that IdxInv speaks of changes.                                  *)
LEMMA SameIndex ==
  ASSUME IdxInv, UNCHANGED <<scopes, symbols, references>>
  PROVE  IdxInv'
BY DEF IdxInv, Known, Listed, ReferencesAgree

LEMMA AfterCloseAgrees ==
  ASSUME IdxInv, NEW outer, NEW n, AfterClose(outer, n)
  PROVE  IdxInv'
<1> DEFINE name == Text[n].name
           module == Text[Text[n].of]
           inner == ScopeByName(outer, name)
<1>1. \/ /\ AddSymbol(name, Text[n].id)
         /\ scopes' = Registering(scopes, outer, name, Text[n].id)
      \/ /\ AddSymbol(module.name, module.id)
         /\ scopes' = Registering(scopes, inner, module.name, module.id)
      \/ UNCHANGED <<symbols, references, scopes>>
  BY DEF AfterClose
<1> HIDE DEF name, module, inner
<1>2. ASSUME NEW s, NEW called, NEW range, AddSymbol(called, range),
             scopes' = Registering(scopes, s, called, range)
      PROVE  IdxInv'
  BY <1>2, DeclaredNames DEF IdxInv, Known
<1>3. QED
  BY <1>1, <1>2, SameIndex

LEMMA LeaveAgrees ==
  ASSUME IdxInv, Leave
  PROVE  IdxInv'
<1>1. CASE ~Frame.opens
  BY <1>1, SameIndex DEF Leave
<1>2. CASE Frame.opens /\ Closes(Frame.name)
  BY <1>2, AfterCloseAgrees DEF Leave
<1>3. CASE Frame.opens /\ ~Closes(Frame.name)
  BY <1>3, SameIndex DEF Leave
<1>4. QED
  BY <1>1, <1>2, <1>3

LEMMA RefersAgree ==
  ASSUME IdxInv, UNCHANGED scopes, NEW symbol \in DOMAIN symbols, NEW range,
         AddReference(symbol, range)
  PROVE  IdxInv'
<1>1. Listed' /\ ReferencesAgree' /\ DOMAIN symbols' = DOMAIN symbols
  BY AddReferenceAgrees DEF IdxInv
<1>2. QED
  BY <1>1 DEF IdxInv, Known

(* A reference is added, or nothing is, also when the file is not there.    *)
LEMMA ReferToCases ==
  ASSUME NEW s, NEW name, NEW range, ReferTo(s, name, range)
  PROVE  \/ Lookup(s, name) # None /\ AddReference(Lookup(s, name), range) /\ UNCHANGED phase
         \/ UNCHANGED <<symbols, references>> /\ phase' \in {phase, "null"}
<1>1. CASE s = None \/ Lookup(s, name) = None
  BY <1>1 DEF ReferTo
<1>2. CASE ~(s = None \/ Lookup(s, name) = None) /\ Indexed(range.file)
  BY <1>2 DEF ReferTo
<1>3. CASE ~(s = None \/ Lookup(s, name) = None) /\ ~Indexed(range.file)
  BY <1>3 DEF ReferTo
<1>4. QED
  BY <1>1, <1>2, <1>3

LEMMA ReferToAgrees ==
  ASSUME IdxInv, UNCHANGED scopes, NEW s, NEW name, NEW range, ReferTo(s, name, range)
  PROVE  IdxInv'
<1>1. CASE Lookup(s, name) # None /\ AddReference(Lookup(s, name), range)
  <2>1. Lookup(s, name) \in DOMAIN symbols
    BY <1>1, LookupDeclared DEF IdxInv
  <2>2. QED
    BY <1>1, <2>1, RefersAgree
<1>2. CASE UNCHANGED <<symbols, references>>
  BY <1>2, SameIndex
<1>3. QED
  BY <1>1, <1>2, ReferToCases

LEMMA ReferAgrees ==
  ASSUME IdxInv, Refer
  PROVE  IdxInv'
<1> DEFINE n == Head(todo)
<1>1. CASE ReferIdentifier(n)
  <2> DEFINE range == Text[n].range
             name == Text[n].name
             far == Imported(range.file, name)
  <2>1. \/ UNCHANGED <<symbols, references>>
        \/ \E s : Lookup(s, name) # None /\ AddReference(Lookup(s, name), range)
        \/ \E t \in far.symbols : AddReference(t, range)
    BY <1>1 DEF ReferIdentifier
  <2>2. UNCHANGED scopes
    BY DEF Refer
  <2> HIDE DEF n
  <2>3. CASE \E s : Lookup(s, name) # None /\ AddReference(Lookup(s, name), range)
    <3>1. PICK s : Lookup(s, name) # None /\ AddReference(Lookup(s, name), range)
      BY <2>3
    <3>2. Lookup(s, name) \in DOMAIN symbols
      BY <3>1, LookupDeclared DEF IdxInv
    <3>3. QED
      BY <2>2, <3>1, <3>2, RefersAgree
  <2>4. CASE \E t \in far.symbols : AddReference(t, range)
    <3>1. PICK t \in far.symbols : AddReference(t, range)
      BY <2>4
    <3>2. t \in DOMAIN symbols
      BY <3>1, ImportedDeclared DEF IdxInv
    <3>3. QED
      BY <2>2, <3>1, <3>2, RefersAgree
  <2>5. QED
    BY <2>1, <2>2, <2>3, <2>4, SameIndex
<1>2. CASE ReferInstance(n) \/ ReferPort(n) \/ ReferType(n)
  <2>1. \E s, name, range : ReferTo(s, name, range)
    BY <1>2 DEF ReferInstance, ReferPort, ReferType
  <2>2. UNCHANGED scopes
    BY DEF Refer
  <2>3. QED
    BY <2>1, <2>2, ReferToAgrees
<1>3. CASE ReferModule(n)
  BY <1>3, SameIndex DEF Refer, ReferModule
<1>4. QED
  BY <1>1, <1>2, <1>3 DEF Refer

LEMMA InitAgrees == Init => IdxInv
<1> SUFFICES ASSUME Init PROVE IdxInv
  OBVIOUS
<1>1. /\ DOMAIN scopes = {1} /\ "content" \in DOMAIN scopes[1]
      /\ DOMAIN scopes[1].content = {} /\ scopes \in Seq({scopes[1]})
  <2> DEFINE root == NewScope("$root", None, <<>>, FALSE, FALSE)
  <2>1. "content" \in DOMAIN root /\ DOMAIN root.content = {}
    BY DEF NewScope, Empty
  <2>2. scopes = <<root>>
    BY DEF Init
  <2> HIDE DEF root
  <2>3. DOMAIN scopes = {1} /\ scopes[1] = root /\ scopes \in Seq({root})
    BY <2>2
  <2>4. QED
    BY <2>1, <2>3
<1>2. DOMAIN symbols = {} /\ DOMAIN references = {}
  BY DEF Init, Empty
<1>3. QED
  BY <1>1, <1>2 DEF IdxInv, Shaped, Known, NamesIn, Listed, ReferencesAgree

LEMMA NextAgrees == IdxInv /\ [Next]_vars => IdxInv'
<1> SUFFICES ASSUME IdxInv, [Next]_vars PROVE IdxInv'
  OBVIOUS
<1>1. ASSUME NEW n \in Nodes, HandleUnit(n) PROVE IdxInv'
  BY <1>1, SameIndex DEF HandleUnit
<1>2. ASSUME NEW n \in Nodes, HandleSymbol(n) PROVE IdxInv'
  BY <1>2, SymbolAgrees
<1>3. ASSUME NEW n \in Nodes, HandleImport(n) PROVE IdxInv'
  BY <1>3, SameIndex DEF HandleImport
<1>4. ASSUME NEW n \in Nodes, HandleScope(n) PROVE IdxInv'
  BY <1>4, OpensAgree DEF HandleScope
<1>5. ASSUME NEW n \in Nodes, HandleInstance(n) PROVE IdxInv'
  BY <1>5, InstanceAgrees
<1>6. CASE Leave
  BY <1>6, LeaveAgrees
<1>7. CASE StartReferences
  BY <1>7, SameIndex DEF StartReferences
<1>8. CASE Refer
  BY <1>8, ReferAgrees
<1>9. CASE Ready
  BY <1>9, SameIndex DEF Ready
<1>10. CASE UNCHANGED vars
  BY <1>10, SameIndex DEF vars
<1>11. QED
  BY <1>1, <1>2, <1>3, <1>4, <1>5, <1>6, <1>7, <1>8, <1>9, <1>10 DEF Next

-----------------------------------------------------------------------------
(* What a file records at a place and what a symbol lists as its references *)
(* are the same after any sequence of steps of the two visitors             *)
(* (IndexFile::add_symbol and add_reference), so that a rename edits what   *)
(* a definition is found from.                                              *)
THEOREM ReferencesStayAgreed == Spec => []ReferencesAgree
<1>1. Init => IdxInv
  BY InitAgrees
<1>2. IdxInv /\ [Next]_vars => IdxInv'
  BY NextAgrees
<1>3. IdxInv => ReferencesAgree
  BY DEF IdxInv
<1>4. QED
  BY <1>1, <1>2, <1>3, PTL DEF Spec

-----------------------------------------------------------------------------
(* The text.                                                               *)

LEMMA NodeFacts ==
  /\ Len(Text) \in Nat /\ Nodes = 1 .. Len(Text) /\ Text \in Seq(ToSet(Text))
  /\ \A n \in Nodes : n \in Nat \ {0} /\ Text[n].in \in Nat /\ Text[n].in < n
<1>1. Text \in Seq(ToSet(Text))
  BY TextAssumption
<1>2. Len(Text) \in Nat /\ DOMAIN Text = 1 .. Len(Text)
  BY <1>1
<1>3. \A n \in Nodes : Text[n].in \in 0 .. (n - 1)
  BY TextAssumption
<1>4. QED
  BY <1>1, <1>2, <1>3 DEF Nodes

(* What is around a node is the node, and what is around the one it is in.  *)
LEMMA AroundFacts ==
  \A n \in Nodes :
    Around[n] = {n} \cup (IF Text[n].in = 0 THEN {} ELSE Around[Text[n].in])
<1> DEFINE L == Len(Text)
           R == [Nodes -> SUBSET Nodes]
           more(n, f) == {n} \cup (IF Text[n].in = 0 THEN {} ELSE f[Text[n].in])
           with(n, f) == [x \in Nodes |-> IF x = n THEN more(n, f) ELSE f[x]]
           base == [n \in Nodes |-> {}]
           step == [i \in Nat |-> [f \in R |-> IF i \in Nodes THEN with(i, f) ELSE f]]
           P(f) == f = [n \in Nodes |-> more(n, f)]
<1>1. ASSUME NEW i \in Nodes, NEW f \in R PROVE with(i, f) \in R
  <2>1. more(i, f) \in SUBSET Nodes
    BY NodeFacts
  <2> HIDE DEF more
  <2>2. QED
    BY <2>1
<1>2. step \in [Nat -> [R -> R]] /\ base \in R /\ L \in Nat
  <2>1. base \in R
    OBVIOUS
  <2> HIDE DEF R, with, base
  <2>2. QED
    BY <1>1, <2>1, NodeFacts
<1>3. PICK g \in [0 .. L -> R] : g[0] = base /\ \A i \in 1 .. L : g[i] = step[i][g[i - 1]]
  <2>1. \E g \in [0 .. L -> R] : Follows(g, base, step, L)
    <3> HIDE DEF step, L, R, base
    <3>1. QED
      BY <1>2, Recursion
  <2>2. QED
    BY <2>1 DEF Follows
<1>4. ASSUME NEW i \in Nodes PROVE g[i] = with(i, g[i - 1]) /\ g[i - 1] \in R
  <2>1. i \in 1 .. L /\ i \in Nat /\ i - 1 \in 0 .. L
    BY NodeFacts
  <2> HIDE DEF R, with, base
  <2>2. g[i - 1] \in R
    BY <1>3, <2>1
  <2>3. g[i] = step[i][g[i - 1]]
    BY <1>3, <2>1
  <2>4. QED
    BY <2>1, <2>2, <2>3
<1> DEFINE T == {m \in Nat : m <= L => \A n \in Nodes : n <= m => g[m][n] = g[n][n]}
<1>5. 0 \in T
  BY NodeFacts
<1>6. ASSUME NEW m \in Nat, m \in T PROVE m + 1 \in T
  <2> SUFFICES ASSUME m + 1 <= L, NEW n \in Nodes, n <= m + 1
               PROVE  g[m + 1][n] = g[n][n]
    OBVIOUS
  <2>1. CASE n = m + 1
    BY <2>1
  <2>2. CASE n # m + 1
    <3>1. n <= m /\ m <= L /\ m + 1 \in Nodes /\ (m + 1) - 1 = m
      BY <2>2, NodeFacts
    <3>2. g[m + 1] = with(m + 1, g[m])
      BY <1>4, <3>1
    <3>3. g[m + 1][n] = g[m][n]
      BY <2>2, <3>2
    <3>4. QED
      BY <1>6, <3>1, <3>3
  <2>3. QED
    BY <2>1, <2>2
<1>7. \A m \in Nat : m \in T
  <2> HIDE DEF T
  <2>1. QED
    BY <1>5, <1>6, Induction
<1> DEFINE h == [n \in Nodes |-> g[n][n]]
<1>8. ASSUME NEW n \in Nodes PROVE g[n][n] = more(n, h)
  <2>1. g[n][n] = more(n, g[n - 1])
    BY <1>4
  <2>2. CASE Text[n].in = 0
    BY <2>1, <2>2
  <2>3. CASE Text[n].in # 0
    <3> DEFINE p == Text[n].in
    <3>1. p \in Nodes /\ p <= n - 1 /\ n - 1 \in Nat /\ n - 1 <= L
      BY <2>3, NodeFacts
    <3>2. n - 1 \in T
      BY <1>7, <3>1
    <3>3. g[n - 1][p] = g[p][p]
      BY <3>1, <3>2
    <3>4. h[p] = g[p][p]
      BY <3>1
    <3>5. QED
      BY <2>1, <2>3, <3>3, <3>4
  <2>4. QED
    BY <2>2, <2>3
<1>9. P(h)
  <2> DEFINE at(n) == more(n, h)
  <2>1. \A n \in Nodes : g[n][n] = at(n)
    BY <1>8
  <2> HIDE DEF at
  <2>2. h = [n \in Nodes |-> at(n)]
    BY <2>1
  <2>3. QED
    BY <2>2 DEF at
<1>10. Around = CHOOSE f : P(f)
  BY DEF Around
<1>11. P(Around)
  <2> HIDE DEF P, h
  <2>1. QED
    BY <1>9, <1>10
<1> HIDE DEF h, T, step, base, R
<1>12. QED
  BY <1>11

(* What ReferenceVisitor may reach: all of it is text.                     *)
Places == {n \in Nodes : /\ Text[n].kind \in
                              {"module", "identifier", "instance", "port", "type"}
                         /\ ~Top(n)}

LEMMA UnderPlaces ==
  ASSUME NEW r \in Nodes, Text[r].kind # "instance"
  PROVE  Under(r) \subseteq Places
<1> SUFFICES ASSUME NEW n \in Under(r) PROVE ~Top(n)
  BY DEF Under, Places
<1>1. n \in Nodes /\ r \in Around[n]
  BY DEF Under
<1>2. QED
  BY <1>1, AroundFacts DEF Top

LEMMA InOrderFacts ==
  ASSUME NEW set
  PROVE  InOrder(set) \in Seq(set)
<1> DEFINE L == Len(Text)
           R == Seq(set)
           P(f) == f = [n \in 0 .. L |->
                          IF n = 0 THEN <<>>
                          ELSE IF n \in set THEN Append(f[n - 1], n) ELSE f[n - 1]]
           all == CHOOSE f : P(f)
           step == [i \in Nat |-> [x \in R |-> IF i \in set THEN Append(x, i) ELSE x]]
<1>1. L \in Nat /\ <<>> \in R
  BY NodeFacts
<1>2. step \in [Nat -> [R -> R]]
  <2>1. \A i \in Nat : \A x \in R : (IF i \in set THEN Append(x, i) ELSE x) \in R
    OBVIOUS
  <2> HIDE DEF R
  <2>2. QED
    BY <2>1
<1>3. PICK g \in [0 .. L -> R] : g[0] = <<>> /\ \A i \in 1 .. L : g[i] = step[i][g[i - 1]]
  <2>1. \E g \in [0 .. L -> R] : Follows(g, <<>>, step, L)
    <3> HIDE DEF step, L, R
    <3>1. QED
      BY <1>1, <1>2, Recursion
  <2>2. QED
    BY <2>1 DEF Follows
<1>4. P(g)
  <2> DEFINE at(n) == IF n = 0 THEN <<>>
                      ELSE IF n \in set THEN Append(g[n - 1], n) ELSE g[n - 1]
  <2>1. ASSUME NEW n \in 0 .. L PROVE g[n] = at(n)
    <3>1. CASE n = 0
      BY <1>3, <3>1
    <3>2. CASE n # 0
      <4> HIDE DEF R
      <4>1. n \in 1 .. L /\ n \in Nat /\ g[n - 1] \in R
        BY <1>1, <1>3, <3>2
      <4>2. g[n] = step[n][g[n - 1]]
        BY <1>3, <4>1
      <4>3. QED
        BY <3>2, <4>1, <4>2
    <3>3. QED
      BY <3>1, <3>2
  <2> HIDE DEF at
  <2>2. g = [n \in 0 .. L |-> at(n)]
    <3> HIDE DEF R, step, L
    <3>1. QED
      BY <1>3, <2>1
  <2>3. QED
    BY <2>2 DEF at
<1>5. P(all)
  <2> HIDE DEF P
  <2>1. QED
    BY <1>4
<1>6. InOrder(set) = all[L]
  BY DEF InOrder
<1> HIDE DEF all, step
<1> DEFINE T == {n \in Nat : n <= L => all[n] \in R}
<1>7. 0 \in T
  BY <1>1, <1>5
<1>8. ASSUME NEW n \in Nat, n \in T PROVE n + 1 \in T
  <2> SUFFICES ASSUME n + 1 <= L PROVE all[n + 1] \in R
    OBVIOUS
  <2>1. n + 1 \in 0 .. L /\ n + 1 # 0 /\ (n + 1) - 1 = n /\ n <= L
    BY <1>1
  <2>2. all[n + 1] = IF n + 1 \in set THEN Append(all[n], n + 1) ELSE all[n]
    BY <1>5, <2>1
  <2>3. all[n] \in R
    BY <1>8, <2>1
  <2>4. QED
    BY <2>2, <2>3
<1>9. \A n \in Nat : n \in T
  <2> HIDE DEF T
  <2>1. QED
    BY <1>7, <1>8, Induction
<1>10. QED
  BY <1>1, <1>6, <1>9

-----------------------------------------------------------------------------
(* The places of the text: the words that may refer, and the places that    *)
(* declare.                                                                *)

Declarers == {d[2] : d \in Declared}

LEMMA PlaceFacts ==
  /\ \A n \in Nodes : Text[n].kind = "symbol" => Text[n].range \in Declarers
  /\ \A n \in Nodes : Text[n].kind = "instance" /\ Text[n].range # NoRange =>
       Text[n].range \in Declarers
  /\ \A n \in Nodes : Identified(n) => Text[n].id \in Declarers /\ Text[n].id \in Words
  /\ \A n \in Places : Text[n].kind \notin {"module", "instance"} => Text[n].range \in Words
  /\ \A n \in Places : Text[n].kind = "instance" => Text[n].id \in Words
<1>1. ASSUME NEW name, NEW r, <<name, r>> \in Declared PROVE r \in Declarers
  <2>1. <<name, r>>[2] = r
    OBVIOUS
  <2>2. QED
    BY <1>1, <2>1 DEF Declarers
<1>2. ASSUME NEW n \in Nodes, Text[n].kind \in {"symbol", "instance"}, ~Top(n)
      PROVE  Text[n].range \in Declarers
  BY <1>1, <1>2 DEF Declared
<1>3. ASSUME NEW n \in Nodes, Identified(n)
      PROVE  Text[n].id \in Declarers /\ Text[n].id \in Words
  BY <1>1, <1>3 DEF Declared, Words
<1>4. \A n \in Nodes : Text[n].range # NoRange => ~Top(n)
  BY TextAssumption
<1>5. \A n \in Nodes : Text[n].kind = "symbol" => ~Top(n)
  BY DEF Top
<1>6. \A n \in Places : Text[n].kind \notin {"module", "instance"} => Text[n].range \in Words
  BY DEF Places, Words
<1>7. \A n \in Places : Text[n].kind = "instance" => Identified(n)
  BY DEF Places, Identified
<1>8. QED
  BY <1>2, <1>3, <1>4, <1>5, <1>6, <1>7 DEF Places

LEMMA RangeFacts == \A r \in Words \cup Declarers : IsRange(r)
<1>1. \A n \in Nodes : ~Top(n) => IsRange(Text[n].range)
  BY TextAssumption
<1>2. \A n \in Nodes : Identified(n) => IsRange(Text[n].id)
  BY TextAssumption
<1>3. \A n \in Nodes : Text[n].kind \in {"identifier", "port", "type"} => ~Top(n)
  BY DEF Top
<1>4. \A r \in Words : IsRange(r)
  BY <1>1, <1>2, <1>3 DEF Words
<1>5. \A d \in Declared : IsRange(d[2])
  BY <1>1, <1>2 DEF Declared
<1>6. QED
  BY <1>4, <1>5 DEF Declarers

-----------------------------------------------------------------------------
(* What is recorded is a word of the text or the place of a declaration,   *)
(* and what a symbol lists is a word.                                      *)

Recorded ==
  /\ \A s \in DOMAIN symbols : s \in Declarers /\ symbols[s].refs \subseteq Words
  /\ \A k \in DOMAIN references : references[k].range \in Words \cup Declarers

(* The visitors are somewhere in the text.                                 *)
Owned(ff) ==
  /\ \E S : ff \in Seq(S)
  /\ \A i \in DOMAIN ff : /\ {"opens", "owner"} \subseteq DOMAIN ff[i]
                          /\ ff[i].opens => ff[i].owner \in Openers
Rooted == \A f \in DOMAIN roots : roots[f] \in Nodes /\ Text[roots[f]].kind # "instance"

RecInv ==
  IdxInv /\ Recorded /\ Owned(frames) /\ Rooted /\ todo \in Seq(Places)

LEMMA AddSymbolRecorded ==
  ASSUME Recorded, NEW name, NEW range \in Declarers, AddSymbol(name, range)
  PROVE  Recorded'
<1>1. CASE range \in DOMAIN symbols
  BY <1>1 DEF AddSymbol, Recorded
<1>2. CASE range \notin DOMAIN symbols
  <2>1. /\ DOMAIN symbols' = DOMAIN symbols \cup {range}
        /\ \A s \in DOMAIN symbols : symbols'[s] = symbols[s]
        /\ symbols'[range].refs = {}
    BY <1>2 DEF AddSymbol, Put
  <2>2. \A k \in DOMAIN references' :
          \/ k \in DOMAIN references /\ references'[k] = references[k]
          \/ references'[k].range = range
    BY <1>2 DEF AddSymbol, WithReference, Put
  <2>3. QED
    BY <2>1, <2>2 DEF Recorded
<1>3. QED
  BY <1>1, <1>2

LEMMA AddReferenceRecorded ==
  ASSUME Recorded, Listed, NEW symbol \in DOMAIN symbols, NEW range \in Words,
         AddReference(symbol, range)
  PROVE  Recorded'
<1>1. \A k \in DOMAIN references' :
        \/ k \in DOMAIN references /\ references'[k] = references[k]
        \/ references'[k].range = range
  BY DEF AddReference, WithReference, Put
<1>2. /\ DOMAIN symbols' = DOMAIN symbols
      /\ \A s \in DOMAIN symbols : symbols'[s].refs \subseteq symbols[s].refs \cup {range}
  BY DEF AddReference, Listed
<1>3. QED
  BY <1>1, <1>2 DEF Recorded

LEMMA OwnedPassed ==
  ASSUME NEW ff, Owned(ff), NEW i, NEW n
  PROVE  Owned([ff EXCEPT ![i].last = n])
<1> DEFINE gg == [ff EXCEPT ![i].last = n]
<1>1. gg = [x \in DOMAIN ff |-> gg[x]] /\ DOMAIN gg = DOMAIN ff
  OBVIOUS
<1>2. ASSUME NEW x \in DOMAIN ff
      PROVE  /\ {"opens", "owner"} \subseteq DOMAIN gg[x]
             /\ gg[x].opens = ff[x].opens /\ gg[x].owner = ff[x].owner
  <2>1. CASE x # i
    BY <2>1 DEF Owned
  <2>2. CASE x = i
    <3>1. gg[x] = [ff[x] EXCEPT !.last = n]
      BY <2>2
    <3>2. QED
      BY <3>1 DEF Owned
  <2>3. QED
    BY <2>1, <2>2
<1> HIDE DEF gg
<1>3. \E S : gg \in Seq(S)
  BY <1>1, SamePlaces DEF Owned
<1>4. Owned(gg)
  BY <1>1, <1>2, <1>3 DEF Owned
<1>5. QED
  BY <1>4 DEF gg

LEMMA OwnedAppend ==
  ASSUME NEW ff, Owned(ff), NEW f, {"opens", "owner"} \subseteq DOMAIN f,
         f.opens => f.owner \in Openers
  PROVE  Owned(Append(ff, f))
<1>1. PICK S : ff \in Seq(S)
  BY DEF Owned
<1>2. ff \in Seq(S \cup {f})
  BY <1>1
<1> DEFINE gg == Append(ff, f)
<1>3. gg \in Seq(S \cup {f}) /\ DOMAIN gg = DOMAIN ff \cup {Len(ff) + 1}
      /\ gg[Len(ff) + 1] = f /\ \A i \in DOMAIN ff : gg[i] = ff[i]
  BY <1>2
<1> HIDE DEF gg
<1>4. Owned(gg)
  BY <1>3 DEF Owned
<1>5. QED
  BY <1>4 DEF gg

LEMMA OwnedFront ==
  ASSUME NEW ff, Owned(ff), Len(ff) > 1
  PROVE  Owned(Front(ff))
<1>1. PICK S : ff \in Seq(S)
  BY DEF Owned
<1> DEFINE gg == SubSeq(ff, 1, Len(ff) - 1)
<1>2. gg \in Seq(S) /\ DOMAIN gg \subseteq DOMAIN ff /\ \A i \in DOMAIN gg : gg[i] = ff[i]
  BY <1>1
<1> HIDE DEF gg
<1>3. Owned(gg)
  BY <1>2 DEF Owned
<1>4. QED
  BY <1>3 DEF gg, Front

LEMMA FrameFacts ==
  ASSUME Owned(frames), frames # <<>>
  PROVE  Frame.opens => Frame.owner \in Openers
<1>1. PICK S : frames \in Seq(S)
  BY DEF Owned
<1>2. Len(frames) \in DOMAIN frames
  BY <1>1
<1>3. QED
  BY <1>2 DEF Owned, Frame

LEMMA OpenerFacts ==
  ASSUME NEW n \in Openers
  PROVE  /\ n \in Nodes /\ Body(n) \in Nodes /\ Text[Body(n)].kind # "instance"
         /\ Text[n].kind = "instance" =>
              /\ Body(n) = Text[n].of /\ Text[Text[n].of].kind = "module"
              /\ Identified(Text[n].of)
         /\ Text[n].kind # "instance" => Body(n) = n
<1>1. n \in Nodes
  BY DEF Openers
<1>2. CASE Text[n].kind = "instance"
  <2>1. Text[n].of \in Nodes /\ Text[Text[n].of].kind = "module"
    BY <1>1, <1>2, TextAssumption
  <2>2. QED
    BY <1>1, <1>2, <2>1 DEF Body, Identified, Top
<1>3. CASE Text[n].kind # "instance"
  BY <1>1, <1>3 DEF Body
<1>4. QED
  BY <1>2, <1>3

(* Opening a scope.                                                        *)
LEMMA EntersOwned ==
  ASSUME Owned(frames), NEW id, NEW body, NEW owner \in Openers, NEW name, NEW path,
         Enters(id, body, owner, name, path)
  PROVE  Owned(frames')
<1>1. Owned(Passed(owner))
  BY OwnedPassed DEF Passed
<1> DEFINE f == ScopeFrame(body, name, owner, path)
<1>2. {"opens", "owner"} \subseteq DOMAIN f /\ f.owner = owner
  BY DEF ScopeFrame
<1> HIDE DEF f
<1>3. Owned(Append(Passed(owner), f))
  BY <1>1, <1>2, OwnedAppend
<1>4. QED
  BY <1>3 DEF Enters, f

LEMMA OpenScopeOwned ==
  ASSUME Owned(frames), Rooted, NEW ss, NEW n \in Openers, NEW name, NEW virtual,
         OpenScope(ss, Body(n), n, name, virtual)
  PROVE  Owned(frames') /\ Rooted'
<1>1. \E id, called, path : Enters(id, Body(n), n, called, path)
  BY DEF OpenScope
<1>2. Owned(frames')
  BY <1>1, EntersOwned
<1>3. roots' = roots \/ \E f : roots' = Put(roots, f, Body(n))
  BY DEF OpenScope
<1>4. Body(n) \in Nodes /\ Text[Body(n)].kind # "instance"
  BY OpenerFacts
<1>5. Rooted'
  <2>1. ASSUME NEW f, roots' = Put(roots, f, Body(n)) PROVE Rooted'
    <3>1. /\ DOMAIN roots' = DOMAIN roots \cup {f}
          /\ \A x \in DOMAIN roots' : roots'[x] = IF x = f THEN Body(n) ELSE roots[x]
      BY <2>1 DEF Put
    <3>2. QED
      BY <1>4, <3>1 DEF Rooted
  <2>2. QED
    BY <1>3, <2>1 DEF Rooted
<1>6. QED
  BY <1>2, <1>5

-----------------------------------------------------------------------------
(* The steps.                                                              *)

LEMMA SameRecords ==
  ASSUME Recorded, UNCHANGED <<symbols, references>>
  PROVE  Recorded'
BY DEF Recorded

LEMMA AfterCloseRecorded ==
  ASSUME Recorded, NEW outer, NEW n \in Openers, AfterClose(outer, n)
  PROVE  Recorded'
<1> DEFINE name == Text[n].name
           module == Text[Text[n].of]
<1>1. \/ Text[n].kind = "function" /\ AddSymbol(name, Text[n].id)
      \/ Text[n].kind = "instance" /\ AddSymbol(module.name, module.id)
      \/ UNCHANGED <<symbols, references, scopes>>
  BY DEF AfterClose
<1>2. CASE Text[n].kind = "function" /\ AddSymbol(name, Text[n].id)
  <2>1. Identified(n)
    BY <1>2 DEF Identified, Top
  <2>2. Text[n].id \in Declarers
    BY <2>1, PlaceFacts, OpenerFacts
  <2>3. QED
    BY <1>2, <2>2, AddSymbolRecorded
<1>3. CASE Text[n].kind = "instance" /\ AddSymbol(module.name, module.id)
  <2>1. Text[n].of \in Nodes /\ Identified(Text[n].of)
    BY <1>3, OpenerFacts
  <2>2. module.id \in Declarers
    BY <2>1, PlaceFacts
  <2>3. QED
    BY <1>3, <2>2, AddSymbolRecorded
<1>4. QED
  BY <1>1, <1>2, <1>3, SameRecords

LEMMA ReferToRecorded ==
  ASSUME Recorded, IdxInv, NEW s, NEW name, NEW range \in Words, ReferTo(s, name, range)
  PROVE  Recorded'
<1>1. CASE Lookup(s, name) # None /\ AddReference(Lookup(s, name), range)
  <2>1. Lookup(s, name) \in DOMAIN symbols
    BY <1>1, LookupDeclared DEF IdxInv
  <2>2. QED
    BY <1>1, <2>1, AddReferenceRecorded DEF IdxInv
<1>2. CASE UNCHANGED <<symbols, references>>
  BY <1>2, SameRecords
<1>3. QED
  BY <1>1, <1>2, ReferToCases

(* What a step of ReferenceVisitor does at the place n.                    *)
LEMMA ReferIdentifierCases ==
  ASSUME Known, NEW n, ReferIdentifier(n)
  PROVE  \/ UNCHANGED <<symbols, references>>
         \/ \E t \in DOMAIN symbols : AddReference(t, Text[n].range)
<1> DEFINE range == Text[n].range
           name == Text[n].name
           far == Imported(range.file, name)
<1>1. \/ UNCHANGED <<symbols, references>>
      \/ \E s : Lookup(s, name) # None /\ AddReference(Lookup(s, name), range)
      \/ \E t \in far.symbols : AddReference(t, range)
  BY DEF ReferIdentifier
<1>2. \A t \in far.symbols : t \in DOMAIN symbols
  BY ImportedDeclared
<1>3. QED
  BY <1>1, <1>2, LookupDeclared

LEMMA ReferRecorded ==
  ASSUME RecInv, Refer
  PROVE  Recorded' /\ todo' \in Seq(Places)
<1> DEFINE n == Head(todo)
<1>1. n \in Places /\ todo' \in Seq(Places)
  BY TailFacts DEF RecInv, Refer
<1>2. CASE ReferIdentifier(n)
  <2>1. Text[n].range \in Words
    BY <1>1, <1>2, PlaceFacts DEF ReferIdentifier
  <2>2. \/ UNCHANGED <<symbols, references>>
        \/ \E t \in DOMAIN symbols : AddReference(t, Text[n].range)
    BY <1>2, ReferIdentifierCases DEF RecInv, IdxInv
  <2>3. QED
    BY <1>1, <2>1, <2>2, SameRecords, AddReferenceRecorded DEF RecInv, IdxInv
<1>3. CASE ReferInstance(n)
  <2>1. Text[n].id \in Words
    BY <1>1, <1>3, PlaceFacts DEF ReferInstance
  <2>2. \E s : ReferTo(s, Text[Text[n].of].name, Text[n].id)
    BY <1>3 DEF ReferInstance
  <2>3. QED
    BY <1>1, <2>1, <2>2, ReferToRecorded DEF RecInv
<1>4. CASE ReferPort(n) \/ ReferType(n)
  <2>1. Text[n].range \in Words
    BY <1>1, <1>4, PlaceFacts DEF ReferPort, ReferType
  <2>2. \E s : ReferTo(s, Text[n].name, Text[n].range)
    BY <1>4 DEF ReferPort, ReferType
  <2>3. QED
    BY <1>1, <2>1, <2>2, ReferToRecorded DEF RecInv
<1>5. CASE ReferModule(n)
  BY <1>1, <1>5, SameRecords DEF ReferModule, RecInv
<1>6. QED
  BY <1>2, <1>3, <1>4, <1>5 DEF Refer

LEMMA StartQueues ==
  ASSUME Rooted, StartReferences
  PROVE  todo' \in Seq(Places)
<1> DEFINE list(i) == IF Files[i] \in DOMAIN roots
                      THEN InOrder(Under(roots[Files[i]])) ELSE <<>>
           lists == [i \in DOMAIN Files |-> list(i)]
<1>1. ASSUME NEW i \in DOMAIN Files PROVE list(i) \in Seq(Places)
  <2>1. CASE Files[i] \in DOMAIN roots
    <3> DEFINE r == roots[Files[i]]
    <3>1. Under(r) \subseteq Places
      BY <2>1, UnderPlaces DEF Rooted
    <3>2. InOrder(Under(r)) \in Seq(Under(r))
      BY InOrderFacts
    <3>3. InOrder(Under(r)) \in Seq(Places)
      <4> DEFINE A == Under(r)
                 q == InOrder(A)
      <4> HIDE DEF A, q
      <4>1. A \subseteq Places /\ q \in Seq(A)
        BY <3>1, <3>2 DEF A, q
      <4>2. q \in Seq(Places)
        BY <4>1
      <4>3. QED
        BY <4>2 DEF A, q
    <3>4. QED
      BY <2>1, <3>3
  <2>2. CASE Files[i] \notin DOMAIN roots
    BY <2>2
  <2>3. QED
    BY <2>1, <2>2
<1>2. Files \in Seq(ToSet(Files))
  BY TextAssumption
<1>3. DOMAIN Files = 1 .. Len(Files) /\ Len(Files) \in Nat
  BY <1>2
<1>4. lists \in Seq(Seq(Places))
  <2> DEFINE R == Seq(Places)
  <2> HIDE DEF R, list
  <2>1. \A i \in 1 .. Len(Files) : list(i) \in R
    BY <1>1, <1>3 DEF R
  <2>2. lists = [i \in 1 .. Len(Files) |-> list(i)]
    BY <1>3
  <2> HIDE DEF lists
  <2>3. lists \in Seq(R)
    BY <1>3, <2>1, <2>2
  <2>4. QED
    BY <2>3 DEF R
<1>5. todo' = FlattenSeq(lists)
  BY DEF StartReferences, Visit
<1> HIDE DEF lists
<1>6. FlattenSeq(lists) \in Seq(Places)
  BY <1>4, FlattenAppend
<1>7. QED
  BY <1>5, <1>6

LEMMA InitRecorded == Init => RecInv
<1> SUFFICES ASSUME Init PROVE RecInv
  OBVIOUS
<1>2. DOMAIN symbols = {} /\ DOMAIN references = {} /\ DOMAIN roots = {} /\ todo = <<>>
  BY DEF Init, Empty
<1>3. IdxInv
  BY InitAgrees
<1>4. Owned(frames)
  <2> DEFINE f == [node |-> 0, last |-> 0, opens |-> FALSE, name |-> "", owner |-> 0,
                   path |-> <<>>]
  <2>1. {"opens", "owner"} \subseteq DOMAIN f /\ ~f.opens
    OBVIOUS
  <2>2. frames = <<f>>
    BY DEF Init
  <2> HIDE DEF f
  <2>3. frames \in Seq({f}) /\ DOMAIN frames = {1} /\ frames[1] = f
    BY <2>2
  <2>4. QED
    BY <2>1, <2>3 DEF Owned
<1>5. QED
  BY <1>2, <1>3, <1>4 DEF RecInv, Recorded, Rooted

LEMMA SameVisit ==
  ASSUME RecInv, UNCHANGED <<symbols, references, frames, roots, todo>>
  PROVE  Recorded' /\ Owned(frames)' /\ Rooted' /\ todo' \in Seq(Places)
BY SameRecords DEF RecInv, Rooted

LEMMA UnitRecorded ==
  ASSUME RecInv, NEW n \in Nodes, HandleUnit(n)
  PROVE  Recorded' /\ Owned(frames)' /\ Rooted' /\ todo' \in Seq(Places)
<1> DEFINE f == NoScopeFrame(n)
<1>1. {"opens", "owner"} \subseteq DOMAIN f /\ ~f.opens
  BY DEF NoScopeFrame
<1> HIDE DEF f
<1>2. Owned(Passed(n))
  BY OwnedPassed DEF RecInv, Passed
<1>3. Owned(Append(Passed(n), f))
  BY <1>1, <1>2, OwnedAppend
<1>4. Owned(frames')
  BY <1>3 DEF HandleUnit, f
<1>5. roots' = Put(roots, Text[n].range.file, n) /\ Text[n].kind = "unit"
  BY DEF HandleUnit
<1>6. Rooted'
  <2>1. /\ DOMAIN roots' = DOMAIN roots \cup {Text[n].range.file}
        /\ \A x \in DOMAIN roots' : roots'[x] = n \/ (x \in DOMAIN roots /\ roots'[x] = roots[x])
    BY <1>5 DEF Put
  <2>2. QED
    BY <1>5, <2>1 DEF RecInv, Rooted
<1>7. UNCHANGED <<symbols, references, todo>>
  BY DEF HandleUnit
<1>8. QED
  BY <1>4, <1>6, <1>7, SameRecords DEF RecInv

LEMMA SymbolRecorded ==
  ASSUME RecInv, NEW n \in Nodes, HandleSymbol(n)
  PROVE  Recorded' /\ Owned(frames)' /\ Rooted' /\ todo' \in Seq(Places)
<1>1. Text[n].range \in Declarers
  BY PlaceFacts DEF HandleSymbol
<1>2. AddSymbol(Text[n].name, Text[n].range)
  BY DEF HandleSymbol
<1>3. Recorded'
  BY <1>1, <1>2, AddSymbolRecorded DEF RecInv
<1>4. Owned(frames')
  BY OwnedPassed DEF HandleSymbol, Passed, RecInv
<1>5. UNCHANGED <<roots, todo>>
  BY DEF HandleSymbol
<1>6. QED
  BY <1>3, <1>4, <1>5 DEF RecInv, Rooted

LEMMA ImportRecorded ==
  ASSUME RecInv, NEW n \in Nodes, HandleImport(n)
  PROVE  Recorded' /\ Owned(frames)' /\ Rooted' /\ todo' \in Seq(Places)
<1>1. Owned(frames')
  BY OwnedPassed DEF HandleImport, Passed, RecInv
<1>2. UNCHANGED <<symbols, references, roots, todo>>
  BY DEF HandleImport
<1>3. QED
  BY <1>1, <1>2, SameRecords DEF RecInv, Rooted

LEMMA ScopeRecorded ==
  ASSUME RecInv, NEW n \in Nodes, HandleScope(n)
  PROVE  Recorded' /\ Owned(frames)' /\ Rooted' /\ todo' \in Seq(Places)
<1>1. n \in Openers /\ Body(n) = n
  BY DEF HandleScope, Openers, Body
<1>2. OpenScope(scopes, Body(n), n, Text[n].name, TRUE)
  BY <1>1 DEF HandleScope
<1>3. Owned(frames') /\ Rooted'
  BY <1>1, <1>2, OpenScopeOwned DEF RecInv
<1>4. UNCHANGED <<symbols, references, todo>>
  BY DEF HandleScope
<1>5. QED
  BY <1>3, <1>4, SameRecords DEF RecInv

LEMMA InstanceRecorded ==
  ASSUME RecInv, NEW n \in Nodes, HandleInstance(n)
  PROVE  Recorded' /\ Owned(frames)' /\ Rooted' /\ todo' \in Seq(Places)
<1>1. n \in Openers /\ Body(n) = Text[n].of /\ Text[n].kind = "instance"
  BY DEF HandleInstance, Openers, Body
<1>2. \E ss : OpenScope(ss, Body(n), n, Text[n].name, FALSE)
  BY <1>1 DEF HandleInstance
<1>3. Owned(frames') /\ Rooted'
  BY <1>1, <1>2, OpenScopeOwned DEF RecInv
<1>4. Recorded'
  <2>1. CASE Text[n].range = NoRange \/ Text[n].name = ""
    BY <2>1, SameRecords DEF HandleInstance, RecInv
  <2>2. CASE ~(Text[n].range = NoRange \/ Text[n].name = "")
    <3>1. AddSymbol(Text[n].name, Text[n].range)
      BY <2>2 DEF HandleInstance
    <3>2. Text[n].range \in Declarers
      BY <1>1, <2>2, PlaceFacts
    <3>3. QED
      BY <3>1, <3>2, AddSymbolRecorded DEF RecInv
  <2>3. QED
    BY <2>1, <2>2
<1>5. UNCHANGED todo
  BY DEF HandleInstance
<1>6. QED
  BY <1>3, <1>4, <1>5 DEF RecInv

LEMMA LeaveRecorded ==
  ASSUME RecInv, Leave
  PROVE  Recorded' /\ Owned(frames)' /\ Rooted' /\ todo' \in Seq(Places)
<1>1. Owned(frames')
  BY OwnedFront DEF Leave, RecInv
<1>2. UNCHANGED <<roots, todo>>
  BY DEF Leave
<1>3. Recorded'
  <2>1. CASE Frame.opens /\ Closes(Frame.name)
    <3>1. AfterClose(stack[Len(stack) - 1], Frame.owner)
      BY <2>1 DEF Leave
    <3>2. frames # <<>>
      BY DEF Leave
    <3>3. Frame.owner \in Openers
      BY <2>1, <3>2, FrameFacts DEF RecInv
    <3>4. QED
      BY <3>1, <3>3, AfterCloseRecorded DEF RecInv
  <2>2. CASE ~(Frame.opens /\ Closes(Frame.name))
    <3>1. UNCHANGED <<symbols, references>>
      BY <2>2 DEF Leave
    <3>2. QED
      BY <3>1, SameRecords DEF RecInv
  <2>3. QED
    BY <2>1, <2>2
<1>4. QED
  BY <1>1, <1>2, <1>3 DEF RecInv, Rooted

LEMMA StartRecorded ==
  ASSUME RecInv, StartReferences
  PROVE  Recorded' /\ Owned(frames)' /\ Rooted' /\ todo' \in Seq(Places)
<1>1. frames' = <<>> /\ UNCHANGED <<symbols, references, roots>>
  BY DEF StartReferences
<1>2. Owned(frames')
  <2>1. frames' \in Seq({}) /\ DOMAIN frames' = {}
    BY <1>1
  <2>2. QED
    BY <2>1 DEF Owned
<1>3. todo' \in Seq(Places)
  BY StartQueues DEF RecInv
<1>4. QED
  BY <1>1, <1>2, <1>3, SameRecords DEF RecInv, Rooted

LEMMA NextRecorded ==
  ASSUME RecInv, [Next]_vars
  PROVE  Recorded' /\ Owned(frames)' /\ Rooted' /\ todo' \in Seq(Places)
<1>1. CASE Refer
  <2>1. UNCHANGED <<frames, roots>>
    BY <1>1 DEF Refer
  <2>2. QED
    BY <1>1, <2>1, ReferRecorded DEF RecInv, Rooted
<1>2. CASE Ready \/ UNCHANGED vars
  BY <1>2, SameVisit DEF Ready, vars
<1>3. QED
  BY <1>1, <1>2, UnitRecorded, SymbolRecorded, ImportRecorded, ScopeRecorded,
     InstanceRecorded, LeaveRecorded, StartRecorded DEF Next

(* The binary search finds the record of the place itself: no other word    *)
(* that is recorded begins in it.                                          *)
LEMMA RecordFound ==
  ASSUME RecInv, NEW s \in DOMAIN symbols, NEW r \in symbols[s].refs,
         NEW pos \in r.start .. r.end
  PROVE  SymbolAt(r.file, pos) = s /\ s # None
<1> DEFINE key == <<r.file, r.start>>
           before == {k \in DOMAIN references : k[1] = r.file /\ k[2] <= pos}
           P(k) == \A j \in before : j[2] <= k[2]
           last == CHOOSE k \in before : P(k)
<1>1. r \in Words /\ IsRange(r) /\ IsRange(s)
  BY RangeFacts DEF RecInv, Recorded
<1>2. r.start \in Nat /\ r.end \in Nat /\ pos \in Int /\ r.start <= pos /\ pos <= r.end
  BY <1>1 DEF IsRange
<1>3. key \in DOMAIN references /\ references[key].symbol = s /\ references[key].range = r
  BY DEF RecInv, IdxInv, ReferencesAgree
<1>4. ASSUME NEW k \in before PROVE k[2] \in Nat /\ k[2] <= r.start /\ k = <<k[1], k[2]>>
  <2> DEFINE q == references[k].range
  <2>1. k = <<q.file, q.start>> /\ q \in Words \cup Declarers
    BY DEF RecInv, Recorded, IdxInv, ReferencesAgree
  <2> HIDE DEF q
  <2>2. q.start \in Nat /\ k[1] = q.file /\ k[2] = q.start /\ q.file = r.file /\ q.start <= pos
    BY <2>1, RangeFacts DEF IsRange
  <2>3. CASE r.start <= q.start
    <3>1. q.start <= r.end
      BY <1>2, <2>2
    <3>2. q.start = r.start
      BY <1>1, <2>1, <2>2, <2>3, <3>1, WordAssumption DEF Declarers
    <3>3. QED
      BY <1>2, <2>1, <2>2, <3>2
  <2>4. CASE ~(r.start <= q.start)
    BY <1>2, <2>1, <2>2, <2>4
  <2>5. QED
    BY <2>3, <2>4
<1>5. key \in before /\ P(key)
  BY <1>2, <1>3, <1>4
<1>6. last \in before /\ P(last)
  <2> HIDE DEF before, P
  <2>1. QED
    BY <1>5
<1> HIDE DEF last
<1>7. last = key
  <2>1. last[2] <= r.start /\ r.start <= last[2] /\ last[2] \in Nat
    BY <1>4, <1>5, <1>6
  <2>2. last[2] = r.start /\ last[1] = r.file /\ last = <<last[1], last[2]>>
    BY <1>2, <1>4, <1>6, <2>1
  <2>3. QED
    BY <2>2
<1>8. Covers(references[last].range, r.file, pos)
  BY <1>1, <1>2, <1>3, <1>7 DEF Covers, IsRange
<1>9. SymbolAt(r.file, pos) = s
  BY <1>3, <1>5, <1>7, <1>8 DEF SymbolAt, last
<1>10. QED
  BY <1>1, <1>9 DEF IsRange

(* Go-to-definition asked on any character of a reference that a symbol     *)
(* lists, or just after it, finds that symbol, and so does the rename: the  *)
(* binary search of lookup_symbol_by_location never stops at another word.  *)
THEOREM RenamesFindThemselves == Spec => []RenameFindsItself
<1>1. Init => RecInv
  BY InitRecorded
<1>2. IdxInv /\ [Next]_vars => IdxInv'
  BY NextAgrees
<1>3. RecInv /\ [Next]_vars => RecInv'
  BY <1>2, NextRecorded DEF RecInv
<1>4. RecInv => RenameFindsItself
  BY RecordFound DEF RenameFindsItself, Definition, Rename
<1>5. QED
  BY <1>1, <1>3, <1>4, PTL DEF Spec

-----------------------------------------------------------------------------
(* The names of a scope.                                                   *)

Labels == {Text[n].name : n \in Nodes} \cup ToSet(UnnamedIds)

(* The name that the opener n has in a scope that made up u names.          *)
Calls(u, name, n) ==
  IF Text[n].name = "" THEN \E k \in 1 .. u : name = UnnamedIds[k] ELSE name = Text[n].name

LEMMA IdFacts ==
  /\ Len(UnnamedIds) \in Nat
  /\ \A k \in 1 .. Len(UnnamedIds) :
       UnnamedIds[k] \in Labels /\ UnnamedIds[k] # "" /\ UnnamedIds[k] \in ToSet(UnnamedIds)
  /\ \A i, j \in 1 .. Len(UnnamedIds) : UnnamedIds[i] = UnnamedIds[j] => i = j
<1>1. UnnamedIds \in Seq(ToSet(UnnamedIds))
  BY TextAssumption
<1>5. "" \notin ToSet(UnnamedIds)
  BY TextAssumption
<1>2. Len(UnnamedIds) \in Nat /\ DOMAIN UnnamedIds = 1 .. Len(UnnamedIds)
  BY <1>1
<1>3. \A i, j \in DOMAIN UnnamedIds : UnnamedIds[i] = UnnamedIds[j] => i = j
  BY TextAssumption
<1>4. \A k \in 1 .. Len(UnnamedIds) : UnnamedIds[k] \in ToSet(UnnamedIds)
  BY <1>2 DEF ToSet
<1>6. QED
  BY <1>2, <1>3, <1>4, <1>5 DEF Labels

LEMMA IdLength == Len(UnnamedIds) \in Nat
BY IdFacts

LEMMA MadeUp ==
  ASSUME NEW u \in 0 .. Len(UnnamedIds)
  PROVE  u \in Nat /\ \A k \in 1 .. u : k \in 1 .. Len(UnnamedIds)
BY IdLength

LEMMA OpenerNamed ==
  ASSUME NEW n \in Openers, Text[n].name # ""
  PROVE  Named(n)
BY DEF Openers, Named, InDesign

(* A name that the text gives is that of one opener.                       *)
LEMMA CallsOnce ==
  ASSUME Unambiguous, NEW n \in Openers, NEW m \in Openers, Level(n) = Level(m),
         Text[n].name # "", NEW u \in 0 .. Len(UnnamedIds), Calls(u, Text[n].name, m)
  PROVE  m = n
<1>1. n \in Nodes /\ m \in Nodes
  BY DEF Openers
<1>2. Text[m].name # ""
  <2> SUFFICES ASSUME Text[m].name = "" PROVE FALSE
    OBVIOUS
  <2>1. PICK k \in 1 .. u : Text[n].name = UnnamedIds[k]
    BY DEF Calls
  <2>2. k \in 1 .. Len(UnnamedIds)
    BY MadeUp
  <2>3. Text[n].name \in ToSet(UnnamedIds)
    BY <2>1, <2>2, IdFacts
  <2>4. QED
    BY <1>1, <2>3 DEF Unambiguous
<1>3. Text[m].name = Text[n].name
  BY <1>2 DEF Calls
<1>4. QED
  BY <1>1, <1>2, <1>3, OpenerNamed DEF Unambiguous

LEMMA CallsMore ==
  ASSUME NEW u \in Nat, NEW v \in Nat, u <= v, NEW name, NEW n, Calls(u, name, n)
  PROVE  Calls(v, name, n)
<1>1. \A k \in 1 .. u : k \in 1 .. v
  OBVIOUS
<1>2. QED
  BY <1>1 DEF Calls

(* The next name that is made up is new.                                   *)
LEMMA CallsFresh ==
  ASSUME Unambiguous, NEW u \in Nat, u < Len(UnnamedIds), NEW m \in Nodes
  PROVE  ~Calls(u, UnnamedIds[u + 1], m)
<1>1. u + 1 \in 1 .. Len(UnnamedIds) /\ \A k \in 1 .. u : u + 1 # k
  BY IdLength
<1>2. CASE Text[m].name = ""
  <2> SUFFICES ASSUME NEW k \in 1 .. u, UnnamedIds[u + 1] = UnnamedIds[k] PROVE FALSE
    BY <1>2 DEF Calls
  <2>1. k \in 1 .. Len(UnnamedIds)
    BY IdLength
  <2>2. QED
    BY <1>1, <2>1, IdFacts
<1>3. CASE Text[m].name # ""
  <2>1. UnnamedIds[u + 1] \in ToSet(UnnamedIds)
    BY <1>1, IdFacts
  <2>2. QED
    BY <1>3, <2>1 DEF Calls, Unambiguous
<1>4. QED
  BY <1>2, <1>3

LEMMA CallsLabels ==
  ASSUME NEW u \in 0 .. Len(UnnamedIds), NEW name, NEW n \in Nodes, Calls(u, name, n)
  PROVE  name \in Labels /\ name # ""
<1>1. \A k \in 1 .. u : k \in 1 .. Len(UnnamedIds)
  BY MadeUp
<1>2. QED
  BY <1>1, IdFacts DEF Calls, Labels

-----------------------------------------------------------------------------
(* The tree of the scopes ss: body[s] is the body whose members are         *)
(* presented in the scope s, 0 for the root.                               *)

Fields == {"name", "parent", "path", "virtual", "anonymous", "range", "children",
           "aliases", "content", "unnamed"}

Built(ss) ==
  /\ \E S : ss \in Seq(S)
  /\ 1 \in DOMAIN ss /\ \A s \in DOMAIN ss : Fields \subseteq DOMAIN ss[s]
  /\ \A s \in DOMAIN ss : ss[s].unnamed \in 0 .. Len(UnnamedIds)

Planted(ss, body) ==
  /\ body \in [DOMAIN ss -> 0 .. Len(Text)] /\ body[1] = 0
  /\ ss[1].parent = None /\ ss[1].path = <<>> /\ ss[1].range = NoRange

(* A scope is a child of its parent, which an opener in the parent's body   *)
(* has opened.                                                             *)
Opened(ss, body, s, n) ==
  LET p == ss[s].parent
  IN  /\ Level(n) = body[p] /\ Body(n) = body[s]
      /\ ss[s].virtual = (Text[n].kind # "instance")
      /\ Calls(ss[p].unnamed, ss[s].name, n)
      /\ Text[n].name = "" => ss[s].anonymous
Branch(ss, body, s) ==
  LET p == ss[s].parent
  IN  /\ p \in 1 .. (s - 1) /\ ss[s].path \in Seq(Labels)
      /\ ss[s].path = Append(ss[p].path, ss[s].name)
      /\ ss[s].name \in DOMAIN ss[p].children /\ ss[p].children[ss[s].name] = s
      /\ ss[s].range = Text[body[s]].range
      /\ \E n \in Openers : Opened(ss, body, s, n)
Branched(ss, body) == \A s \in DOMAIN ss \ {1} : Branch(ss, body, s)
Bears(ss) ==
  \A s \in DOMAIN ss : \A c \in DOMAIN ss[s].children :
    LET t == ss[s].children[c]
    IN  t \in DOMAIN ss \ {1} /\ ss[t].parent = s /\ ss[t].name = c

(* An alias is another name of a child: that of an opener of the same body. *)
AliasOf(ss, body, s, a) ==
  LET t == ss[s].aliases[a]
  IN  /\ t \in DOMAIN ss \ {1} /\ ss[t].parent = s
      /\ \E n \in Openers : Level(n) = body[s] /\ Body(n) = body[t]
                            /\ Calls(ss[s].unnamed, a, n)
      /\ a \in DOMAIN ss[s].children => ss[s].children[a] = t
Aliased(ss, body) ==
  \A s \in DOMAIN ss : \A a \in DOMAIN ss[s].aliases : AliasOf(ss, body, s, a)

Siblings(ss, body) ==
  \A s, t \in DOMAIN ss \ {1} : ss[s].parent = ss[t].parent /\ body[s] = body[t] => s = t
Distinct(ss) == \A s, t \in DOMAIN ss : ss[s].path = ss[t].path => s = t

(* The symbol r called c that a member of b declares, or b itself.         *)
Entry(b, c, r) ==
  \/ \E n \in Nodes :
       /\ Level(n) = b /\ Text[n].name = c
       /\ \/ Text[n].kind \in {"symbol", "instance"} /\ ~Top(n) /\ r = Text[n].range
          \/ Text[n].kind = "function" /\ r = Text[n].id
  \/ b \in Nodes /\ Text[b].kind = "module" /\ c = Text[b].name /\ r = Text[b].id
Written(ss, body) ==
  \A s \in DOMAIN ss : \A c \in DOMAIN ss[s].content : Entry(body[s], c, ss[s].content[c])

Tree(ss, body) ==
  /\ Built(ss) /\ Planted(ss, body) /\ Branched(ss, body) /\ Bears(ss)
  /\ Aliased(ss, body) /\ Siblings(ss, body) /\ Distinct(ss) /\ Written(ss, body)

(* One name stands for one symbol.                                         *)
LEMMA EntryOnce ==
  ASSUME Unambiguous, NEW b, NEW c, NEW q, NEW r, c # "", Entry(b, c, q), Entry(b, c, r)
  PROVE  q = r
<1> DEFINE Is(n, x) ==
             /\ Level(n) = b /\ Text[n].name = c
             /\ \/ Text[n].kind \in {"symbol", "instance"} /\ ~Top(n) /\ x = Text[n].range
                \/ Text[n].kind = "function" /\ x = Text[n].id
           Own(x) == b \in Nodes /\ Text[b].kind = "module" /\ c = Text[b].name /\ x = Text[b].id
<1>1. \A n : Is(n, q) \/ Is(n, r) => Named(n)
  BY DEF Named, InDesign
<1>2. \A n \in Nodes : Is(n, q) \/ Is(n, r) => ~(b \in Nodes /\ c = Text[b].name)
  <2> SUFFICES ASSUME NEW n \in Nodes, Is(n, q) \/ Is(n, r), b \in Nodes PROVE c # Text[b].name
    OBVIOUS
  <2>1. Named(n) /\ Level(n) = b /\ Text[n].name = c /\ b # 0
    BY <1>1, NodeFacts
  <2>2. QED
    BY <2>1 DEF Unambiguous
<1>3. (\E n \in Nodes : Is(n, q)) \/ Own(q)
  BY DEF Entry
<1>4. (\E n \in Nodes : Is(n, r)) \/ Own(r)
  BY DEF Entry
<1>5. CASE Own(q)
  BY <1>2, <1>4, <1>5
<1>6. CASE \E n \in Nodes : Is(n, q)
  <2>1. PICK n \in Nodes : Is(n, q)
    BY <1>6
  <2>2. PICK m \in Nodes : Is(m, r)
    BY <1>2, <1>4, <2>1
  <2>3. Named(n) /\ Named(m) /\ Level(n) = Level(m) /\ Text[n].name = Text[m].name
    BY <1>1, <2>1, <2>2
  <2>4. n = m
    BY <2>3 DEF Unambiguous
  <2>5. QED
    BY <2>1, <2>2, <2>4
<1>7. QED
  BY <1>3, <1>5, <1>6

-----------------------------------------------------------------------------
(* The child of a name.                                                    *)

Find(ss, s, name) ==
  IF name \in DOMAIN ss[s].children THEN ss[s].children[name]
  ELSE IF name \in DOMAIN ss[s].aliases THEN ss[s].aliases[name]
  ELSE None

LEMMA FindFacts ==
  ASSUME NEW ss, NEW body, Tree(ss, body), NEW s \in DOMAIN ss, NEW name,
         Find(ss, s, name) # None
  PROVE  LET t == Find(ss, s, name)
         IN  /\ t \in DOMAIN ss \ {1} /\ ss[t].parent = s
             /\ \E n \in Openers : Level(n) = body[s] /\ Body(n) = body[t]
                                   /\ Calls(ss[s].unnamed, name, n)
<1>1. CASE name \in DOMAIN ss[s].children
  <2> DEFINE t == ss[s].children[name]
  <2>1. t \in DOMAIN ss \ {1} /\ ss[t].parent = s /\ ss[t].name = name
    BY <1>1 DEF Tree, Bears
  <2> HIDE DEF t
  <2>2. \E n \in Openers : Opened(ss, body, t, n)
    BY <2>1 DEF Tree, Branched, Branch
  <2>3. QED
    BY <1>1, <2>1, <2>2 DEF Opened, Find, t
<1>2. CASE name \notin DOMAIN ss[s].children
  <2>1. name \in DOMAIN ss[s].aliases /\ Find(ss, s, name) = ss[s].aliases[name]
    BY <1>2 DEF Find
  <2>2. QED
    BY <2>1 DEF Tree, Aliased, AliasOf
<1>3. QED
  BY <1>1, <1>2

(* The scope that an opener leads to is the one of its body.               *)
OpenerScope(ss, body, s, n, t) ==
  t = Find(ss, s, Text[n].name) /\ t \in DOMAIN ss \ {1} /\ ss[t].parent = s /\ body[t] = Body(n)

LEMMA FindOpener ==
  ASSUME Unambiguous, NEW ss, NEW body, Tree(ss, body), NEW s \in DOMAIN ss,
         NEW n \in Openers, Level(n) = body[s], Text[n].name # "",
         Find(ss, s, Text[n].name) # None
  PROVE  OpenerScope(ss, body, s, n, Find(ss, s, Text[n].name))
<1> DEFINE t == Find(ss, s, Text[n].name)
<1>1. /\ t \in DOMAIN ss \ {1} /\ ss[t].parent = s
      /\ \E m \in Openers : Level(m) = body[s] /\ Body(m) = body[t]
                            /\ Calls(ss[s].unnamed, Text[n].name, m)
  BY FindFacts
<1>2. ss[s].unnamed \in 0 .. Len(UnnamedIds)
  BY DEF Tree, Built
<1> HIDE DEF t
<1>3. OpenerScope(ss, body, s, n, t)
  BY <1>1, <1>2, CallsOnce DEF t, OpenerScope
<1>4. QED
  BY <1>3 DEF t

-----------------------------------------------------------------------------
(* What the operations on the scopes change, field by field.               *)

Plain(ss) ==
  /\ \E S : ss \in Seq(S)
  /\ \A s \in DOMAIN ss : Fields \subseteq DOMAIN ss[s]

(* The scope s has in tt its place and its looks in ss ...                 *)
Same(ss, tt, s) ==
  /\ tt[s].name = ss[s].name /\ tt[s].parent = ss[s].parent /\ tt[s].path = ss[s].path
  /\ tt[s].virtual = ss[s].virtual /\ tt[s].anonymous = ss[s].anonymous
  /\ tt[s].range = ss[s].range
(* ... and its children, its aliases, its symbols and its count.           *)
SameNames(ss, tt, s) ==
  tt[s].children = ss[s].children /\ tt[s].aliases = ss[s].aliases
SameRest(ss, tt, s) == tt[s].content = ss[s].content /\ tt[s].unnamed = ss[s].unnamed

(* tt is ss, but for one field of the scope p.                             *)
Tallied(ss, tt, p, anonymous) ==
  /\ Plain(tt) /\ DOMAIN tt = DOMAIN ss /\ Len(tt) = Len(ss)
  /\ \A s \in DOMAIN ss :
       /\ Same(ss, tt, s) /\ SameNames(ss, tt, s) /\ tt[s].content = ss[s].content
       /\ tt[s].unnamed = IF s = p /\ anonymous THEN ss[s].unnamed + 1 ELSE ss[s].unnamed
WithChildren(ss, tt, p, v) ==
  /\ Plain(tt) /\ DOMAIN tt = DOMAIN ss /\ Len(tt) = Len(ss)
  /\ \A s \in DOMAIN ss :
       /\ Same(ss, tt, s) /\ tt[s].aliases = ss[s].aliases /\ SameRest(ss, tt, s)
       /\ tt[s].children = IF s = p THEN v ELSE ss[s].children
WithAliases(ss, tt, p, v) ==
  /\ Plain(tt) /\ DOMAIN tt = DOMAIN ss /\ Len(tt) = Len(ss)
  /\ \A s \in DOMAIN ss :
       /\ Same(ss, tt, s) /\ tt[s].children = ss[s].children /\ SameRest(ss, tt, s)
       /\ tt[s].aliases = IF s = p THEN v ELSE ss[s].aliases
WithContent(ss, tt, p, v) ==
  /\ Plain(tt) /\ DOMAIN tt = DOMAIN ss /\ Len(tt) = Len(ss)
  /\ \A s \in DOMAIN ss :
       /\ Same(ss, tt, s) /\ SameNames(ss, tt, s) /\ tt[s].unnamed = ss[s].unnamed
       /\ tt[s].content = IF s = p THEN v ELSE ss[s].content

LEMMA CountedFields ==
  ASSUME NEW ss, Plain(ss), NEW p \in DOMAIN ss, NEW name
  PROVE  Tallied(ss, Counted(ss, p, name), p, name = "")
<1> DEFINE uu == [ss EXCEPT ![p].unnamed = @ + 1]
           tt == Counted(ss, p, name)
<1>1. CASE name # ""
  <2>1. tt = ss
    BY <1>1 DEF Counted
  <2>2. QED
    BY <1>1, <2>1 DEF Tallied, Same, SameNames
<1>2. CASE name = ""
  <2>1. tt = uu
    BY <1>2 DEF Counted
  <2>2. uu = [s \in DOMAIN ss |-> uu[s]]
    OBVIOUS
  <2>3. ASSUME NEW s \in DOMAIN ss, s # p PROVE uu[s] = ss[s]
    BY <2>3
  <2>4. uu[p] = [ss[p] EXCEPT !.unnamed = @ + 1]
    OBVIOUS
  <2>5. Fields \subseteq DOMAIN ss[p]
    BY DEF Plain
  <2>6. /\ Same(ss, uu, p) /\ SameNames(ss, uu, p) /\ uu[p].content = ss[p].content
        /\ uu[p].unnamed = ss[p].unnamed + 1 /\ Fields \subseteq DOMAIN uu[p]
    BY <2>4, <2>5 DEF Fields, Same, SameNames
  <2> HIDE DEF uu
  <2>7. DOMAIN uu = DOMAIN ss /\ (\E T : uu \in Seq(T))
    BY <2>2, SamePlaces DEF Plain
  <2>8. Plain(uu)
    BY <2>3, <2>6, <2>7 DEF Plain
  <2>9. Len(uu) = Len(ss)
    BY <2>7 DEF Plain
  <2>10. ASSUME NEW s \in DOMAIN ss
         PROVE  /\ Same(ss, uu, s) /\ SameNames(ss, uu, s) /\ uu[s].content = ss[s].content
                /\ uu[s].unnamed = IF s = p THEN ss[s].unnamed + 1 ELSE ss[s].unnamed
    <3>1. CASE s = p
      BY <2>6, <3>1
    <3>2. CASE s # p
      BY <2>3, <3>2 DEF Same, SameNames
    <3>3. QED
      BY <3>1, <3>2
  <2> HIDE DEF tt
  <2>11. QED
    BY <1>2, <2>1, <2>7, <2>8, <2>9, <2>10 DEF tt, Tallied
<1>3. QED
  BY <1>1, <1>2

LEMMA ChildrenFields ==
  ASSUME NEW ss, Plain(ss), NEW p \in DOMAIN ss, NEW v
  PROVE  WithChildren(ss, [ss EXCEPT ![p].children = v], p, v)
<1> DEFINE uu == [ss EXCEPT ![p].children = v]
<1>2. uu = [s \in DOMAIN ss |-> uu[s]]
  OBVIOUS
<1>3. ASSUME NEW s \in DOMAIN ss, s # p PROVE uu[s] = ss[s]
  BY <1>3
<1>4. uu[p] = [ss[p] EXCEPT !.children = v]
  OBVIOUS
<1>5. Fields \subseteq DOMAIN ss[p]
  BY DEF Plain
<1>6. /\ Same(ss, uu, p) /\ SameRest(ss, uu, p) /\ uu[p].aliases = ss[p].aliases
      /\ uu[p].children = v /\ Fields \subseteq DOMAIN uu[p]
  BY <1>4, <1>5 DEF Fields, Same, SameRest
<1> HIDE DEF uu
<1>7. DOMAIN uu = DOMAIN ss /\ (\E T : uu \in Seq(T))
  BY <1>2, SamePlaces DEF Plain
<1>8. Plain(uu)
  BY <1>3, <1>6, <1>7 DEF Plain
<1>9. Len(uu) = Len(ss)
  BY <1>7 DEF Plain
<1>10. ASSUME NEW s \in DOMAIN ss
       PROVE  /\ Same(ss, uu, s) /\ uu[s].aliases = ss[s].aliases /\ SameRest(ss, uu, s)
              /\ uu[s].children = IF s = p THEN v ELSE ss[s].children
  <2>1. CASE s = p
    BY <1>6, <2>1
  <2>2. CASE s # p
    BY <1>3, <2>2 DEF Same, SameRest
  <2>3. QED
    BY <2>1, <2>2
<1>11. QED
  BY <1>7, <1>8, <1>9, <1>10 DEF uu, WithChildren

LEMMA AliasesFields ==
  ASSUME NEW ss, Plain(ss), NEW p \in DOMAIN ss, NEW v
  PROVE  WithAliases(ss, [ss EXCEPT ![p].aliases = v], p, v)
<1> DEFINE uu == [ss EXCEPT ![p].aliases = v]
<1>2. uu = [s \in DOMAIN ss |-> uu[s]]
  OBVIOUS
<1>3. ASSUME NEW s \in DOMAIN ss, s # p PROVE uu[s] = ss[s]
  BY <1>3
<1>4. uu[p] = [ss[p] EXCEPT !.aliases = v]
  OBVIOUS
<1>5. Fields \subseteq DOMAIN ss[p]
  BY DEF Plain
<1>6. /\ Same(ss, uu, p) /\ SameRest(ss, uu, p) /\ uu[p].children = ss[p].children
      /\ uu[p].aliases = v /\ Fields \subseteq DOMAIN uu[p]
  BY <1>4, <1>5 DEF Fields, Same, SameRest
<1> HIDE DEF uu
<1>7. DOMAIN uu = DOMAIN ss /\ (\E T : uu \in Seq(T))
  BY <1>2, SamePlaces DEF Plain
<1>8. Plain(uu)
  BY <1>3, <1>6, <1>7 DEF Plain
<1>9. Len(uu) = Len(ss)
  BY <1>7 DEF Plain
<1>10. ASSUME NEW s \in DOMAIN ss
       PROVE  /\ Same(ss, uu, s) /\ uu[s].children = ss[s].children /\ SameRest(ss, uu, s)
              /\ uu[s].aliases = IF s = p THEN v ELSE ss[s].aliases
  <2>1. CASE s = p
    BY <1>6, <2>1
  <2>2. CASE s # p
    BY <1>3, <2>2 DEF Same, SameRest
  <2>3. QED
    BY <2>1, <2>2
<1>11. QED
  BY <1>7, <1>8, <1>9, <1>10 DEF uu, WithAliases

LEMMA ContentFields ==
  ASSUME NEW ss, Plain(ss), NEW p \in DOMAIN ss, NEW v
  PROVE  WithContent(ss, [ss EXCEPT ![p].content = v], p, v)
<1> DEFINE uu == [ss EXCEPT ![p].content = v]
<1>2. uu = [s \in DOMAIN ss |-> uu[s]]
  OBVIOUS
<1>3. ASSUME NEW s \in DOMAIN ss, s # p PROVE uu[s] = ss[s]
  BY <1>3
<1>4. uu[p] = [ss[p] EXCEPT !.content = v]
  OBVIOUS
<1>5. Fields \subseteq DOMAIN ss[p]
  BY DEF Plain
<1>6. /\ Same(ss, uu, p) /\ SameNames(ss, uu, p) /\ uu[p].unnamed = ss[p].unnamed
      /\ uu[p].content = v /\ Fields \subseteq DOMAIN uu[p]
  BY <1>4, <1>5 DEF Fields, Same, SameNames
<1> HIDE DEF uu
<1>7. DOMAIN uu = DOMAIN ss /\ (\E T : uu \in Seq(T))
  BY <1>2, SamePlaces DEF Plain
<1>8. Plain(uu)
  BY <1>3, <1>6, <1>7 DEF Plain
<1>9. Len(uu) = Len(ss)
  BY <1>7 DEF Plain
<1>10. ASSUME NEW s \in DOMAIN ss
       PROVE  /\ Same(ss, uu, s) /\ SameNames(ss, uu, s) /\ uu[s].unnamed = ss[s].unnamed
              /\ uu[s].content = IF s = p THEN v ELSE ss[s].content
  <2>1. CASE s = p
    BY <1>6, <2>1
  <2>2. CASE s # p
    BY <1>3, <2>2 DEF Same, SameNames
  <2>3. QED
    BY <2>1, <2>2
<1>11. QED
  BY <1>7, <1>8, <1>9, <1>10 DEF uu, WithContent

(* The scope new of tt, whose parent in ss is p.                           *)
Made(ss, tt, p, new, used, virtual, anonymous, range) ==
  /\ Plain(tt) /\ new = Len(ss) + 1 /\ DOMAIN tt = DOMAIN ss \cup {new}
  /\ \A s \in DOMAIN ss :
       /\ s \in 1 .. (new - 1) /\ Same(ss, tt, s)
       /\ tt[s].aliases = ss[s].aliases /\ tt[s].content = ss[s].content
       /\ tt[s].children = IF s = p THEN Put(ss[s].children, used, new) ELSE ss[s].children
       /\ tt[s].unnamed = IF s = p /\ anonymous THEN ss[s].unnamed + 1 ELSE ss[s].unnamed
  /\ tt[new].name = used /\ tt[new].parent = p /\ tt[new].path = Append(ss[p].path, used)
  /\ tt[new].virtual = virtual /\ tt[new].anonymous = anonymous /\ tt[new].range = range
  /\ DOMAIN tt[new].children = {} /\ DOMAIN tt[new].aliases = {}
  /\ DOMAIN tt[new].content = {} /\ tt[new].unnamed = 0

LEMMA ChildMade ==
  ASSUME NEW ss, Plain(ss), NEW p \in DOMAIN ss, NEW name, NEW virtual, NEW range,
         UsedName(ss, p, name) \notin DOMAIN ss[p].children
  PROVE  LET c == AddChild(ss, p, name, virtual)
             new == Len(ss) + 1
         IN  /\ c.id = new
             /\ Made(ss, [c.scopes EXCEPT ![c.id].range = range], p, new,
                     UsedName(ss, p, name), virtual, name = "", range)
<1> DEFINE c == AddChild(ss, p, name, virtual)
           new == Len(ss) + 1
           used == UsedName(ss, p, name)
           counted == Counted(ss, p, name)
           more == Put(counted[p].children, used, new)
           listed == [counted EXCEPT ![p].children = more]
           path == Append(ss[p].path, used)
           scope == NewScope(used, p, path, virtual, name = "")
           grown == Append(listed, scope)
           full == [scope EXCEPT !.range = range]
           tt == [grown EXCEPT ![new].range = range]
<1>1. c.id = new /\ c.scopes = grown
  BY Zenon DEF AddChild
<1>2. Tallied(ss, counted, p, name = "")
  BY CountedFields
<1> HIDE DEF counted, used
<1>3. WithChildren(counted, listed, p, more)
  <2>1. Plain(counted) /\ p \in DOMAIN counted
    BY <1>2 DEF Tallied
  <2> HIDE DEF more
  <2>2. QED
    BY <2>1, ChildrenFields
<1> HIDE DEF listed, new
<1>13. Plain(listed) /\ DOMAIN listed = DOMAIN ss /\ Len(listed) = Len(ss)
  BY <1>2, <1>3 DEF Tallied, WithChildren
<1>4. ASSUME NEW s \in DOMAIN ss
      PROVE  /\ Same(ss, listed, s)
             /\ listed[s].aliases = ss[s].aliases /\ listed[s].content = ss[s].content
             /\ listed[s].children = IF s = p THEN Put(ss[s].children, used, new)
                                     ELSE ss[s].children
             /\ listed[s].unnamed = IF s = p /\ name = "" THEN ss[s].unnamed + 1
                                    ELSE ss[s].unnamed
  <2>1. /\ Same(ss, counted, s) /\ SameNames(ss, counted, s)
        /\ counted[s].content = ss[s].content
        /\ counted[s].unnamed = IF s = p /\ name = "" THEN ss[s].unnamed + 1
                                ELSE ss[s].unnamed
    BY <1>2 DEF Tallied
  <2>2. /\ Same(counted, listed, s) /\ listed[s].aliases = counted[s].aliases
        /\ SameRest(counted, listed, s)
        /\ listed[s].children = IF s = p THEN more ELSE counted[s].children
    BY <1>2, <1>3 DEF Tallied, WithChildren
  <2>3. Same(ss, listed, s)
    BY <2>1, <2>2 DEF Same
  <2>4. listed[s].aliases = ss[s].aliases /\ listed[s].content = ss[s].content
    BY <2>1, <2>2 DEF SameNames, SameRest
  <2>5. listed[s].children = IF s = p THEN Put(ss[s].children, used, new) ELSE ss[s].children
    BY <2>1, <2>2 DEF SameNames
  <2>6. listed[s].unnamed = counted[s].unnamed
    BY <2>2 DEF SameRest
  <2>7. QED
    BY <2>1, <2>3, <2>4, <2>5, <2>6
<1>5. /\ Fields \subseteq DOMAIN full
      /\ full.name = used /\ full.parent = p /\ full.path = path
      /\ full.virtual = virtual /\ full.anonymous = (name = "") /\ full.range = range
      /\ DOMAIN full.children = {} /\ DOMAIN full.aliases = {}
      /\ DOMAIN full.content = {} /\ full.unnamed = 0
  <2> HIDE DEF path
  <2>1. QED
    BY DEF NewScope, Empty, Fields
<1> HIDE DEF path, full, more
<1>6. PICK S : listed \in Seq(S)
  BY <1>13 DEF Plain
<1>7. /\ grown \in Seq(S \cup {scope}) /\ Len(grown) = new /\ DOMAIN grown = DOMAIN ss \cup {new}
      /\ \A s \in DOMAIN ss : s \in 1 .. (new - 1) /\ grown[s] = listed[s] /\ s # new
      /\ grown[new] = scope
  <2> HIDE DEF scope, c
  <2>1. listed \in Seq(S \cup {scope})
    BY <1>6
  <2>2. Len(listed) = Len(ss) /\ Len(ss) \in Nat /\ DOMAIN ss = 1 .. Len(ss)
        /\ new = Len(ss) + 1
    BY <1>6, <1>13 DEF new
  <2>3. QED
    BY <2>1, <2>2
<1>8. /\ DOMAIN tt = DOMAIN ss \cup {new} /\ tt[new] = full
      /\ \A s \in DOMAIN ss : tt[s] = listed[s]
  <2>1. new \in DOMAIN grown
    BY <1>7
  <2> HIDE DEF scope, grown, new
  <2>2. tt[new] = [grown[new] EXCEPT !.range = range] /\ DOMAIN tt = DOMAIN grown
        /\ \A s \in DOMAIN grown : s # new => tt[s] = grown[s]
    BY <2>1
  <2>3. QED
    BY <1>7, <2>2 DEF full
<1>9. Plain(tt)
  <2>1. tt = [s \in DOMAIN grown |-> tt[s]]
    OBVIOUS
  <2> HIDE DEF tt, grown, scope
  <2>2. \E T : tt \in Seq(T)
    BY <1>7, <2>1, SamePlaces
  <2>3. QED
    BY <1>5, <1>8, <1>13, <2>2 DEF Plain
<1> HIDE DEF tt, grown, scope, c
<1>10. Made(ss, tt, p, new, used, virtual, name = "", range)
  <2>1. ASSUME NEW s \in DOMAIN ss
        PROVE  /\ s \in 1 .. (new - 1) /\ Same(ss, tt, s)
               /\ tt[s].aliases = ss[s].aliases /\ tt[s].content = ss[s].content
               /\ tt[s].children = IF s = p THEN Put(ss[s].children, used, new)
                                   ELSE ss[s].children
               /\ tt[s].unnamed = IF s = p /\ name = "" THEN ss[s].unnamed + 1
                                  ELSE ss[s].unnamed
    <3>1. tt[s] = listed[s] /\ s \in 1 .. (new - 1)
      BY <1>7, <1>8
    <3>2. Same(ss, tt, s)
      BY <1>4, <3>1 DEF Same
    <3>3. QED
      BY <1>4, <3>1, <3>2
  <2>2. tt[new] = full /\ DOMAIN tt = DOMAIN ss \cup {new}
    BY <1>8
  <2> DEFINE anonymous == name = ""
  <2>3. new = Len(ss) + 1
    BY DEF new
  <2> HIDE DEF anonymous
  <2>4. Made(ss, tt, p, new, used, virtual, anonymous, range)
    <3>1. /\ tt[new].name = used /\ tt[new].parent = p /\ tt[new].path = path
          /\ tt[new].virtual = virtual /\ tt[new].anonymous = anonymous
          /\ tt[new].range = range
          /\ DOMAIN tt[new].children = {} /\ DOMAIN tt[new].aliases = {}
          /\ DOMAIN tt[new].content = {} /\ tt[new].unnamed = 0
      BY <1>5, <2>2 DEF anonymous
    <3>2. \A s \in DOMAIN ss :
            /\ s \in 1 .. (new - 1) /\ Same(ss, tt, s)
            /\ tt[s].aliases = ss[s].aliases /\ tt[s].content = ss[s].content
            /\ tt[s].children = IF s = p THEN Put(ss[s].children, used, new)
                                ELSE ss[s].children
            /\ tt[s].unnamed = IF s = p /\ anonymous THEN ss[s].unnamed + 1
                               ELSE ss[s].unnamed
      BY <2>1 DEF anonymous
    <3>3. QED
      BY <1>9, <2>2, <2>3, <3>1, <3>2, Zenon DEF Made, path
  <2>5. QED
    BY <2>4 DEF anonymous
<1>11. [c.scopes EXCEPT ![c.id].range = range] = tt
  BY <1>1 DEF tt
<1>12. QED
  BY <1>1, <1>10, <1>11, Zenon DEF c, used, new

-----------------------------------------------------------------------------
(* A tree grows.                                                           *)

(* What a scope was, and what its names lead to, stays.                    *)
Keeps(ss, body, tt, new) ==
  \A s \in DOMAIN ss :
    /\ s \in DOMAIN tt /\ new[s] = body[s] /\ Same(ss, tt, s)
    /\ \A name : Find(ss, s, name) # None => Find(tt, s, name) = Find(ss, s, name)
    /\ \A c \in DOMAIN ss[s].content :
         c # "" => c \in DOMAIN tt[s].content /\ tt[s].content[c] = ss[s].content[c]

LEMMA KeepsSelf == ASSUME NEW ss, NEW body PROVE Keeps(ss, body, ss, body)
BY DEF Keeps, Same

LEMMA TreeFacts ==
  ASSUME NEW ss, NEW body, Tree(ss, body)
  PROVE  /\ Plain(ss) /\ Len(ss) \in Nat /\ DOMAIN ss = 1 .. Len(ss) /\ 1 \in DOMAIN ss
         /\ \A s \in DOMAIN ss : /\ s \in Nat /\ s # None /\ ss[s].path \in Seq(Labels)
                                 /\ body[s] \in 0 .. Len(Text)
                                 /\ ss[s].unnamed \in 0 .. Len(UnnamedIds)
         /\ \A s \in DOMAIN ss \ {1} : ss[s].parent \in DOMAIN ss /\ ss[s].parent < s
<1>1. PICK S : ss \in Seq(S)
  BY DEF Tree, Built
<1>2. Len(ss) \in Nat /\ DOMAIN ss = 1 .. Len(ss)
  BY <1>1
<1>3. Plain(ss) /\ 1 \in DOMAIN ss
  BY <1>1 DEF Tree, Built, Plain
<1>4. None \notin Nat
  BY TextAssumption
<1>5. ASSUME NEW s \in DOMAIN ss
      PROVE  /\ s \in Nat /\ s # None
             /\ body[s] \in 0 .. Len(Text) /\ ss[s].unnamed \in 0 .. Len(UnnamedIds)
  <2>1. s \in Nat
    BY <1>2
  <2>2. body[s] \in 0 .. Len(Text) /\ ss[s].unnamed \in 0 .. Len(UnnamedIds)
    BY DEF Tree, Built, Planted
  <2>3. QED
    BY <1>4, <2>1, <2>2
<1>6. ASSUME NEW s \in DOMAIN ss PROVE ss[s].path \in Seq(Labels)
  <2>1. CASE s = 1
    <3>1. ss[1].path = <<>>
      BY DEF Tree, Planted
    <3>2. <<>> \in Seq(Labels)
      OBVIOUS
    <3>3. QED
      BY <2>1, <3>1, <3>2
  <2>2. CASE s # 1
    BY <2>2 DEF Tree, Branched, Branch
  <2>3. QED
    BY <2>1, <2>2
<1>7. ASSUME NEW s \in DOMAIN ss \ {1} PROVE ss[s].parent \in DOMAIN ss /\ ss[s].parent < s
  <2>1. ss[s].parent \in 1 .. (s - 1)
    BY DEF Tree, Branched, Branch
  <2>2. QED
    BY <1>2, <2>1
<1>8. QED
  BY <1>2, <1>3, <1>5, <1>6, <1>7

LEMMA FindIs ==
  ASSUME NEW ss, NEW body, Tree(ss, body), NEW s \in DOMAIN ss, NEW name
  PROVE  Find(ss, s, name) # None <=>
           name \in DOMAIN ss[s].children \cup DOMAIN ss[s].aliases
<1>1. ASSUME name \in DOMAIN ss[s].children PROVE ss[s].children[name] # None
  BY <1>1, TreeFacts DEF Tree, Bears
<1>2. ASSUME name \in DOMAIN ss[s].aliases PROVE ss[s].aliases[name] # None
  BY <1>2, TreeFacts DEF Tree, Aliased, AliasOf
<1>3. QED
  BY <1>1, <1>2 DEF Find

LEMMA CountFacts ==
  ASSUME NEW u \in 0 .. Len(UnnamedIds)
  PROVE  /\ u <= u
         /\ u < Len(UnnamedIds) => /\ u + 1 \in 0 .. Len(UnnamedIds)
                                   /\ u <= u + 1 /\ u + 1 \in 1 .. u + 1
BY IdLength

(* A name, given or made up, is used by this opener only.                  *)
Uses(ss, p, n, used, u) ==
  /\ u = (IF Text[n].name = "" THEN ss[p].unnamed + 1 ELSE ss[p].unnamed)
  /\ u \in 0 .. Len(UnnamedIds) /\ ss[p].unnamed <= u /\ Calls(u, used, n)
  /\ used \in Labels
  /\ Text[n].name # "" => used = Text[n].name
  /\ \A m \in Openers :
       Level(m) = Level(n) /\ Calls(ss[p].unnamed, used, m) => m = n /\ Text[n].name # ""

LEMMA UsedFacts ==
  ASSUME Unambiguous, NEW ss, NEW body, Tree(ss, body), NEW p \in DOMAIN ss, NEW n \in Openers,
         Text[n].name = "" => ss[p].unnamed < Len(UnnamedIds)
  PROVE  \E u : Uses(ss, p, n, UsedName(ss, p, Text[n].name), u)
<1> DEFINE old == ss[p].unnamed
           used == UsedName(ss, p, Text[n].name)
<1>1. old \in 0 .. Len(UnnamedIds) /\ old \in Nat
  BY TreeFacts, MadeUp
<1>2. n \in Nodes /\ \A m \in Openers : m \in Nodes
  BY DEF Openers
<1>3. CASE Text[n].name = ""
  <2>1. used = UnnamedIds[old + 1]
    BY <1>3 DEF UsedName
  <2> HIDE DEF used, old
  <2>2. old + 1 \in 0 .. Len(UnnamedIds) /\ old <= old + 1 /\ old + 1 \in 1 .. old + 1
    BY <1>1, <1>3, CountFacts DEF old
  <2>3. Calls(old + 1, used, n)
    BY <1>3, <2>1, <2>2 DEF Calls
  <2>4. used \in Labels
    BY <1>2, <2>2, <2>3, CallsLabels
  <2>5. \A m \in Openers : ~Calls(old, used, m)
    BY <1>1, <1>2, <1>3, <2>1, CallsFresh DEF old
  <2>6. QED
    BY <1>3, <2>2, <2>3, <2>4, <2>5, Zenon DEF used, old, Uses
<1>4. CASE Text[n].name # ""
  <2>1. used = Text[n].name
    BY <1>4 DEF UsedName
  <2>2. Calls(old, used, n)
    BY <1>4, <2>1 DEF Calls
  <2>3. used \in Labels
    BY <1>2, <2>1 DEF Labels
  <2>4. \A m \in Openers : Level(m) = Level(n) /\ Calls(old, used, m) => m = n
    BY <1>1, <1>4, <2>1, CallsOnce
  <2> HIDE DEF used, old
  <2>5. old <= old
    BY <1>1, CountFacts
  <2>6. QED
    BY <1>1, <1>4, <2>1, <2>2, <2>3, <2>4, <2>5, Zenon DEF used, old, Uses
<1>5. QED
  BY <1>3, <1>4

LEMMA UsedFresh ==
  ASSUME Unambiguous, NEW ss, NEW body, Tree(ss, body), NEW p \in DOMAIN ss, NEW n \in Openers,
         Text[n].name = "" => ss[p].unnamed < Len(UnnamedIds), Level(n) = body[p],
         \A s \in DOMAIN ss \ {1} : ss[s].parent = p => body[s] # Body(n)
  PROVE  UsedName(ss, p, Text[n].name) \notin DOMAIN ss[p].children \cup DOMAIN ss[p].aliases
<1> DEFINE used == UsedName(ss, p, Text[n].name)
           t == Find(ss, p, used)
<1> SUFFICES ASSUME t # None PROVE FALSE
  BY FindIs
<1>1. /\ t \in DOMAIN ss \ {1} /\ ss[t].parent = p
      /\ \E m \in Openers : Level(m) = body[p] /\ Body(m) = body[t]
                            /\ Calls(ss[p].unnamed, used, m)
  BY FindFacts
<1> HIDE DEF t
<1>5. \E u : Uses(ss, p, n, used, u)
  BY UsedFacts
<1> HIDE DEF used
<1>2. \A m \in Openers : Level(m) = Level(n) /\ Calls(ss[p].unnamed, used, m) => m = n
  BY <1>5 DEF Uses
<1>3. body[t] = Body(n)
  BY <1>1, <1>2
<1>4. QED
  BY <1>1, <1>3

LEMMA AppendEqual ==
  ASSUME NEW S, NEW s \in Seq(S), NEW t \in Seq(S), NEW x \in S, NEW y \in S,
         Append(s, x) = Append(t, y)
  PROVE  s = t /\ x = y
<1>1. /\ Len(s) \in Nat /\ Len(t) \in Nat
      /\ Len(Append(s, x)) = Len(s) + 1 /\ Len(Append(t, y)) = Len(t) + 1
      /\ Append(s, x)[Len(s) + 1] = x /\ Append(t, y)[Len(t) + 1] = y
      /\ (\A i \in 1 .. Len(s) : Append(s, x)[i] = s[i])
      /\ (\A i \in 1 .. Len(t) : Append(t, y)[i] = t[i])
  OBVIOUS
<1>2. Len(s) = Len(t) /\ x = y
  BY <1>1
<1>3. \A i \in 1 .. Len(s) : s[i] = t[i]
  BY <1>1, <1>2
<1>4. QED
  BY <1>2, <1>3

-----------------------------------------------------------------------------
(* A child that is new: tt is ss with the scope new for the opener n.       *)

With(body, new, b) == [s \in DOMAIN body \cup {new} |-> IF s = new THEN b ELSE body[s]]

Grafted(ss, body, p, n, used, tt, new) ==
  /\ Unambiguous /\ Tree(ss, body) /\ p \in DOMAIN ss /\ n \in Openers /\ Level(n) = body[p]
  /\ \E u : Uses(ss, p, n, used, u)
  /\ used \notin DOMAIN ss[p].children \cup DOMAIN ss[p].aliases
  /\ \A s \in DOMAIN ss \ {1} : ss[s].parent = p => body[s] # Body(n)
  /\ Made(ss, tt, p, new, used, Text[n].kind # "instance", Text[n].name = "",
          Text[Body(n)].range)

Grown(ss, body, p, n, used, tt, new) ==
  /\ Unambiguous /\ Tree(ss, body) /\ p \in DOMAIN ss /\ n \in Openers
  /\ Level(n) = body[p] /\ new \notin DOMAIN ss /\ new \in Nat /\ new # 1
  /\ DOMAIN tt = DOMAIN ss \cup {new} /\ Plain(tt) /\ used \in Labels
  /\ DOMAIN body = DOMAIN ss
  /\ used \notin DOMAIN ss[p].children /\ used \notin DOMAIN ss[p].aliases
  /\ \A s \in DOMAIN ss :
       /\ s # new /\ s \in 1 .. (new - 1) /\ Same(ss, tt, s)
       /\ tt[s].aliases = ss[s].aliases /\ tt[s].content = ss[s].content
       /\ tt[s].children = IF s = p THEN Put(ss[s].children, used, new)
                           ELSE ss[s].children
Grew(ss, p, n, used, tt, new) ==
  /\ tt[new].name = used /\ tt[new].parent = p
  /\ tt[new].path = Append(ss[p].path, used)
  /\ tt[new].virtual = (Text[n].kind # "instance")
  /\ Text[n].name = "" => tt[new].anonymous
  /\ tt[new].range = Text[Body(n)].range
  /\ DOMAIN tt[new].children = {} /\ DOMAIN tt[new].aliases = {}
  /\ DOMAIN tt[new].content = {} /\ tt[new].unnamed = 0
Counts(ss, p, n, used, tt) ==
  /\ \A s \in DOMAIN tt : tt[s].unnamed \in 0 .. Len(UnnamedIds)
  /\ \A s \in DOMAIN ss : \A name, m :
       Calls(ss[s].unnamed, name, m) => Calls(tt[s].unnamed, name, m)
  /\ Calls(tt[p].unnamed, used, n)

LEMMA GraftFacts ==
  ASSUME NEW ss, NEW body, NEW p, NEW n, NEW used, NEW tt, NEW new,
         Grafted(ss, body, p, n, used, tt, new)
  PROVE  Grown(ss, body, p, n, used, tt, new)
<1>1. /\ new = Len(ss) + 1 /\ Plain(tt) /\ DOMAIN tt = DOMAIN ss \cup {new}
      /\ \A s \in DOMAIN ss :
              /\ s \in 1 .. (new - 1) /\ Same(ss, tt, s)
              /\ tt[s].aliases = ss[s].aliases /\ tt[s].content = ss[s].content
              /\ tt[s].children = IF s = p THEN Put(ss[s].children, used, new)
                                  ELSE ss[s].children
  BY DEF Grafted, Made
<1>2. Unambiguous /\ Tree(ss, body) /\ p \in DOMAIN ss /\ n \in Openers /\ Level(n) = body[p]
      /\ used \notin DOMAIN ss[p].children /\ used \notin DOMAIN ss[p].aliases
  BY DEF Grafted
<1>3. PICK u : Uses(ss, p, n, used, u)
  BY DEF Grafted
<1>4. used \in Labels
  BY <1>3 DEF Uses
<1>5. Len(ss) \in Nat /\ DOMAIN ss = 1 .. Len(ss) /\ 1 \in DOMAIN ss
  BY <1>2, TreeFacts
<1>6. new \notin DOMAIN ss /\ new \in Nat /\ new # 1
  BY <1>1, <1>5
<1>7. DOMAIN body = DOMAIN ss
  BY <1>2 DEF Tree, Planted
<1>8. QED
  BY <1>1, <1>2, <1>4, <1>6, <1>7 DEF Grown

LEMMA GraftNew ==
  ASSUME NEW ss, NEW body, NEW p, NEW n, NEW used, NEW tt, NEW new,
         Grafted(ss, body, p, n, used, tt, new)
  PROVE  Grew(ss, p, n, used, tt, new)
BY DEF Grafted, Made, Grew

LEMMA GraftCounts ==
  ASSUME NEW ss, NEW body, NEW p, NEW n, NEW used, NEW tt, NEW new,
         Grafted(ss, body, p, n, used, tt, new)
  PROVE  Counts(ss, p, n, used, tt)
<1>0. Grown(ss, body, p, n, used, tt, new)
  BY GraftFacts
<1>1. PICK u : Uses(ss, p, n, used, u)
  BY DEF Grafted
<1>2. /\ \A s \in DOMAIN ss : tt[s].unnamed = IF s = p /\ Text[n].name = ""
                                               THEN ss[s].unnamed + 1 ELSE ss[s].unnamed
      /\ tt[new].unnamed = 0 /\ DOMAIN tt = DOMAIN ss \cup {new}
  BY DEF Grafted, Made
<1>3. u = IF Text[n].name = "" THEN ss[p].unnamed + 1 ELSE ss[p].unnamed
  BY <1>1 DEF Uses
<1>4. tt[p].unnamed = u /\ \A s \in DOMAIN ss : s # p => tt[s].unnamed = ss[s].unnamed
  BY <1>0, <1>2, <1>3 DEF Grown
<1>5. u \in 0 .. Len(UnnamedIds) /\ ss[p].unnamed <= u /\ Calls(u, used, n)
  BY <1>1 DEF Uses
<1>6. \A s \in DOMAIN ss : ss[s].unnamed \in 0 .. Len(UnnamedIds) /\ ss[s].unnamed \in Nat
  BY <1>0, TreeFacts, MadeUp DEF Grown
<1>7. 0 \in 0 .. Len(UnnamedIds)
  BY IdLength
<1>8. \A s \in DOMAIN tt : tt[s].unnamed \in 0 .. Len(UnnamedIds)
  BY <1>2, <1>4, <1>5, <1>6, <1>7
<1>9. ASSUME NEW s \in DOMAIN ss, NEW name, NEW m, Calls(ss[s].unnamed, name, m)
      PROVE  Calls(tt[s].unnamed, name, m)
  <2>1. CASE s = p
    <3>1. u \in Nat /\ ss[p].unnamed \in Nat
      BY <1>5, <1>6, <2>1, MadeUp
    <3>2. Calls(ss[p].unnamed, name, m)
      BY <1>9, <2>1
    <3>3. Calls(u, name, m)
      BY <1>5, <3>1, <3>2, CallsMore
    <3>4. QED
      BY <1>4, <2>1, <3>3
  <2>2. CASE s # p
    BY <1>4, <1>9, <2>2
  <2>3. QED
    BY <2>1, <2>2
<1>10. QED
  BY <1>4, <1>5, <1>8, <1>9 DEF Counts

LEMMA GraftBranched ==
  ASSUME NEW ss, NEW body, NEW p, NEW n, NEW used, NEW tt, NEW new,
         Grafted(ss, body, p, n, used, tt, new)
  PROVE  Branched(tt, With(body, new, Body(n)))
<1>0. /\ Grown(ss, body, p, n, used, tt, new) /\ Grew(ss, p, n, used, tt, new)
      /\ Counts(ss, p, n, used, tt)
  BY GraftFacts, GraftNew, GraftCounts
<1> DEFINE b == With(body, new, Body(n))
<1>1. b[new] = Body(n) /\ \A s \in DOMAIN ss : b[s] = body[s]
  BY <1>0 DEF With, Grown
<1> HIDE DEF b
<1>2. ASSUME NEW s \in DOMAIN ss \ {1}
      PROVE  Branch(tt, b, s)
  <2> DEFINE q == ss[s].parent
             name == ss[s].name
  <2>1. /\ q \in 1 .. (s - 1) /\ ss[s].path \in Seq(Labels)
        /\ ss[s].path = Append(ss[q].path, name)
        /\ name \in DOMAIN ss[q].children /\ ss[q].children[name] = s
        /\ ss[s].range = Text[body[s]].range
        /\ \E m \in Openers : Opened(ss, body, s, m)
    <3>1. Tree(ss, body)
      BY <1>0 DEF Grown
    <3>2. Branch(ss, body, s)
      BY <3>1 DEF Tree, Branched
    <3>3. QED
      BY <3>2 DEF Branch
  <2>2. q \in DOMAIN ss
    BY <1>0, TreeFacts DEF Grown
  <2>3. Same(ss, tt, s) /\ Same(ss, tt, q)
    BY <1>0, <2>2 DEF Grown
  <2> HIDE DEF q, name
  <2>4. name \in DOMAIN tt[q].children /\ tt[q].children[name] = s
    <3>1. CASE q = p
      <4>1. tt[q].children = Put(ss[q].children, used, new) /\ name # used
        BY <1>0, <2>1, <2>2, <3>1 DEF Grown
      <4>2. QED
        BY <2>1, <4>1 DEF Put
    <3>2. CASE q # p
      <4>1. tt[q].children = ss[q].children
        BY <1>0, <2>2, <3>2 DEF Grown
      <4>2. QED
        BY <2>1, <4>1
    <3>3. QED
      BY <3>1, <3>2
  <2>5. tt[s].parent = q /\ tt[s].name = name /\ tt[s].path = ss[s].path
        /\ tt[q].path = ss[q].path /\ tt[s].range = ss[s].range
    BY <2>3 DEF Same, q, name
  <2>6. PICK m \in Openers : Opened(ss, body, s, m)
    BY <2>1
  <2>7. Opened(tt, b, s, m)
    <3>1. Calls(tt[q].unnamed, name, m)
      BY <1>0, <2>2, <2>6 DEF Opened, q, name, Counts
    <3>2. b[q] = body[q] /\ b[s] = body[s]
      BY <1>1, <2>2
    <3>3. /\ Level(m) = body[q] /\ Body(m) = body[s]
          /\ tt[s].virtual = (Text[m].kind # "instance")
          /\ Text[m].name = "" => tt[s].anonymous
      BY <2>3, <2>6 DEF Opened, Same, q
    <3>4. QED
      BY <2>5, <3>1, <3>2, <3>3 DEF Opened
  <2>8. QED
    BY <1>1, <2>1, <2>4, <2>5, <2>7 DEF Branch
<1>3. Branch(tt, b, new)
  <2>1. /\ tt[new].name = used /\ tt[new].parent = p
        /\ tt[new].path = Append(ss[p].path, used)
        /\ tt[new].range = Text[b[new]].range
    BY <1>0, <1>1 DEF Grew
  <2>2. p \in 1 .. (new - 1) /\ tt[p].path = ss[p].path /\ b[p] = body[p]
    BY <1>0, <1>1 DEF Same, Grown
  <2>3. tt[new].path \in Seq(Labels)
    <3>1. ss[p].path \in Seq(Labels) /\ used \in Labels
      BY <1>0, TreeFacts DEF Grown
    <3>2. QED
      BY <2>1, <3>1, AppendFacts
  <2>4. used \in DOMAIN tt[p].children /\ tt[p].children[used] = new
    <3>1. tt[p].children = Put(ss[p].children, used, new)
      BY <1>0 DEF Grown
    <3>2. QED
      BY <3>1 DEF Put
  <2>5. n \in Openers /\ Opened(tt, b, new, n)
    <3>1. Calls(tt[p].unnamed, used, n)
      BY <1>0 DEF Counts
    <3>2. n \in Openers /\ Level(n) = b[p] /\ Body(n) = b[new]
      BY <1>0, <1>1, <2>2 DEF Grown
    <3>3. /\ tt[new].virtual = (Text[n].kind # "instance")
          /\ Text[n].name = "" => tt[new].anonymous
      BY <1>0 DEF Grew
    <3>4. QED
      BY <2>1, <3>1, <3>2, <3>3 DEF Opened
  <2>6. QED
    BY <2>1, <2>2, <2>3, <2>4, <2>5 DEF Branch
<1>4. DOMAIN tt \ {1} \subseteq (DOMAIN ss \ {1}) \cup {new}
  BY <1>0 DEF Grown
<1>5. Branched(tt, b)
  BY <1>2, <1>3, <1>4 DEF Branched
<1>6. QED
  BY <1>5 DEF b

LEMMA GraftNames ==
  ASSUME NEW ss, NEW body, NEW p, NEW n, NEW used, NEW tt, NEW new,
         Grafted(ss, body, p, n, used, tt, new)
  PROVE  Bears(tt) /\ Aliased(tt, With(body, new, Body(n)))
<1> DEFINE b == With(body, new, Body(n))
<1>0. /\ Grown(ss, body, p, n, used, tt, new) /\ Grew(ss, p, n, used, tt, new)
      /\ Counts(ss, p, n, used, tt)
  BY GraftFacts, GraftNew, GraftCounts
<1>1. b[new] = Body(n) /\ \A s \in DOMAIN ss : b[s] = body[s]
  BY <1>0 DEF With, Grown
<1> HIDE DEF b
<1>2. Tree(ss, body) /\ DOMAIN tt = DOMAIN ss \cup {new} /\ p \in DOMAIN ss
  BY <1>0 DEF Grown
<1>3. new # 1 /\ new \notin DOMAIN ss
  BY <1>0 DEF Grown
<1>4. ASSUME NEW s \in DOMAIN tt, NEW c \in DOMAIN tt[s].children
      PROVE  LET t == tt[s].children[c]
             IN  t \in DOMAIN tt \ {1} /\ tt[t].parent = s /\ tt[t].name = c
  <2>1. s \in DOMAIN ss
    BY <1>0, <1>2 DEF Grew
  <2>2. CASE c \in DOMAIN ss[s].children
    <3> DEFINE t == ss[s].children[c]
    <3>1. t \in DOMAIN ss \ {1} /\ ss[t].parent = s /\ ss[t].name = c
      BY <1>2, <2>1, <2>2 DEF Tree, Bears
    <3> HIDE DEF t
    <3>2. Same(ss, tt, t)
      BY <1>0, <3>1 DEF Grown
    <3>3. tt[s].children[c] = t
      <4>1. CASE s = p
        <5>1. c # used /\ tt[s].children = Put(ss[s].children, used, new)
          BY <1>0, <2>1, <2>2, <4>1 DEF Grown
        <5>2. QED
          BY <2>2, <5>1 DEF Put, t
      <4>2. CASE s # p
        BY <1>0, <2>1, <4>2 DEF Grown, t
      <4>3. QED
        BY <4>1, <4>2
    <3>4. QED
      BY <1>2, <3>1, <3>2, <3>3 DEF Same
  <2>3. CASE c \notin DOMAIN ss[s].children
    <3>1. s = p
      BY <1>0, <2>1, <2>3 DEF Grown
    <3>2. tt[s].children = Put(ss[s].children, used, new)
      BY <1>0, <2>1, <3>1 DEF Grown
    <3>3. c = used /\ tt[s].children[c] = new
      BY <2>3, <3>2 DEF Put
    <3>4. tt[new].parent = p /\ tt[new].name = used
      BY <1>0 DEF Grew
    <3>5. QED
      BY <1>2, <1>3, <3>1, <3>3, <3>4
  <2>4. QED
    BY <2>2, <2>3
<1>5. ASSUME NEW s \in DOMAIN tt, NEW a \in DOMAIN tt[s].aliases
      PROVE  AliasOf(tt, b, s, a)
  <2>1. s \in DOMAIN ss
    BY <1>0, <1>2 DEF Grew
  <2>2. tt[s].aliases = ss[s].aliases
    BY <1>0, <2>1 DEF Grown
  <2> DEFINE t == ss[s].aliases[a]
  <2>3. /\ t \in DOMAIN ss \ {1} /\ ss[t].parent = s
        /\ \E m \in Openers : Level(m) = body[s] /\ Body(m) = body[t]
                              /\ Calls(ss[s].unnamed, a, m)
        /\ a \in DOMAIN ss[s].children => ss[s].children[a] = t
    BY <1>2, <2>1, <2>2 DEF Tree, Aliased, AliasOf
  <2>4. t = tt[s].aliases[a] /\ a \in DOMAIN ss[s].aliases
    BY <2>2
  <2> HIDE DEF t
  <2>5. Same(ss, tt, t)
    BY <1>0, <2>3 DEF Grown
  <2>6. PICK m \in Openers : Level(m) = body[s] /\ Body(m) = body[t]
                             /\ Calls(ss[s].unnamed, a, m)
    BY <2>3
  <2>7. Calls(tt[s].unnamed, a, m)
    BY <1>0, <2>1, <2>6 DEF Counts
  <2>8. b[s] = body[s] /\ b[t] = body[t]
    BY <1>1, <2>1, <2>3
  <2>9. a \in DOMAIN tt[s].children => tt[s].children[a] = t
    <3>1. CASE s = p
      <4>1. tt[s].children = Put(ss[s].children, used, new) /\ a # used
        BY <1>0, <2>1, <2>4, <3>1 DEF Grown
      <4>2. QED
        BY <2>3, <4>1 DEF Put
    <3>2. CASE s # p
      BY <1>0, <2>1, <2>3, <3>2 DEF Grown
    <3>3. QED
      BY <3>1, <3>2
  <2>10. t \in DOMAIN tt \ {1} /\ tt[t].parent = s
    BY <1>2, <2>3, <2>5 DEF Same
  <2>11. QED
    BY <2>4, <2>6, <2>7, <2>8, <2>9, <2>10 DEF AliasOf
<1>6. Bears(tt)
  BY <1>4 DEF Bears
<1>7. Aliased(tt, b)
  BY <1>5, Zenon DEF Aliased
<1>8. QED
  BY <1>6, <1>7 DEF b

LEMMA GraftApart ==
  ASSUME NEW ss, NEW body, NEW p, NEW n, NEW used, NEW tt, NEW new,
         Grafted(ss, body, p, n, used, tt, new)
  PROVE  Siblings(tt, With(body, new, Body(n))) /\ Distinct(tt)
<1> DEFINE b == With(body, new, Body(n))
<1>0. Grown(ss, body, p, n, used, tt, new) /\ Grew(ss, p, n, used, tt, new)
  BY GraftFacts, GraftNew
<1>1. b[new] = Body(n) /\ \A s \in DOMAIN ss : b[s] = body[s]
  BY <1>0 DEF With, Grown
<1> HIDE DEF b
<1>2. Tree(ss, body) /\ DOMAIN tt = DOMAIN ss \cup {new} /\ p \in DOMAIN ss
  BY <1>0 DEF Grown
<1>3. \A s \in DOMAIN ss : Same(ss, tt, s)
  BY <1>0 DEF Grown
<1>4. \A s \in DOMAIN ss \ {1} : ss[s].parent = p => body[s] # Body(n)
  BY DEF Grafted
<1>5. ASSUME NEW s \in DOMAIN tt \ {1}, NEW t \in DOMAIN tt \ {1},
             tt[s].parent = tt[t].parent, b[s] = b[t]
      PROVE  s = t
  <2>1. \A x \in DOMAIN ss : tt[x].parent = ss[x].parent /\ b[x] = body[x]
    BY <1>1, <1>3 DEF Same
  <2>2. tt[new].parent = p
    BY <1>0 DEF Grew
  <2>3. CASE s \in DOMAIN ss /\ t \in DOMAIN ss
    <3>1. s \in DOMAIN ss \ {1} /\ t \in DOMAIN ss \ {1}
      BY <2>3
    <3>2. ss[s].parent = ss[t].parent /\ body[s] = body[t]
      BY <1>5, <2>1, <2>3
    <3>3. QED
      BY <1>2, <3>1, <3>2 DEF Tree, Siblings
  <2>4. CASE s \in DOMAIN ss /\ t = new
    BY <1>1, <1>4, <1>5, <2>1, <2>2, <2>4
  <2>5. CASE t \in DOMAIN ss /\ s = new
    BY <1>1, <1>4, <1>5, <2>1, <2>2, <2>5
  <2>6. QED
    BY <1>2, <2>3, <2>4, <2>5
<1>6. ASSUME NEW s \in DOMAIN ss PROVE tt[new].path # tt[s].path
  <2>1. tt[s].path = ss[s].path /\ tt[new].path = Append(ss[p].path, used)
    BY <1>0, <1>3 DEF Same, Grew
  <2>2. ss[p].path \in Seq(Labels) /\ used \in Labels /\ ss[s].path \in Seq(Labels)
    BY <1>0, <1>2, TreeFacts DEF Grown
  <2>3. CASE s = 1
    <3>1. ss[s].path = <<>>
      BY <1>2, <2>3 DEF Tree, Planted
    <3>2. Append(ss[p].path, used) # <<>>
      BY <2>2
    <3>3. QED
      BY <2>1, <3>1, <3>2
  <2>4. CASE s # 1
    <3> DEFINE q == ss[s].parent
               name == ss[s].name
    <3>1. Branch(ss, body, s)
      BY <1>2, <2>4 DEF Tree, Branched
    <3>2. /\ ss[s].path = Append(ss[q].path, name) /\ name \in DOMAIN ss[q].children
      BY <3>1 DEF Branch
    <3>3. q \in DOMAIN ss /\ ss[q].path \in Seq(Labels)
      BY <1>2, <2>4, TreeFacts
    <3>4. name \in Labels
      <4>1. PICK m \in Openers : Opened(ss, body, s, m)
        BY <3>1 DEF Branch
      <4>2. Calls(ss[q].unnamed, name, m) /\ m \in Nodes
        BY <4>1 DEF Opened, Openers
      <4>3. ss[q].unnamed \in 0 .. Len(UnnamedIds)
        BY <1>2, <3>3, TreeFacts
      <4>4. QED
        BY <4>2, <4>3, CallsLabels
    <3> HIDE DEF q, name
    <3>5. SUFFICES ASSUME Append(ss[p].path, used) = Append(ss[q].path, name) PROVE FALSE
      BY <2>1, <3>2
    <3>6. ss[p].path = ss[q].path /\ used = name
      <4> DEFINE x == ss[p].path
                 y == ss[q].path
      <4>1. x \in Seq(Labels) /\ y \in Seq(Labels) /\ Append(x, used) = Append(y, name)
        BY <2>2, <3>3, <3>5
      <4>2. used \in Labels /\ name \in Labels
        BY <2>2, <3>4
      <4> HIDE DEF x, y
      <4>3. x = y /\ used = name
        BY <4>1, <4>2, AppendEqual
      <4>4. QED
        BY <4>3 DEF x, y
    <3>7. p = q
      BY <1>2, <3>3, <3>6 DEF Tree, Distinct
    <3>8. QED
      BY <1>0, <3>2, <3>6, <3>7 DEF Grown
  <2>5. QED
    BY <2>3, <2>4
<1>7. ASSUME NEW s \in DOMAIN ss, NEW t \in DOMAIN ss, tt[s].path = tt[t].path
      PROVE  s = t
  BY <1>2, <1>3, <1>7 DEF Same, Tree, Distinct
<1>8. Distinct(tt)
  BY <1>2, <1>6, <1>7 DEF Distinct
<1>9. Siblings(tt, b)
  BY <1>5 DEF Siblings
<1>10. QED
  BY <1>8, <1>9 DEF b

(* The tree with the new scope is one, and keeps what it was.              *)
LEMMA GraftTree ==
  ASSUME NEW ss, NEW body, NEW p, NEW n, NEW used, NEW tt, NEW new,
         Grafted(ss, body, p, n, used, tt, new)
  PROVE  Tree(tt, With(body, new, Body(n)))
<1> DEFINE b == With(body, new, Body(n))
<1>0. /\ Grown(ss, body, p, n, used, tt, new) /\ Grew(ss, p, n, used, tt, new)
      /\ Counts(ss, p, n, used, tt)
  BY GraftFacts, GraftNew, GraftCounts
<1>1. b[new] = Body(n) /\ \A s \in DOMAIN ss : b[s] = body[s]
  BY <1>0 DEF With, Grown
<1>2. Tree(ss, body) /\ DOMAIN tt = DOMAIN ss \cup {new} /\ p \in DOMAIN ss
  BY <1>0 DEF Grown
<1>3. 1 \in DOMAIN ss
  BY <1>2, TreeFacts
<1>4. Built(tt)
  <2>1. Plain(tt) /\ 1 \in DOMAIN tt
    BY <1>0, <1>2, <1>3 DEF Grown
  <2>2. \A s \in DOMAIN tt : tt[s].unnamed \in 0 .. Len(UnnamedIds)
    BY <1>0 DEF Counts
  <2>3. QED
    BY <2>1, <2>2 DEF Built, Plain
<1>5. Planted(tt, b)
  <2>1. Body(n) \in 0 .. Len(Text)
    <3>1. Body(n) \in Nodes
      BY <1>0, OpenerFacts DEF Grown
    <3>2. QED
      BY <3>1, NodeFacts
  <2>2. body \in [DOMAIN ss -> 0 .. Len(Text)] /\ body[1] = 0
    BY <1>2 DEF Tree, Planted
  <2>3. b \in [DOMAIN tt -> 0 .. Len(Text)]
    BY <1>2, <2>1, <2>2 DEF With
  <2>4. b[1] = 0
    BY <1>1, <1>3, <2>2
  <2>5. ss[1].parent = None /\ ss[1].path = <<>> /\ ss[1].range = NoRange
    BY <1>2 DEF Tree, Planted
  <2>6. Same(ss, tt, 1)
    BY <1>0, <1>3 DEF Grown
  <2>7. QED
    BY <2>3, <2>4, <2>5, <2>6 DEF Planted, Same
<1> HIDE DEF b
<1>6. Written(tt, b)
  <2> SUFFICES ASSUME NEW s \in DOMAIN tt, NEW c \in DOMAIN tt[s].content
               PROVE  Entry(b[s], c, tt[s].content[c])
    BY DEF Written
  <2>1. s \in DOMAIN ss
    BY <1>0, <1>2 DEF Grew
  <2>2. tt[s].content = ss[s].content /\ b[s] = body[s]
    BY <1>0, <1>1, <2>1 DEF Grown
  <2>3. QED
    BY <1>2, <2>1, <2>2 DEF Tree, Written
<1>7. Branched(tt, b) /\ Bears(tt) /\ Aliased(tt, b) /\ Siblings(tt, b) /\ Distinct(tt)
  BY GraftBranched, GraftNames, GraftApart DEF b
<1>8. QED
  BY <1>4, <1>5, <1>6, <1>7 DEF Tree, b

LEMMA GraftKeeps ==
  ASSUME NEW ss, NEW body, NEW p, NEW n, NEW used, NEW tt, NEW new,
         Grafted(ss, body, p, n, used, tt, new)
  PROVE  /\ Keeps(ss, body, tt, With(body, new, Body(n)))
         /\ Find(tt, p, used) = new
<1> DEFINE b == With(body, new, Body(n))
<1>0. Grown(ss, body, p, n, used, tt, new)
  BY GraftFacts
<1>1. ASSUME NEW s \in DOMAIN ss
      PROVE  /\ s \in DOMAIN tt /\ b[s] = body[s] /\ Same(ss, tt, s)
             /\ tt[s].content = ss[s].content
    BY <1>0 DEF With, Grown
<1>2. ASSUME NEW s \in DOMAIN ss, NEW name, Find(ss, s, name) # None
      PROVE  Find(tt, s, name) = Find(ss, s, name)
  <2>1. tt[s].aliases = ss[s].aliases
    BY <1>0 DEF Grown
  <2>2. name \in DOMAIN ss[s].children \cup DOMAIN ss[s].aliases
    BY <1>2 DEF Find
  <2>3. CASE s = p
    <3>1. name # used /\ tt[s].children = Put(ss[s].children, used, new)
      BY <1>0, <2>2, <2>3 DEF Grown
    <3>2. name \in DOMAIN tt[s].children <=> name \in DOMAIN ss[s].children
      BY <3>1 DEF Put
    <3>3. name \in DOMAIN ss[s].children => tt[s].children[name] = ss[s].children[name]
      BY <3>1 DEF Put
    <3>4. QED
      BY <2>1, <3>2, <3>3 DEF Find
  <2>4. CASE s # p
    <3>1. tt[s].children = ss[s].children
      BY <1>0, <2>4 DEF Grown
    <3>2. QED
      BY <2>1, <3>1 DEF Find
  <2>5. QED
    BY <2>3, <2>4
<1>3. Find(tt, p, used) = new
  <2>1. tt[p].children = Put(ss[p].children, used, new)
    BY <1>0 DEF Grown
  <2>2. used \in DOMAIN tt[p].children /\ tt[p].children[used] = new
    BY <2>1 DEF Put
  <2>3. QED
    BY <2>2 DEF Find
<1> HIDE DEF b
<1>4. Keeps(ss, body, tt, b)
  BY <1>1, <1>2, Zenon DEF Keeps
<1>5. QED
  BY <1>3, <1>4 DEF b

-----------------------------------------------------------------------------
(* The children stay, the other names of the scopes change.                *)

Shifted(ss, tt) ==
  /\ Plain(tt) /\ DOMAIN tt = DOMAIN ss
  /\ \A s \in DOMAIN ss :
       /\ Same(ss, tt, s) /\ tt[s].children = ss[s].children
       /\ tt[s].unnamed \in 0 .. Len(UnnamedIds) /\ ss[s].unnamed <= tt[s].unnamed

LEMMA ShiftedCalls ==
  ASSUME NEW ss, NEW body, Tree(ss, body), NEW tt, Shifted(ss, tt), NEW s \in DOMAIN ss,
         NEW name, NEW n, Calls(ss[s].unnamed, name, n)
  PROVE  Calls(tt[s].unnamed, name, n)
<1>1. ss[s].unnamed \in 0 .. Len(UnnamedIds)
  BY TreeFacts
<1>2. tt[s].unnamed \in 0 .. Len(UnnamedIds) /\ ss[s].unnamed <= tt[s].unnamed
  BY DEF Shifted
<1>3. ss[s].unnamed \in Nat /\ tt[s].unnamed \in Nat
  BY <1>1, <1>2, MadeUp
<1>4. QED
  BY <1>2, <1>3, CallsMore

LEMMA ShiftedTree ==
  ASSUME NEW ss, NEW body, Tree(ss, body), NEW tt, Shifted(ss, tt)
  PROVE  /\ Built(tt) /\ Planted(tt, body) /\ Branched(tt, body) /\ Bears(tt)
         /\ Siblings(tt, body) /\ Distinct(tt)
<1>1. Plain(tt) /\ DOMAIN tt = DOMAIN ss /\ \A s \in DOMAIN ss : Same(ss, tt, s)
  BY DEF Shifted
<1>2. 1 \in DOMAIN ss
  BY TreeFacts
<1>3. Built(tt)
  <2>1. \A s \in DOMAIN tt : tt[s].unnamed \in 0 .. Len(UnnamedIds)
    BY <1>1 DEF Shifted
  <2>2. QED
    BY <1>1, <1>2, <2>1 DEF Built, Plain
<1>4. Planted(tt, body)
  <2>1. Planted(ss, body)
    BY DEF Tree
  <2>2. Same(ss, tt, 1)
    BY <1>1, <1>2
  <2>3. QED
    BY <1>1, <2>1, <2>2 DEF Planted, Same
<1>5. ASSUME NEW s \in DOMAIN ss \ {1} PROVE Branch(tt, body, s)
  <2> DEFINE q == ss[s].parent
             name == ss[s].name
  <2>1. Branch(ss, body, s)
    BY DEF Tree, Branched
  <2>2. q \in DOMAIN ss
    BY TreeFacts
  <2>3. Same(ss, tt, s) /\ Same(ss, tt, q) /\ tt[q].children = ss[q].children
    BY <2>2 DEF Shifted
  <2>4. PICK m \in Openers : Opened(ss, body, s, m)
    BY <2>1 DEF Branch
  <2>5. tt[s].parent = q /\ tt[s].name = name
    BY <2>3 DEF Same
  <2>6. Opened(tt, body, s, m)
    <3>1. Calls(ss[q].unnamed, name, m)
      BY <2>4 DEF Opened
    <3> HIDE DEF q, name
    <3>2. Calls(tt[q].unnamed, name, m)
      BY <2>2, <3>1, ShiftedCalls
    <3>3. /\ Level(m) = body[q] /\ Body(m) = body[s]
          /\ tt[s].virtual = (Text[m].kind # "instance")
          /\ Text[m].name = "" => tt[s].anonymous
      BY <2>3, <2>4 DEF Opened, Same, q
    <3>4. QED
      BY <2>5, <3>2, <3>3 DEF Opened
  <2>7. /\ q \in 1 .. (s - 1) /\ ss[s].path \in Seq(Labels)
        /\ ss[s].path = Append(ss[q].path, name)
        /\ name \in DOMAIN ss[q].children /\ ss[q].children[name] = s
        /\ ss[s].range = Text[body[s]].range
    BY <2>1 DEF Branch
  <2>8. tt[s].path = ss[s].path /\ tt[q].path = ss[q].path /\ tt[s].range = ss[s].range
    BY <2>3 DEF Same
  <2> HIDE DEF q, name
  <2>9. QED
    BY <2>3, <2>5, <2>6, <2>7, <2>8 DEF Branch
<1>6. Branched(tt, body)
  BY <1>1, <1>5 DEF Branched
<1>7. Bears(tt)
  <2> SUFFICES ASSUME NEW s \in DOMAIN ss, NEW c \in DOMAIN tt[s].children
               PROVE  LET t == tt[s].children[c]
                      IN  t \in DOMAIN ss \ {1} /\ tt[t].parent = s /\ tt[t].name = c
    BY <1>1 DEF Bears
  <2> DEFINE t == tt[s].children[c]
  <2>1. tt[s].children = ss[s].children
    BY DEF Shifted
  <2>2. t \in DOMAIN ss \ {1} /\ ss[t].parent = s /\ ss[t].name = c
    BY <2>1 DEF Tree, Bears
  <2> HIDE DEF t
  <2>3. Same(ss, tt, t)
    BY <1>1, <2>2
  <2>4. QED
    BY <2>2, <2>3 DEF Same, t
<1>8. \A s \in DOMAIN ss : tt[s].parent = ss[s].parent /\ tt[s].path = ss[s].path
  BY <1>1 DEF Same
<1>9. Siblings(tt, body)
  BY <1>1, <1>8 DEF Tree, Siblings
<1>10. Distinct(tt)
  BY <1>1, <1>8 DEF Tree, Distinct
<1>11. QED
  BY <1>3, <1>4, <1>6, <1>7, <1>9, <1>10

(* A declared name in the scope at: the aliases are what they were.        *)
LEMMA RegisterTree ==
  ASSUME Unambiguous, NEW ss, NEW body, Tree(ss, body), NEW at \in DOMAIN ss, NEW name,
         NEW range, Entry(body[at], NameAt(name, range), range)
  PROVE  LET tt == Registering(ss, at, name, range)
         IN  /\ Tree(tt, body) /\ Keeps(ss, body, tt, body)
             /\ NameAt(name, range) \in DOMAIN tt[at].content
             /\ tt[at].content[NameAt(name, range)] = range
             /\ DOMAIN tt = DOMAIN ss
             /\ \A s \in DOMAIN ss : tt[s].unnamed = ss[s].unnamed /\ Same(ss, tt, s)
<1> DEFINE c == NameAt(name, range)
           tt == Registering(ss, at, name, range)
           v == Put(ss[at].content, c, range)
<1>1. Plain(ss)
  BY TreeFacts
<1>2. WithContent(ss, tt, at, v)
  <2>1. tt = [ss EXCEPT ![at].content = v]
    BY DEF Registering
  <2> HIDE DEF v, tt
  <2>2. WithContent(ss, [ss EXCEPT ![at].content = v], at, v)
    BY <1>1, ContentFields
  <2>3. QED
    BY <2>1, <2>2
<1> HIDE DEF c, tt
<1>3. DOMAIN v = DOMAIN ss[at].content \cup {c} /\ v[c] = range
      /\ \A x \in DOMAIN ss[at].content : x # c => v[x] = ss[at].content[x]
  BY DEF Put
<1> HIDE DEF v
<1>4. /\ Plain(tt) /\ DOMAIN tt = DOMAIN ss
      /\ \A s \in DOMAIN ss : /\ Same(ss, tt, s) /\ SameNames(ss, tt, s)
                              /\ tt[s].unnamed = ss[s].unnamed
                              /\ tt[s].content = IF s = at THEN v ELSE ss[s].content
  BY <1>2 DEF WithContent
<1>5. Shifted(ss, tt)
  <2>1. ASSUME NEW s \in DOMAIN ss
        PROVE  tt[s].unnamed \in 0 .. Len(UnnamedIds) /\ ss[s].unnamed <= tt[s].unnamed
    <3>1. ss[s].unnamed \in 0 .. Len(UnnamedIds)
      BY TreeFacts
    <3>2. QED
      BY <1>4, <3>1, CountFacts
  <2>2. \A s \in DOMAIN ss : tt[s].children = ss[s].children
    BY <1>4 DEF SameNames
  <2>3. QED
    BY <1>4, <2>1, <2>2 DEF Shifted
<1>6. Aliased(tt, body)
  <2>1. ASSUME NEW s \in DOMAIN ss, NEW a \in DOMAIN tt[s].aliases
        PROVE  AliasOf(tt, body, s, a)
    <3>1. SameNames(ss, tt, s) /\ tt[s].unnamed = ss[s].unnamed
      BY <1>4
    <3>2. AliasOf(ss, body, s, a)
      BY <2>1, <3>1 DEF Tree, Aliased, SameNames
    <3>3. ss[s].aliases[a] \in DOMAIN ss
      BY <3>2 DEF AliasOf
    <3>4. Same(ss, tt, ss[s].aliases[a])
      BY <1>4, <3>3
    <3>5. QED
      BY <1>4, <3>1, <3>2, <3>4 DEF AliasOf, Same, SameNames
  <2>2. QED
    BY <1>4, <2>1 DEF Aliased
<1>7. Written(tt, body)
  <2> SUFFICES ASSUME NEW s \in DOMAIN ss, NEW x \in DOMAIN tt[s].content
               PROVE  Entry(body[s], x, tt[s].content[x])
    BY <1>4 DEF Written
  <2>1. CASE s = at
    <3>1. tt[s].content = v
      BY <1>4, <2>1
    <3>2. CASE x = c
      BY <1>3, <2>1, <3>1, <3>2 DEF c
    <3>3. CASE x # c
      BY <1>3, <2>1, <3>1, <3>3 DEF Tree, Written
    <3>4. QED
      BY <3>2, <3>3
  <2>2. CASE s # at
    BY <1>4, <2>2 DEF Tree, Written
  <2>3. QED
    BY <2>1, <2>2
<1>8. Tree(tt, body)
  BY <1>5, <1>6, <1>7, ShiftedTree DEF Tree
<1>9. ASSUME NEW s \in DOMAIN ss, NEW x \in DOMAIN ss[s].content, x # ""
      PROVE  x \in DOMAIN tt[s].content /\ tt[s].content[x] = ss[s].content[x]
  <2>1. CASE s = at
    <3>1. tt[s].content = v
      BY <1>4, <2>1
    <3>2. CASE x = c
      <4>1. Entry(body[at], x, ss[at].content[x])
        BY <2>1 DEF Tree, Written
      <4>2. Entry(body[at], x, range)
        BY <3>2 DEF c
      <4>3. ss[at].content[x] = range
        BY <1>9, <4>1, <4>2, EntryOnce
      <4>4. QED
        BY <1>3, <2>1, <3>1, <3>2, <4>3
    <3>3. CASE x # c
      BY <1>3, <2>1, <3>1, <3>3
    <3>4. QED
      BY <3>2, <3>3
  <2>2. CASE s # at
    BY <1>4, <2>2
  <2>3. QED
    BY <2>1, <2>2
<1>10. \A s \in DOMAIN ss : \A x : Find(tt, s, x) = Find(ss, s, x)
  BY <1>4 DEF SameNames, Find
<1>11. Keeps(ss, body, tt, body)
  BY <1>4, <1>9, <1>10 DEF Keeps
<1>12. c \in DOMAIN tt[at].content /\ tt[at].content[c] = range
  BY <1>3, <1>4
<1>13. QED
  BY <1>4, <1>8, <1>11, <1>12 DEF c, tt

(* Another name for the child d of p, whose body is that of the opener n.   *)
Aliasing(ss, body, p, n, d, used) ==
  /\ Unambiguous /\ Tree(ss, body) /\ p \in DOMAIN ss /\ n \in Openers /\ Level(n) = body[p]
  /\ d \in DOMAIN ss \ {1} /\ ss[d].parent = p /\ body[d] = Body(n)
  /\ \E u : Uses(ss, p, n, used, u)
Renamed(ss, body, p, d, used, tt) ==
  Tree(tt, body) /\ Keeps(ss, body, tt, body) /\ Find(tt, p, used) = d
(* tt is ss, but for the aliases v of p and perhaps a name made up for it.  *)
Relabelled(ss, tt, p, v, anonymous) ==
  /\ Plain(tt) /\ DOMAIN tt = DOMAIN ss
  /\ \A s \in DOMAIN ss :
       /\ Same(ss, tt, s) /\ tt[s].children = ss[s].children
       /\ tt[s].content = ss[s].content
       /\ tt[s].aliases = IF s = p THEN v ELSE ss[s].aliases
       /\ tt[s].unnamed = IF s = p /\ anonymous THEN ss[s].unnamed + 1 ELSE ss[s].unnamed

Again(ss, p, n, d, used) == Find(ss, p, used) = d /\ Text[n].name # ""

LEMMA AliasedAgain ==
  ASSUME NEW ss, NEW body, NEW p, NEW n, NEW d, NEW used, Aliasing(ss, body, p, n, d, used),
         Find(ss, p, used) # None
  PROVE  Again(ss, p, n, d, used)
<1> DEFINE t == Find(ss, p, used)
<1>1. Tree(ss, body) /\ p \in DOMAIN ss
  BY DEF Aliasing
<1>2. /\ t \in DOMAIN ss \ {1} /\ ss[t].parent = p
      /\ \E m \in Openers : Level(m) = body[p] /\ Body(m) = body[t]
                            /\ Calls(ss[p].unnamed, used, m)
  BY <1>1, FindFacts
<1> HIDE DEF t
<1>3. PICK m \in Openers : Level(m) = body[p] /\ Body(m) = body[t]
                          /\ Calls(ss[p].unnamed, used, m)
  BY <1>2
<1>4. PICK u : Uses(ss, p, n, used, u)
  BY DEF Aliasing
<1>5. Level(m) = Level(n)
  BY <1>3 DEF Aliasing
<1>6. m = n /\ Text[n].name # ""
  BY <1>3, <1>4, <1>5 DEF Uses
<1>7. body[t] = body[d] /\ ss[t].parent = ss[d].parent /\ d \in DOMAIN ss \ {1}
  BY <1>2, <1>3, <1>6 DEF Aliasing
<1>8. t = d
  BY <1>1, <1>2, <1>7 DEF Tree, Siblings
<1>9. QED
  BY <1>6, <1>8 DEF t, Again

LEMMA AliasedNew ==
  ASSUME NEW ss, NEW body, NEW p, NEW n, NEW d, NEW used, Aliasing(ss, body, p, n, d, used),
         used \notin DOMAIN ss[p].aliases, NEW tt, NEW v, v = Put(ss[p].aliases, used, d),
         Relabelled(ss, tt, p, v, Text[n].name = "")
  PROVE  Renamed(ss, body, p, d, used, tt)
<1>1. Tree(ss, body) /\ p \in DOMAIN ss
  BY DEF Aliasing
<1>2. PICK u : Uses(ss, p, n, used, u)
  BY DEF Aliasing
<1>3. tt[p].unnamed = u /\ u \in 0 .. Len(UnnamedIds) /\ ss[p].unnamed <= u
      /\ Calls(u, used, n)
  BY <1>1, <1>2 DEF Uses, Relabelled
<1>0. /\ Plain(tt) /\ DOMAIN tt = DOMAIN ss
      /\ \A s \in DOMAIN ss :
           /\ Same(ss, tt, s) /\ tt[s].children = ss[s].children
           /\ tt[s].content = ss[s].content
           /\ tt[s].aliases = IF s = p THEN v ELSE ss[s].aliases
           /\ s # p => tt[s].unnamed = ss[s].unnamed
  BY DEF Relabelled
<1>4. Shifted(ss, tt)
  <2>1. ASSUME NEW s \in DOMAIN ss
        PROVE  tt[s].unnamed \in 0 .. Len(UnnamedIds) /\ ss[s].unnamed <= tt[s].unnamed
    <3>1. CASE s = p
      BY <1>3, <3>1
    <3>2. CASE s # p
      <4>1. ss[s].unnamed \in 0 .. Len(UnnamedIds) /\ tt[s].unnamed = ss[s].unnamed
        BY <1>0, <1>1, <3>2, TreeFacts
      <4>2. QED
        BY <4>1, CountFacts
    <3>3. QED
      BY <3>1, <3>2
  <2>2. QED
    BY <1>0, <2>1 DEF Shifted
<1>5. /\ DOMAIN v = DOMAIN ss[p].aliases \cup {used} /\ v[used] = d
      /\ \A x \in DOMAIN ss[p].aliases : v[x] = ss[p].aliases[x]
  BY DEF Put
<1>6. \A s \in DOMAIN ss : \A x \in DOMAIN ss[s].aliases :
        x \in DOMAIN tt[s].aliases /\ tt[s].aliases[x] = ss[s].aliases[x]
  BY <1>0, <1>5
<1>7. ASSUME Find(ss, p, used) # None PROVE Find(ss, p, used) = d
  <2>1. Aliasing(ss, body, p, n, d, used)
    OBVIOUS
  <2>2. QED
    <3>1. Again(ss, p, n, d, used)
      BY <1>7, <2>1, AliasedAgain
    <3>2. QED
      BY <3>1 DEF Again
<1>8. used \in DOMAIN ss[p].children => ss[p].children[used] = d
  <2>1. used \in DOMAIN ss[p].children => Find(ss, p, used) = ss[p].children[used]
    BY DEF Find
  <2>2. used \in DOMAIN ss[p].children => Find(ss, p, used) # None
    BY <1>1, FindIs
  <2>3. QED
    BY <1>7, <2>1, <2>2
<1>9. ASSUME NEW s \in DOMAIN ss, NEW a \in DOMAIN tt[s].aliases
      PROVE  AliasOf(tt, body, s, a)
  <2>1. CASE a \in DOMAIN ss[s].aliases
    <3>1. AliasOf(ss, body, s, a)
      BY <1>1, <2>1 DEF Tree, Aliased
    <3>2. tt[s].aliases[a] = ss[s].aliases[a] /\ tt[s].children = ss[s].children
      BY <1>0, <1>6, <2>1
    <3>3. ss[s].aliases[a] \in DOMAIN ss
      BY <3>1 DEF AliasOf
    <3>4. Same(ss, tt, ss[s].aliases[a])
      BY <1>0, <3>3
    <3>5. \A m : Calls(ss[s].unnamed, a, m) => Calls(tt[s].unnamed, a, m)
      BY <1>1, <1>4, ShiftedCalls
    <3> DEFINE t == ss[s].aliases[a]
    <3>6. /\ t \in DOMAIN ss \ {1} /\ ss[t].parent = s
          /\ \E m \in Openers : Level(m) = body[s] /\ Body(m) = body[t]
                                /\ Calls(ss[s].unnamed, a, m)
          /\ a \in DOMAIN ss[s].children => ss[s].children[a] = t
      BY <3>1 DEF AliasOf
    <3>7. tt[t].parent = ss[t].parent /\ tt[s].aliases[a] = t
      BY <3>2, <3>4 DEF Same
    <3> HIDE DEF t
    <3>8. t \in DOMAIN tt \ {1} /\ tt[t].parent = s
      BY <1>0, <3>6, <3>7
    <3>9. /\ \E m \in Openers : Level(m) = body[s] /\ Body(m) = body[t]
                                /\ Calls(tt[s].unnamed, a, m)
          /\ a \in DOMAIN tt[s].children => tt[s].children[a] = t
      BY <3>2, <3>5, <3>6
    <3>10. QED
      BY <3>7, <3>8, <3>9 DEF AliasOf
  <2>2. CASE a \notin DOMAIN ss[s].aliases
    <3>1. s = p /\ a = used /\ tt[s].aliases[a] = d
      BY <1>0, <1>5, <2>2
    <3>2. d \in DOMAIN ss \ {1} /\ ss[d].parent = p /\ body[d] = Body(n)
          /\ Level(n) = body[p] /\ n \in Openers
      BY DEF Aliasing
    <3>3. tt[d].parent = s /\ tt[s].children = ss[s].children
      BY <1>0, <3>1, <3>2 DEF Same
    <3>4. Calls(tt[s].unnamed, a, n)
      BY <1>3, <3>1
    <3>5. a \in DOMAIN tt[s].children => tt[s].children[a] = d
      BY <1>8, <3>1, <3>3
    <3>6. /\ d \in DOMAIN tt \ {1}
          /\ \E m \in Openers : Level(m) = body[s] /\ Body(m) = body[d]
                                /\ Calls(tt[s].unnamed, a, m)
      BY <1>0, <3>1, <3>2, <3>4
    <3>7. QED
      BY <3>1, <3>3, <3>5, <3>6 DEF AliasOf
  <2>3. QED
    BY <2>1, <2>2
<1>10. Aliased(tt, body)
  BY <1>0, <1>9 DEF Aliased
<1>11. Written(tt, body)
  BY <1>0, <1>1 DEF Tree, Written
<1>12. Tree(tt, body)
  BY <1>1, <1>4, <1>10, <1>11, ShiftedTree DEF Tree
<1>13. ASSUME NEW s \in DOMAIN ss, NEW x, Find(ss, s, x) # None
       PROVE  Find(tt, s, x) = Find(ss, s, x)
  <2>1. tt[s].children = ss[s].children
    BY <1>0
  <2>2. x \in DOMAIN ss[s].children \cup DOMAIN ss[s].aliases
    BY <1>13 DEF Find
  <2>3. QED
    BY <1>0, <1>6, <2>1, <2>2 DEF Find
<1>14. Keeps(ss, body, tt, body)
  BY <1>0, <1>13 DEF Keeps
<1>15. Find(tt, p, used) = d
  BY <1>0, <1>1, <1>5, <1>8 DEF Find
<1>16. QED
  BY <1>12, <1>14, <1>15 DEF Renamed

LEMMA AliasTree ==
  ASSUME NEW ss, NEW body, NEW p, NEW n, NEW d,
         Aliasing(ss, body, p, n, d, UsedName(ss, p, Text[n].name))
  PROVE  LET added == AddChildAlias(ss, p, d, Text[n].name)
         IN  added.ok /\ Renamed(ss, body, p, d, UsedName(ss, p, Text[n].name), added.scopes)
<1> DEFINE name == Text[n].name
           used == UsedName(ss, p, name)
           added == AddChildAlias(ss, p, d, name)
           counted == Counted(ss, p, name)
<1>1. Tree(ss, body) /\ p \in DOMAIN ss
  BY DEF Aliasing
<1>2. CASE used \in DOMAIN ss[p].aliases
  <2>1. Find(ss, p, used) # None
    BY <1>1, <1>2, FindIs
  <2>2. Find(ss, p, used) = d /\ name # ""
    <3>1. Aliasing(ss, body, p, n, d, used)
      OBVIOUS
    <3> HIDE DEF used
    <3>2. Again(ss, p, n, d, used)
      BY <2>1, <3>1, AliasedAgain
    <3>3. QED
      BY <3>2 DEF Again
  <2>3. ss[p].aliases[used] = d
    <3>1. AliasOf(ss, body, p, used)
      BY <1>1, <1>2 DEF Tree, Aliased
    <3>2. used \in DOMAIN ss[p].children => ss[p].children[used] = ss[p].aliases[used]
      BY <3>1 DEF AliasOf
    <3>3. QED
      BY <1>2, <2>2, <3>2 DEF Find
  <2>4. counted = ss
    BY <2>2 DEF Counted
  <2>5. added.scopes = ss /\ added.ok
    <3> HIDE DEF counted
    <3>1. added.scopes = counted /\ added.ok
      BY <1>2, <2>3, Zenon DEF AddChildAlias, counted
    <3>2. QED
      BY <2>4, <3>1
  <2>6. Keeps(ss, body, ss, body)
    BY KeepsSelf
  <2> HIDE DEF added, used
  <2>7. Renamed(ss, body, p, d, used, added.scopes)
    BY <1>1, <2>2, <2>5, <2>6 DEF Renamed
  <2>8. QED
    BY <2>5, <2>7 DEF added, used
<1>3. CASE used \notin DOMAIN ss[p].aliases
  <2> DEFINE v == Put(ss[p].aliases, used, d)
             tt == [counted EXCEPT ![p].aliases = v]
  <2>1. Tallied(ss, counted, p, name = "")
    <3>1. Plain(ss)
      BY <1>1, TreeFacts
    <3>2. QED
      BY <1>1, <3>1, CountedFields
  <2> HIDE DEF counted
  <2>2. counted[p].aliases = ss[p].aliases /\ Plain(counted) /\ p \in DOMAIN counted
    BY <1>1, <2>1 DEF Tallied, SameNames
  <2>3. added.scopes = tt /\ added.ok
    <3>1. added.scopes = [counted EXCEPT ![p].aliases = Put(@, used, d)] /\ added.ok
      BY <1>3, Zenon DEF AddChildAlias, counted
    <3>2. QED
      BY <2>2, <3>1
  <2> HIDE DEF v
  <2>4. WithAliases(counted, tt, p, v)
    BY <2>2, AliasesFields
  <2> HIDE DEF tt, added
  <2>5. Plain(tt) /\ DOMAIN tt = DOMAIN ss
    BY <2>1, <2>4 DEF Tallied, WithAliases
  <2>6. ASSUME NEW s \in DOMAIN ss
        PROVE  /\ Same(ss, tt, s) /\ tt[s].children = ss[s].children
               /\ tt[s].content = ss[s].content
               /\ tt[s].aliases = IF s = p THEN v ELSE ss[s].aliases
               /\ tt[s].unnamed = IF s = p /\ name = "" THEN ss[s].unnamed + 1
                                  ELSE ss[s].unnamed
    <3>1. /\ Same(ss, counted, s) /\ SameNames(ss, counted, s)
          /\ counted[s].content = ss[s].content
          /\ counted[s].unnamed = IF s = p /\ name = "" THEN ss[s].unnamed + 1
                                  ELSE ss[s].unnamed
          /\ s \in DOMAIN counted
      BY <2>1 DEF Tallied
    <3>2. /\ Same(counted, tt, s) /\ tt[s].children = counted[s].children
          /\ SameRest(counted, tt, s)
          /\ tt[s].aliases = IF s = p THEN v ELSE counted[s].aliases
      BY <2>4, <3>1 DEF WithAliases
    <3>3. Same(ss, tt, s)
      BY <3>1, <3>2 DEF Same
    <3>4. tt[s].unnamed = counted[s].unnamed /\ tt[s].content = counted[s].content
      BY <3>2 DEF SameRest
    <3>5. counted[s].aliases = ss[s].aliases /\ counted[s].children = ss[s].children
      BY <3>1 DEF SameNames
    <3>6. QED
      BY <3>1, <3>2, <3>3, <3>4, <3>5
  <2> HIDE DEF used
  <2>7. v = Put(ss[p].aliases, used, d)
    BY DEF v
  <2>8. Aliasing(ss, body, p, n, d, used)
    BY DEF used
  <2>11. Relabelled(ss, tt, p, v, name = "")
    BY <2>5, <2>6 DEF Relabelled
  <2>9. Renamed(ss, body, p, d, used, tt)
    BY <1>3, <2>7, <2>8, <2>11, AliasedNew, Zenon
  <2>10. QED
    BY <2>3, <2>9 DEF used, added
<1>4. QED
  BY <1>2, <1>3

-----------------------------------------------------------------------------
(* Opening a scope.                                                        *)

(* id is the scope of the opener n in p, in the tree tt that ss became, and *)
(* the name called closes it.                                              *)
Arrived(tt, new, p, n, id, called) ==
  /\ id \in DOMAIN tt \ {1} /\ tt[id].parent = p /\ new[id] = Body(n)
  /\ Text[n].name # "" => Find(tt, p, Text[n].name) = id
  /\ tt[id].name = called \/ (tt[id].anonymous /\ called = "")
Grows(ss, body, tt, new) == Tree(tt, new) /\ Keeps(ss, body, tt, new)
Registers(id, file) ==
  registered' = registered \/ \E k : k[1] = file /\ registered' = Put(registered, k, id)
Opens(ss, body, new, n, id, called) ==
  /\ Grows(ss, body, scopes', new) /\ Arrived(scopes', new, Current, n, id, called)
  /\ Enters(id, Body(n), n, called, Inner(Text[n].name))
  /\ Registers(id, Text[Body(n)].range.file) /\ phase' = phase

Opening(ss, body, p, n) ==
  /\ Unambiguous /\ Tree(ss, body) /\ p \in DOMAIN ss /\ n \in Openers /\ Level(n) = body[p]
  /\ Text[n].name = "" => ss[p].unnamed < Len(UnnamedIds)
Virtual(n) == Text[n].kind # "instance"

LEMMA OpeningUses ==
  ASSUME NEW ss, NEW body, NEW p, NEW n, Opening(ss, body, p, n)
  PROVE  \E u : Uses(ss, p, n, UsedName(ss, p, Text[n].name), u)
BY UsedFacts DEF Opening

LEMMA UsesNamed ==
  ASSUME NEW ss, NEW p, NEW n, NEW used, \E u : Uses(ss, p, n, used, u)
  PROVE  Text[n].name # "" => used = Text[n].name
BY DEF Uses

(* A duplicate is a child with the body of the opener.                     *)
LEMMA DuplicateBody ==
  ASSUME NEW ss, NEW body, NEW n, Opening(ss, body, Current, n)
  PROVE  Duplicates(ss, Text[Body(n)].range) =
           {d \in DOMAIN ss \ {1} : ss[d].parent = Current /\ body[d] = Body(n)}
<1>1. Tree(ss, body) /\ Unambiguous /\ n \in Openers /\ Level(n) = body[Current]
      /\ Current \in DOMAIN ss
  BY DEF Opening
<1>2. ss[1].parent # Current
  <2>1. Current # None
    BY <1>1, TreeFacts
  <2>2. ss[1].parent = None
    BY <1>1 DEF Tree, Planted
  <2>3. QED
    BY <2>1, <2>2
<1>3. ASSUME NEW d \in DOMAIN ss \ {1}, ss[d].parent = Current
      PROVE  ss[d].range = Text[Body(n)].range <=> body[d] = Body(n)
  <2>1. Branch(ss, body, d)
    BY <1>1 DEF Tree, Branched
  <2>2. PICK m \in Openers : Opened(ss, body, d, m)
    BY <2>1 DEF Branch
  <2>3. Level(m) = body[Current] /\ Body(m) = body[d]
    BY <1>3, <2>2 DEF Opened
  <2>4. ss[d].range = Text[Body(m)].range
    BY <2>1, <2>3 DEF Branch
  <2>5. Text[Body(m)].range = Text[Body(n)].range => Body(m) = Body(n)
    BY <1>1, <2>3 DEF Unambiguous
  <2>6. QED
    BY <2>3, <2>4, <2>5
<1>4. QED
  BY <1>2, <1>3 DEF Duplicates

LEMMA OpenAgain ==
  ASSUME NEW ss, NEW body, NEW n, Opening(ss, body, Current, n),
         NEW d \in Duplicates(ss, Text[Body(n)].range),
         scopes' = AddChildAlias(ss, Current, d, Text[n].name).scopes
  PROVE  /\ AddChildAlias(ss, Current, d, Text[n].name).ok
         /\ Grows(ss, body, scopes', body)
         /\ Arrived(scopes', body, Current, n, d, ss[d].name)
<1> DEFINE used == UsedName(ss, Current, Text[n].name)
           added == AddChildAlias(ss, Current, d, Text[n].name)
<1>1. d \in DOMAIN ss \ {1} /\ ss[d].parent = Current /\ body[d] = Body(n)
  BY DuplicateBody
<1>2. \E u : Uses(ss, Current, n, used, u)
  BY OpeningUses
<1>3. Aliasing(ss, body, Current, n, d, used)
  BY <1>1, <1>2 DEF Aliasing, Opening
<1>4. added.ok /\ Renamed(ss, body, Current, d, used, added.scopes)
  BY <1>3, AliasTree
<1>5. Text[n].name # "" => used = Text[n].name
  BY <1>2, UsesNamed
<1> HIDE DEF used, added
<1>6. Tree(scopes', body) /\ Keeps(ss, body, scopes', body) /\ Find(scopes', Current, used) = d
  BY <1>4 DEF Renamed, added
<1>7. d \in DOMAIN scopes' /\ scopes'[d].parent = Current /\ scopes'[d].name = ss[d].name
  BY <1>1, <1>6 DEF Keeps, Same
<1>8. Arrived(scopes', body, Current, n, d, ss[d].name)
  BY <1>1, <1>5, <1>6, <1>7 DEF Arrived
<1>9. QED
  BY <1>4, <1>6, <1>8 DEF Grows, added

LEMMA OpenNew ==
  ASSUME NEW ss, NEW body, NEW n, Opening(ss, body, Current, n),
         Duplicates(ss, Text[Body(n)].range) = {},
         NEW child, child = AddChild(ss, Current, Text[n].name, Virtual(n)),
         scopes' = [child.scopes EXCEPT ![child.id].range = Text[Body(n)].range]
  PROVE  /\ Grows(ss, body, scopes', With(body, child.id, Body(n)))
         /\ Arrived(scopes', With(body, child.id, Body(n)), Current, n, child.id, Text[n].name)
<1> DEFINE used == UsedName(ss, Current, Text[n].name)
           new == child.id
           b == With(body, new, Body(n))
<1>1. /\ Tree(ss, body) /\ Unambiguous /\ n \in Openers /\ Level(n) = body[Current]
      /\ Current \in DOMAIN ss
  BY DEF Opening
<1>2. \E u : Uses(ss, Current, n, used, u)
  BY OpeningUses
<1>3. \A s \in DOMAIN ss \ {1} : ss[s].parent = Current => body[s] # Body(n)
  BY DuplicateBody
<1>4. used \notin DOMAIN ss[Current].children \cup DOMAIN ss[Current].aliases
  <2>1. Text[n].name = "" => ss[Current].unnamed < Len(UnnamedIds)
    BY DEF Opening
  <2>2. QED
    BY <1>1, <1>3, <2>1, UsedFresh
<1>5. Plain(ss)
  BY <1>1, TreeFacts
<1>6. Made(ss, scopes', Current, new, used, Virtual(n), Text[n].name = "", Text[Body(n)].range)
  <2> DEFINE range == Text[Body(n)].range
             v == Virtual(n)
             name == Text[n].name
  <2>1. UsedName(ss, Current, name) \notin DOMAIN ss[Current].children
    BY <1>4
  <2>2. child = AddChild(ss, Current, name, v)
        /\ scopes' = [child.scopes EXCEPT ![child.id].range = range]
    OBVIOUS
  <2>3. /\ child.id = Len(ss) + 1
        /\ Made(ss, [child.scopes EXCEPT ![child.id].range = range], Current, Len(ss) + 1,
                UsedName(ss, Current, name), v, name = "", range)
    <3> HIDE DEF range, v, name
    <3>1. LET c == AddChild(ss, Current, name, v)
              x == Len(ss) + 1
          IN  /\ c.id = x
              /\ Made(ss, [c.scopes EXCEPT ![c.id].range = range], Current, x,
                      UsedName(ss, Current, name), v, name = "", range)
      BY <1>1, <1>5, <2>1, ChildMade
    <3>2. QED
      BY <2>2, <3>1
  <2> HIDE DEF range, v
  <2>4. Made(ss, scopes', Current, new, UsedName(ss, Current, name), v, name = "", range)
    BY <2>2, <2>3
  <2>5. QED
    BY <2>4 DEF range, v
<1> HIDE DEF used, new
<1>7. Grafted(ss, body, Current, n, used, scopes', new)
  BY <1>1, <1>2, <1>3, <1>4, <1>6 DEF Grafted, Virtual
<1>8. Tree(scopes', b) /\ Keeps(ss, body, scopes', b) /\ Find(scopes', Current, used) = new
  BY <1>7, GraftTree, GraftKeeps
<1>9. Text[n].name # "" => used = Text[n].name
  BY <1>2, UsesNamed
<1>10. /\ new \in DOMAIN scopes' \ {1} /\ scopes'[new].parent = Current
       /\ scopes'[new].name = used
       /\ Text[n].name = "" => scopes'[new].anonymous
  <2>1. Grown(ss, body, Current, n, used, scopes', new)
        /\ Grew(ss, Current, n, used, scopes', new)
    BY <1>7, GraftFacts, GraftNew
  <2>2. QED
    BY <2>1 DEF Grown, Grew
<1>11. b[new] = Body(n)
  BY DEF With
<1> HIDE DEF b
<1>12. Arrived(scopes', b, Current, n, new, Text[n].name)
  BY <1>8, <1>9, <1>10, <1>11 DEF Arrived
<1>13. QED
  BY <1>8, <1>12 DEF Grows, b, new

LEMMA OpenScopeTree ==
  ASSUME NEW ss, NEW body, NEW n, Opening(ss, body, Current, n),
         OpenScope(ss, Body(n), n, Text[n].name, Virtual(n))
  PROVE  \E new, id, called : Opens(ss, body, new, n, id, called)
<1> DEFINE range == Text[Body(n)].range
           child == AddChild(ss, Current, Text[n].name, Virtual(n))
           key == <<range.file, child.scopes[child.id].path>>
<1>1. CASE Duplicates(ss, range) # {}
  <2>1. PICK d \in Duplicates(ss, range) :
          LET added == AddChildAlias(ss, Current, d, Text[n].name)
          IN  /\ scopes' = added.scopes
              /\ phase' = IF added.ok THEN phase ELSE "thrown"
              /\ Enters(d, Body(n), n, ss[d].name, Inner(Text[n].name))
              /\ UNCHANGED registered
    BY <1>1 DEF OpenScope
  <2>2. /\ AddChildAlias(ss, Current, d, Text[n].name).ok
        /\ Grows(ss, body, scopes', body)
        /\ Arrived(scopes', body, Current, n, d, ss[d].name)
    BY <2>1, OpenAgain
  <2>3. phase' = phase /\ Registers(d, range.file)
    BY <2>1, <2>2 DEF Registers
  <2>4. Opens(ss, body, body, n, d, ss[d].name)
    BY <2>1, <2>2, <2>3 DEF Opens
  <2>5. QED
    BY <2>4
<1>2. CASE Duplicates(ss, range) = {}
  <2>1. /\ scopes' = [child.scopes EXCEPT ![child.id].range = range]
        /\ registered' = IF key \in DOMAIN registered THEN registered
                         ELSE Put(registered, key, child.id)
        /\ Enters(child.id, Body(n), n, Text[n].name, Inner(Text[n].name))
        /\ UNCHANGED phase
    BY <1>2 DEF OpenScope
  <2> HIDE DEF child
  <2>2. /\ Grows(ss, body, scopes', With(body, child.id, Body(n)))
        /\ Arrived(scopes', With(body, child.id, Body(n)), Current, n, child.id, Text[n].name)
    BY <1>2, <2>1, OpenNew DEF child
  <2>3. key[1] = range.file
    OBVIOUS
  <2> HIDE DEF key
  <2>4. Registers(child.id, range.file)
    BY <2>1, <2>3 DEF Registers
  <2>5. Opens(ss, body, With(body, child.id, Body(n)), n, child.id, Text[n].name)
    BY <2>1, <2>2, <2>4 DEF Opens
  <2>6. QED
    BY <2>5
<1>3. QED
  BY <1>1, <1>2

-----------------------------------------------------------------------------
(* The path of names from the root to a scope.                             *)

Walk(ss, path, w) ==
  /\ w \in [1 .. Len(path) + 1 -> DOMAIN ss] /\ w[1] = 1
  /\ \A i \in 1 .. Len(path) : Find(ss, w[i], path[i]) = w[i + 1]
Leads(ss, path, s) ==
  path \in Seq(Labels) /\ \E w : Walk(ss, path, w) /\ w[Len(path) + 1] = s

LEMMA LeadsIn ==
  ASSUME NEW ss, NEW path, NEW s, Leads(ss, path, s)
  PROVE  s \in DOMAIN ss /\ path \in Seq(Labels)
<1>1. path \in Seq(Labels)
  BY DEF Leads
<1>2. Len(path) + 1 \in 1 .. Len(path) + 1
  BY <1>1
<1>3. QED
  BY <1>1, <1>2 DEF Leads, Walk

LEMMA LeadsRoot ==
  ASSUME NEW ss, NEW body, Tree(ss, body)
  PROVE  Leads(ss, <<>>, 1)
<1> DEFINE path == <<>>
           w == [i \in 1 .. 1 |-> 1]
<1>1. 1 \in DOMAIN ss
  BY TreeFacts
<1>2. path \in Seq(Labels) /\ Len(path) = 0
  OBVIOUS
<1>3. w \in [1 .. 1 -> DOMAIN ss] /\ w[1] = 1
  BY <1>1
<1>4. Walk(ss, path, w) /\ w[Len(path) + 1] = 1
  <2> HIDE DEF w, path
  <2>1. QED
    BY <1>2, <1>3 DEF Walk
<1>5. QED
  BY <1>2, <1>4 DEF Leads

LEMMA LeadsKeeps ==
  ASSUME NEW ss, NEW body, NEW tt, NEW new, Tree(ss, body), Keeps(ss, body, tt, new),
         NEW path, NEW s, Leads(ss, path, s)
  PROVE  Leads(tt, path, s)
<1>1. PICK w : Walk(ss, path, w) /\ w[Len(path) + 1] = s
  BY DEF Leads
<1>2. path \in Seq(Labels) /\ Len(path) \in Nat
  BY DEF Leads
<1>3. DOMAIN ss \subseteq DOMAIN tt
  BY DEF Keeps
<1>4. w \in [1 .. Len(path) + 1 -> DOMAIN tt]
  BY <1>1, <1>3 DEF Walk
<1>5. ASSUME NEW i \in 1 .. Len(path) PROVE Find(tt, w[i], path[i]) = w[i + 1]
  <2>1. i \in 1 .. Len(path) + 1 /\ i + 1 \in 1 .. Len(path) + 1
    BY <1>2
  <2>2. w[i] \in DOMAIN ss /\ w[i + 1] \in DOMAIN ss /\ Find(ss, w[i], path[i]) = w[i + 1]
    BY <1>1, <2>1 DEF Walk
  <2>3. w[i + 1] # None
    BY <2>2, TreeFacts
  <2>4. QED
    BY <2>2, <2>3 DEF Keeps
<1>6. Walk(tt, path, w)
  BY <1>1, <1>4, <1>5 DEF Walk
<1>7. QED
  BY <1>1, <1>2, <1>6 DEF Leads

LEMMA LeadsAppend ==
  ASSUME NEW ss, NEW path, NEW s, Leads(ss, path, s), NEW name \in Labels,
         NEW t \in DOMAIN ss, Find(ss, s, name) = t
  PROVE  Leads(ss, Append(path, name), t)
<1>1. PICK w : Walk(ss, path, w) /\ w[Len(path) + 1] = s
  BY DEF Leads
<1> DEFINE L == Len(path)
           q == Append(path, name)
           v == [i \in 1 .. L + 2 |-> IF i = L + 2 THEN t ELSE w[i]]
<1>2. /\ path \in Seq(Labels) /\ L \in Nat /\ q \in Seq(Labels) /\ Len(q) = L + 1
      /\ q[L + 1] = name /\ \A i \in 1 .. L : q[i] = path[i]
  BY AppendFacts DEF Leads
<1>3. /\ w \in [1 .. L + 1 -> DOMAIN ss] /\ w[1] = 1 /\ w[L + 1] = s
      /\ \A i \in 1 .. L : Find(ss, w[i], path[i]) = w[i + 1]
  BY <1>1 DEF Walk
<1> HIDE DEF q, L
<1>4. v \in [1 .. L + 2 -> DOMAIN ss]
  <2>1. \A i \in 1 .. L + 2 : i # L + 2 => i \in 1 .. L + 1
    BY <1>2
  <2>2. QED
    BY <1>3, <2>1
<1>5. v[L + 2] = t /\ \A i \in 1 .. L + 1 : v[i] = w[i]
  BY <1>2
<1> HIDE DEF v
<1>6. ASSUME NEW i \in 1 .. L + 1 PROVE Find(ss, v[i], q[i]) = v[i + 1]
  <2>1. CASE i = L + 1
    BY <1>2, <1>3, <1>5, <2>1
  <2>2. CASE i # L + 1
    <3>1. i \in 1 .. L /\ i + 1 \in 1 .. L + 1
      BY <1>2, <2>2
    <3>2. QED
      BY <1>2, <1>3, <1>5, <3>1
  <2>3. QED
    BY <2>1, <2>2
<1>7. v[1] = 1 /\ (L + 1) + 1 = L + 2
  BY <1>2, <1>3, <1>5
<1>8. Walk(ss, q, v)
  BY <1>2, <1>4, <1>6, <1>7 DEF Walk
<1>9. v[Len(q) + 1] = t
  BY <1>2, <1>5, <1>7
<1>10. Leads(ss, q, t)
  BY <1>2, <1>8, <1>9 DEF Leads
<1>11. QED
  BY <1>10 DEF q

(* resolve_scope finds it.                                                 *)
LEMMA ResolveLeads ==
  ASSUME NEW body, Tree(scopes, body), NEW path, NEW s, Leads(scopes, path, s)
  PROVE  ResolveScope(path) = s
<1>1. PICK w : Walk(scopes, path, w) /\ w[Len(path) + 1] = s
  BY DEF Leads
<1> DEFINE L == Len(path)
           down(f, i) == IF i = 0 THEN 1
                         ELSE IF f[i - 1] = None THEN None
                         ELSE ScopeByName(f[i - 1], path[i])
           P(f) == f = [i \in 0 .. L |-> down(f, i)]
           h == [i \in 0 .. L |-> w[i + 1]]
           at == CHOOSE f : P(f)
<1>2. path \in Seq(Labels) /\ L \in Nat
  BY DEF Leads
<1>3. /\ w[1] = 1 /\ \A i \in 1 .. L : Find(scopes, w[i], path[i]) = w[i + 1]
      /\ \A i \in 1 .. L + 1 : w[i] \in DOMAIN scopes
  BY <1>1 DEF Walk
<1>4. \A i \in 1 .. L + 1 : w[i] # None
  BY <1>3, TreeFacts
<1>5. \A x, name : ScopeByName(x, name) = Find(scopes, x, name)
  BY DEF ScopeByName, Find
<1>6. ASSUME NEW i \in 0 .. L PROVE down(h, i) = w[i + 1]
  <2>1. CASE i = 0
    BY <1>3, <2>1
  <2>2. CASE i # 0
    <3>1. i - 1 \in 0 .. L /\ i \in 1 .. L /\ i \in 1 .. L + 1 /\ (i - 1) + 1 = i
      BY <1>2, <2>2
    <3>2. h[i - 1] = w[i] /\ w[i] # None
      BY <1>4, <3>1
    <3> HIDE DEF h
    <3>3. down(h, i) = Find(scopes, w[i], path[i])
      BY <1>5, <2>2, <3>2
    <3>4. QED
      BY <1>3, <3>1, <3>3
  <2>3. QED
    BY <2>1, <2>2
<1>7. P(h)
  <2> DEFINE e(i) == down(h, i)
  <2>1. \A i \in 0 .. L : w[i + 1] = e(i)
    BY <1>6
  <2> HIDE DEF e
  <2>2. h = [i \in 0 .. L |-> e(i)]
    BY <2>1
  <2>3. QED
    BY <2>2 DEF e
<1>8. P(at)
  <2> HIDE DEF P, h
  <2>1. QED
    BY <1>7
<1>9. ResolveScope(path) = at[L]
  BY DEF ResolveScope
<1> HIDE DEF at, h
<1>10. at[0] = 1 /\ \A i \in 1 .. L : at[i - 1] # None => at[i] = Find(scopes, at[i - 1], path[i])
  <2>1. 0 \in 0 .. L /\ \A i \in 1 .. L : i \in 0 .. L /\ i # 0
    BY <1>2
  <2>2. \A i \in 0 .. L : at[i] = down(at, i)
    BY <1>8
  <2>3. at[0] = 1
    BY <2>1, <2>2
  <2>4. QED
    BY <1>5, <2>1, <2>2, <2>3
<1> DEFINE T == {i \in Nat : i <= L => at[i] = w[i + 1]}
<1>11. 0 \in T
  BY <1>3, <1>10
<1>12. ASSUME NEW i \in Nat, i \in T PROVE i + 1 \in T
  <2> SUFFICES ASSUME i + 1 <= L PROVE at[i + 1] = w[(i + 1) + 1]
    OBVIOUS
  <2>1. i + 1 \in 1 .. L /\ i <= L /\ i + 1 \in 1 .. L + 1 /\ (i + 1) - 1 = i
    BY <1>2
  <2>2. at[i] = w[i + 1] /\ w[i + 1] # None
    BY <1>4, <1>12, <2>1
  <2>3. at[i + 1] = Find(scopes, at[i], path[i + 1])
    BY <1>10, <2>1, <2>2
  <2>4. QED
    BY <1>3, <2>1, <2>2, <2>3
<1>13. \A i \in Nat : i \in T
  <2> HIDE DEF T
  <2>1. QED
    BY <1>11, <1>12, Induction
<1>14. at[L] = w[L + 1]
  BY <1>2, <1>13
<1>15. QED
  BY <1>1, <1>9, <1>14

-----------------------------------------------------------------------------
(* The visit: the frames above the units are those of the open scopes.     *)

FrameFields == {"node", "last", "opens", "name", "owner", "path"}
Frames(ff) ==
  /\ \E S : ff \in Seq(S)
  /\ \A i \in DOMAIN ff : FrameFields \subseteq DOMAIN ff[i] /\ ff[i].path \in Seq(Labels)

(* f is the frame of the scope s, a child of p, whose path is the given one. *)
Framed(ss, body, p, s, path, f) ==
  /\ p \in DOMAIN ss /\ s \in DOMAIN ss \ {1} /\ ss[s].parent = p
  /\ f.opens /\ f.owner \in Openers /\ Level(f.owner) = body[p]
  /\ f.node = Body(f.owner) /\ f.node = body[s]
  /\ ss[s].name = f.name \/ (ss[s].anonymous /\ f.name = "")
  /\ f.path = Append(path, Text[f.owner].name)
  /\ Nameable(f.path) => Leads(ss, f.path, s)
RootFrame(f) == f.node = 0 /\ ~f.opens /\ f.path = <<>>
UnitFrame(f) == f.node \in Nodes /\ Text[f.node].kind = "unit" /\ ~f.opens /\ f.path = <<>>

(* There is a frame without a scope in a unit: k is that of the open scope j. *)
Lens(m, l) == m \in Nat \ {0} /\ (l = m \/ l = m + 1)
Beside(m, l, j, k) == j \in 2 .. m /\ k = j + (l - m)
Holds(ss, body, st, ff, j, k) == Framed(ss, body, st[j - 1], st[j], ff[k - 1].path, ff[k])
Visiting(ss, body, st, ff) ==
  /\ st \in Seq(DOMAIN ss) /\ Frames(ff) /\ Lens(Len(st), Len(ff))
  /\ st[1] = 1 /\ RootFrame(ff[1])
  /\ Len(ff) = Len(st) + 1 => UnitFrame(ff[2])
  /\ \A j, k : Beside(Len(st), Len(ff), j, k) => Holds(ss, body, st, ff, j, k)

LEMMA LensFacts ==
  ASSUME NEW m, NEW l, Lens(m, l)
  PROVE  /\ m \in Nat \ {0} /\ l \in Nat \ {0} /\ Lens(m + 1, l + 1)
         /\ 1 \in 1 .. m /\ m \in 1 .. m /\ 1 \in 1 .. l /\ l \in 1 .. l
         /\ l = m + 1 => 2 \in 1 .. l
         /\ l + 1 = (m + 1) + 1 => l = m + 1
BY DEF Lens

LEMMA LensMore ==
  ASSUME NEW m, NEW l, Lens(m, l), m # 1
  PROVE  /\ m > 1 /\ l > 1 /\ Lens(m - 1, l - 1) /\ 1 \in 1 .. m - 1 /\ 1 \in 1 .. l - 1
         /\ l - 1 = (m - 1) + 1 => l = m + 1 /\ 2 \in 1 .. l - 1
         /\ Beside(m, l, m, l)
BY DEF Lens, Beside

LEMMA LevelFacts ==
  ASSUME NEW m, NEW l, Lens(m, l), NEW j, NEW k, Beside(m, l, j, k)
  PROVE  j \in 1 .. m /\ j - 1 \in 1 .. m /\ k \in 1 .. l /\ k - 1 \in 1 .. l
BY DEF Lens, Beside

LEMMA LevelMore ==
  ASSUME NEW m, NEW l, Lens(m, l), NEW j, NEW k, Beside(m + 1, l + 1, j, k)
  PROVE  \/ j = m + 1 /\ k = l + 1 /\ j - 1 = m /\ k - 1 = l
         \/ Beside(m, l, j, k)
BY DEF Lens, Beside

LEMMA LevelLess ==
  ASSUME NEW m, NEW l, Lens(m, l), m # 1, NEW j, NEW k, Beside(m - 1, l - 1, j, k)
  PROVE  /\ Beside(m, l, j, k) /\ j \in 1 .. m - 1 /\ j - 1 \in 1 .. m - 1
         /\ k \in 1 .. l - 1 /\ k - 1 \in 1 .. l - 1
BY DEF Lens, Beside

LEMMA FramedKeeps ==
  ASSUME NEW ss, NEW body, NEW tt, NEW new, Tree(ss, body), Keeps(ss, body, tt, new),
         NEW p, NEW s, NEW path, NEW f, Framed(ss, body, p, s, path, f)
  PROVE  Framed(tt, new, p, s, path, f)
<1>1. p \in DOMAIN ss /\ s \in DOMAIN ss \ {1}
  BY DEF Framed
<1>2. /\ s \in DOMAIN tt /\ p \in DOMAIN tt /\ new[s] = body[s] /\ new[p] = body[p]
      /\ Same(ss, tt, s)
  BY <1>1 DEF Keeps
<1>3. tt[s].parent = ss[s].parent /\ tt[s].name = ss[s].name
      /\ tt[s].anonymous = ss[s].anonymous
  BY <1>2 DEF Same
<1>4. Nameable(f.path) => Leads(tt, f.path, s)
  BY LeadsKeeps DEF Framed
<1>5. QED
  BY <1>1, <1>2, <1>3, <1>4 DEF Framed

LEMMA VisitingKeeps ==
  ASSUME NEW ss, NEW body, NEW tt, NEW new, Tree(ss, body), Keeps(ss, body, tt, new),
         NEW st, NEW ff, Visiting(ss, body, st, ff)
  PROVE  Visiting(tt, new, st, ff)
<1>1. DOMAIN ss \subseteq DOMAIN tt
  BY DEF Keeps
<1>2. st \in Seq(DOMAIN ss)
  BY DEF Visiting
<1>3. st \in Seq(DOMAIN tt)
  <2> DEFINE A == DOMAIN ss
             B == DOMAIN tt
  <2>1. A \subseteq B /\ st \in Seq(A)
    BY <1>1, <1>2
  <2> HIDE DEF A, B
  <2>2. st \in Seq(B)
    BY <2>1
  <2>3. QED
    BY <2>2 DEF B
<1>4. ASSUME NEW j, NEW k, Beside(Len(st), Len(ff), j, k)
      PROVE  Holds(tt, new, st, ff, j, k)
  <2>1. Holds(ss, body, st, ff, j, k)
    BY <1>4 DEF Visiting
  <2>2. QED
    BY <2>1, FramedKeeps DEF Holds
<1>5. QED
  BY <1>3, <1>4 DEF Visiting

(* A frame goes on.                                                        *)
SameFrame(f, g) ==
  /\ FrameFields \subseteq DOMAIN g
  /\ g.node = f.node /\ g.opens = f.opens /\ g.name = f.name /\ g.owner = f.owner
  /\ g.path = f.path

LEMMA VisitingSame ==
  ASSUME NEW ss, NEW body, NEW st, NEW ff, Visiting(ss, body, st, ff), NEW gg,
         \E S : gg \in Seq(S), Len(gg) = Len(ff), \A i \in 1 .. Len(ff) : SameFrame(ff[i], gg[i])
  PROVE  Visiting(ss, body, st, gg)
<1>1. PICK S : ff \in Seq(S)
  BY DEF Visiting, Frames
<1>2. Len(ff) \in Nat /\ DOMAIN ff = 1 .. Len(ff) /\ DOMAIN gg = 1 .. Len(ff)
  BY <1>1
<1>3. Frames(gg)
  <2>1. \A i \in DOMAIN gg : gg[i].path = ff[i].path /\ FrameFields \subseteq DOMAIN gg[i]
    BY <1>2 DEF SameFrame
  <2>2. QED
    BY <1>2, <2>1 DEF Visiting, Frames
<1>4. /\ Lens(Len(st), Len(ff)) /\ RootFrame(ff[1])
      /\ Len(ff) = Len(st) + 1 => UnitFrame(ff[2])
  BY DEF Visiting
<1>5. 1 \in 1 .. Len(ff) /\ (Len(ff) = Len(st) + 1 => 2 \in 1 .. Len(ff))
  BY <1>4, LensFacts
<1>6. RootFrame(gg[1]) /\ (Len(gg) = Len(st) + 1 => UnitFrame(gg[2]))
  <2>1. SameFrame(ff[1], gg[1]) /\ (Len(ff) = Len(st) + 1 => SameFrame(ff[2], gg[2]))
    BY <1>5
  <2>2. QED
    BY <1>4, <2>1 DEF SameFrame, RootFrame, UnitFrame
<1>7. ASSUME NEW j, NEW k, Beside(Len(st), Len(ff), j, k)
      PROVE  Holds(ss, body, st, gg, j, k)
  <2>1. k \in 1 .. Len(ff) /\ k - 1 \in 1 .. Len(ff)
    BY <1>4, <1>7, LevelFacts
  <2>2. Framed(ss, body, st[j - 1], st[j], ff[k - 1].path, ff[k])
    BY <1>7 DEF Visiting, Holds
  <2>3. gg[k - 1].path = ff[k - 1].path /\ SameFrame(ff[k], gg[k])
    BY <2>1 DEF SameFrame
  <2>4. Framed(ss, body, st[j - 1], st[j], gg[k - 1].path, gg[k])
    BY <2>2, <2>3 DEF SameFrame, Framed
  <2>5. QED
    BY <2>4 DEF Holds
<1>8. QED
  BY <1>3, <1>4, <1>6, <1>7 DEF Visiting

Passes(ss, body, st, ff, gg) ==
  /\ Visiting(ss, body, st, gg) /\ Len(gg) = Len(ff)
  /\ \A j \in 1 .. Len(ff) : gg[j].path = ff[j].path

LEMMA VisitingPassed ==
  ASSUME NEW ss, NEW body, NEW st, NEW ff, Visiting(ss, body, st, ff), NEW i, NEW n
  PROVE  Passes(ss, body, st, ff, [ff EXCEPT ![i].last = n])
<1> DEFINE gg == [ff EXCEPT ![i].last = n]
<1>1. PICK S : ff \in Seq(S)
  BY DEF Visiting, Frames
<1>2. gg = [x \in DOMAIN ff |-> gg[x]] /\ DOMAIN gg = DOMAIN ff
  OBVIOUS
<1>3. DOMAIN ff = 1 .. Len(ff) /\ Len(ff) \in Nat
  BY <1>1
<1>4. ASSUME NEW x \in DOMAIN ff PROVE SameFrame(ff[x], gg[x])
  <2>1. FrameFields \subseteq DOMAIN ff[x]
    BY DEF Visiting, Frames
  <2>2. CASE x # i
    BY <2>1, <2>2 DEF SameFrame
  <2>3. CASE x = i
    <3>1. gg[x] = [ff[x] EXCEPT !.last = n]
      BY <2>3
    <3>2. QED
      BY <2>1, <3>1 DEF SameFrame, FrameFields
  <2>4. QED
    BY <2>2, <2>3
<1> HIDE DEF gg
<1>5. \E T : gg \in Seq(T)
  BY <1>1, <1>2, SamePlaces
<1>6. Len(gg) = Len(ff)
  <2>1. PICK T : gg \in Seq(T)
    BY <1>5
  <2>2. QED
    BY <1>2, <1>3, <2>1
<1>7. Visiting(ss, body, st, gg)
  BY <1>3, <1>4, <1>5, <1>6, VisitingSame
<1>8. \A j \in 1 .. Len(ff) : gg[j].path = ff[j].path
  BY <1>3, <1>4 DEF SameFrame
<1>9. QED
  BY <1>6, <1>7, <1>8 DEF gg, Passes

LEMMA FramesAppend ==
  ASSUME NEW ff, Frames(ff), NEW f, FrameFields \subseteq DOMAIN f, f.path \in Seq(Labels)
  PROVE  /\ Frames(Append(ff, f)) /\ Len(Append(ff, f)) = Len(ff) + 1 /\ Len(ff) \in Nat
         /\ Append(ff, f)[Len(ff) + 1] = f
         /\ \A i \in 1 .. Len(ff) : Append(ff, f)[i] = ff[i]
<1>1. PICK S : ff \in Seq(S)
  BY DEF Frames
<1>2. ff \in Seq(S \cup {f})
  BY <1>1
<1> DEFINE gg == Append(ff, f)
<1>3. /\ gg \in Seq(S \cup {f}) /\ Len(gg) = Len(ff) + 1 /\ Len(ff) \in Nat
      /\ gg[Len(ff) + 1] = f /\ \A i \in 1 .. Len(ff) : gg[i] = ff[i]
  BY <1>2
<1>4. DOMAIN gg = DOMAIN ff \cup {Len(ff) + 1} /\ DOMAIN ff = 1 .. Len(ff)
  BY <1>1, <1>3
<1> HIDE DEF gg
<1>5. Frames(gg)
  BY <1>3, <1>4 DEF Frames
<1>6. QED
  BY <1>3, <1>5 DEF gg

LEMMA VisitingUnit ==
  ASSUME NEW ss, NEW body, NEW st, NEW ff, Visiting(ss, body, st, ff), Len(ff) = 1,
         NEW f, FrameFields \subseteq DOMAIN f, UnitFrame(f)
  PROVE  Visiting(ss, body, st, Append(ff, f))
<1> DEFINE gg == Append(ff, f)
<1>1. f.path \in Seq(Labels)
  <2>1. <<>> \in Seq(Labels)
    OBVIOUS
  <2>2. QED
    BY <2>1 DEF UnitFrame
<1>2. /\ Frames(gg) /\ Len(gg) = Len(ff) + 1 /\ gg[Len(ff) + 1] = f
      /\ \A i \in 1 .. Len(ff) : gg[i] = ff[i]
  BY <1>1, FramesAppend DEF Visiting
<1> HIDE DEF gg
<1>3. Len(st) = 1
  BY DEF Visiting, Lens
<1>4. /\ Len(gg) = 2 /\ gg[2] = f /\ gg[1] = ff[1] /\ Lens(Len(st), Len(gg))
      /\ \A j, k : ~Beside(Len(st), Len(gg), j, k)
  BY <1>2, <1>3 DEF Lens, Beside
<1>5. Visiting(ss, body, st, gg)
  BY <1>2, <1>4 DEF Visiting
<1>6. QED
  BY <1>5 DEF gg

LEMMA VisitingPush ==
  ASSUME NEW ss, NEW body, NEW st, NEW ff, Visiting(ss, body, st, ff), NEW s, NEW f,
         FrameFields \subseteq DOMAIN f, f.path \in Seq(Labels),
         Framed(ss, body, st[Len(st)], s, ff[Len(ff)].path, f)
  PROVE  Visiting(ss, body, Append(st, s), Append(ff, f))
<1> DEFINE gg == Append(ff, f)
           sst == Append(st, s)
           m == Len(st)
           l == Len(ff)
<1>1. s \in DOMAIN ss
  BY DEF Framed
<1>2. /\ sst \in Seq(DOMAIN ss) /\ Len(sst) = m + 1 /\ sst[m + 1] = s
      /\ \A i \in 1 .. m : sst[i] = st[i]
  BY <1>1, AppendFacts DEF Visiting
<1>3. /\ Frames(gg) /\ Len(gg) = l + 1 /\ gg[l + 1] = f
      /\ \A i \in 1 .. l : gg[i] = ff[i]
  BY FramesAppend DEF Visiting
<1>4. /\ Lens(m, l) /\ RootFrame(ff[1]) /\ (l = m + 1 => UnitFrame(ff[2])) /\ st[1] = 1
      /\ \A j, k : Beside(m, l, j, k) => Holds(ss, body, st, ff, j, k)
      /\ Framed(ss, body, st[m], s, ff[l].path, f)
  BY DEF Visiting
<1> HIDE DEF gg, sst, m, l
<1>5. /\ Lens(m + 1, l + 1) /\ 1 \in 1 .. m /\ 1 \in 1 .. l /\ m \in 1 .. m /\ l \in 1 .. l
      /\ l + 1 = (m + 1) + 1 => l = m + 1 /\ 2 \in 1 .. l
  BY <1>4, LensFacts
<1>6. RootFrame(gg[1]) /\ (l + 1 = (m + 1) + 1 => UnitFrame(gg[2])) /\ sst[1] = 1
  BY <1>2, <1>3, <1>4, <1>5
<1>7. ASSUME NEW j, NEW k, Beside(m + 1, l + 1, j, k) PROVE Holds(ss, body, sst, gg, j, k)
  <2>1. CASE Beside(m, l, j, k)
    <3>1. j \in 1 .. m /\ j - 1 \in 1 .. m /\ k \in 1 .. l /\ k - 1 \in 1 .. l
      BY <1>4, <2>1, LevelFacts
    <3>2. Framed(ss, body, st[j - 1], st[j], ff[k - 1].path, ff[k])
      BY <1>4, <2>1 DEF Holds
    <3>3. sst[j] = st[j] /\ sst[j - 1] = st[j - 1] /\ gg[k] = ff[k] /\ gg[k - 1] = ff[k - 1]
      BY <1>2, <1>3, <3>1
    <3>4. QED
      BY <3>2, <3>3 DEF Holds
  <2>2. CASE j = m + 1 /\ k = l + 1 /\ j - 1 = m /\ k - 1 = l
    <3>1. sst[j] = s /\ sst[j - 1] = st[m] /\ gg[k] = f /\ gg[k - 1] = ff[l]
      BY <1>2, <1>3, <1>5, <2>2
    <3>2. QED
      BY <1>4, <3>1 DEF Holds
  <2>3. QED
    BY <1>4, <1>7, <2>1, <2>2, LevelMore
<1>8. Visiting(ss, body, sst, gg)
  BY <1>2, <1>3, <1>5, <1>6, <1>7 DEF Visiting
<1>9. QED
  BY <1>8 DEF gg, sst

(* The frame on top.                                                       *)
Tops(ss, body, st, ff, s, f) ==
  \/ s = 1 /\ Len(st) = 1 /\ Len(ff) = 1 /\ RootFrame(f)
  \/ s = 1 /\ Len(st) = 1 /\ Len(ff) = 2 /\ UnitFrame(f)
  \/ /\ Len(st) > 1 /\ Len(ff) > 1
     /\ Framed(ss, body, st[Len(st) - 1], s, ff[Len(ff) - 1].path, f)

LEMMA TopFrame ==
  ASSUME NEW ss, NEW body, NEW st, NEW ff, Visiting(ss, body, st, ff), Tree(ss, body)
  PROVE  LET s == st[Len(st)]
             f == ff[Len(ff)]
         IN  /\ s \in DOMAIN ss /\ FrameFields \subseteq DOMAIN f /\ f.path \in Seq(Labels)
             /\ Len(st) \in Nat \ {0} /\ Len(ff) \in Nat \ {0}
             /\ Tops(ss, body, st, ff, s, f)
             /\ Nameable(f.path) => Leads(ss, f.path, s)
<1> DEFINE m == Len(st)
           l == Len(ff)
           s == st[m]
           f == ff[l]
<1>1. PICK S : ff \in Seq(S)
  BY DEF Visiting, Frames
<1>2. DOMAIN ff = 1 .. l /\ st \in Seq(DOMAIN ss) /\ DOMAIN st = 1 .. m
  BY <1>1 DEF Visiting
<1>3. /\ Lens(m, l) /\ RootFrame(ff[1]) /\ (l = m + 1 => UnitFrame(ff[2])) /\ st[1] = 1
      /\ \A j, k : Beside(m, l, j, k) => Holds(ss, body, st, ff, j, k)
  BY DEF Visiting
<1> HIDE DEF m, l
<1>4. m \in Nat \ {0} /\ l \in Nat \ {0} /\ m \in 1 .. m /\ l \in 1 .. l
  BY <1>3, LensFacts
<1>5. s \in DOMAIN ss
  <2> DEFINE A == DOMAIN ss
  <2> HIDE DEF A
  <2>1. st \in Seq(A) /\ m \in DOMAIN st
    BY <1>2, <1>4 DEF A
  <2>2. st[m] \in A
    BY <2>1
  <2>3. QED
    BY <2>2 DEF A
<1>6. FrameFields \subseteq DOMAIN f /\ f.path \in Seq(Labels)
  BY <1>2, <1>4 DEF Visiting, Frames
<1>7. Tops(ss, body, st, ff, s, f)
  <2>1. CASE m = 1
    <3>1. l = 1 \/ (l = 2 /\ l = m + 1)
      BY <1>3, <2>1 DEF Lens
    <3>2. QED
      BY <1>3, <2>1, <3>1 DEF Tops, m, l
  <2>2. CASE m # 1
    <3>1. m > 1 /\ l > 1 /\ Beside(m, l, m, l)
      BY <1>3, <2>2, LensMore
    <3>2. Framed(ss, body, st[m - 1], st[m], ff[l - 1].path, ff[l])
      BY <1>3, <3>1 DEF Holds
    <3>3. QED
      BY <3>1, <3>2 DEF Tops, m, l
  <2>3. QED
    BY <2>1, <2>2
<1>8. Leads(ss, <<>>, 1)
  BY LeadsRoot
<1> HIDE DEF s, f
<1>9. Nameable(f.path) => Leads(ss, f.path, s)
  BY <1>7, <1>8 DEF Tops, RootFrame, UnitFrame, Framed
<1>10. QED
  BY <1>4, <1>5, <1>6, <1>7, <1>9 DEF s, f, m, l

LEMMA FrontFacts ==
  ASSUME NEW S, NEW q \in Seq(S), Len(q) > 1
  PROVE  /\ Front(q) \in Seq(S) /\ Len(Front(q)) = Len(q) - 1 /\ Len(q) \in Nat
         /\ \A i \in 1 .. Len(q) - 1 : Front(q)[i] = q[i]
BY DEF Front

LEMMA VisitingPop ==
  ASSUME NEW ss, NEW body, NEW st, NEW ff, Visiting(ss, body, st, ff), Tree(ss, body),
         Len(ff) > 1
  PROVE  IF ff[Len(ff)].opens
         THEN Len(st) > 1 /\ Visiting(ss, body, Front(st), Front(ff))
         ELSE Visiting(ss, body, st, Front(ff))
<1> DEFINE gg == Front(ff)
           sst == Front(st)
           m == Len(st)
           l == Len(ff)
<1>0. Tops(ss, body, st, ff, st[m], ff[l])
  BY TopFrame
<1>1. PICK S : ff \in Seq(S)
  BY DEF Visiting, Frames
<1>2. /\ gg \in Seq(S) /\ Len(gg) = l - 1 /\ l \in Nat
      /\ \A i \in 1 .. l - 1 : gg[i] = ff[i]
  BY <1>1, FrontFacts
<1>3. Frames(gg)
  <2>1. DOMAIN gg = 1 .. l - 1 /\ DOMAIN gg \subseteq DOMAIN ff
    BY <1>1, <1>2
  <2>2. QED
    BY <1>2, <2>1 DEF Visiting, Frames
<1> HIDE DEF gg
<1>4. /\ Lens(m, l) /\ RootFrame(ff[1]) /\ (l = m + 1 => UnitFrame(ff[2])) /\ st[1] = 1
      /\ \A j, k : Beside(m, l, j, k) => Holds(ss, body, st, ff, j, k)
      /\ st \in Seq(DOMAIN ss)
  BY DEF Visiting
<1>5. CASE ff[l].opens
  <2>1. m > 1 /\ m # 1
    <3>1. m > 1
      BY <1>0, <1>5 DEF Tops, RootFrame, UnitFrame
    <3>2. m \in Nat
      BY <1>4, LensFacts
    <3> HIDE DEF m
    <3>3. QED
      BY <3>1, <3>2
  <2>2. /\ sst \in Seq(DOMAIN ss) /\ Len(sst) = m - 1
        /\ \A i \in 1 .. m - 1 : sst[i] = st[i]
    BY <1>4, <2>1, FrontFacts
  <2> HIDE DEF sst, m, l
  <2>3. /\ Lens(m - 1, l - 1) /\ 1 \in 1 .. m - 1 /\ 1 \in 1 .. l - 1
        /\ l - 1 = (m - 1) + 1 => l = m + 1 /\ 2 \in 1 .. l - 1
    BY <1>4, <2>1, LensMore
  <2>4. RootFrame(gg[1]) /\ (l - 1 = (m - 1) + 1 => UnitFrame(gg[2])) /\ sst[1] = 1
    BY <1>2, <1>4, <2>2, <2>3
  <2>5. ASSUME NEW j, NEW k, Beside(m - 1, l - 1, j, k) PROVE Holds(ss, body, sst, gg, j, k)
    <3>1. /\ Beside(m, l, j, k) /\ j \in 1 .. m - 1 /\ j - 1 \in 1 .. m - 1
          /\ k \in 1 .. l - 1 /\ k - 1 \in 1 .. l - 1
      BY <1>4, <2>1, <2>5, LevelLess
    <3>2. Framed(ss, body, st[j - 1], st[j], ff[k - 1].path, ff[k])
      BY <1>4, <3>1 DEF Holds
    <3>3. sst[j] = st[j] /\ sst[j - 1] = st[j - 1] /\ gg[k] = ff[k] /\ gg[k - 1] = ff[k - 1]
      BY <1>2, <2>2, <3>1
    <3>4. QED
      BY <3>2, <3>3 DEF Holds
  <2>6. Visiting(ss, body, sst, gg)
    BY <1>2, <1>3, <2>2, <2>3, <2>4, <2>5 DEF Visiting
  <2>7. QED
    BY <1>5, <2>1, <2>6 DEF gg, sst, m, l
<1>6. CASE ~ff[l].opens
  <2>1. m = 1 /\ l = 2
    <3>1. l > 1
      OBVIOUS
    <3>2. l = 1 \/ (m = 1 /\ l = 2) \/ ff[l].opens
      BY <1>0 DEF Tops, Framed
    <3> HIDE DEF m, l
    <3>3. l # 1
      BY <3>1
    <3>4. QED
      BY <1>6, <3>2, <3>3
  <2> HIDE DEF m, l
  <2>2. Len(gg) = 1 /\ gg[1] = ff[1]
    BY <1>2, <2>1
  <2>3. Lens(1, 1) /\ \A j, k : ~Beside(1, 1, j, k)
    BY DEF Lens, Beside
  <2>4. Visiting(ss, body, st, gg)
    BY <1>3, <1>4, <2>1, <2>2, <2>3 DEF Visiting, m
  <2>5. QED
    BY <1>6, <2>4 DEF gg, l
<1>7. QED
  BY <1>5, <1>6

-----------------------------------------------------------------------------
(* The index during the visit.                                             *)

Noted(syms) == \A r \in DOMAIN syms : "name" \in DOMAIN syms[r]
                                      /\ <<syms[r].name, r>> \in Declared
Held(ss, reg) ==
  \A k \in DOMAIN reg : reg[k] \in DOMAIN ss \ {1} /\ ss[reg[k]].range.file = k[1]

(* A path of the design ends at the scope that holds the symbol.           *)
HeldBy(ss, e, q, name, s) ==
  /\ e[1] = Append(q, name) /\ name # "" /\ name \in Labels /\ Leads(ss, q, s)
  /\ name \in DOMAIN ss[s].content /\ ss[s].content[name] = e[2]
Heard(ss, el) == \A e \in el : \E q, name, s : HeldBy(ss, e, q, name, s)

Fits(ss, body, syms, reg, el) ==
  Tree(ss, body) /\ Noted(syms) /\ Held(ss, reg) /\ Heard(ss, el)
Phased(ss, body, ph, st, ff) ==
  \/ ph = "visit" /\ Visiting(ss, body, st, ff)
  \/ ph \in {"refer", "ready", "null"} /\ st = <<>>
Shape(ss, body, syms, reg, el, ph, st, ff) ==
  Fits(ss, body, syms, reg, el) /\ Phased(ss, body, ph, st, ff)
TreeInv ==
  \E body : Shape(scopes, body, symbols, registered, elaborated, phase, stack, frames)

LEMMA HeldKeeps ==
  ASSUME NEW ss, NEW body, NEW tt, NEW new, Keeps(ss, body, tt, new), NEW reg, Held(ss, reg)
  PROVE  Held(tt, reg)
<1> SUFFICES ASSUME NEW k \in DOMAIN reg
             PROVE  reg[k] \in DOMAIN tt \ {1} /\ tt[reg[k]].range.file = k[1]
  BY DEF Held
<1>1. reg[k] \in DOMAIN ss \ {1} /\ ss[reg[k]].range.file = k[1]
  BY DEF Held
<1>2. reg[k] \in DOMAIN tt /\ Same(ss, tt, reg[k])
  BY <1>1 DEF Keeps
<1>3. QED
  BY <1>1, <1>2 DEF Same

LEMMA HeldByKeeps ==
  ASSUME NEW ss, NEW body, NEW tt, NEW new, Tree(ss, body), Keeps(ss, body, tt, new),
         NEW e, NEW q, NEW name, NEW s, HeldBy(ss, e, q, name, s)
  PROVE  HeldBy(tt, e, q, name, s)
<1>1. Leads(ss, q, s)
  BY DEF HeldBy
<1>2. Leads(tt, q, s) /\ s \in DOMAIN ss
  BY <1>1, LeadsKeeps, LeadsIn
<1>3. name # "" /\ name \in DOMAIN ss[s].content /\ ss[s].content[name] = e[2]
  BY DEF HeldBy
<1>4. name \in DOMAIN tt[s].content /\ tt[s].content[name] = e[2]
  BY <1>2, <1>3 DEF Keeps
<1>5. QED
  BY <1>2, <1>4 DEF HeldBy

LEMMA FitsKeeps ==
  ASSUME NEW ss, NEW body, NEW tt, NEW new, Keeps(ss, body, tt, new), Tree(tt, new),
         NEW syms, NEW reg, NEW el, Fits(ss, body, syms, reg, el)
  PROVE  Fits(tt, new, syms, reg, el)
<1>1. Tree(ss, body) /\ Held(ss, reg) /\ Heard(ss, el) /\ Noted(syms)
  BY DEF Fits
<1>2. Held(tt, reg)
  BY <1>1, HeldKeeps
<1>3. ASSUME NEW e \in el PROVE \E q, name, s : HeldBy(tt, e, q, name, s)
  <2>1. PICK q, name, s : HeldBy(ss, e, q, name, s)
    BY <1>1 DEF Heard
  <2>2. HeldBy(tt, e, q, name, s)
    BY <1>1, <2>1, HeldByKeeps
  <2>3. QED
    BY <2>2
<1>4. Heard(tt, el)
  BY <1>3 DEF Heard
<1>5. QED
  BY <1>1, <1>2, <1>4 DEF Fits

(* Symbols.                                                                *)
LEMMA NamedAt ==
  ASSUME Noted(symbols), NEW name, NEW range, <<name, range>> \in Declared
  PROVE  NameAt(name, range) = name
<1>1. CASE range \in DOMAIN symbols
  <2> DEFINE d == <<symbols[range].name, range>>
             e == <<name, range>>
  <2>1. d \in Declared /\ e \in Declared
    BY <1>1 DEF Noted
  <2>2. d[2] = e[2] /\ d[1] = symbols[range].name /\ e[1] = name
    OBVIOUS
  <2> HIDE DEF d, e
  <2>3. d[1] = e[1]
    BY <2>1, <2>2, WordAssumption
  <2>4. QED
    BY <1>1, <2>2, <2>3 DEF NameAt
<1>2. CASE range \notin DOMAIN symbols
  BY <1>2 DEF NameAt
<1>3. QED
  BY <1>1, <1>2

LEMMA NotedAdd ==
  ASSUME Noted(symbols), NEW name, NEW range, <<name, range>> \in Declared,
         AddSymbol(name, range)
  PROVE  Noted(symbols')
<1>1. CASE range \in DOMAIN symbols
  BY <1>1 DEF AddSymbol
<1>2. CASE range \notin DOMAIN symbols
  <2> DEFINE v == [name |-> name, refs |-> {}]
  <2>1. "name" \in DOMAIN v /\ v.name = name
    OBVIOUS
  <2>2. symbols' = Put(symbols, range, v)
    BY <1>2 DEF AddSymbol
  <2> HIDE DEF v
  <2>3. DOMAIN symbols' = DOMAIN symbols \cup {range} /\ symbols'[range] = v
        /\ \A r \in DOMAIN symbols : r # range => symbols'[r] = symbols[r]
    BY <2>2 DEF Put
  <2>4. QED
    BY <2>1, <2>3 DEF Noted
<1>3. QED
  BY <1>1, <1>2

LEMMA NotedReference ==
  ASSUME Noted(symbols), NEW t \in DOMAIN symbols, NEW r, AddReference(t, r)
  PROVE  Noted(symbols')
<1> DEFINE more == [symbols EXCEPT ![t].refs = @ \cup {r}]
<1>1. symbols' = symbols \/ symbols' = more
  BY DEF AddReference
<1>2. Noted(more)
  <2>1. DOMAIN more = DOMAIN symbols
    OBVIOUS
  <2>2. ASSUME NEW s \in DOMAIN symbols
        PROVE  "name" \in DOMAIN more[s] /\ more[s].name = symbols[s].name
    <3>1. "name" \in DOMAIN symbols[s]
      BY DEF Noted
    <3>2. CASE s = t
      <4>1. more[s] = [symbols[s] EXCEPT !.refs = @ \cup {r}]
        BY <3>2
      <4>2. QED
        BY <3>1, <4>1
    <3>3. CASE s # t
      BY <3>1, <3>3
    <3>4. QED
      BY <3>2, <3>3
  <2> HIDE DEF more
  <2>3. QED
    BY <2>1, <2>2 DEF Noted
<1>3. QED
  BY <1>1, <1>2

(* The members of a scope are those of its body.                           *)
LEMMA PresentsLevel ==
  ASSUME NEW body, Tree(scopes, body), Visiting(scopes, body, stack, frames),
         NEW n \in Nodes, Presents(n)
  PROVE  /\ Level(n) = body[Current] /\ Current \in DOMAIN scopes
         /\ Text[n].kind = "unit" => Len(frames) = 1
<1>1. /\ Current \in DOMAIN scopes /\ Tops(scopes, body, stack, frames, Current, Frame)
  BY TopFrame DEF Current, Frame
<1>2. Text[n].in = Frame.node
  BY DEF Presents, Members
<1>3. body[1] = 0
  BY DEF Tree, Planted
<1>4. Text[n].kind = "unit" => Text[n].in = 0
  BY TextAssumption
<1>5. CASE Current = 1 /\ Len(frames) = 1 /\ RootFrame(Frame)
  BY <1>1, <1>2, <1>3, <1>5 DEF RootFrame, Level
<1>6. CASE Current = 1 /\ UnitFrame(Frame)
  <2>1. Frame.node # 0 /\ Text[Frame.node].kind = "unit"
    BY <1>6, NodeFacts DEF UnitFrame
  <2>2. QED
    BY <1>1, <1>2, <1>3, <1>4, <1>6, <2>1 DEF Level
<1>7. CASE Frame.opens /\ Frame.owner \in Openers /\ Frame.node = Body(Frame.owner)
           /\ Frame.node = body[Current]
  <2>1. Frame.node \in Nodes /\ Text[Frame.node].kind # "unit"
    <3>1. CASE Text[Frame.owner].kind = "instance"
      <4> DEFINE o == Frame.owner
      <4>1. Frame.node = Text[o].of /\ Text[Text[o].of].kind = "module" /\ Body(o) \in Nodes
        BY <1>7, <3>1, OpenerFacts
      <4>2. QED
        BY <1>7, <4>1
    <3>2. CASE Text[Frame.owner].kind # "instance"
      BY <1>7, <3>2, OpenerFacts DEF Openers
    <3>3. QED
      BY <3>1, <3>2
  <2>2. Frame.node # 0
    BY <2>1, NodeFacts
  <2>3. QED
    BY <1>1, <1>2, <1>4, <1>7, <2>1, <2>2 DEF Level
<1>8. QED
  BY <1>1, <1>5, <1>6, <1>7 DEF Tops, Framed

LEMMA NameableAppend ==
  ASSUME NEW path \in Seq(Labels), NEW name \in Labels, Nameable(Append(path, name))
  PROVE  name # "" /\ Nameable(path)
<1> DEFINE q == Append(path, name)
<1>1. /\ q \in Seq(Labels) /\ Len(path) \in Nat /\ Len(q) = Len(path) + 1
      /\ q[Len(path) + 1] = name /\ \A i \in 1 .. Len(path) : q[i] = path[i]
  BY AppendFacts
<1>2. DOMAIN path = 1 .. Len(path) /\ DOMAIN q = 1 .. Len(q)
  BY <1>1
<1> HIDE DEF q
<1>3. Len(path) + 1 \in DOMAIN q /\ \A i \in DOMAIN path : i \in DOMAIN q
  BY <1>1, <1>2
<1>4. \A i \in DOMAIN q : q[i] # ""
  BY DEF Nameable, q
<1>5. name # ""
  BY <1>1, <1>3, <1>4
<1>6. \A i \in DOMAIN path : path[i] # ""
  BY <1>1, <1>2, <1>3, <1>4
<1>7. QED
  BY <1>5, <1>6 DEF Nameable

(* Entering a scope.                                                       *)
LEMMA OpensVisiting ==
  ASSUME NEW ss, NEW body, Tree(ss, body), Visiting(ss, body, stack, frames),
         NEW n \in Openers, Level(n) = body[Current], Current \in DOMAIN ss,
         NEW new, NEW id, NEW called, Opens(ss, body, new, n, id, called)
  PROVE  Visiting(scopes', new, stack', frames')
<1> DEFINE f == ScopeFrame(Body(n), called, n, Inner(Text[n].name))
           name == Text[n].name
<1>1. Tree(scopes', new) /\ Keeps(ss, body, scopes', new)
  BY DEF Opens, Grows
<1>2. /\ id \in DOMAIN scopes' \ {1} /\ scopes'[id].parent = Current /\ new[id] = Body(n)
      /\ name # "" => Find(scopes', Current, name) = id
      /\ scopes'[id].name = called \/ (scopes'[id].anonymous /\ called = "")
  BY DEF Opens, Arrived
<1>3. stack' = Append(stack, id) /\ frames' = Append(Passed(n), f)
  BY DEF Opens, Enters
<1>4. Visiting(scopes', new, stack, frames)
  BY <1>1, VisitingKeeps
<1>5. /\ Visiting(scopes', new, stack, Passed(n)) /\ Len(Passed(n)) = Len(frames)
      /\ \A j \in 1 .. Len(frames) : Passed(n)[j].path = frames[j].path
  <2>1. Passes(scopes', new, stack, frames, Passed(n))
    BY <1>4, VisitingPassed DEF Passed
  <2>2. QED
    BY <2>1 DEF Passes
<1>6. /\ Frame.path \in Seq(Labels) /\ Len(frames) \in Nat \ {0}
      /\ Nameable(Frame.path) => Leads(scopes', Frame.path, Current)
  BY <1>1, <1>4, TopFrame DEF Frame, Current
<1>7. Passed(n)[Len(Passed(n))].path = Frame.path
  <2>1. Len(frames) \in 1 .. Len(frames)
    BY <1>6
  <2>2. QED
    BY <1>5, <2>1 DEF Frame
<1>8. name \in Labels
  BY DEF Labels, Openers
<1>9. /\ FrameFields \subseteq DOMAIN f /\ f.node = Body(n) /\ f.opens /\ f.name = called
      /\ f.owner = n /\ f.path = Append(Frame.path, name)
  BY DEF ScopeFrame, FrameFields, Inner
<1> HIDE DEF f, name
<1>10. f.path \in Seq(Labels)
  BY <1>6, <1>8, <1>9
<1>11. ASSUME Nameable(f.path) PROVE Leads(scopes', f.path, id)
  <2>1. name # "" /\ Nameable(Frame.path)
    BY <1>6, <1>8, <1>9, <1>11, NameableAppend
  <2>2. QED
    BY <1>2, <1>6, <1>8, <1>9, <2>1, LeadsAppend
<1>12. Current \in DOMAIN scopes' /\ Level(n) = new[Current]
  BY <1>1 DEF Keeps
<1>13. Framed(scopes', new, Current, id, Frame.path, f)
  BY <1>2, <1>9, <1>11, <1>12 DEF Framed, name
<1>14. Visiting(scopes', new, Append(stack, id), Append(Passed(n), f))
  BY <1>5, <1>7, <1>9, <1>10, <1>13, VisitingPush DEF Current
<1>15. QED
  BY <1>3, <1>14

LEMMA OpensHeld ==
  ASSUME NEW ss, NEW body, NEW n, NEW new, NEW id, NEW called,
         Opens(ss, body, new, n, id, called), Held(ss, registered)
  PROVE  Held(scopes', registered')
<1>1. Tree(scopes', new) /\ Keeps(ss, body, scopes', new)
  BY DEF Opens, Grows
<1>2. Held(scopes', registered)
  BY <1>1, HeldKeeps
<1>3. id \in DOMAIN scopes' \ {1} /\ new[id] = Body(n)
  BY DEF Opens, Arrived
<1>4. scopes'[id].range.file = Text[Body(n)].range.file
  BY <1>1, <1>3 DEF Tree, Branched, Branch
<1>5. CASE registered' = registered
  BY <1>2, <1>5
<1>6. ASSUME NEW k, k[1] = Text[Body(n)].range.file, registered' = Put(registered, k, id)
      PROVE  Held(scopes', registered')
  <2>1. DOMAIN registered' = DOMAIN registered \cup {k} /\ registered'[k] = id
        /\ \A j \in DOMAIN registered : j # k => registered'[j] = registered[j]
    BY <1>6 DEF Put
  <2>2. QED
    BY <1>2, <1>3, <1>4, <1>6, <2>1 DEF Held
<1>7. QED
  BY <1>5, <1>6 DEF Opens, Registers

LEMMA OpensFits ==
  ASSUME NEW ss, NEW body, NEW n, NEW new, NEW id, NEW called,
         Opens(ss, body, new, n, id, called), NEW syms, NEW el,
         Fits(ss, body, syms, registered, el)
  PROVE  Fits(scopes', new, syms, registered', el)
<1>1. Tree(scopes', new) /\ Keeps(ss, body, scopes', new)
  BY DEF Opens, Grows
<1>2. Fits(scopes', new, syms, registered, el)
  BY <1>1, FitsKeeps
<1>3. Held(ss, registered)
  BY DEF Fits
<1>4. Held(scopes', registered')
  BY <1>3, OpensHeld
<1>5. QED
  BY <1>2, <1>4 DEF Fits

-----------------------------------------------------------------------------
(* The steps keep the tree.                                                *)

LEMMA DeclaredFacts ==
  /\ \A n \in Nodes : Text[n].kind \in {"symbol", "instance"} /\ ~Top(n)
                      => <<Text[n].name, Text[n].range>> \in Declared
  /\ \A n \in Nodes : Identified(n) => <<Text[n].name, Text[n].id>> \in Declared
BY DEF Declared

LEMMA VisitFacts ==
  ASSUME NEW body, Shape(scopes, body, symbols, registered, elaborated, phase, stack, frames),
         phase = "visit"
  PROVE  /\ Tree(scopes, body) /\ Noted(symbols) /\ Held(scopes, registered)
         /\ Heard(scopes, elaborated) /\ Visiting(scopes, body, stack, frames)
         /\ Fits(scopes, body, symbols, registered, elaborated)
BY DEF Shape, Fits, Phased

LEMMA InitTree == Init => TreeInv
<1> SUFFICES ASSUME Init PROVE TreeInv
  OBVIOUS
<1> DEFINE root == NewScope("$root", None, <<>>, FALSE, FALSE)
           body == [s \in {1} |-> 0]
           f == [node |-> 0, last |-> 0, opens |-> FALSE, name |-> "", owner |-> 0,
                 path |-> <<>>]
<1>1. /\ root.parent = None /\ root.path = <<>> /\ root.range = NoRange
      /\ DOMAIN root.children = {} /\ DOMAIN root.aliases = {} /\ DOMAIN root.content = {}
      /\ root.unnamed = 0 /\ Fields \subseteq DOMAIN root
  BY DEF NewScope, Fields, Empty
<1>2. scopes = <<root>> /\ stack = <<1>> /\ frames = <<f>>
  BY DEF Init
<1>3. /\ f.node = 0 /\ ~f.opens /\ f.path = <<>> /\ FrameFields \subseteq DOMAIN f
  BY DEF FrameFields
<1> HIDE DEF root, f
<1>4. /\ scopes \in Seq({root}) /\ DOMAIN scopes = {1} /\ scopes[1] = root
      /\ frames \in Seq({f}) /\ DOMAIN frames = {1} /\ frames[1] = f /\ Len(frames) = 1
      /\ Len(stack) = 1 /\ stack[1] = 1 /\ stack \in Seq({1})
  BY <1>2
<1>5. 0 \in 0 .. Len(UnnamedIds) /\ 0 \in 0 .. Len(Text)
  BY IdLength, NodeFacts
<1>6. body \in [DOMAIN scopes -> 0 .. Len(Text)] /\ body[1] = 0
  BY <1>4, <1>5
<1> HIDE DEF body
<1>7. Built(scopes) /\ Planted(scopes, body)
  BY <1>1, <1>4, <1>5, <1>6 DEF Built, Planted
<1>8. Branched(scopes, body) /\ Siblings(scopes, body)
  BY <1>4 DEF Branched, Siblings
<1>9. Bears(scopes) /\ Aliased(scopes, body) /\ Written(scopes, body) /\ Distinct(scopes)
  BY <1>1, <1>4 DEF Bears, Aliased, Written, Distinct
<1>10. Tree(scopes, body)
  BY <1>7, <1>8, <1>9 DEF Tree
<1>11. DOMAIN symbols = {} /\ DOMAIN registered = {} /\ elaborated = {} /\ phase = "visit"
  BY DEF Init, Empty
<1>12. Fits(scopes, body, symbols, registered, elaborated)
  BY <1>10, <1>11 DEF Fits, Noted, Held, Heard
<1>13. Frames(frames) /\ RootFrame(frames[1])
  <2>1. <<>> \in Seq(Labels)
    OBVIOUS
  <2>2. QED
    BY <1>3, <1>4, <2>1 DEF Frames, RootFrame
<1>14. Lens(1, 1) /\ \A j, k : ~Beside(1, 1, j, k)
  BY DEF Lens, Beside
<1>15. Visiting(scopes, body, stack, frames)
  BY <1>4, <1>13, <1>14 DEF Visiting
<1>16. QED
  BY <1>11, <1>12, <1>15 DEF TreeInv, Shape, Phased

LEMMA UnitTree ==
  ASSUME TreeInv, NEW n \in Nodes, HandleUnit(n)
  PROVE  TreeInv'
<1>1. PICK body : Shape(scopes, body, symbols, registered, elaborated, phase, stack, frames)
  BY DEF TreeInv
<1>2. Presents(n) /\ Text[n].kind = "unit" /\ phase = "visit"
  BY DEF HandleUnit, Presents
<1>3. Tree(scopes, body) /\ Visiting(scopes, body, stack, frames)
      /\ Fits(scopes, body, symbols, registered, elaborated)
  BY <1>1, <1>2, VisitFacts
<1>4. Len(frames) = 1
  BY <1>2, <1>3, PresentsLevel
<1> DEFINE f == NoScopeFrame(n)
<1>5. FrameFields \subseteq DOMAIN f /\ f.node = n /\ ~f.opens /\ f.path = <<>>
  <2>1. RootFrame(Frame)
    BY <1>4 , <1>3 DEF Frame, Visiting
  <2>2. f.path = IF frames = <<>> THEN <<>> ELSE Frame.path
    BY DEF NoScopeFrame
  <2>3. f.path = <<>>
    BY <2>1, <2>2 DEF RootFrame
  <2>4. QED
    BY <2>3 DEF NoScopeFrame, FrameFields
<1> HIDE DEF f
<1>6. Passes(scopes, body, stack, frames, Passed(n))
  BY <1>3, VisitingPassed DEF Passed
<1>7. UnitFrame(f)
  BY <1>2, <1>5 DEF UnitFrame
<1>8. Visiting(scopes, body, stack, Append(Passed(n), f))
  BY <1>4, <1>5, <1>6, <1>7, VisitingUnit DEF Passes
<1>9. /\ frames' = Append(Passed(n), f)
      /\ UNCHANGED <<scopes, stack, symbols, registered, phase, elaborated>>
  BY DEF HandleUnit, f
<1>10. Shape(scopes', body, symbols', registered', elaborated', phase', stack', frames')
  BY <1>2, <1>3, <1>8, <1>9 DEF Shape, Phased
<1>11. QED
  BY <1>10 DEF TreeInv

LEMMA ImportTree ==
  ASSUME TreeInv, NEW n \in Nodes, HandleImport(n)
  PROVE  TreeInv'
<1>1. PICK body : Shape(scopes, body, symbols, registered, elaborated, phase, stack, frames)
  BY DEF TreeInv
<1>2. phase = "visit"
  BY DEF HandleImport, Presents
<1>3. Visiting(scopes, body, stack, frames)
      /\ Fits(scopes, body, symbols, registered, elaborated)
  BY <1>1, <1>2, VisitFacts
<1>4. Visiting(scopes, body, stack, Passed(n))
  <2>1. Passes(scopes, body, stack, frames, Passed(n))
    BY <1>3, VisitingPassed DEF Passed
  <2>2. QED
    BY <2>1 DEF Passes
<1>5. /\ frames' = Passed(n)
      /\ UNCHANGED <<scopes, stack, symbols, registered, phase, elaborated>>
  BY DEF HandleImport
<1>6. Shape(scopes', body, symbols', registered', elaborated', phase', stack', frames')
  BY <1>2, <1>3, <1>4, <1>5 DEF Shape, Phased
<1>7. QED
  BY <1>6 DEF TreeInv

(* A symbol, or the name of an instance, is declared in the open scope.     *)
Adds(ss, n) ==
  /\ AddSymbol(Text[n].name, Text[n].range)
  /\ ss = Registering(scopes, Current, Text[n].name, Text[n].range)
  /\ Elaborates(Text[n].name, Text[n].range)

LEMMA AddsFits ==
  ASSUME Unambiguous, NEW body,
         Shape(scopes, body, symbols, registered, elaborated, phase, stack, frames),
         NEW n \in Nodes, Presents(n), Text[n].kind \in {"symbol", "instance"}, ~Top(n),
         NEW ss, Adds(ss, n)
  PROVE  /\ Fits(ss, body, symbols', registered, elaborated')
         /\ Visiting(ss, body, stack, frames) /\ Tree(ss, body)
         /\ Current \in DOMAIN ss /\ Level(n) = body[Current]
         /\ ss[Current].unnamed = scopes[Current].unnamed
<1> DEFINE name == Text[n].name
           range == Text[n].range
<1>1. phase = "visit"
  BY DEF Presents
<1>2. Tree(scopes, body) /\ Visiting(scopes, body, stack, frames) /\ Noted(symbols)
      /\ Held(scopes, registered) /\ Heard(scopes, elaborated)
      /\ Fits(scopes, body, symbols, registered, elaborated)
  BY <1>1, VisitFacts
<1>3. Level(n) = body[Current] /\ Current \in DOMAIN scopes
  BY <1>2, PresentsLevel
<1>4. <<name, range>> \in Declared
  BY DeclaredFacts
<1>5. NameAt(name, range) = name
  BY <1>2, <1>4, NamedAt
<1>6. Entry(body[Current], name, range)
  BY <1>3 DEF Entry
<1>7. /\ Tree(ss, body) /\ Keeps(scopes, body, ss, body)
      /\ name \in DOMAIN ss[Current].content /\ ss[Current].content[name] = range
      /\ DOMAIN ss = DOMAIN scopes /\ ss[Current].unnamed = scopes[Current].unnamed
  <2> DEFINE c == NameAt(name, range)
  <2>1. Entry(body[Current], c, range) /\ c = name
    BY <1>5, <1>6
  <2>2. ss = Registering(scopes, Current, name, range)
    BY DEF Adds
  <2> HIDE DEF c, name, range
  <2>3. LET tt == Registering(scopes, Current, name, range)
        IN  /\ Tree(tt, body) /\ Keeps(scopes, body, tt, body)
            /\ c \in DOMAIN tt[Current].content /\ tt[Current].content[c] = range
            /\ DOMAIN tt = DOMAIN scopes
            /\ \A s \in DOMAIN scopes : tt[s].unnamed = scopes[s].unnamed
    BY <1>2, <1>3, <2>1, RegisterTree DEF c
  <2>4. QED
    BY <1>3, <2>1, <2>2, <2>3
<1>8. Visiting(ss, body, stack, frames)
  BY <1>2, <1>7, VisitingKeeps
<1>9. Noted(symbols')
  <2>1. AddSymbol(name, range)
    BY DEF Adds
  <2> HIDE DEF name, range
  <2>2. QED
    BY <1>2, <1>4, <2>1, NotedAdd
<1>10. Fits(ss, body, symbols, registered, elaborated)
  BY <1>2, <1>7, FitsKeeps
<1>11. name \in Labels
  BY DEF Labels
<1>12. Heard(ss, elaborated')
  <2>1. Heard(ss, elaborated)
    BY <1>10 DEF Fits
  <2>2. /\ Frame.path \in Seq(Labels)
        /\ Nameable(Frame.path) => Leads(ss, Frame.path, Current)
    BY <1>7, <1>8, TopFrame DEF Frame, Current
  <2> DEFINE e == <<Inner(name), range>>
  <2>3. \/ elaborated' = elaborated
        \/ Nameable(Inner(name)) /\ elaborated' = elaborated \cup {e}
    BY DEF Adds, Elaborates
  <2>4. CASE Nameable(Inner(name)) /\ elaborated' = elaborated \cup {e}
    <3>1. name # "" /\ Nameable(Frame.path)
      <4>1. Nameable(Append(Frame.path, name))
        BY <2>4 DEF Inner
      <4> HIDE DEF name
      <4>2. QED
        BY <1>11, <2>2, <4>1, NameableAppend
    <3>2. e[1] = Append(Frame.path, name) /\ e[2] = range
      BY DEF Inner
    <3> HIDE DEF e, name, range
    <3>3. HeldBy(ss, e, Frame.path, name, Current)
      BY <1>7, <1>11, <2>2, <3>1, <3>2 DEF HeldBy
    <3>4. QED
      BY <2>1, <2>4, <3>3 DEF Heard
  <2>5. QED
    BY <2>1, <2>3, <2>4
<1>13. QED
  BY <1>3, <1>7, <1>8, <1>9, <1>10, <1>12 DEF Fits

LEMMA SymbolTree ==
  ASSUME Unambiguous, TreeInv, NEW n \in Nodes, HandleSymbol(n)
  PROVE  TreeInv'
<1>1. PICK body : Shape(scopes, body, symbols, registered, elaborated, phase, stack, frames)
  BY DEF TreeInv
<1>2. Presents(n) /\ phase = "visit" /\ Text[n].kind = "symbol" /\ Adds(scopes', n)
  BY DEF HandleSymbol, Presents, Adds
<1>3. ~Top(n)
  BY <1>2 DEF Top
<1>4. Fits(scopes', body, symbols', registered, elaborated')
      /\ Visiting(scopes', body, stack, frames)
  BY <1>1, <1>2, <1>3, AddsFits
<1>5. Visiting(scopes', body, stack, Passed(n))
  <2>1. Passes(scopes', body, stack, frames, Passed(n))
    BY <1>4, VisitingPassed DEF Passed
  <2>2. QED
    BY <2>1 DEF Passes
<1>6. frames' = Passed(n) /\ UNCHANGED <<stack, registered, phase>>
  BY DEF HandleSymbol
<1>7. Shape(scopes', body, symbols', registered', elaborated', phase', stack', frames')
  BY <1>2, <1>4, <1>5, <1>6 DEF Shape, Phased
<1>8. QED
  BY <1>7 DEF TreeInv

(* ... and an opener opens its scope there.                                *)
LEMMA OpenedTree ==
  ASSUME Unambiguous, NEW ss, NEW body, Visiting(ss, body, stack, frames), NEW syms, NEW el,
         Fits(ss, body, syms, registered, el), phase = "visit", NEW n \in Openers,
         Level(n) = body[Current], Current \in DOMAIN ss,
         Text[n].name = "" => ss[Current].unnamed < Len(UnnamedIds),
         OpenScope(ss, Body(n), n, Text[n].name, Virtual(n))
  PROVE  \E new : Shape(scopes', new, syms, registered', el, phase', stack', frames')
<1>1. Tree(ss, body)
  BY DEF Fits
<1>2. Opening(ss, body, Current, n)
  BY <1>1 DEF Opening
<1>3. PICK new, id, called : Opens(ss, body, new, n, id, called)
  BY <1>2, OpenScopeTree
<1>4. Visiting(scopes', new, stack', frames')
  BY <1>1, <1>3, OpensVisiting
<1>5. Fits(scopes', new, syms, registered', el)
  BY <1>3, OpensFits
<1>6. phase' = "visit"
  BY <1>3 DEF Opens
<1>7. QED
  BY <1>4, <1>5, <1>6 DEF Shape, Phased

LEMMA ScopeTree ==
  ASSUME Unambiguous, TreeInv, NEW n \in Nodes, HandleScope(n)
  PROVE  TreeInv'
<1>1. PICK body : Shape(scopes, body, symbols, registered, elaborated, phase, stack, frames)
  BY DEF TreeInv
<1>2. Presents(n) /\ phase = "visit" /\ Text[n].kind \in {"package", "block", "function"}
  BY DEF HandleScope, Presents
<1>3. n \in Openers /\ Body(n) = n /\ Virtual(n) = TRUE
  BY <1>2 DEF Openers, Body, Virtual
<1>4. Tree(scopes, body) /\ Visiting(scopes, body, stack, frames)
      /\ Fits(scopes, body, symbols, registered, elaborated)
  BY <1>1, <1>2, VisitFacts
<1>5. Level(n) = body[Current] /\ Current \in DOMAIN scopes
  BY <1>2, <1>4, PresentsLevel
<1>6. Text[n].name = "" => scopes[Current].unnamed < Len(UnnamedIds)
  BY <1>2 DEF Presents
<1>7. OpenScope(scopes, Body(n), n, Text[n].name, Virtual(n))
  BY <1>3 DEF HandleScope
<1>8. \E new : Shape(scopes', new, symbols, registered', elaborated, phase', stack', frames')
  BY <1>2, <1>3, <1>4, <1>5, <1>6, <1>7, OpenedTree
<1>9. UNCHANGED <<symbols, elaborated>>
  BY DEF HandleScope
<1>10. QED
  BY <1>8, <1>9 DEF TreeInv

LEMMA InstanceTree ==
  ASSUME Unambiguous, TreeInv, NEW n \in Nodes, HandleInstance(n)
  PROVE  TreeInv'
<1>1. PICK body : Shape(scopes, body, symbols, registered, elaborated, phase, stack, frames)
  BY DEF TreeInv
<1>2. Presents(n) /\ phase = "visit" /\ Text[n].kind = "instance"
  BY DEF HandleInstance, Presents
<1>3. n \in Openers /\ Body(n) = Text[n].of /\ Virtual(n) = FALSE
  BY <1>2 DEF Openers, Body, Virtual
<1>4. Text[n].name = "" => scopes[Current].unnamed < Len(UnnamedIds)
  BY <1>2 DEF Presents
<1>5. CASE Text[n].range = NoRange \/ Text[n].name = ""
  <2>1. Tree(scopes, body) /\ Visiting(scopes, body, stack, frames)
        /\ Fits(scopes, body, symbols, registered, elaborated)
    BY <1>1, <1>2, VisitFacts
  <2>2. Level(n) = body[Current] /\ Current \in DOMAIN scopes
    BY <1>2, <2>1, PresentsLevel
  <2>3. OpenScope(scopes, Body(n), n, Text[n].name, Virtual(n))
        /\ UNCHANGED <<symbols, elaborated>>
    BY <1>3, <1>5 DEF HandleInstance
  <2>4. \E new : Shape(scopes', new, symbols, registered', elaborated, phase', stack', frames')
    BY <1>2, <1>3, <1>4, <2>1, <2>2, <2>3, OpenedTree
  <2>5. QED
    BY <2>3, <2>4 DEF TreeInv
<1>6. CASE ~(Text[n].range = NoRange \/ Text[n].name = "")
  <2> DEFINE ss == Registering(scopes, Current, Text[n].name, Text[n].range)
  <2>1. Adds(ss, n) /\ OpenScope(ss, Body(n), n, Text[n].name, Virtual(n))
    BY <1>3, <1>6 DEF HandleInstance, Adds
  <2>2. ~Top(n)
    BY <1>6, TextAssumption
  <2> HIDE DEF ss
  <2>3. /\ Fits(ss, body, symbols', registered, elaborated')
        /\ Visiting(ss, body, stack, frames)
        /\ Current \in DOMAIN ss /\ Level(n) = body[Current]
        /\ ss[Current].unnamed = scopes[Current].unnamed
    BY <1>1, <1>2, <2>1, <2>2, AddsFits
  <2>4. \E new : Shape(scopes', new, symbols', registered', elaborated', phase', stack',
                       frames')
    BY <1>2, <1>3, <1>4, <2>1, <2>3, OpenedTree
  <2>5. QED
    BY <2>4 DEF TreeInv
<1>7. QED
  BY <1>5, <1>6

-----------------------------------------------------------------------------
(* Leaving a scope.                                                        *)

(* What is found has a name.                                               *)
LEMMA FindNamed ==
  ASSUME NEW ss, NEW body, Tree(ss, body), NEW s \in DOMAIN ss, NEW name,
         Find(ss, s, name) # None
  PROVE  name # ""
<1>1. PICK n \in Openers : Calls(ss[s].unnamed, name, n)
  BY FindFacts
<1>2. n \in Nodes /\ ss[s].unnamed \in 0 .. Len(UnnamedIds)
  BY TreeFacts DEF Openers
<1>3. QED
  BY <1>1, <1>2, CallsLabels

LEMMA DeclaresFits ==
  ASSUME Unambiguous, NEW body, Fits(scopes, body, symbols, registered, elaborated),
         NEW at \in DOMAIN scopes, NEW name, NEW range, <<name, range>> \in Declared,
         Entry(body[at], name, range), AddSymbol(name, range),
         scopes' = Registering(scopes, at, name, range)
  PROVE  /\ Grows(scopes, body, scopes', body)
         /\ Fits(scopes', body, symbols', registered, elaborated)
<1>1. Tree(scopes, body) /\ Noted(symbols)
  BY DEF Fits
<1>2. NameAt(name, range) = name
  BY <1>1, NamedAt
<1>3. Tree(scopes', body) /\ Keeps(scopes, body, scopes', body)
  <2>1. Entry(body[at], NameAt(name, range), range)
    BY <1>2
  <2>2. LET tt == Registering(scopes, at, name, range)
        IN  Tree(tt, body) /\ Keeps(scopes, body, tt, body)
    BY <1>1, <2>1, RegisterTree
  <2>3. QED
    BY <2>2
<1>4. Fits(scopes', body, symbols, registered, elaborated)
  BY <1>3, FitsKeeps
<1>5. Noted(symbols')
  BY <1>1, NotedAdd
<1>6. QED
  BY <1>3, <1>4, <1>5 DEF Fits, Grows

LEMMA AfterCloseFits ==
  ASSUME Unambiguous, NEW body, Fits(scopes, body, symbols, registered, elaborated),
         NEW outer \in DOMAIN scopes, NEW n \in Openers, Level(n) = body[outer],
         AfterClose(outer, n)
  PROVE  /\ Grows(scopes, body, scopes', body)
         /\ Fits(scopes', body, symbols', registered, elaborated)
<1>1. Tree(scopes, body)
  BY DEF Fits
<1>2. n \in Nodes
  BY DEF Openers
<1>3. CASE Text[n].kind = "function"
  <2> DEFINE name == Text[n].name
             range == Text[n].id
  <2>1. AddSymbol(name, range) /\ scopes' = Registering(scopes, outer, name, range)
    BY <1>3 DEF AfterClose
  <2>2. <<name, range>> \in Declared
    BY <1>2, <1>3, DeclaredFacts DEF Identified, Top
  <2>3. Entry(body[outer], name, range)
    BY <1>2, <1>3 DEF Entry
  <2> HIDE DEF name, range
  <2>4. QED
    BY <2>1, <2>2, <2>3, DeclaresFits
<1>4. CASE Text[n].kind = "instance" /\ ScopeByName(outer, Text[n].name) # None
  <2> DEFINE inner == ScopeByName(outer, Text[n].name)
             o == Text[n].of
             name == Text[o].name
             range == Text[o].id
  <2>1. AddSymbol(name, range) /\ scopes' = Registering(scopes, inner, name, range)
    BY <1>4 DEF AfterClose
  <2>2. o \in Nodes /\ Text[o].kind = "module" /\ Body(n) = o
    BY <1>2, <1>4, TextAssumption DEF Body
  <2>3. inner = Find(scopes, outer, Text[n].name)
    BY DEF ScopeByName, Find
  <2>4. Text[n].name # ""
    <3>1. Find(scopes, outer, Text[n].name) # None
      BY <1>4, <2>3 DEF inner
    <3>2. QED
      BY <1>1, <3>1, FindNamed
  <2>5. inner \in DOMAIN scopes /\ body[inner] = o
    <3> HIDE DEF inner, o, name, range
    <3>1. Find(scopes, outer, Text[n].name) # None
      BY <1>4, <2>3 DEF inner
    <3>2. OpenerScope(scopes, body, outer, n, Find(scopes, outer, Text[n].name))
      BY <1>1, <2>4, <3>1, FindOpener
    <3>3. QED
      BY <2>2, <2>3, <3>2 DEF OpenerScope
  <2> HIDE DEF inner, o
  <2>6. <<name, range>> \in Declared
    BY <2>2, DeclaredFacts DEF Identified, Top
  <2>7. Entry(body[inner], name, range)
    BY <2>2, <2>5 DEF Entry
  <2> HIDE DEF name, range
  <2>8. QED
    BY <2>1, <2>5, <2>6, <2>7, DeclaresFits
<1>5. CASE ~(Text[n].kind = "function")
           /\ ~(Text[n].kind = "instance" /\ ScopeByName(outer, Text[n].name) # None)
  <2>1. UNCHANGED <<symbols, references, scopes>>
    BY <1>5 DEF AfterClose
  <2>2. QED
    BY <1>1, <2>1, KeepsSelf DEF Grows
<1>6. QED
  BY <1>3, <1>4, <1>5

LEMMA LeaveTree ==
  ASSUME Unambiguous, TreeInv, Leave
  PROVE  TreeInv'
<1>1. PICK body : Shape(scopes, body, symbols, registered, elaborated, phase, stack, frames)
  BY DEF TreeInv
<1>2. phase = "visit" /\ Len(frames) > 1 /\ frames' = Front(frames)
      /\ UNCHANGED <<registered, elaborated>>
  BY DEF Leave
<1>3. Tree(scopes, body) /\ Visiting(scopes, body, stack, frames)
      /\ Fits(scopes, body, symbols, registered, elaborated)
  BY <1>1, <1>2, VisitFacts
<1>4. Tops(scopes, body, stack, frames, Current, Frame)
  BY <1>3, TopFrame DEF Current, Frame
<1>5. CASE ~Frame.opens
  <2>1. UNCHANGED <<scopes, stack, symbols, phase>>
    BY <1>5 DEF Leave
  <2>2. Visiting(scopes, body, stack, Front(frames))
    BY <1>2, <1>3, <1>5, VisitingPop DEF Frame
  <2>3. Shape(scopes', body, symbols', registered', elaborated', phase', stack', frames')
    BY <1>2, <1>3, <2>1, <2>2 DEF Shape, Phased
  <2>4. QED
    BY <2>3 DEF TreeInv
<1>6. CASE Frame.opens
  <2> DEFINE outer == stack[Len(stack) - 1]
  <2>1. /\ Framed(scopes, body, outer, Current, frames[Len(frames) - 1].path, Frame)
        /\ Len(stack) > 1
    BY <1>4, <1>6 DEF Tops, RootFrame, UnitFrame
  <2>2. Closes(Frame.name)
    <3>1. stack \in Seq(DOMAIN scopes) /\ stack # <<>>
      BY <1>3, <2>1 DEF Visiting
    <3>2. scopes[Current].name = Frame.name
          \/ (scopes[Current].anonymous /\ Frame.name = "")
      BY <2>1 DEF Framed
    <3>3. QED
      BY <3>1, <3>2 DEF Closes
  <2>3. stack' = Front(stack) /\ AfterClose(outer, Frame.owner) /\ phase' = phase
    BY <1>6, <2>2 DEF Leave
  <2>4. outer \in DOMAIN scopes /\ Frame.owner \in Openers /\ Level(Frame.owner) = body[outer]
    BY <2>1 DEF Framed
  <2> HIDE DEF outer
  <2>5. /\ Grows(scopes, body, scopes', body)
        /\ Fits(scopes', body, symbols', registered, elaborated)
    BY <1>3, <2>3, <2>4, AfterCloseFits
  <2>6. Visiting(scopes, body, Front(stack), Front(frames))
    BY <1>2, <1>3, <1>6, VisitingPop DEF Frame
  <2>7. Visiting(scopes', body, Front(stack), Front(frames))
    BY <1>3, <2>5, <2>6, VisitingKeeps DEF Grows
  <2>8. Shape(scopes', body, symbols', registered', elaborated', phase', stack', frames')
    BY <1>2, <2>3, <2>5, <2>7 DEF Shape, Phased
  <2>9. QED
    BY <2>8 DEF TreeInv
<1>7. QED
  BY <1>5, <1>6

-----------------------------------------------------------------------------
(* The visit of the syntax leaves the tree alone.                          *)

LEMMA StartTree ==
  ASSUME TreeInv, StartReferences
  PROVE  TreeInv'
<1>1. PICK body : Shape(scopes, body, symbols, registered, elaborated, phase, stack, frames)
  BY DEF TreeInv
<1>2. /\ stack' = <<>> /\ phase' = "refer"
      /\ UNCHANGED <<scopes, symbols, registered, elaborated>>
  BY DEF StartReferences
<1>3. Shape(scopes', body, symbols', registered', elaborated', phase', stack', frames')
  BY <1>1, <1>2 DEF Shape, Phased
<1>4. QED
  BY <1>3 DEF TreeInv

LEMMA ReferPhase ==
  ASSUME Refer
  PROVE  phase' \in {phase, "null"}
<1> DEFINE n == Head(todo)
<1>1. CASE ReferIdentifier(n) \/ ReferModule(n)
  BY <1>1 DEF ReferIdentifier, ReferModule
<1>2. CASE ReferInstance(n) \/ ReferPort(n) \/ ReferType(n)
  <2>1. \E s, name, range : ReferTo(s, name, range)
    BY <1>2 DEF ReferInstance, ReferPort, ReferType
  <2>2. QED
    BY <2>1, ReferToCases
<1>3. QED
  BY <1>1, <1>2 DEF Refer

LEMMA ReferTree ==
  ASSUME TreeInv, Known, Refer
  PROVE  TreeInv'
<1>1. PICK body : Shape(scopes, body, symbols, registered, elaborated, phase, stack, frames)
  BY DEF TreeInv
<1>2. /\ UNCHANGED <<scopes, stack, frames, registered, elaborated>>
      /\ phase = "refer" /\ phase' \in {"refer", "null"}
  BY ReferPhase DEF Refer
<1>3. \/ UNCHANGED symbols
      \/ \E t \in DOMAIN symbols : \E r : AddReference(t, r)
  <2>1. CASE ReferIdentifier(Head(todo))
    BY <2>1, ReferIdentifierCases
  <2>2. CASE ReferInstance(Head(todo)) \/ ReferPort(Head(todo)) \/ ReferType(Head(todo))
    <3>1. \E s, name, r : ReferTo(s, name, r)
      BY <2>2 DEF ReferInstance, ReferPort, ReferType
    <3>2. QED
      BY <3>1, LookupDeclared, ReferToCases
  <2>3. CASE ReferModule(Head(todo))
    BY <2>3 DEF ReferModule
  <2>4. QED
    BY <2>1, <2>2, <2>3 DEF Refer
<1>4. Noted(symbols')
  BY <1>1, <1>3, NotedReference DEF Shape, Fits
<1>5. Shape(scopes', body, symbols', registered', elaborated', phase', stack', frames')
  BY <1>1, <1>2, <1>4 DEF Shape, Fits, Phased
<1>6. QED
  BY <1>5 DEF TreeInv

LEMMA ReadyTree ==
  ASSUME TreeInv, Ready
  PROVE  TreeInv'
<1>1. PICK body : Shape(scopes, body, symbols, registered, elaborated, phase, stack, frames)
  BY DEF TreeInv
<1>2. /\ phase = "refer" /\ phase' = "ready"
      /\ UNCHANGED <<scopes, stack, symbols, registered, elaborated>>
  BY DEF Ready
<1>3. Shape(scopes', body, symbols', registered', elaborated', phase', stack', frames')
  BY <1>1, <1>2 DEF Shape, Phased
<1>4. QED
  BY <1>3 DEF TreeInv

LEMMA SameTree ==
  ASSUME TreeInv, UNCHANGED vars
  PROVE  TreeInv'
<1>1. PICK body : Shape(scopes, body, symbols, registered, elaborated, phase, stack, frames)
  BY DEF TreeInv
<1>2. Shape(scopes', body, symbols', registered', elaborated', phase', stack', frames')
  BY <1>1 DEF vars
<1>3. QED
  BY <1>2 DEF TreeInv

LEMMA NextTree == Unambiguous /\ IdxInv /\ TreeInv /\ [Next]_vars => TreeInv'
<1> SUFFICES ASSUME Unambiguous, IdxInv, TreeInv, [Next]_vars PROVE TreeInv'
  OBVIOUS
<1>1. ASSUME NEW n \in Nodes,
             HandleUnit(n) \/ HandleSymbol(n) \/ HandleImport(n)
             \/ HandleScope(n) \/ HandleInstance(n)
      PROVE  TreeInv'
  BY <1>1, UnitTree, SymbolTree, ImportTree, ScopeTree, InstanceTree
<1>2. CASE Leave
  BY <1>2, LeaveTree
<1>3. CASE StartReferences
  BY <1>3, StartTree
<1>4. CASE Refer
  BY <1>4, ReferTree DEF IdxInv
<1>5. CASE Ready
  BY <1>5, ReadyTree
<1>6. CASE UNCHANGED vars
  BY <1>6, SameTree
<1>7. QED
  BY <1>1, <1>2, <1>3, <1>4, <1>5, <1>6 DEF Next

-----------------------------------------------------------------------------
(* What the tree says of the scopes.                                       *)

LEMMA TreeTyped ==
  ASSUME IdxInv, TreeInv
  PROVE  ITypeOK
<1>1. PICK body : Shape(scopes, body, symbols, registered, elaborated, phase, stack, frames)
  BY DEF TreeInv
<1>2. Tree(scopes, body) /\ Held(scopes, registered)
  BY <1>1 DEF Shape, Fits
<1>3. Phased(scopes, body, phase, stack, frames)
  BY <1>1 DEF Shape
<1>4. ASSUME NEW s \in DOMAIN scopes PROVE scopes[s].parent = None <=> s = 1
  <2>1. scopes[1].parent = None
    BY <1>2 DEF Tree, Planted
  <2>2. s # 1 => scopes[s].parent # None
    BY <1>2, TreeFacts
  <2>3. QED
    BY <2>1, <2>2
<1>5. ASSUME NEW s \in DOMAIN scopes, s # 1
      PROVE  /\ scopes[s].parent \in 1 .. (s - 1)
             /\ <<scopes[s].name, s>> \in
                  {<<c, scopes[scopes[s].parent].children[c]>> :
                     c \in DOMAIN scopes[scopes[s].parent].children}
             /\ scopes[s].path = Append(scopes[scopes[s].parent].path, scopes[s].name)
  <2>1. Branch(scopes, body, s)
    BY <1>2, <1>5 DEF Tree, Branched
  <2> DEFINE p == scopes[s].parent
             name == scopes[s].name
  <2>2. /\ p \in 1 .. (s - 1) /\ scopes[s].path = Append(scopes[p].path, name)
        /\ name \in DOMAIN scopes[p].children /\ scopes[p].children[name] = s
    BY <2>1 DEF Branch
  <2> HIDE DEF p, name
  <2>3. <<name, s>> \in {<<c, scopes[p].children[c]>> : c \in DOMAIN scopes[p].children}
    BY <2>2
  <2>4. QED
    BY <2>2, <2>3 DEF p, name
<1>6. ASSUME NEW s \in DOMAIN scopes, NEW a \in DOMAIN scopes[s].aliases
      PROVE  scopes[s].aliases[a] \in ChildrenOf(s)
  <2>1. AliasOf(scopes, body, s, a)
    BY <1>2 DEF Tree, Aliased
  <2>2. QED
    BY <2>1 DEF AliasOf, ChildrenOf
<1>7. ASSUME NEW s \in DOMAIN scopes, NEW c \in DOMAIN scopes[s].content
      PROVE  scopes[s].content[c] \in DOMAIN symbols
  BY DEF IdxInv, Known, NamesIn
<1>8. ASSUME NEW i \in 2 .. Len(stack) PROVE scopes[stack[i]].parent = stack[i - 1]
  <2>1. CASE stack = <<>>
    <3>1. Len(stack) = 0
      BY <2>1
    <3>2. QED
      BY <3>1
  <2>2. CASE Visiting(scopes, body, stack, frames)
    <3> DEFINE k == i + (Len(frames) - Len(stack))
    <3>1. Beside(Len(stack), Len(frames), i, k)
      BY DEF Beside
    <3> HIDE DEF k
    <3>2. Holds(scopes, body, stack, frames, i, k)
      BY <2>2, <3>1 DEF Visiting
    <3>3. QED
      BY <3>2 DEF Holds, Framed
  <2>3. QED
    BY <1>3, <2>1, <2>2 DEF Phased
<1>9. \A k \in DOMAIN registered : scopes[registered[k]].range.file = k[1]
  BY <1>2 DEF Held
<1>10. phase \in {"visit", "refer", "ready", "null"}
  BY <1>3 DEF Phased
<1>11. QED
  BY <1>4, <1>5, <1>6, <1>7, <1>8, <1>9, <1>10 DEF ITypeOK

LEMMA AppendEnds ==
  ASSUME NEW q \in Seq(Labels), NEW x \in Labels
  PROVE  Front(Append(q, x)) = q /\ Last(Append(q, x)) = x
<1> DEFINE r == Append(q, x)
           f == SubSeq(r, 1, Len(r) - 1)
<1>1. /\ r \in Seq(Labels) /\ Len(q) \in Nat /\ Len(r) = Len(q) + 1 /\ r[Len(q) + 1] = x
      /\ \A i \in 1 .. Len(q) : r[i] = q[i]
  BY AppendFacts
<1> HIDE DEF r
<1>2. f \in Seq(Labels) /\ Len(f) = Len(q) /\ \A i \in 1 .. Len(q) : f[i] = q[i]
  BY <1>1
<1> HIDE DEF f
<1>3. DOMAIN f = 1 .. Len(f) /\ DOMAIN q = 1 .. Len(q)
  BY <1>2
<1>4. f = [i \in DOMAIN f |-> f[i]] /\ q = [i \in DOMAIN q |-> q[i]]
  BY <1>2
<1>5. f = q
  BY <1>2, <1>3, <1>4
<1>6. Last(r) = x
  BY <1>1 DEF Last
<1>7. QED
  BY <1>5, <1>6 DEF Front, f, r

LEMMA TreePaths ==
  ASSUME TreeInv
  PROVE  PathsResolve
<1>1. PICK body : Shape(scopes, body, symbols, registered, elaborated, phase, stack, frames)
  BY DEF TreeInv
<1>2. Tree(scopes, body) /\ Heard(scopes, elaborated)
  BY <1>1 DEF Shape, Fits
<1>3. ASSUME NEW e \in elaborated PROVE ResolveSymbol(e[1]) = e[2]
  <2>1. PICK q, name, s : HeldBy(scopes, e, q, name, s)
    BY <1>2 DEF Heard
  <2>2. /\ q \in Seq(Labels) /\ e[1] = Append(q, name) /\ name \in Labels
        /\ s \in DOMAIN scopes
    BY <2>1, LeadsIn DEF HeldBy
  <2>3. Front(e[1]) = q /\ Last(e[1]) = name
    <3>1. Front(Append(q, name)) = q /\ Last(Append(q, name)) = name
      BY <2>2, AppendEnds
    <3>2. QED
      BY <2>2, <3>1
  <2>4. ResolveScope(q) = s
    BY <1>2, <2>1, ResolveLeads DEF HeldBy
  <2>5. s # None
    BY <1>2, <2>2, TreeFacts
  <2>6. LookupStrict(s, name) = e[2]
    BY <2>1 DEF HeldBy, LookupStrict
  <2>7. QED
    BY <2>3, <2>4, <2>5, <2>6 DEF ResolveSymbol
<1>4. QED
  BY <1>3 DEF PathsResolve

(* The scopes form a tree whose names, paths and aliases agree, the open    *)
(* scopes are a path of it, and neither _close_scope nor add_child_alias    *)
(* throws: over any text whose declarations the index can tell apart, a     *)
(* scope that is opened again under an alias is closed by its own name.     *)
THEOREM ScopesFormATree == Unambiguous => (Spec => []ITypeOK)
<1> SUFFICES ASSUME Unambiguous PROVE Spec => []ITypeOK
  OBVIOUS
<1>1. Init => IdxInv /\ TreeInv
  BY InitAgrees, InitTree
<1>2. IdxInv /\ TreeInv /\ [Next]_vars => IdxInv' /\ TreeInv'
  BY NextAgrees, NextTree
<1>3. IdxInv /\ TreeInv => ITypeOK
  BY TreeTyped
<1>4. QED
  BY <1>1, <1>2, <1>3, PTL DEF Spec

(* The path of a symbol of the design, by the names of the instances, the   *)
(* blocks and the functions around it, leads resolve_symbol to its          *)
(* declaration, also when the module was indexed through another instance.  *)
THEOREM PathsAlwaysResolve == Unambiguous => (Spec => []PathsResolve)
<1> SUFFICES ASSUME Unambiguous PROVE Spec => []PathsResolve
  OBVIOUS
<1>1. Init => IdxInv /\ TreeInv
  BY InitAgrees, InitTree
<1>2. IdxInv /\ TreeInv /\ [Next]_vars => IdxInv' /\ TreeInv'
  BY NextAgrees, NextTree
<1>3. TreeInv => PathsResolve
  BY TreePaths
<1>4. QED
  BY <1>1, <1>2, <1>3, PTL DEF Spec

-----------------------------------------------------------------------------
(* The scopes above another.                                               *)

LEMMA PrefixFacts ==
  ASSUME NEW S, NEW q \in Seq(S), NEW t \in Seq(S)
  PROVE  IsPrefix(q, t) <=> Len(q) <= Len(t) /\ \A i \in 1 .. Len(q) : q[i] = t[i]
<1> DEFINE a == SubSeq(q, 1, Len(q))
           b == SubSeq(t, 1, Len(q))
<1>1. Len(q) \in Nat /\ Len(t) \in Nat
  OBVIOUS
<1>2. ASSUME Len(q) <= Len(t)
      PROVE  a = b <=> \A i \in 1 .. Len(q) : q[i] = t[i]
  <2>1. a \in Seq(S) /\ Len(a) = Len(q) /\ \A i \in 1 .. Len(q) : a[i] = q[i]
    BY <1>1
  <2>2. b \in Seq(S) /\ Len(b) = Len(q) /\ \A i \in 1 .. Len(q) : b[i] = t[i]
    BY <1>1, <1>2
  <2> HIDE DEF a, b
  <2>3. DOMAIN a = 1 .. Len(q) /\ DOMAIN b = 1 .. Len(q)
    BY <2>1, <2>2
  <2>4. a = [i \in DOMAIN a |-> a[i]] /\ b = [i \in DOMAIN b |-> b[i]]
    BY <2>1, <2>2
  <2>5. QED
    BY <2>1, <2>2, <2>3, <2>4
<1>3. QED
  BY <1>2 DEF IsPrefix

LEMMA PrefixAppend ==
  ASSUME NEW S, NEW q \in Seq(S), NEW p \in Seq(S), NEW x \in S
  PROVE  IsPrefix(q, Append(p, x)) <=> q = Append(p, x) \/ IsPrefix(q, p)
<1> DEFINE r == Append(p, x)
<1>1. /\ r \in Seq(S) /\ Len(p) \in Nat /\ Len(r) = Len(p) + 1 /\ r[Len(p) + 1] = x
      /\ \A i \in 1 .. Len(p) : r[i] = p[i]
  BY AppendFacts
<1>2. Len(q) \in Nat
  OBVIOUS
<1> HIDE DEF r
<1>3. ASSUME IsPrefix(q, r), Len(q) = Len(r) PROVE q = r
  <2>1. \A i \in 1 .. Len(q) : q[i] = r[i]
    BY <1>1, <1>3, PrefixFacts
  <2>2. DOMAIN q = 1 .. Len(q) /\ DOMAIN r = 1 .. Len(r)
    BY <1>1
  <2>3. q = [i \in DOMAIN q |-> q[i]] /\ r = [i \in DOMAIN r |-> r[i]]
    BY <1>1
  <2>4. DOMAIN q = DOMAIN r /\ \A i \in DOMAIN q : q[i] = r[i]
    BY <1>3, <2>1, <2>2
  <2>5. QED
    BY <2>3, <2>4, SMTT(20)
<1>4. ASSUME IsPrefix(q, r), Len(q) # Len(r) PROVE IsPrefix(q, p)
  <2>1. Len(q) <= Len(r) /\ \A i \in 1 .. Len(q) : q[i] = r[i]
    BY <1>1, <1>4, PrefixFacts
  <2>2. Len(q) <= Len(p)
    BY <1>1, <1>2, <1>4, <2>1
  <2>3. \A i \in 1 .. Len(q) : i \in 1 .. Len(p)
    BY <1>1, <1>2, <2>2
  <2>4. QED
    BY <1>1, <2>1, <2>2, <2>3, PrefixFacts
<1>5. ASSUME IsPrefix(q, p) PROVE IsPrefix(q, r)
  <2>1. Len(q) <= Len(p) /\ \A i \in 1 .. Len(q) : q[i] = p[i]
    BY <1>5, PrefixFacts
  <2>2. Len(q) <= Len(r) /\ \A i \in 1 .. Len(q) : i \in 1 .. Len(p)
    BY <1>1, <1>2, <2>1
  <2>3. QED
    BY <1>1, <2>1, <2>2, PrefixFacts
<1>6. IsPrefix(r, r)
  BY <1>1, PrefixFacts
<1>7. QED
  BY <1>3, <1>4, <1>5, <1>6 DEF r

LEMMA AboveRoot ==
  ASSUME NEW body, Tree(scopes, body)
  PROVE  Above(1) = {1}
<1>1. 1 \in DOMAIN scopes /\ scopes[1].path = <<>>
  BY DEF Tree, Built, Planted
<1>2. ASSUME NEW a \in DOMAIN scopes PROVE IsPrefix(scopes[a].path, <<>>) <=> a = 1
  <2> DEFINE q == scopes[a].path
  <2>1. q \in Seq(Labels) /\ <<>> \in Seq(Labels)
    BY TreeFacts
  <2>2. a = 1 <=> q = <<>>
    BY <1>1 DEF Tree, Distinct
  <2> HIDE DEF q
  <2>3. IsPrefix(q, <<>>) <=> q = <<>>
    <3> DEFINE e == <<>>
    <3>1. e \in Seq(Labels) /\ Len(e) = 0 /\ Len(q) \in Nat /\ (Len(q) = 0 <=> q = e)
      BY <2>1
    <3> HIDE DEF e
    <3>2. IsPrefix(q, e) => Len(q) <= Len(e)
      BY <2>1, <3>1, PrefixFacts
    <3>3. IsPrefix(e, e)
      <4>1. Len(e) <= Len(e)
        BY <3>1
      <4>2. QED
        BY <3>1, <4>1, PrefixFacts
    <3>4. IsPrefix(q, e) <=> q = e
      BY <3>1, <3>2, <3>3
    <3>5. QED
      BY <3>4 DEF e
  <2>4. QED
    BY <2>2, <2>3 DEF q
<1>3. QED
  BY <1>1, <1>2 DEF Above

LEMMA AboveParent ==
  ASSUME NEW body, Tree(scopes, body), NEW s \in DOMAIN scopes \ {1}
  PROVE  Above(s) = Above(scopes[s].parent) \cup {s}
<1> DEFINE p == scopes[s].parent
<1>1. /\ p \in DOMAIN scopes /\ scopes[s].path = Append(scopes[p].path, scopes[s].name)
      /\ scopes[p].path \in Seq(Labels) /\ scopes[s].path \in Seq(Labels)
  <2>1. Branch(scopes, body, s)
    BY DEF Tree, Branched
  <2>2. QED
    BY <2>1, TreeFacts DEF Branch
<1>2. scopes[s].name \in Labels
  <2>1. Branch(scopes, body, s)
    BY DEF Tree, Branched
  <2>2. PICK n \in Openers : Opened(scopes, body, s, n)
    BY <2>1 DEF Branch
  <2>3. Calls(scopes[p].unnamed, scopes[s].name, n) /\ n \in Nodes
    BY <2>2 DEF Opened, Openers
  <2>4. scopes[p].unnamed \in 0 .. Len(UnnamedIds)
    BY <1>1, TreeFacts
  <2> HIDE DEF p
  <2>5. QED
    BY <2>3, <2>4, CallsLabels
<1> HIDE DEF p
<1>3. ASSUME NEW a \in DOMAIN scopes
      PROVE  IsPrefix(scopes[a].path, scopes[s].path)
             <=> a = s \/ IsPrefix(scopes[a].path, scopes[p].path)
  <2>1. scopes[a].path \in Seq(Labels)
    BY TreeFacts
  <2>2. a = s <=> scopes[a].path = scopes[s].path
    BY DEF Tree, Distinct
  <2>3. QED
    BY <1>1, <1>2, <2>1, <2>2, PrefixAppend
<1>4. QED
  BY <1>3 DEF Above, p

(* What holds of the root, and of a scope when it holds of its parent.     *)
LEMMA DownTheTree ==
  ASSUME NEW body, Tree(scopes, body), NEW Q, 1 \in Q,
         \A s \in DOMAIN scopes \ {1} : scopes[s].parent \in Q => s \in Q
  PROVE  \A s \in DOMAIN scopes : s \in Q
<1> DEFINE T == {n \in Nat : \A s \in DOMAIN scopes : s <= n => s \in Q}
<1>1. DOMAIN scopes = 1 .. Len(scopes) /\ Len(scopes) \in Nat
  BY TreeFacts
<1>2. 0 \in T
  BY <1>1
<1>3. ASSUME NEW n \in Nat, n \in T PROVE n + 1 \in T
  <2> SUFFICES ASSUME NEW s \in DOMAIN scopes, s <= n + 1, s # 1 PROVE s \in Q
    OBVIOUS
  <2>1. scopes[s].parent \in DOMAIN scopes /\ scopes[s].parent < s
    BY TreeFacts
  <2>2. scopes[s].parent <= n
    BY <1>1, <2>1
  <2>3. QED
    BY <1>3, <2>1, <2>2
<1>4. \A n \in Nat : n \in T
  <2> HIDE DEF T
  <2>1. QED
    BY <1>2, <1>3, Induction
<1>5. QED
  BY <1>1, <1>4

LEMMA AboveEarlier ==
  ASSUME NEW body, Tree(scopes, body)
  PROVE  \A s \in DOMAIN scopes : \A a \in Above(s) : a \in DOMAIN scopes /\ a <= s
<1> DEFINE Q == {s \in DOMAIN scopes : \A a \in Above(s) : a <= s}
<1>1. DOMAIN scopes = 1 .. Len(scopes) /\ Len(scopes) \in Nat /\ 1 \in DOMAIN scopes
  BY TreeFacts
<1>2. 1 \in Q
  BY <1>1, AboveRoot
<1>3. ASSUME NEW s \in DOMAIN scopes \ {1}, scopes[s].parent \in Q PROVE s \in Q
  <2> SUFFICES ASSUME NEW a \in Above(s) PROVE a <= s
    OBVIOUS
  <2>1. a = s \/ a \in Above(scopes[s].parent)
    BY AboveParent
  <2>2. scopes[s].parent \in DOMAIN scopes /\ scopes[s].parent < s /\ a \in DOMAIN scopes
    BY TreeFacts DEF Above
  <2>3. QED
    BY <1>1, <1>3, <2>1, <2>2
<1>4. \A s \in DOMAIN scopes : s \in Q
  <2> HIDE DEF Q
  <2>1. QED
    BY <1>2, <1>3, DownTheTree
<1>5. QED
  BY <1>4 DEF Above

-----------------------------------------------------------------------------
(* What is visible in a scope belongs to the text around its body.         *)

LEMMA AroundUp ==
  \A m \in Nodes : \A b \in Around[m] :
    b \in Nodes /\ (Text[b].in # 0 => Text[b].in \in Around[m])
<1> DEFINE P(m) == \A b \in Around[m] : b \in Nodes /\ (Text[b].in # 0 => Text[b].in \in Around[m])
           T == {n \in Nat : \A m \in Nodes : m <= n => P(m)}
<1>1. /\ \A m \in Nodes : m \in Nat \ {0} /\ Text[m].in \in Nat /\ Text[m].in < m
      /\ Nodes = 1 .. Len(Text) /\ Len(Text) \in Nat
  BY NodeFacts
<1>2. 0 \in T
  BY <1>1
<1>3. ASSUME NEW n \in Nat, n \in T PROVE n + 1 \in T
  <2> SUFFICES ASSUME NEW m \in Nodes, m <= n + 1 PROVE P(m)
    OBVIOUS
  <2> DEFINE up == Text[m].in
  <2>1. CASE up = 0
    <3>1. Around[m] = {m}
      BY <2>1, AroundFacts
    <3>2. QED
      BY <2>1, <3>1
  <2>2. CASE up # 0
    <3>1. up \in Nodes /\ up <= n
      BY <1>1, <2>2
    <3>2. P(up) /\ Around[m] = {m} \cup Around[up] /\ up \in Around[up]
      <4>1. P(up)
        BY <1>3, <3>1
      <4>2. Around[m] = {m} \cup Around[up] /\ up \in Around[up]
        BY <2>2, <3>1, AroundFacts
      <4>3. QED
        BY <4>1, <4>2
    <3> HIDE DEF up
    <3>3. \A b \in Around[m] : b = m \/ b \in Around[up]
      BY <3>2
    <3>4. QED
      BY <3>2, <3>3 DEF up
  <2>3. QED
    BY <2>1, <2>2
<1>4. \A n \in Nat : n \in T
  <2> HIDE DEF T
  <2>1. QED
    BY <1>2, <1>3, Induction
<1>5. ASSUME NEW m \in Nodes PROVE P(m)
  <2> HIDE DEF P
  <2>1. m \in Nat /\ m <= m
    BY <1>1
  <2>2. QED
    BY <1>4, <2>1
<1>6. QED
  BY <1>5

(* The body of the scope a is around m, or the text.                       *)
Outward(body, a, m) == body[a] = 0 \/ body[a] \in Around[m]

LEMMA VisibleOutward ==
  ASSUME NEW body, Tree(scopes, body), NEW m \in Nodes
  PROVE  \A s \in DOMAIN scopes : body[s] \in Around[m] \cup {0} =>
           \A a \in Visible(s) : Outward(body, a, m)
<1> DEFINE Q == {s \in DOMAIN scopes : body[s] \in Around[m] \cup {0} =>
                   \A a \in Visible(s) : Outward(body, a, m)}
<1>1. DOMAIN scopes = 1 .. Len(scopes) /\ Len(scopes) \in Nat /\ 1 \in DOMAIN scopes
  BY TreeFacts
<1>2. 1 \in Q
  <2>1. body[1] = 0
    BY DEF Tree, Planted
  <2>2. QED
    BY <1>1, <2>1, AboveRoot DEF Visible, Outward
<1>3. ASSUME NEW s \in DOMAIN scopes \ {1}, scopes[s].parent \in Q PROVE s \in Q
  <2> DEFINE p == scopes[s].parent
  <2> SUFFICES ASSUME body[s] \in Around[m] \cup {0}, NEW a \in Visible(s)
               PROVE  Outward(body, a, m)
    OBVIOUS
  <2>1. PICK n \in Openers : Opened(scopes, body, s, n)
    BY DEF Tree, Branched, Branch
  <2>2. CASE a = s
    BY <2>2 DEF Outward
  <2>3. CASE a # s
    <3>1. a \in Above(p) /\ p \in DOMAIN scopes /\ p < s /\ a \in Above(s)
      BY <2>3, AboveParent, TreeFacts DEF Visible
    <3>2. a < s /\ s \in Above(s) /\ Above(p) \subseteq Above(s)
      <4>1. a \in DOMAIN scopes /\ a <= p
        BY <3>1, AboveEarlier
      <4>2. s \in Above(s) /\ Above(p) \subseteq Above(s)
        BY AboveParent
      <4>3. QED
        BY <1>1, <3>1, <4>1, <4>2
    <3>3. scopes[s].virtual /\ a \in Visible(p)
      BY <3>1, <3>2 DEF Visible
    <3>4. Text[n].kind # "instance" /\ Level(n) = body[p] /\ Body(n) = body[s]
      BY <2>1, <3>3 DEF Opened
    <3>5. n \in Nodes /\ body[s] = n /\ n # 0
      BY <3>4, OpenerFacts, NodeFacts
    <3>6. body[p] \in Around[m] \cup {0}
      <4>1. n \in Around[m]
        BY <3>5
      <4>2. Level(n) = 0 \/ (Level(n) = Text[n].in /\ Text[n].in # 0)
        BY DEF Level
      <4>3. QED
        BY <3>4, <4>1, <4>2, AroundUp
    <3> HIDE DEF p
    <3>7. Outward(body, a, m)
      BY <1>3, <3>1, <3>3, <3>6 DEF p
    <3>8. QED
      BY <3>7 DEF Outward
  <2>4. QED
    BY <2>2, <2>3
<1>4. \A s \in DOMAIN scopes : s \in Q
  <2> HIDE DEF Q
  <2>1. QED
    BY <1>2, <1>3, DownTheTree
<1>5. QED
  BY <1>4

-----------------------------------------------------------------------------
(* An identifier is bound to what its text can see.                        *)

(* The identifier n, where its text is, may stand for the symbol t.        *)
Sees(m, t) == \E u \in Seen[m] : DeclaredIn(t, u)
Bound(n, t) ==
  /\ <<Text[n].name, t>> \in Declared
  /\ \E m \in Identifiers : Text[m].range = Text[n].range /\ Sees(m, t)

LEMMA SeenFacts ==
  /\ DOMAIN Seen = Identifiers
  /\ \A m \in Identifiers :
       /\ Around[m] \subseteq Seen[m]
       /\ \A u \in Nodes : Text[u].kind = "unit" => u \in Seen[m]
       /\ Importable(Text[m].range.file) \subseteq Seen[m]
BY DEF Seen

(* What a body declares is declared in it, what the root declares in a unit. *)
LEMMA EntryDeclared ==
  ASSUME NEW b, b \in Nodes \cup {0}, NEW c, NEW t, Entry(b, c, t)
  PROVE  /\ <<c, t>> \in Declared
         /\ \E u \in Nodes : /\ DeclaredIn(t, u)
                             /\ IF b = 0 THEN Text[u].kind = "unit" ELSE u = b
<1>1. CASE b \in Nodes /\ Text[b].kind = "module" /\ c = Text[b].name /\ t = Text[b].id
  <2>1. Identified(b) /\ b # 0
    BY <1>1, NodeFacts DEF Identified, Top
  <2>2. <<c, t>> \in Declared
    BY <1>1, <2>1, DeclaredFacts
  <2>3. DeclaredIn(t, b)
    BY <1>1 DEF DeclaredIn
  <2>4. QED
    BY <1>1, <2>1, <2>2, <2>3
<1>2. ASSUME NEW n \in Nodes, Level(n) = b, Text[n].name = c,
             \/ Text[n].kind \in {"symbol", "instance"} /\ ~Top(n) /\ t = Text[n].range
             \/ Text[n].kind = "function" /\ t = Text[n].id
      PROVE  /\ <<c, t>> \in Declared
             /\ \E u \in Nodes : /\ DeclaredIn(t, u)
                                 /\ IF b = 0 THEN Text[u].kind = "unit" ELSE u = b
  <2>1. Text[n].kind # "unit" /\ ~Top(n)
    BY <1>2 DEF Top
  <2>2. <<c, t>> \in Declared
    <3>1. CASE Text[n].kind = "function"
      <4>1. Identified(n) /\ t = Text[n].id
        BY <1>2, <2>1, <3>1 DEF Identified
      <4>2. QED
        BY <1>2, <4>1, DeclaredFacts
    <3>2. CASE Text[n].kind # "function"
      BY <1>2, <2>1, <3>2, DeclaredFacts
    <3>3. QED
      BY <3>1, <3>2
  <2> DEFINE u == Text[n].in
  <2>3. u # 0
    BY <2>1, TextAssumption
  <2>4. u \in Nodes
    BY <2>3, NodeFacts
  <2>5. DeclaredIn(t, u)
    BY <1>2 DEF DeclaredIn
  <2>6. IF b = 0 THEN Text[u].kind = "unit" ELSE u = b
    BY <1>2, <2>3 DEF Level
  <2> HIDE DEF u
  <2>7. QED
    BY <2>2, <2>4, <2>5, <2>6
<1>3. QED
  BY <1>1, <1>2 DEF Entry

(* A lookup takes the name from a visible scope.                           *)
LEMMA LookupFrom ==
  ASSUME NEW s, NEW name, Lookup(s, name) # None
  PROVE  \E a \in Visible(s) : /\ a \in DOMAIN scopes /\ name \in DOMAIN scopes[a].content
                               /\ Lookup(s, name) = scopes[a].content[name]
<1> DEFINE holders == {a \in Visible(s) : name \in DOMAIN scopes[a].content}
           nearest == {a \in holders : \A b \in holders : b <= a}
           a == CHOOSE x \in nearest : TRUE
<1>1. nearest # {} /\ Lookup(s, name) = scopes[a].content[name]
  BY DEF Lookup
<1>2. a \in nearest
  BY <1>1
<1>3. a \in Visible(s) /\ a \in DOMAIN scopes /\ name \in DOMAIN scopes[a].content
  BY <1>2 DEF Visible, Above
<1> HIDE DEF a
<1>4. QED
  BY <1>1, <1>3

LEMMA LookupBound ==
  ASSUME NEW body, Tree(scopes, body), NEW n \in Identifiers, NEW m \in Identifiers,
         Text[m].range = Text[n].range, NEW s,
         \A a \in Visible(s) : body[a] = 0 \/ body[a] \in Seen[m],
         Lookup(s, Text[n].name) # None
  PROVE  Bound(n, Lookup(s, Text[n].name))
<1> DEFINE name == Text[n].name
           t == Lookup(s, name)
<1>1. PICK a \in Visible(s) : /\ a \in DOMAIN scopes /\ name \in DOMAIN scopes[a].content
                              /\ t = scopes[a].content[name]
  BY LookupFrom
<1> HIDE DEF name, t
<1>2. Entry(body[a], name, t)
  BY <1>1 DEF Tree, Written
<1>3. body[a] \in Nodes \cup {0}
  <2>1. body[a] \in 0 .. Len(Text)
    BY <1>1, TreeFacts
  <2>2. QED
    BY <2>1, NodeFacts
<1>4. <<name, t>> \in Declared
  BY <1>2, <1>3, EntryDeclared
<1>5. PICK u \in Nodes : /\ DeclaredIn(t, u)
                         /\ IF body[a] = 0 THEN Text[u].kind = "unit" ELSE u = body[a]
  BY <1>2, <1>3, EntryDeclared
<1>6. u \in Seen[m]
  <2>1. CASE body[a] = 0
    BY <1>5, <2>1, SeenFacts
  <2>2. CASE body[a] # 0
    BY <1>1, <1>5, <2>2
  <2>3. QED
    BY <2>1, <2>2
<1>7. Sees(m, t)
  BY <1>5, <1>6 DEF Sees
<1>8. QED
  BY <1>4, <1>7 DEF Bound, name, t

(* The scope of the smallest range around the word, or the one it is in.   *)
LEMMA RangeScope ==
  ASSUME NEW body, Tree(scopes, body), Held(scopes, registered), NEW r, IsRange(r),
         NEW s \in ScopesForRange(r)
  PROVE  s \in DOMAIN scopes \ {1} /\ CoversRange(Text[body[s]].range, r)
<1>1. PICK k \in DOMAIN registered : s \in RangeFrom(registered[k], r)
  BY DEF ScopesForRange
<1> DEFINE top == registered[k]
<1>2. top \in DOMAIN scopes \ {1}
  BY DEF Held
<1>3. \A c \in ChildrenOf(top) : c \in DOMAIN scopes \ {1}
  <2>1. scopes[1].parent = None
    BY DEF Tree, Planted
  <2>2. top # None
    BY <1>2, TreeFacts
  <2>3. QED
    BY <2>1, <2>2 DEF ChildrenOf
<1> HIDE DEF top
<1>4. CoversRange(r, r)
  <2>1. r # NoRange /\ r.start \in Nat /\ r.end \in Nat
    BY DEF IsRange
  <2>2. QED
    BY <2>1 DEF CoversRange
<1>5. \/ s = top /\ scopes[top].range = r
      \/ s \in ChildrenOf(top) /\ CoversRange(scopes[s].range, r)
      \/ s = top /\ CoversRange(scopes[top].range, r)
  BY <1>1 DEF RangeFrom, top
<1>6. s \in DOMAIN scopes \ {1} /\ CoversRange(scopes[s].range, r)
  BY <1>2, <1>3, <1>4, <1>5
<1>7. scopes[s].range = Text[body[s]].range
  BY <1>6 DEF Tree, Branched, Branch
<1>8. QED
  BY <1>6, <1>7

LEMMA NearBound ==
  ASSUME NEW body, Tree(scopes, body), Held(scopes, registered), NEW n \in Identifiers,
         NEW s \in ScopesForRange(Text[n].range), Lookup(s, Text[n].name) # None
  PROVE  Bound(n, Lookup(s, Text[n].name))
<1> DEFINE r == Text[n].range
<1>1. n \in Nodes /\ IsRange(r)
  <2>1. n \in Nodes /\ Text[n].kind = "identifier"
    BY DEF Identifiers
  <2>2. ~Top(n)
    BY <2>1 DEF Top
  <2>3. QED
    BY <2>1, <2>2, TextAssumption
<1>2. s \in DOMAIN scopes \ {1} /\ CoversRange(Text[body[s]].range, r)
  BY <1>1, RangeScope
<1>3. body[s] \in Bodies
  <2>1. PICK o \in Openers : Opened(scopes, body, s, o)
    BY <1>2 DEF Tree, Branched, Branch
  <2>2. Body(o) = body[s] /\ Body(o) \in Nodes
    BY <2>1, OpenerFacts DEF Opened
  <2>3. Text[Body(o)].kind \in {"module", "package", "block", "function"}
    BY OpenerFacts DEF Openers
  <2>4. QED
    BY <2>2, <2>3 DEF Bodies
<1>4. PICK m \in Identifiers : Text[m].range = r /\ body[s] \in Around[m]
  BY <1>2, <1>3, NestingAssumption
<1>5. m \in Nodes
  BY DEF Identifiers
<1>6. ASSUME NEW a \in Visible(s) PROVE body[a] = 0 \/ body[a] \in Seen[m]
  <2>1. Outward(body, a, m)
    BY <1>2, <1>4, <1>5, VisibleOutward
  <2>2. QED
    BY <2>1, SeenFacts DEF Outward
<1>7. QED
  BY <1>4, <1>6, LookupBound

-----------------------------------------------------------------------------
(* The wildcard imports of a file.                                         *)

(* A package that was found is the child of the root with that name.       *)
Sought ==
  \A k \in DOMAIN imports :
    /\ \E i \in Nodes : Text[i].kind = "import" /\ k[1] = Text[i].range.file
                        /\ k[2] = Text[i].name
    /\ imports[k] # None => phase # "visit" /\ imports[k] = Find(scopes, 1, k[2])

LEMMA ResolveChild ==
  ASSUME NEW body, Tree(scopes, body), NEW name
  PROVE  ResolveScope(<<name>>) = Find(scopes, 1, name)
<1> DEFINE path == <<name>>
           down(f, i) == IF i = 0 THEN 1
                         ELSE IF f[i - 1] = None THEN None
                         ELSE ScopeByName(f[i - 1], path[i])
           P(f) == f = [i \in 0 .. Len(path) |-> down(f, i)]
           child == ScopeByName(1, name)
           h == [i \in 0 .. 1 |-> IF i = 0 THEN 1 ELSE child]
           at == CHOOSE f : P(f)
<1>1. Len(path) = 1 /\ path[1] = name
  OBVIOUS
<1>2. 1 # None
  BY TreeFacts
<1> HIDE DEF path, child
<1>3. P(h)
  <2> DEFINE e(i) == down(h, i)
  <2>1. \A i \in 0 .. 1 : h[i] = e(i)
    <3>1. ASSUME NEW i \in 0 .. 1 PROVE h[i] = e(i)
      <4>1. CASE i = 0
        BY <4>1
      <4>2. CASE i = 1
        BY <1>1, <1>2, <4>2 DEF child
      <4>3. QED
        BY <4>1, <4>2
    <3>2. QED
      BY <3>1
  <2>2. h = [i \in 0 .. 1 |-> h[i]]
    OBVIOUS
  <2> HIDE DEF e, h
  <2>3. h = [i \in 0 .. Len(path) |-> e(i)]
    BY <1>1, <2>1, <2>2
  <2>4. QED
    BY <2>3 DEF e
<1>4. P(at)
  <2> HIDE DEF P, h
  <2>1. QED
    BY <1>3
<1>5. ResolveScope(path) = at[Len(path)]
  BY DEF ResolveScope
<1> HIDE DEF at, h
<1>6. at[0] = 1 /\ at[1] = ScopeByName(1, name)
  <2>1. 0 \in 0 .. Len(path) /\ 1 \in 0 .. Len(path)
    BY <1>1
  <2>2. \A i \in 0 .. Len(path) : at[i] = down(at, i)
    BY <1>4
  <2>3. at[0] = 1
    BY <2>1, <2>2
  <2>4. at[1] = down(at, 1)
    BY <2>1, <2>2
  <2>5. QED
    BY <1>1, <1>2, <2>3, <2>4
<1>7. ScopeByName(1, name) = Find(scopes, 1, name)
  BY DEF ScopeByName, Find
<1>8. QED
  BY <1>1, <1>5, <1>6, <1>7 DEF path

(* What is visible in the scope of a package is in the package or a unit.   *)
LEMMA PackageBound ==
  ASSUME Unambiguous, NEW body, Tree(scopes, body), NEW n \in Identifiers, NEW i \in Nodes,
         Text[i].kind = "import", Text[i].range.file = Text[n].range.file,
         NEW s, s = Find(scopes, 1, Text[i].name), s # None, Lookup(s, Text[n].name) # None
  PROVE  Bound(n, Lookup(s, Text[n].name))
<1>1. body[1] = 0 /\ 1 \in DOMAIN scopes
  BY DEF Tree, Built, Planted
<1>2. PICK o \in Openers : /\ Level(o) = 0 /\ Body(o) = body[s]
                           /\ Calls(scopes[1].unnamed, Text[i].name, o)
  BY <1>1, FindFacts
<1>3. s \in DOMAIN scopes \ {1} /\ scopes[s].parent = 1
  BY <1>1, FindFacts
<1>4. o \in Nodes /\ Text[o].name = Text[i].name
  <2>1. o \in Nodes
    BY DEF Openers
  <2>2. Text[o].name # ""
    <3> SUFFICES ASSUME Text[o].name = "" PROVE FALSE
      OBVIOUS
    <3>1. PICK k \in 1 .. scopes[1].unnamed : Text[i].name = UnnamedIds[k]
      BY <1>2 DEF Calls
    <3>2. k \in 1 .. Len(UnnamedIds)
      BY <1>1, MadeUp, TreeFacts
    <3>3. Text[i].name \in ToSet(UnnamedIds)
      BY <3>1, <3>2, IdFacts
    <3>4. QED
      BY <3>3 DEF Unambiguous
  <2>3. QED
    BY <1>2, <2>1, <2>2 DEF Calls
<1>5. Text[o].kind = "package"
  BY <1>2, <1>4 DEF Unambiguous
<1>6. body[s] = o
  BY <1>2, <1>5 DEF Body
<1>7. o \in Seen[n]
  <2>1. o \in Importable(Text[n].range.file)
    BY <1>4, <1>5 DEF Importable
  <2>2. QED
    BY <2>1, SeenFacts
<1>8. ASSUME NEW a \in Visible(s) PROVE body[a] = 0 \/ body[a] \in Seen[n]
  <2>1. a = s \/ a = 1
    BY <1>3, AboveParent, AboveRoot DEF Visible
  <2>2. QED
    BY <1>1, <1>6, <1>7, <2>1
<1>9. QED
  BY <1>8, LookupBound

LEMMA FarBound ==
  ASSUME Unambiguous, NEW body, Tree(scopes, body), Sought, NEW n \in Identifiers,
         NEW t \in Imported(Text[n].range.file, Text[n].name).symbols
  PROVE  Bound(n, t)
<1> DEFINE file == Text[n].range.file
           name == Text[n].name
           scope(k) == IF imports[k] # None THEN imports[k] ELSE ResolveScope(<<k[2]>>)
<1>1. PICK k \in DOMAIN imports : k[1] = file /\ scope(k) # None /\ t = Lookup(scope(k), name)
                                  /\ Lookup(scope(k), name) # None
  BY DEF Imported
<1>2. PICK i \in Nodes : Text[i].kind = "import" /\ k[1] = Text[i].range.file
                         /\ k[2] = Text[i].name
  BY DEF Sought
<1>3. scope(k) = Find(scopes, 1, Text[i].name)
  BY <1>2, ResolveChild DEF Sought
<1> HIDE DEF scope
<1>4. QED
  BY <1>1, <1>2, <1>3, PackageBound

LEMMA ImportedSought ==
  ASSUME NEW body, Tree(scopes, body), Sought, UNCHANGED scopes, phase' # "visit",
         NEW file, NEW name, imports' = Imported(file, name).imports
  PROVE  Sought'
<1> DEFINE scope(k) == IF imports[k] # None THEN imports[k] ELSE ResolveScope(<<k[2]>>)
<1>1. ASSUME NEW k \in DOMAIN imports'
      PROVE  k \in DOMAIN imports /\ imports'[k] \in {imports[k], scope(k)}
  BY DEF Imported
<1>2. ASSUME NEW k \in DOMAIN imports, scope(k) # None
      PROVE  scope(k) = Find(scopes, 1, k[2])
  BY ResolveChild DEF Sought
<1> HIDE DEF scope
<1>3. ASSUME NEW k \in DOMAIN imports'
      PROVE  /\ \E i \in Nodes : Text[i].kind = "import" /\ k[1] = Text[i].range.file
                                 /\ k[2] = Text[i].name
             /\ imports'[k] # None => imports'[k] = Find(scopes, 1, k[2])
  <2>1. k \in DOMAIN imports /\ imports'[k] \in {imports[k], scope(k)}
    BY <1>1
  <2>2. imports'[k] # None => imports'[k] = Find(scopes, 1, k[2])
    BY <1>2, <2>1 DEF Sought
  <2>3. QED
    BY <2>1, <2>2 DEF Sought
<1>4. scopes' = scopes /\ phase' # "visit"
  OBVIOUS
<1>5. QED
  BY <1>3, <1>4 DEF Sought

-----------------------------------------------------------------------------
(* The records.                                                            *)

Others ==
  Declarers \cup {Text[m].range : m \in {x \in Nodes : Text[x].kind \in {"port", "type"}}}
Placed(r, t) == r \in Others \/ \E n \in Identifiers : r = Text[n].range /\ Bound(n, t)
Settled == \A k \in DOMAIN references : Placed(references[k].range, references[k].symbol)

LEMMA SettledWith ==
  ASSUME Settled, NEW t, NEW r, Placed(r, t), NEW d, references' = WithReference(t, r, d)
  PROVE  Settled'
<1>1. \A k \in DOMAIN references' :
        \/ k \in DOMAIN references /\ references'[k] = references[k]
        \/ references'[k].range = r /\ references'[k].symbol = t
  BY DEF WithReference, Put
<1>2. \A k \in DOMAIN references' : Placed(references'[k].range, references'[k].symbol)
  BY <1>1 DEF Settled
<1>3. QED
  BY <1>2 DEF Settled

LEMMA SettledSame ==
  ASSUME Settled, UNCHANGED references
  PROVE  Settled'
BY DEF Settled

LEMMA SettledAdd ==
  ASSUME Settled, NEW name, NEW range, <<name, range>> \in Declared, AddSymbol(name, range)
  PROVE  Settled'
<1>1. range \in Others
  <2>1. <<name, range>>[2] = range
    OBVIOUS
  <2>2. QED
    BY <2>1 DEF Others, Declarers
<1>2. Placed(range, range)
  BY <1>1 DEF Placed
<1>3. UNCHANGED references \/ references' = WithReference(range, range, TRUE)
  BY DEF AddSymbol
<1>4. QED
  BY <1>2, <1>3, SettledWith, SettledSame

LEMMA ReferToSettled ==
  ASSUME Settled, NEW s, NEW name, NEW range \in Others, ReferTo(s, name, range)
  PROVE  Settled'
<1>1. CASE AddReference(Lookup(s, name), range)
  <2> DEFINE t == Lookup(s, name)
  <2>1. references' = WithReference(t, range, FALSE)
    BY <1>1 DEF AddReference
  <2>2. Placed(range, t)
    BY DEF Placed
  <2> HIDE DEF t
  <2>3. QED
    BY <2>1, <2>2, SettledWith
<1>2. CASE UNCHANGED references
  BY <1>2, SettledSame
<1>3. QED
  BY <1>1, <1>2, ReferToCases

(* A step of the first visit records declarations only.                    *)
LEMMA AfterCloseSettled ==
  ASSUME Settled, NEW outer, NEW n \in Openers, AfterClose(outer, n)
  PROVE  Settled'
<1>1. n \in Nodes
  BY DEF Openers
<1>2. CASE Text[n].kind = "function"
  <2>1. AddSymbol(Text[n].name, Text[n].id)
    BY <1>2 DEF AfterClose
  <2>2. <<Text[n].name, Text[n].id>> \in Declared
    BY <1>1, <1>2, DeclaredFacts DEF Identified, Top
  <2>3. QED
    BY <2>1, <2>2, SettledAdd
<1>3. CASE Text[n].kind = "instance" /\ ScopeByName(outer, Text[n].name) # None
  <2> DEFINE o == Text[n].of
  <2>1. AddSymbol(Text[o].name, Text[o].id)
    BY <1>3 DEF AfterClose
  <2>2. o \in Nodes /\ Identified(o)
    BY <1>1, <1>3, TextAssumption DEF Identified, Top
  <2> HIDE DEF o
  <2>3. <<Text[o].name, Text[o].id>> \in Declared
    BY <2>2, DeclaredFacts
  <2>4. QED
    BY <2>1, <2>3, SettledAdd
<1>4. CASE ~(Text[n].kind = "function")
           /\ ~(Text[n].kind = "instance" /\ ScopeByName(outer, Text[n].name) # None)
  BY <1>4, SettledSame DEF AfterClose
<1>5. QED
  BY <1>2, <1>3, <1>4

LEMMA VisitSettled ==
  ASSUME RecInv, Settled,
         (\E n \in Nodes : HandleUnit(n) \/ HandleSymbol(n) \/ HandleImport(n)
                           \/ HandleScope(n) \/ HandleInstance(n)) \/ Leave
  PROVE  Settled'
<1>1. ASSUME NEW n \in Nodes, HandleSymbol(n) PROVE Settled'
  <2>1. <<Text[n].name, Text[n].range>> \in Declared
    BY <1>1, DeclaredFacts DEF HandleSymbol, Top
  <2>2. AddSymbol(Text[n].name, Text[n].range)
    BY <1>1 DEF HandleSymbol
  <2>3. QED
    BY <2>1, <2>2, SettledAdd
<1>2. ASSUME NEW n \in Nodes, HandleInstance(n) PROVE Settled'
  <2>1. CASE Text[n].range = NoRange \/ Text[n].name = ""
    BY <1>2, <2>1, SettledSame DEF HandleInstance
  <2>2. CASE ~(Text[n].range = NoRange \/ Text[n].name = "")
    <3>1. ~Top(n) /\ Text[n].kind = "instance"
      BY <1>2, <2>2, TextAssumption DEF HandleInstance
    <3>2. <<Text[n].name, Text[n].range>> \in Declared
      BY <3>1, DeclaredFacts
    <3>3. AddSymbol(Text[n].name, Text[n].range)
      BY <1>2, <2>2 DEF HandleInstance
    <3>4. QED
      BY <3>2, <3>3, SettledAdd
  <2>3. QED
    BY <2>1, <2>2
<1>3. ASSUME NEW n \in Nodes, HandleUnit(n) \/ HandleImport(n) \/ HandleScope(n)
      PROVE  Settled'
  BY <1>3, SettledSame DEF HandleUnit, HandleImport, HandleScope
<1>4. CASE Leave
  <2>1. CASE Frame.opens /\ Closes(Frame.name)
    <3>1. AfterClose(stack[Len(stack) - 1], Frame.owner)
      BY <1>4, <2>1 DEF Leave
    <3>2. frames # <<>>
      BY <1>4 DEF Leave
    <3>3. Frame.owner \in Openers
      BY <2>1, <3>2, FrameFacts DEF RecInv
    <3>4. QED
      BY <3>1, <3>3, AfterCloseSettled
  <2>2. CASE ~(Frame.opens /\ Closes(Frame.name))
    BY <1>4, <2>2, SettledSame DEF Leave
  <2>3. QED
    BY <2>1, <2>2
<1>5. QED
  BY <1>1, <1>2, <1>3, <1>4

LEMMA IdentifierSettled ==
  ASSUME Unambiguous, TreeInv, Settled, Sought, NEW n \in Identifiers, ReferIdentifier(n)
  PROVE  Settled'
<1>1. PICK body : Shape(scopes, body, symbols, registered, elaborated, phase, stack, frames)
  BY DEF TreeInv
<1>2. Tree(scopes, body) /\ Held(scopes, registered)
  BY <1>1 DEF Shape, Fits
<1> DEFINE range == Text[n].range
           name == Text[n].name
<1>3. \/ UNCHANGED references
      \/ \E s \in ScopesForRange(range) :
           Lookup(s, name) # None /\ AddReference(Lookup(s, name), range)
      \/ \E t \in Imported(range.file, name).symbols : AddReference(t, range)
  BY DEF ReferIdentifier
<1>4. ASSUME NEW t, Bound(n, t), AddReference(t, range) PROVE Settled'
  <2>1. Placed(range, t)
    BY <1>4 DEF Placed
  <2>2. references' = WithReference(t, range, FALSE)
    BY <1>4 DEF AddReference
  <2> HIDE DEF range
  <2>3. QED
    BY <2>1, <2>2, SettledWith
<1>5. QED
  BY <1>2, <1>3, <1>4, NearBound, FarBound, SettledSame

LEMMA ReferSettled ==
  ASSUME Unambiguous, RecInv, TreeInv, Settled, Sought, Refer
  PROVE  Settled'
<1> DEFINE n == Head(todo)
<1>1. n \in Places
  BY TailFacts DEF RecInv, Refer
<1>2. n \in Nodes
  BY <1>1 DEF Places
<1> HIDE DEF n
<1>3. CASE ReferIdentifier(n)
  <2>1. n \in Identifiers
    BY <1>2, <1>3 DEF ReferIdentifier, Identifiers
  <2>2. QED
    BY <1>3, <2>1, IdentifierSettled
<1>4. CASE ReferInstance(n)
  <2>1. Identified(n)
    BY <1>1, <1>4 DEF ReferInstance, Places, Identified
  <2>2. Text[n].id \in Others
    BY <1>2, <2>1, PlaceFacts DEF Others
  <2>3. QED
    BY <1>4, <2>2, ReferToSettled DEF ReferInstance
<1>5. CASE ReferPort(n) \/ ReferType(n)
  <2>1. Text[n].range \in Others
    BY <1>2, <1>5 DEF ReferPort, ReferType, Others
  <2>2. QED
    BY <1>5, <2>1, ReferToSettled DEF ReferPort, ReferType
<1>6. CASE ReferModule(n)
  BY <1>6, SettledSame DEF ReferModule
<1>7. QED
  BY <1>3, <1>4, <1>5, <1>6 DEF Refer, n

LEMMA NextSettled ==
  ASSUME Unambiguous, RecInv, TreeInv, Settled, Sought, [Next]_vars
  PROVE  Settled'
<1>1. CASE StartReferences \/ Ready \/ UNCHANGED vars
  BY <1>1, SettledSame DEF StartReferences, Ready, vars
<1>2. QED
  BY <1>1, VisitSettled, ReferSettled DEF Next

(* The packages are looked for when the scopes are all there.              *)
LEMMA SameSought ==
  ASSUME Sought, UNCHANGED imports, phase = "visit" \/ (UNCHANGED scopes /\ phase' # "visit")
  PROVE  Sought'
<1>1. ASSUME NEW k \in DOMAIN imports, imports[k] # None
      PROVE  phase' # "visit" /\ imports[k] = Find(scopes', 1, k[2])
  <2>1. phase # "visit" /\ imports[k] = Find(scopes, 1, k[2])
    BY <1>1 DEF Sought
  <2>2. scopes' = scopes /\ phase' # "visit"
    BY <2>1
  <2>3. QED
    BY <2>1, <2>2
<1>2. QED
  BY <1>1 DEF Sought

LEMMA ImportSought ==
  ASSUME Sought, NEW n \in Nodes, HandleImport(n)
  PROVE  Sought'
<1> DEFINE key == <<Text[n].range.file, Text[n].name>>
<1>1. imports' = Put(imports, key, None) /\ phase = "visit" /\ Text[n].kind = "import"
  BY DEF HandleImport, Presents
<1>2. key[1] = Text[n].range.file /\ key[2] = Text[n].name
  OBVIOUS
<1> HIDE DEF key
<1>3. \A k \in DOMAIN imports' :
        \/ k = key /\ imports'[k] = None
        \/ k \in DOMAIN imports /\ imports'[k] = imports[k]
  BY <1>1 DEF Put
<1>4. \A k \in DOMAIN imports' : imports'[k] = None
  BY <1>1, <1>3 DEF Sought
<1>5. \A k \in DOMAIN imports' :
        \E i \in Nodes : Text[i].kind = "import" /\ k[1] = Text[i].range.file
                         /\ k[2] = Text[i].name
  BY <1>1, <1>2, <1>3 DEF Sought
<1>6. QED
  BY <1>4, <1>5 DEF Sought

LEMMA NextSought ==
  ASSUME TreeInv, Sought, [Next]_vars
  PROVE  Sought'
<1>1. PICK body : Shape(scopes, body, symbols, registered, elaborated, phase, stack, frames)
  BY DEF TreeInv
<1>2. Tree(scopes, body)
  BY <1>1 DEF Shape, Fits
<1>3. ASSUME NEW n \in Nodes, HandleUnit(n) \/ HandleSymbol(n) \/ HandleScope(n)
                              \/ HandleInstance(n)
      PROVE  Sought'
  <2>1. Presents(n) /\ UNCHANGED imports
    BY <1>3 DEF HandleUnit, HandleSymbol, HandleScope, HandleInstance
  <2>2. phase = "visit"
    BY <2>1 DEF Presents
  <2>3. QED
    BY <2>1, <2>2, SameSought
<1>4. CASE Leave \/ StartReferences
  BY <1>4, SameSought DEF Leave, StartReferences
<1>5. CASE Ready
  BY <1>5, SameSought DEF Ready
<1>6. CASE UNCHANGED vars
  BY <1>6, SameSought DEF vars
<1>7. CASE Refer
  <2>1. phase = "refer" /\ UNCHANGED scopes /\ phase' # "visit"
    BY <1>7, ReferPhase DEF Refer
  <2>2. \/ UNCHANGED imports
        \/ \E file, name : imports' = Imported(file, name).imports
    BY <1>7 DEF Refer, ReferIdentifier, ReferModule, ReferInstance, ReferPort, ReferType
  <2>3. CASE UNCHANGED imports
    <3>1. UNCHANGED scopes /\ phase' # "visit"
      BY <2>1
    <3>2. QED
      BY <2>3, <3>1, SameSought
  <2>4. CASE \E file, name : imports' = Imported(file, name).imports
    BY <1>2, <2>1, <2>4, ImportedSought
  <2>5. QED
    BY <2>2, <2>3, <2>4
<1>8. QED
  BY <1>3, <1>4, <1>5, <1>6, <1>7, ImportSought DEF Next

BindInv == RecInv /\ TreeInv /\ Settled /\ Sought

LEMMA InitBound == Init => BindInv
<1> SUFFICES ASSUME Init PROVE BindInv
  OBVIOUS
<1>1. RecInv /\ TreeInv
  BY InitRecorded, InitTree
<1>2. DOMAIN references = {} /\ DOMAIN imports = {}
  BY DEF Init, Empty
<1>3. QED
  BY <1>1, <1>2 DEF BindInv, Settled, Sought

LEMMA NextBound == Unambiguous /\ BindInv /\ [Next]_vars => BindInv'
<1> SUFFICES ASSUME Unambiguous, BindInv, [Next]_vars PROVE BindInv'
  OBVIOUS
<1>1. RecInv /\ TreeInv /\ Settled /\ Sought /\ IdxInv
  BY DEF BindInv, RecInv
<1>2. IdxInv' /\ Recorded' /\ Owned(frames)' /\ Rooted' /\ todo' \in Seq(Places)
  BY <1>1, NextAgrees, NextRecorded
<1>3. RecInv'
  BY <1>2 DEF RecInv
<1>4. TreeInv'
  BY <1>1, NextTree
<1>5. Settled' /\ Sought'
  BY <1>1, NextSettled, NextSought
<1>6. QED
  BY <1>3, <1>4, <1>5 DEF BindInv

LEMMA BoundScope ==
  ASSUME BindInv
  PROVE  BindsInScope
<1> SUFFICES ASSUME NEW n \in Identifiers,
                    <<Text[n].range.file, Text[n].range.start>> \in DOMAIN references
             PROVE  LET k == <<Text[n].range.file, Text[n].range.start>>
                    IN  /\ \E m \in DOMAIN Seen : \E body \in Seen[m] :
                             Text[m].range = Text[n].range /\ DeclaredIn(references[k].symbol, body)
                        /\ symbols[references[k].symbol].name = Text[n].name
  BY SeenFacts DEF BindsInScope
<1> DEFINE k == <<Text[n].range.file, Text[n].range.start>>
           r == references[k].range
           t == references[k].symbol
<1>1. k = <<r.file, r.start>> /\ t \in DOMAIN symbols
  BY DEF BindInv, RecInv, IdxInv, ReferencesAgree
<1>2. r.file = Text[n].range.file /\ r.start = Text[n].range.start
  BY <1>1
<1>3. Placed(r, t)
  BY DEF BindInv, Settled
<1> HIDE DEF r, t, k
<1>4. r \notin Others
  <2>1. \A q \in Others : q.file = Text[n].range.file => q.start # Text[n].range.start
    BY NestingAssumption DEF Others, Declarers
  <2>2. QED
    BY <1>2, <2>1
<1>5. PICK x \in Identifiers : r = Text[x].range /\ Bound(x, t)
  BY <1>3, <1>4 DEF Placed
<1>6. Text[x].range = Text[n].range /\ Text[x].name = Text[n].name
  BY <1>2, <1>5, NestingAssumption
<1>7. \E m \in DOMAIN Seen : \E body \in Seen[m] :
        Text[m].range = Text[n].range /\ DeclaredIn(t, body)
  BY <1>5, <1>6, SeenFacts DEF Bound, Sees
<1>8. symbols[t].name = Text[n].name
  <2>1. Noted(symbols)
    BY DEF BindInv, TreeInv, Shape, Fits
  <2>2. <<symbols[t].name, t>> \in Declared
    BY <1>1, <2>1 DEF Noted
  <2>3. <<Text[n].name, t>> \in Declared
    BY <1>5, <1>6 DEF Bound
  <2> DEFINE d == <<symbols[t].name, t>>
             e == <<Text[n].name, t>>
  <2>4. d \in Declared /\ e \in Declared /\ d[2] = e[2]
    BY <2>2, <2>3
  <2>5. d[1] = e[1]
    <3> HIDE DEF d, e
    <3>1. QED
      BY <2>4, WordAssumption
  <2>6. QED
    BY <2>5
<1>9. QED
  BY <1>7, <1>8 DEF k, t

(* An identifier is never bound to a declaration that its text cannot see:  *)
(* what ReferenceVisitor records for a word is declared in a body around    *)
(* it, in a compilation unit, or in a package that its file imports, and    *)
(* has its name.                                                           *)
THEOREM IdentifiersBindInScope == Unambiguous => (Spec => []BindsInScope)
<1> SUFFICES ASSUME Unambiguous PROVE Spec => []BindsInScope
  OBVIOUS
<1>1. Init => BindInv
  BY InitBound
<1>2. BindInv /\ [Next]_vars => BindInv'
  BY NextBound
<1>3. BindInv => BindsInScope
  BY BoundScope
<1>4. QED
  BY <1>1, <1>2, <1>3, PTL DEF Spec
=============================================================================
