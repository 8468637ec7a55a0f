------------------------------ MODULE Indexer ------------------------------
(***************************************************************************)
(* The index of the design (src/indexer): the scopes and symbols that      *)
(* IndexVisitor finds in the elaborated design, and the references that    *)
(* ReferenceVisitor then finds in the syntax of every file.                *)
(*                                                                         *)
(* The source text is a constant: Text[n] is a syntax node, and nodes are  *)
(* numbered in document order.  A column and a line are one number, so a   *)
(* range is an interval of a file.  The elaboration is slang's: within a   *)
(* body it presents the members in order, leaves out the generate blocks   *)
(* whose condition is false and repeats those of a loop.  The containers   *)
(* keyed by a hash are walked in any order.                                *)
(***************************************************************************)
EXTENDS Integers, Sequences, FiniteSets, SequencesExt

CONSTANTS
  Source,      \* the text of the design: a sequence of [kind, name, range, id, in, of, many]
  Files,       \* the files, in the order of their paths
  UnnamedIds,  \* the names that _get_unnamed_id gives, in order
  NoRange,     \* a scope, or a top instance, without syntax
  None         \* no scope, no symbol

(* in: the enclosing node, 0 outside of every unit; id: the range of the    *)
(* identifier of a declaration; of: the module of an instance, the instance *)
(* of a type; many: the body of a loop, an element of an array of           *)
(* instances.  The array is a block, its elements have no name.             *)
Kinds == {"unit", "module", "package", "block", "function", "instance",
          "symbol", "import", "identifier", "port", "type"}

Text == Source
Nodes == DOMAIN Text

IsRange(r) ==
  /\ r \notin {NoRange, None} /\ r = [file |-> r.file, start |-> r.start, end |-> r.end]
  /\ r.start \in Nat /\ r.end \in Nat

(* An instance outside of every unit is a top of the design.  The others,   *)
(* modules and functions have an identifier; what opens a scope has a name, *)
(* unless it is a generate block or an element of an array.  A port is what *)
(* an instance binds by its name, ports and parameters, or a class used in  *)
(* a module.                                                                *)
Top(n) == Text[n].kind = "instance" /\ Text[n].in = 0
Identified(n) == Text[n].kind \in {"module", "function", "instance"} /\ ~Top(n)
Openers == {n \in Nodes : Text[n].kind \in {"package", "block", "function", "instance"}}
Body(n) == IF Text[n].kind = "instance" THEN Text[n].of ELSE n

ASSUME TextAssumption ==
  /\ Text \in Seq(ToSet(Text)) /\ Files \in Seq(ToSet(Files))
  /\ UnnamedIds \in Seq(ToSet(UnnamedIds)) /\ "" \notin ToSet(UnnamedIds)
  /\ \A i, j \in DOMAIN UnnamedIds : UnnamedIds[i] = UnnamedIds[j] => i = j
  /\ None \notin Nat
  /\ \A n \in Nodes :
       /\ Text[n].kind \in Kinds /\ Text[n].in \in 0 .. (n - 1)
       /\ IF Top(n) THEN Text[n].range = NoRange ELSE IsRange(Text[n].range)
       /\ Text[n].in = 0 <=> Text[n].kind = "unit" \/ Top(n)
       /\ Identified(n) => IsRange(Text[n].id)
       /\ Text[n].kind = "instance" => Text[n].of \in Nodes /\ Text[Text[n].of].kind = "module"
       /\ n \in Openers /\ Text[n].name = "" =>
            \/ Text[n].kind = "block"
            \/ Text[n].kind = "instance" /\ ~Top(n) /\ Text[Text[n].in].kind = "block"
       /\ Text[n].kind = "port" => Text[Text[n].in].kind \in {"instance", "module"}

(* A word ends before the next one begins, and a declaration begins with a  *)
(* word; one place declares one name.                                       *)
Words ==
  {Text[n].range : n \in {m \in Nodes : Text[m].kind \in {"identifier", "port", "type"}}}
  \cup {Text[n].id : n \in {m \in Nodes : Identified(m)}}
Declared ==
  {<<Text[n].name, Text[n].range>> :
     n \in {m \in Nodes : Text[m].kind \in {"symbol", "instance"} /\ ~Top(m)}}
  \cup {<<Text[n].name, Text[n].id>> : n \in {m \in Nodes : Identified(m)}}
ASSUME WordAssumption ==
  /\ \A r \in Words : \A q \in Words \cup {d[2] : d \in Declared} :
       q.file = r.file /\ r.start <= q.start /\ q.start <= r.end => q.start = r.start
  /\ \A d, e \in Declared : d[2] = e[2] => d[1] = e[1]

VARIABLES
  scopes,      \* every IndexScope, in the order of creation; the first is _root
  stack,       \* _scope_stack
  frames,      \* the scopes of the design that the visit is inside
  symbols,     \* _declarations of every file: range |-> [name, refs]
  references,  \* _references of every file: <<file, start>> |-> record
  registered,  \* _scopes of every file: <<file, path>> |-> scope
  imports,     \* _additional_lookup_scopes: <<file, path>> |-> scope or None
  roots,       \* _syntax_root of the files that have one
  todo,        \* the nodes that ReferenceVisitor has yet to reach
  instance,    \* _instance_scope
  phase,       \* "visit", "refer", "ready", "thrown" after a logic_error, or
               \* "null" after a null pointer was used
  elaborated   \* history: <<path, range>> of every symbol of the design

vars == <<scopes, stack, frames, symbols, references, registered, imports,
          roots, todo, instance, phase, elaborated>>

Put(f, x, v) == [z \in DOMAIN f \cup {x} |-> IF z = x THEN v ELSE f[z]]
Empty == [x \in {} |-> x]

----------------------------------------------------------------------------
(* IndexRange                                                               *)

Covers(r, file, pos) == r # NoRange /\ r.file = file /\ r.start <= pos /\ pos <= r.end

CoversRange(r, s) ==
  r # NoRange /\ r.file = s.file /\ r.start <= s.start /\ s.end <= r.end

----------------------------------------------------------------------------
(* IndexScope.  A scope is its place in scopes; a child comes after its     *)
(* parent.                                                                  *)

NewScope(name, parent, path, virtual, anonymous) ==
  [name |-> name, parent |-> parent, path |-> path, virtual |-> virtual,
   anonymous |-> anonymous, range |-> NoRange, children |-> Empty,
   aliases |-> Empty, content |-> Empty, unnamed |-> 0]

(* _get_unnamed_id, when the name is empty                                  *)
UsedName(ss, p, name) == IF name = "" THEN UnnamedIds[ss[p].unnamed + 1] ELSE name
Counted(ss, p, name) == IF name = "" THEN [ss EXCEPT ![p].unnamed = @ + 1] ELSE ss

(* Mutant: the child does not learn its parent.                             *)
AddChildOrphan(ss, p, name, virtual) ==
  LET used == UsedName(ss, p, name)
      tt == Counted(ss, p, name)
      new == Len(ss) + 1
  IN  IF used \in DOMAIN ss[p].children
      THEN [scopes |-> tt, id |-> ss[p].children[used]]
      ELSE [scopes |-> Append([tt EXCEPT ![p].children = Put(@, used, new)],
                              NewScope(used, 1, <<used>>, virtual, name = "")),
            id |-> new]

AddChild(ss, p, name, virtual) ==
  LET used == UsedName(ss, p, name)
      tt == Counted(ss, p, name)
      new == Len(ss) + 1
  IN  IF used \in DOMAIN ss[p].children
      THEN [scopes |-> tt, id |-> ss[p].children[used]]
      ELSE [scopes |-> Append([tt EXCEPT ![p].children = Put(@, used, new)],
                              NewScope(used, p, Append(ss[p].path, used), virtual, name = "")),
            id |-> new]

(* Mutant: the duplicate keeps only the name of the scope it repeats.       *)
AddChildAliasNone(ss, p, target, alias) == [scopes |-> Counted(ss, p, alias), ok |-> TRUE]

(* ok is FALSE when the alias exists toward another scope: out_of_range.    *)
AddChildAlias(ss, p, target, alias) ==
  LET used == UsedName(ss, p, alias)
      old == ss[p].aliases
  IN  [scopes |-> IF used \in DOMAIN old THEN Counted(ss, p, alias)
                  ELSE [Counted(ss, p, alias) EXCEPT ![p].aliases = Put(@, used, target)],
       ok |-> used \notin DOMAIN old \/ old[used] = target]

ScopeByName(s, name) ==
  IF name \in DOMAIN scopes[s].children THEN scopes[s].children[name]
  ELSE IF name \in DOMAIN scopes[s].aliases THEN scopes[s].aliases[name]
  ELSE None

ChildrenOf(s) == {c \in DOMAIN scopes : scopes[c].parent = s}

(* lookup_symbol goes up while the scope is virtual; strict: it does not.   *)
(* Of the scopes around another the inner ones were created later.          *)
LookupStrict(s, name) ==
  IF name \in DOMAIN scopes[s].content THEN scopes[s].content[name] ELSE None

Above(s) == {a \in DOMAIN scopes : IsPrefix(scopes[a].path, scopes[s].path)}
Visible(s) == {a \in Above(s) : \A b \in Above(s) : b > a => scopes[b].virtual}

Lookup(s, name) ==
  LET holders == {a \in Visible(s) : name \in DOMAIN scopes[a].content}
      nearest == {a \in holders : \A b \in holders : b <= a}
  IN  IF nearest = {} THEN None ELSE scopes[CHOOSE a \in nearest : TRUE].content[name]

ResolveScope(path) ==
  LET at[i \in 0 .. Len(path)] ==
        IF i = 0 THEN 1
        ELSE IF at[i - 1] = None THEN None
        ELSE ScopeByName(at[i - 1], path[i])
  IN  at[Len(path)]

ResolveSymbol(path) ==
  LET s == ResolveScope(Front(path))
  IN  IF s = None THEN None ELSE LookupStrict(s, Last(path))

(* get_scope_for_location, from every scope of the file: children of        *)
(* children are looked at too, the first that contains the place is taken.  *)
ScopesForLocation(file, pos) ==
  LET inner(s) == {c \in ChildrenOf(s) : Covers(scopes[c].range, file, pos)}
      down[s \in DOMAIN scopes] ==
        IF inner(s) = {} THEN {s} ELSE UNION {down[c] : c \in inner(s)}
      tops == {s \in {registered[k] : k \in {j \in DOMAIN registered : j[1] = file}} :
                 Covers(scopes[s].range, file, pos)}
  IN  UNION {down[s] : s \in tops}

(* get_scope_for_range, from every scope of the file: only the children of  *)
(* that scope are looked at.                                                *)
RangeFrom(s, r) ==
  LET inner == {c \in ChildrenOf(s) : CoversRange(scopes[c].range, r)}
  IN  IF scopes[s].range = r THEN {s}
      ELSE IF inner # {} THEN inner
      ELSE IF CoversRange(scopes[s].range, r) THEN {s}
      ELSE {}

ScopesForRange(r) ==
  UNION {RangeFrom(registered[k], r) : k \in {j \in DOMAIN registered : j[1] = r.file}}

----------------------------------------------------------------------------
(* IndexFile.  A symbol is the range of its declaration.                    *)

IsFirst(range) == <<range.file, range.start>> \notin DOMAIN references

(* add_reference: the first record at a place stays.                        *)
WithReference(symbol, range, definition) ==
  IF IsFirst(range)
  THEN Put(references, <<range.file, range.start>>,
           [range |-> range, symbol |-> symbol, definition |-> definition])
  ELSE references

(* Mutant: a duplicate is listed by the symbol all the same.                *)
AddReferenceTwice(symbol, range) ==
  /\ references' = WithReference(symbol, range, FALSE)
  /\ symbols' = [symbols EXCEPT ![symbol].refs = @ \cup {range}]

AddReference(symbol, range) ==
  /\ references' = WithReference(symbol, range, FALSE)
  /\ symbols' = IF IsFirst(range)
                THEN [symbols EXCEPT ![symbol].refs = @ \cup {range}]
                ELSE symbols

(* add_symbol: the first symbol of a range stays, and keeps its name.       *)
AddSymbol(name, range) ==
  IF range \in DOMAIN symbols THEN UNCHANGED <<symbols, references>>
  ELSE /\ symbols' = Put(symbols, range, [name |-> name, refs |-> {}])
       /\ references' = WithReference(range, range, TRUE)

NameAt(name, range) == IF range \in DOMAIN symbols THEN symbols[range].name ELSE name

(* ... and IndexScope::add_symbol                                           *)
Registering(ss, s, name, range) ==
  [ss EXCEPT ![s].content = Put(@, NameAt(name, range), range)]

(* Mutant: lower_bound - 1.                                                 *)
SymbolBefore(file, pos) ==
  LET before == {k \in DOMAIN references : k[1] = file /\ k[2] < pos}
      last == CHOOSE k \in before : \A j \in before : j[2] <= k[2]
  IN  IF before # {} /\ Covers(references[last].range, file, pos)
      THEN references[last].symbol
      ELSE None

(* lookup_symbol_by_location: upper_bound - 1, and the range must contain   *)
(* the place, its end included.                                             *)
SymbolAt(file, pos) ==
  LET before == {k \in DOMAIN references : k[1] = file /\ k[2] <= pos}
      last == CHOOSE k \in before : \A j \in before : j[2] <= k[2]
  IN  IF before # {} /\ Covers(references[last].range, file, pos)
      THEN references[last].symbol
      ELSE None

----------------------------------------------------------------------------
(* IndexVisitor.  A frame is a scope of the design whose members are being  *)
(* presented: those of node, after last; on leaving, name closes the scope  *)
(* that was opened for it, and the handler of owner goes on.                *)

Current == stack[Len(stack)]
Frame == frames[Len(frames)]

NoScopeFrame(n) == [node |-> n, last |-> 0, opens |-> FALSE, name |-> "", owner |-> 0,
                    path |-> IF frames = <<>> THEN <<>> ELSE Frame.path]
ScopeFrame(n, name, owner, path) ==
  [node |-> n, last |-> 0, opens |-> TRUE, name |-> name, owner |-> owner, path |-> path]

(* The path of a member by the names of the design, "" in an unnamed scope. *)
Inner(name) == Append(Frame.path, name)
Nameable(path) == \A i \in DOMAIN path : path[i] # ""

InDesign == {"unit", "package", "block", "function", "instance", "symbol", "import"}
Members(b) == {n \in Nodes : Text[n].in = b /\ Text[n].kind \in InDesign}
Optional(n) == Text[n].kind = "block"

(* The branches of an if generate may have one name: one of them is there.  *)
Alternative(m, n) ==
  m < n /\ Text[m].kind = "block" /\ Text[n].kind = "block"
  /\ Text[m].name = Text[n].name /\ Text[n].name # ""

(* The member the elaboration presents next; the body of a loop may come    *)
(* again.                                                                   *)
Presents(n) ==
  /\ phase = "visit" /\ frames # <<>> /\ n \in Members(Frame.node)
  /\ n > Frame.last \/ (n = Frame.last /\ Text[n].many)
  /\ Text[n].name = "" => scopes[Current].unnamed < Len(UnnamedIds)   \* the bound
  /\ \A m \in Members(Frame.node) : Frame.last < m /\ m < n => Optional(m)
  /\ \A m \in Members(Frame.node) : Alternative(m, n) => Frame.last < m

Passed(n) == [frames EXCEPT ![Len(frames)].last = n]
Elaborates(name, range) ==
  elaborated' = IF Nameable(Inner(name)) THEN elaborated \cup {<<Inner(name), range>>}
                ELSE elaborated

(* A compilation unit: its members go to the scope that is open.            *)
HandleUnit(n) ==
  /\ Presents(n) /\ Text[n].kind = "unit"
  /\ roots' = Put(roots, Text[n].range.file, n)
  /\ frames' = Append(Passed(n), NoScopeFrame(n))
  /\ UNCHANGED <<scopes, stack, symbols, references, registered, imports, todo,
                 instance, phase, elaborated>>

(* _default_symbol_handle, for every kind of symbol that has no scope       *)
HandleSymbol(n) ==
  /\ Presents(n) /\ Text[n].kind = "symbol"
  /\ AddSymbol(Text[n].name, Text[n].range)
  /\ scopes' = Registering(scopes, Current, Text[n].name, Text[n].range)
  /\ frames' = Passed(n)
  /\ Elaborates(Text[n].name, Text[n].range)
  /\ UNCHANGED <<stack, registered, imports, roots, todo, instance, phase>>

HandleImport(n) ==
  /\ Presents(n) /\ Text[n].kind = "import"
  /\ imports' = Put(imports, <<Text[n].range.file, Text[n].name>>, None)
  /\ frames' = Passed(n)
  /\ UNCHANGED <<scopes, stack, symbols, references, registered, roots, todo,
                 instance, phase, elaborated>>

Duplicates(ss, range) == {c \in DOMAIN ss : ss[c].parent = Current /\ ss[c].range = range}

Enters(id, body, owner, name, path) ==
  /\ stack' = Append(stack, id)
  /\ frames' = Append(Passed(owner), ScopeFrame(body, name, owner, path))

(* The opening of _default_scope_handle, for the scope of body called name: *)
(* a child with this very range is opened again under an alias.             *)
OpenScope(ss, body, owner, name, virtual) ==
  LET range == Text[body].range
      child == AddChild(ss, Current, name, virtual)
      key == <<range.file, child.scopes[child.id].path>>
  IN  /\ roots' = IF range.file \in DOMAIN roots THEN roots
                  ELSE Put(roots, range.file, body)
      /\ IF Duplicates(ss, range) # {}
         THEN \E d \in Duplicates(ss, range) :
                LET added == AddChildAlias(ss, Current, d, name)
                IN  /\ scopes' = added.scopes
                    /\ phase' = IF added.ok THEN phase ELSE "thrown"
                    /\ Enters(d, body, owner, ss[d].name, Inner(name))
                    /\ UNCHANGED registered
         ELSE /\ scopes' = [child.scopes EXCEPT ![child.id].range = range]
              /\ registered' = IF key \in DOMAIN registered THEN registered
                               ELSE Put(registered, key, child.id)
              /\ Enters(child.id, body, owner, name, Inner(name))
              /\ UNCHANGED phase

(* Packages, generate blocks and functions see what encloses them.          *)
HandleScope(n) ==
  /\ Presents(n) /\ Text[n].kind \in {"package", "block", "function"}
  /\ OpenScope(scopes, n, n, Text[n].name, TRUE)
  /\ UNCHANGED <<symbols, references, imports, todo, instance, elaborated>>

(* Mutant: an instance sees the scope it is in, as a block does.            *)
HandleInstanceVirtual(n) ==
  /\ Presents(n) /\ Text[n].kind = "instance"
  /\ IF Text[n].range = NoRange \/ Text[n].name = ""
     THEN /\ OpenScope(scopes, Text[n].of, n, Text[n].name, TRUE)
          /\ UNCHANGED <<symbols, references, elaborated>>
     ELSE /\ AddSymbol(Text[n].name, Text[n].range)
          /\ OpenScope(Registering(scopes, Current, Text[n].name, Text[n].range),
                       Text[n].of, n, Text[n].name, TRUE)
          /\ Elaborates(Text[n].name, Text[n].range)
  /\ UNCHANGED <<imports, todo, instance>>

(* An instance: a symbol of the scope it is in, unless it is a top or has   *)
(* no name, then the body of its module.                                    *)
HandleInstance(n) ==
  /\ Presents(n) /\ Text[n].kind = "instance"
  /\ IF Text[n].range = NoRange \/ Text[n].name = ""
     THEN /\ OpenScope(scopes, Text[n].of, n, Text[n].name, FALSE)
          /\ UNCHANGED <<symbols, references, elaborated>>
     ELSE /\ AddSymbol(Text[n].name, Text[n].range)
          /\ OpenScope(Registering(scopes, Current, Text[n].name, Text[n].range),
                       Text[n].of, n, Text[n].name, FALSE)
          /\ Elaborates(Text[n].name, Text[n].range)
  /\ UNCHANGED <<imports, todo, instance>>

(* _close_scope                                                             *)
Closes(name) ==
  /\ stack # <<>>
  /\ \/ scopes[Current].name = name
     \/ scopes[Current].anonymous /\ name = ""

(* What the handlers do after the scope is closed: the name of a function   *)
(* becomes a symbol of the scope around it, that of a module a symbol of    *)
(* the scope of its instance, when that one is found by its name.           *)
AfterClose(outer, n) ==
  LET name == Text[n].name
      module == Text[Text[n].of]
      inner == ScopeByName(outer, name)
  IN  CASE Text[n].kind = "function" ->
             /\ AddSymbol(name, Text[n].id)
             /\ scopes' = Registering(scopes, outer, name, Text[n].id)
        [] Text[n].kind = "instance" /\ inner # None ->
             /\ AddSymbol(module.name, module.id)
             /\ scopes' = Registering(scopes, inner, module.name, module.id)
        [] OTHER -> UNCHANGED <<symbols, references, scopes>>

Leave ==
  /\ phase = "visit" /\ Len(frames) > 1
  /\ \A m \in Members(Frame.node) : m > Frame.last => Optional(m)
  /\ frames' = Front(frames)
  /\ IF ~Frame.opens
     THEN UNCHANGED <<scopes, stack, symbols, references, phase>>
     ELSE IF Closes(Frame.name)
     THEN /\ stack' = Front(stack)
          /\ AfterClose(stack[Len(stack) - 1], Frame.owner)
          /\ UNCHANGED phase
     ELSE /\ phase' = "thrown"
          /\ UNCHANGED <<scopes, stack, symbols, references>>
  /\ UNCHANGED <<registered, imports, roots, todo, instance, elaborated>>

----------------------------------------------------------------------------
(* ReferenceVisitor: the syntax of every file that has a root, in order.    *)

Around[n \in Nodes] == {n} \cup (IF Text[n].in = 0 THEN {} ELSE Around[Text[n].in])
Under(r) == {n \in Nodes : r \in Around[n] /\ Text[n].kind \in
                             {"module", "identifier", "instance", "port", "type"}}

(* The range of a body is that of its text, and an identifier is a word of  *)
(* its own.  (A text that is included twice is there twice.)                *)
Bodies == {b \in Nodes : Text[b].kind \in {"module", "package", "block", "function"}}
Identifiers == {n \in Nodes : Text[n].kind = "identifier"}
ASSUME NestingAssumption ==
  \A n \in Identifiers :
    /\ \A b \in Bodies : CoversRange(Text[b].range, Text[n].range) =>
         \E m \in Identifiers : Text[m].range = Text[n].range /\ b \in Around[m]
    /\ \A m \in Identifiers :
         Text[m].range.file = Text[n].range.file /\ Text[m].range.start = Text[n].range.start
         => Text[m].range = Text[n].range /\ Text[m].name = Text[n].name
    /\ \A q \in {d[2] : d \in Declared}
              \cup {Text[m].range : m \in {x \in Nodes : Text[x].kind \in {"port", "type"}}} :
         q.file = Text[n].range.file => q.start # Text[n].range.start

InOrder(set) ==
  LET upTo[n \in 0 .. Len(Text)] ==
        IF n = 0 THEN <<>> ELSE IF n \in set THEN Append(upTo[n - 1], n) ELSE upTo[n - 1]
  IN  upTo[Len(Text)]

(* What will be reached; and what was                                       *)
Visit ==
  FlattenSeq([i \in DOMAIN Files |->
    IF Files[i] \in DOMAIN roots THEN InOrder(Under(roots[Files[i]])) ELSE <<>>])
Reached == ToSet(SubSeq(Visit, 1, Len(Visit) - Len(todo)))

(* The visit of the root scope ends.                                        *)
StartReferences ==
  /\ phase = "visit" /\ Len(frames) = 1
  /\ \A m \in Members(0) : m <= Frame.last
  /\ frames' = <<>> /\ stack' = <<>>
  /\ todo' = Visit
  /\ phase' = "refer"
  /\ UNCHANGED <<scopes, symbols, references, registered, imports, roots, instance,
                 elaborated>>

(* The wildcard imports of the file: a package is looked up by its name     *)
(* when it is first needed, and forgotten if there is none.                 *)
Imported(file, name) ==
  LET keys == {k \in DOMAIN imports : k[1] = file}
      scope(k) == IF imports[k] # None THEN imports[k] ELSE ResolveScope(<<k[2]>>)
      found == {k \in keys : scope(k) # None /\ Lookup(scope(k), name) # None}
  IN  [symbols |-> {Lookup(scope(k), name) : k \in found},
       imports |-> [k \in {j \in DOMAIN imports : j \in keys => scope(j) # None} |->
                      IF k \in keys THEN scope(k) ELSE imports[k]]]

(* The selected scope is forgotten at the end of a module.                  *)
EndsModule ==
  \E m \in Around[Head(todo)] :
    Text[m].kind = "module" /\ (Len(todo) = 1 \/ m \notin Around[todo[2]])
Kept(s) == IF EndsModule THEN None ELSE s

(* _add_reference_from_stx                                                  *)
ReferIdentifier(n) ==
  LET name == Text[n].name
      range == Text[n].range
      near(s) == Lookup(s, name)
      far == Imported(range.file, name)
  IN  /\ Text[n].kind = "identifier"
      /\ IF ScopesForRange(range) = {}
         THEN UNCHANGED <<symbols, references, imports>>
         ELSE \E s \in ScopesForRange(range) :
                IF near(s) # None
                THEN AddReference(near(s), range) /\ UNCHANGED imports
                ELSE /\ imports' = far.imports
                     /\ IF far.symbols = {} THEN UNCHANGED <<symbols, references>>
                        ELSE \E t \in far.symbols : AddReference(t, range)
      /\ instance' = Kept(instance)
      /\ UNCHANGED phase

(* The index has a file once it has a root, a scope, an import or a symbol, *)
(* or an identifier was reached there.                                      *)
Indexed(file) ==
  \/ file \in DOMAIN roots
  \/ \E k \in DOMAIN registered : k[1] = file
  \/ \E k \in DOMAIN imports : k[1] = file
  \/ \E d \in DOMAIN symbols : d.file = file
  \/ \E n \in Reached : Text[n].kind = "identifier" /\ Text[n].range.file = file

(* _add_reference_to_symbol: the file of the place is used without a test   *)
ReferTo(s, name, range) ==
  IF s = None \/ Lookup(s, name) = None THEN UNCHANGED <<symbols, references, phase>>
  ELSE IF Indexed(range.file)
  THEN AddReference(Lookup(s, name), range) /\ UNCHANGED phase
  ELSE phase' = "null" /\ UNCHANGED <<symbols, references>>

(* _select_instance_scope: the scope of the instance called name, or, when  *)
(* it has none, the scope the place is in                                   *)
Selected(range, name) ==
  LET around == ScopesForLocation(range.file, range.start)
  IN  IF around = {} THEN {None}
      ELSE {IF ScopeByName(s, name) # None THEN ScopeByName(s, name) ELSE s : s \in around}

(* A module selects the scope of the instance of its own name, or its own.  *)
ReferModule(n) ==
  /\ Text[n].kind = "module"
  /\ \E s \in Selected(Text[n].range, Text[n].name) : instance' = Kept(s)
  /\ UNCHANGED <<symbols, references, imports, phase>>

(* An instance refers to its module at its own name, where its declaration  *)
(* already is if it was elaborated, and selects its scope for its ports.    *)
(* Those of an array are one in the syntax, which has its name.             *)
Declarator(n) == IF Text[n].name = "" THEN Text[Text[n].in].name ELSE Text[n].name
ReferInstance(n) ==
  /\ Text[n].kind = "instance"
  /\ \E s \in Selected(Text[n].id, Declarator(n)) :
       /\ ReferTo(s, Text[Text[n].of].name, Text[n].id)
       /\ instance' = Kept(s)
  /\ UNCHANGED imports

ReferPort(n) ==
  /\ Text[n].kind = "port"
  /\ ReferTo(instance, Text[n].name, Text[n].range)
  /\ instance' = Kept(instance)
  /\ UNCHANGED imports

(* The type of an instance comes last, and refers to the name of its module.*)
ReferType(n) ==
  /\ Text[n].kind = "type"
  /\ \E s \in Selected(Text[n].range, Declarator(Text[n].of)) :
       ReferTo(s, Text[n].name, Text[n].range)
  /\ instance' = None
  /\ UNCHANGED imports

Refer ==
  /\ phase = "refer" /\ todo # <<>>
  /\ \/ ReferIdentifier(Head(todo)) \/ ReferModule(Head(todo)) \/ ReferInstance(Head(todo))
     \/ ReferPort(Head(todo)) \/ ReferType(Head(todo))
  /\ todo' = Tail(todo)
  /\ UNCHANGED <<scopes, stack, frames, registered, roots, elaborated>>

Ready ==
  /\ phase = "refer" /\ todo = <<>>
  /\ phase' = "ready"
  /\ UNCHANGED <<scopes, stack, frames, symbols, references, registered, imports,
                 roots, todo, instance, elaborated>>

Init ==
  /\ scopes = <<NewScope("$root", None, <<>>, FALSE, FALSE)>>
  /\ stack = <<1>>
  /\ frames = <<[node |-> 0, last |-> 0, opens |-> FALSE, name |-> "", owner |-> 0,
                path |-> <<>>]>>
  /\ symbols = Empty /\ references = Empty /\ registered = Empty
  /\ imports = Empty /\ roots = Empty
  /\ todo = <<>> /\ instance = None /\ phase = "visit" /\ elaborated = {}

Next ==
  \/ \E n \in Nodes : \/ HandleUnit(n) \/ HandleSymbol(n) \/ HandleImport(n)
                      \/ HandleScope(n) \/ HandleInstance(n)
  \/ Leave \/ StartReferences \/ Refer \/ Ready

Spec == Init /\ [][Next]_vars

----------------------------------------------------------------------------
(* Texts that the index can tell apart                                      *)

(* The declarations of a body, or of all units together, since they share   *)
(* the root scope.                                                          *)
Level(n) ==
  IF Text[n].in = 0 \/ Text[Text[n].in].kind = "unit" THEN 0 ELSE Text[n].in
Named(n) == Text[n].kind \in InDesign \ {"unit", "import"} /\ Text[n].name # ""

(* The language allows what is excluded here: branches, or a package and a  *)
(* top, that share a name; a member with the name of its module or with one *)
(* that the indexer makes up; a block included twice in one body.  The      *)
(* index puts them in one scope, or throws (NeverThrows).                   *)
Unambiguous ==
  /\ \A n, m \in Nodes :
       Named(n) /\ Named(m) /\ Level(n) = Level(m) /\ Text[n].name = Text[m].name => n = m
  /\ \A n, m \in Openers :
       Level(n) = Level(m) /\ Text[Body(n)].range = Text[Body(m)].range => Body(n) = Body(m)
  /\ \A n \in Nodes : Text[n].name \notin ToSet(UnnamedIds)
  /\ \A n \in Nodes : Named(n) /\ Level(n) # 0 => Text[n].name # Text[Level(n)].name
  /\ \A i \in Nodes : \A n \in Openers :
       Text[i].kind = "import" /\ Level(n) = 0 /\ Text[n].name = Text[i].name
       => Text[n].kind = "package"

----------------------------------------------------------------------------
(* Properties                                                               *)

(* The scopes form a tree whose names, paths and aliases agree, the stack   *)
(* of open scopes is a path of that tree, and every name in a scope stands  *)
(* for a declared symbol.  No member of the design makes the visitor throw: *)
(* the scope it closes is the one it opened, also when that one was a       *)
(* duplicate or has no name, and no alias is taken.  _compile does not      *)
(* catch these exceptions.                                                  *)
ITypeOK ==
  /\ \A s \in DOMAIN scopes :
       /\ scopes[s].parent = None <=> s = 1
       /\ s # 1 => /\ scopes[s].parent \in 1 .. (s - 1)
                   /\ <<scopes[s].name, s>> \in
                        {<<c, scopes[scopes[s].parent].children[c]>> :
                           c \in DOMAIN scopes[scopes[s].parent].children}
                   /\ scopes[s].path = Append(scopes[scopes[s].parent].path, scopes[s].name)
       /\ \A a \in DOMAIN scopes[s].aliases : scopes[s].aliases[a] \in ChildrenOf(s)
       /\ \A c \in DOMAIN scopes[s].content : scopes[s].content[c] \in DOMAIN symbols
  /\ \A i \in 2 .. Len(stack) : scopes[stack[i]].parent = stack[i - 1]
  /\ \A k \in DOMAIN registered : scopes[registered[k]].range.file = k[1]
  /\ phase \in {"visit", "refer", "ready", "null"}

(* What a file records at a place and what a symbol lists as its references *)
(* are the same, so that a rename edits what a definition is found from.    *)
ReferencesAgree ==
  /\ \A k \in DOMAIN references :
       LET r == references[k]
       IN  /\ r.symbol \in DOMAIN symbols
           /\ k = <<r.range.file, r.range.start>>
           /\ r.definition => r.range = r.symbol
           /\ ~r.definition => r.range \in symbols[r.symbol].refs
  /\ \A s \in DOMAIN symbols : \A r \in symbols[s].refs :
       LET k == <<r.file, r.start>>
       IN  k \in DOMAIN references /\ references[k].symbol = s /\ references[k].range = r

(* "reference child if the alias is in place, nullptr otherwise"            *)
NeverThrows == phase # "thrown"

(* A place that a reference is added at is in a file of the index.          *)
NeverNull == phase # "null"

(* An identifier is never bound to a symbol it cannot see: the declaration  *)
(* is in a body around it, or in a package that its file imports.  (A text  *)
(* that is included twice is bound once: from one of its places.)           *)
Importable(file) ==
  {p \in Nodes : Text[p].kind = "package"
                 /\ \E i \in Nodes : Text[i].kind = "import" /\ Text[i].name = Text[p].name
                                     /\ Text[i].range.file = file}
Seen == [n \in Identifiers |->
           Around[n] \cup {m \in Nodes : Text[m].kind = "unit"}
           \cup Importable(Text[n].range.file)]
DeclaredIn(r, body) ==
  \/ Text[body].kind = "module" /\ Text[body].id = r
  \/ \E n \in Nodes : Text[n].in = body /\ r \in {Text[n].range, Text[n].id}

BindsInScope ==
  \A n \in DOMAIN Seen :
    LET k == <<Text[n].range.file, Text[n].range.start>>
    IN  k \in DOMAIN references =>
          /\ \E m \in DOMAIN Seen : \E body \in Seen[m] :
               Text[m].range = Text[n].range /\ DeclaredIn(references[k].symbol, body)
          /\ symbols[references[k].symbol].name = Text[n].name

(* diplomat-server.resolve-paths: the path of every named symbol of the     *)
(* design, through any instance of its module, leads to its declaration.    *)
PathsResolve ==
  phase = "ready" => \A e \in elaborated : ResolveSymbol(e[1]) = e[2]

(* Go-to-definition asked on any character of a recorded reference, or just *)
(* after it, finds the symbol that lists the reference.                     *)
Definition(file, pos) == SymbolAt(file, pos)
Rename(file, pos) ==
  IF SymbolAt(file, pos) = None THEN {} ELSE symbols[SymbolAt(file, pos)].refs
RenameFindsItself ==
  \A s \in DOMAIN symbols : \A r \in symbols[s].refs : \A pos \in r.start .. r.end :
    Definition(r.file, pos) = s /\ r \in Rename(r.file, pos)

(* "Get the most specific scope including the given range"                  *)
MostSpecific ==
  phase = "refer" =>
    \A i \in DOMAIN todo :
      LET r == Text[todo[i]].range
      IN  Text[todo[i]].kind = "identifier" =>
            \A s \in ScopesForRange(r) : \A c \in ChildrenOf(s) : ~CoversRange(scopes[c].range, r)
============================================================================
