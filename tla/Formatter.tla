----------------------------- MODULE Formatter -----------------------------
(***************************************************************************)
(* The formatter behind textDocument/formatting (src/formatter): a visitor *)
(* that gathers declarations, assigns, ports and instances into blocks,    *)
(* measures a block while it grows, and rewrites its spacing when it ends. *)
(*                                                                         *)
(* Text is reduced to widths.  An item is a syntax node: its type, the     *)
(* widths of its tokens, the pairs of widths of its [left:right] ranges,   *)
(* where [n] counts as its two halves, the widths of its other brackets    *)
(* and the trivia before its first token.  Columns are counted from the    *)
(* indentation.  The visit is sequential: an action is a handler.          *)
(***************************************************************************)
EXTENDS Integers, Sequences, SequencesExt

CONSTANTS
  Items,      \* what a file may be made of
  MaxItems,   \* the bound on the length of a file
  MaxWidth,   \* the bound on the width of a token
  MaxParts,   \* the bound on the modifiers, and on the ranges, of one item
  Modulus,    \* 2 to the width of an unsigned int, cut to what TLC can add
  NoParams,   \* the parameters of an instance that has none
  OtherTypes  \* the kinds of the types that are neither logic nor a name

(* kind is the kind that _switch_bloc_type sees: for a declaration, that of *)
(* its type.                                                                *)
Types == {"LogicType", "NamedType"} \cup OtherTypes
OtherKinds == {"Unknown", "ContinuousAssign", "HierarchyInstantiation", "AnsiPortList",
               "ImplicitAnsiPort", "ExplicitAnsiPort"}
Widths == 0 .. MaxWidth
Ranges == Widths \X Widths
Trivia == {"space", "newline", "comment"}

AtMost(seq, set) == seq \in Seq(set) /\ Len(seq) <= MaxParts

(* The brackets after a type or a name: ranges, and the widths of those     *)
(* that hold none, [$] and [*]; a width of 0 is that of [], whose specifier *)
(* is null.                                                                 *)
Brackets(ranges, odd) ==
  /\ AtMost(ranges, Ranges) /\ AtMost(odd, Widths)
  /\ Len(ranges) + Len(odd) <= MaxParts
Empty(odd) == 0 \in ToSet(odd)

(* The keyword of a LogicType is "logic".  others and otherArray are of the *)
(* declarators after the first, their names and, place by place, the widest *)
(* of their ranges; tail is the width of all that stands between the first  *)
(* declarator, without its initializer, and the semicolon.                  *)
Declares(it) ==
  /\ it.type \in Types /\ (it.type = "LogicType" => it.keyword = 5)
  /\ {it.keyword, it.signing, it.name} \cup it.others \subseteq Widths
  /\ AtMost(it.mods, Widths) /\ it.trivia \in Seq(Trivia) /\ it.tail \in Nat
  /\ Brackets(it.dims, it.oddDims) /\ Brackets(it.array, it.oddArray)
  /\ AtMost(it.otherArray, Ranges)

(* A port has a direction, and "var" or nothing after it; a net port has a  *)
(* direction and a net type, or nothing when it is an interface's.  No      *)
(* direction is shorter than "var".  A port with an expression of its own,  *)
(* .name(expr), has no handler.                                             *)
IsPort(it) == it.kind = "ImplicitAnsiPort"
Port(it) ==
  /\ IsPort(it) /\ Declares(it) /\ it.net \in BOOLEAN
  /\ Len(it.mods) <= 2 /\ (Len(it.mods) = 2 /\ ~it.net => it.mods[2] <= it.mods[1])

Explicit(it) == it.kind = "ExplicitAnsiPort"

Declaration(it) == it.kind \in Types /\ it.type = it.kind /\ Declares(it)
Assignment(it) ==
  /\ it.kind = "ContinuousAssign" /\ it.trivia \in Seq(Trivia)
  /\ it.lefts \in Seq(Widths) /\ it.lefts # <<>>
Instance(it) ==
  /\ it.kind = "HierarchyInstantiation" /\ it.trivia \in Seq(Trivia)
  /\ it.ports \in Seq(Ranges) /\ (it.params = NoParams \/ it.params \in Seq(Ranges))
  /\ it.blank \in BOOLEAN       \* a parameter is named and given no value, as .P()
PortList(it) ==
  /\ it.kind = "AnsiPortList" /\ it.ports \in Seq({it.ports[j] : j \in DOMAIN it.ports})
  /\ \A j \in DOMAIN it.ports : Port(it.ports[j]) \/ Explicit(it.ports[j])

(* What the formatter puts in a line fits an int.                           *)
ASSUME ItemAssumption ==
  /\ MaxItems \in Nat /\ MaxWidth \in Nat /\ MaxParts \in Nat \ {0, 1}
  /\ OtherTypes \cap ({"LogicType", "NamedType"} \cup OtherKinds) = {}
  /\ \A it \in Items : Declaration(it) \/ Assignment(it) \/ Instance(it) \/ PortList(it)
ASSUME WidthAssumption ==
  Modulus \in Nat /\ 8 * (MaxWidth + 2) * (MaxParts + 2) <= Modulus

VARIABLES
  file,   \* the items visited so far
  fmt,    \* the visitor: its block, the sizes it measured, and what it wrote
  phase   \* "visit", "done", or "failed": an exception, a null, a huge spacing

vars == <<file, fmt, phase>>

Larger(a, b) == IF a >= b THEN a ELSE b
MaxIn(set) == IF set = {} THEN 0 ELSE CHOOSE m \in set : \A n \in set : n <= m
SumOf(seq) ==
  LET sum[i \in 0 .. Len(seq)] == IF i = 0 THEN 0 ELSE sum[i - 1] + seq[i]
  IN  sum[Len(seq)]
SumPairs(seq) == SumOf([i \in DOMAIN seq |-> seq[i][1] + seq[i][2]])
From(seq, i) == SubSeq(seq, i, Len(seq))
Pair(f(_, _), p, q) == <<f(p[1], q[1]), f(p[2], q[2])>>

(* A size passed as an int, and an int kept in an unsigned                  *)
Unsigned(n) == n % Modulus
AsInt(n) == IF Unsigned(n) < Modulus \div 2 THEN Unsigned(n) ELSE Unsigned(n) - Modulus

----------------------------------------------------------------------------
(* SpacingManager                                                           *)

(* indent: one line end and one indentation before the token, after all     *)
(* that the trivia hold besides spaces at the start of lines.               *)
Keep(a, t) ==
  IF t = "space" /\ a.skip THEN a
  ELSE IF t = "space" THEN [a EXCEPT !.kept = Append(@, t)]
  ELSE [kept |-> IF t = "newline" THEN a.kept \o <<t, "indent">> ELSE Append(a.kept, t),
        skip |-> t = "newline", clean |-> t = "newline"]
Indent(trivia) ==
  LET all[i \in 0 .. Len(trivia)] ==
        IF i = 0 THEN [kept |-> <<>>, skip |-> FALSE, clean |-> FALSE]
        ELSE Keep(all[i - 1], trivia[i])
      last == all[Len(trivia)]
  IN  IF last.clean THEN last.kept ELSE last.kept \o <<"newline", "indent">>

(* replace_comment_spacing: the comment that ends the line before           *)
CommentSpacing(trivia) ==
  LET text == {i \in DOMAIN trivia : trivia[i] # "space"}
      first == CHOOSE i \in text : \A j \in text : i <= j
  IN  IF text = {} THEN trivia
      ELSE IF trivia[first] = "newline" \/ ~Contains(From(trivia, first), "comment")
      THEN trivia
      ELSE <<"gap">> \o From(trivia, first)

NoBracket(dims, odd) == dims = <<>> /\ odd = <<>>

(* Mutant: no compensation for the ranges an item does not have.            *)
AlignAlone(dims, odd, sizes, first) ==
  [fails |-> first < 0 \/ Len(dims) > Len(sizes) \/ Empty(odd),
   width |-> IF NoBracket(dims, odd) \/ Len(dims) > Len(sizes) THEN 0
             ELSE Larger(first, 1) + 3 * Len(dims) + SumOf(odd)
                  + SumPairs([i \in DOMAIN dims |-> Pair(Larger, dims[i], sizes[i])]),
   rest |-> Unsigned(IF NoBracket(dims, odd) THEN first - 1 ELSE 0)]

(* align_dimension: the width of the brackets with the spaces before them,  *)
(* and what is left to the place where the ranges of the block end.  Only a *)
(* range moves on to the next size.                                         *)
Align(dims, odd, sizes, first) ==
  [fails |-> first < 0 \/ Len(dims) > Len(sizes) \/ Empty(odd),
   width |-> IF NoBracket(dims, odd) \/ Len(dims) > Len(sizes) THEN 0
             ELSE Larger(first, 1) + 3 * Len(dims) + SumOf(odd)
                  + SumPairs([i \in DOMAIN dims |-> Pair(Larger, dims[i], sizes[i])]),
   rest |-> Unsigned((IF NoBracket(dims, odd) THEN first - 1 ELSE 0)
              + IF Len(dims) < Len(sizes)
                THEN 1 + 3 * (Len(sizes) - Len(dims)) + SumPairs(From(sizes, Len(dims) + 1))
                ELSE 0)]

----------------------------------------------------------------------------
(* Measuring                                                                *)

Widen(sizes, widths) ==
  [i \in 1 .. Larger(Len(sizes), Len(widths)) |->
     Larger(IF i <= Len(sizes) THEN sizes[i] ELSE 0, IF i <= Len(widths) THEN widths[i] ELSE 0)]

WidenPairs(sizes, dims) ==
  [i \in 1 .. Larger(Len(sizes), Len(dims)) |->
     Pair(Larger, IF i <= Len(sizes) THEN sizes[i] ELSE <<0, 0>>,
                  IF i <= Len(dims) THEN dims[i] ELSE <<0, 0>>)]

(* _read_type takes the direction of a port twice, and its three tokens     *)
(* have a size each.  A net port has a direction and a net type.            *)
Modifiers(it) ==
  IF ~IsPort(it) \/ it.net THEN it.mods
  ELSE IF it.mods = <<>> THEN <<0, 0, 0>>
  ELSE <<it.mods[1]>> \o it.mods \o [i \in 1 .. (2 - Len(it.mods)) |-> 0]

(* Mutant: no room for the space before a signing.                          *)
TypeLengthTight(it) ==
  CASE it.type = "LogicType" -> it.keyword + (IF it.signing = 0 THEN 1 ELSE it.signing)
    [] it.type = "NamedType" -> it.keyword + 1
    [] OTHER -> 0

(* type_length: an absent signing counts for the space after the keyword    *)
TypeLength(it) ==
  CASE it.type = "LogicType" -> it.keyword + it.signing + 1
    [] it.type = "NamedType" -> it.keyword + 1
    [] OTHER -> 0

(* dimension_syntax_to_vector makes room for every bracket, and measures    *)
(* the ranges.                                                              *)
Padded(ranges, odd) == ranges \o [i \in DOMAIN odd |-> <<0, 0>>]
TypeDims(it) == IF it.type \in OtherTypes THEN <<>> ELSE Padded(it.dims, it.oddDims)
FirstArray(it) == Padded(it.array, it.oddArray)

(* _store_format of a declaration or a port, with all its declarators       *)
Measured(s, it) ==
  [s EXCEPT !.mods = Widen(@, Modifiers(it)),
            !.type = Larger(@, TypeLength(it)),
            !.dims = WidenPairs(@, TypeDims(it)),
            !.var = MaxIn({@, it.name} \cup it.others),
            !.array = WidenPairs(WidenPairs(@, FirstArray(it)), it.otherArray)]

----------------------------------------------------------------------------
(* Writing.  What is written of an item: the trivia before it, the columns  *)
(* that its parts start at, and the spaces before its name.                 *)

Written(q, s, lead, name, gap, end, fails) ==
  [at |-> q.at, it |-> q.it, block |-> s.block, lead |-> lead, name |-> name, gap |-> gap,
   end |-> end, fails |-> fails]

(* The modifiers: where they end, and the spaces before the type.  A        *)
(* declaration makes up for those it does not have, a port does not.        *)
AfterModifiers(s, it) ==
  LET n == Len(it.mods)
      left == From(s.mods, n + 1)
  IN  [end |-> IF n = 0 THEN 0 ELSE SumOf(SubSeq(s.mods, 1, n - 1)) + n - 1 + it.mods[n],
       next |-> (IF n = 0 THEN 0 ELSE s.mods[n] + 1 - it.mods[n])
                + IF IsPort(it) THEN 0 ELSE SumOf(left) + Len(left)]

(* _format_data_type_syntax.  A name is always put at the start of a line.  *)
TypeFormat(s, it, mods) ==
  LET logic == it.type = "LogicType"
      signing == IF it.signing = 0 THEN 0 ELSE 1 + it.signing
      none == NoBracket(it.dims, it.oddDims)
      dims == Align(it.dims, it.oddDims, s.dims,
                    IF logic THEN s.type - it.keyword - signing ELSE mods.next)
      left == IF logic \/ ~none THEN dims.rest ELSE Unsigned(dims.rest + 1)
      column == IF logic THEN mods.end + mods.next ELSE mods.next
  IN  IF it.type \in OtherTypes     \* "In case of doubt, do nothing !"
      THEN [end |-> mods.end + it.keyword + SumPairs(it.dims) + SumOf(it.oddDims),
            gap |-> 0, fails |-> FALSE]
      ELSE [end |-> column + it.keyword + signing + dims.width,
            gap |-> AsInt((IF left = 0 THEN 1 ELSE left)
                      + IF s.dims # <<>> /\ none THEN 1 ELSE 0),
            fails |-> dims.fails]

(* _format of a declaration or a port.  Only the first declarator is moved; *)
(* the spaces that its ranges leave go before the semicolon, or the comma   *)
(* of a port, after the tail.  end is where that token is.                  *)
FormatDeclaration(s, q) ==
  LET it == q.it
      net == IsPort(it) /\ it.net
      trivia == IF IsPort(it) THEN CommentSpacing(it.trivia) ELSE it.trivia
      starts == ~net /\ (it.mods # <<>> \/ it.type \notin OtherTypes)
      type == IF net THEN [end |-> SumOf(it.mods), gap |-> 0, fails |-> FALSE]
              ELSE TypeFormat(s, it, AfterModifiers(s, it))
      array == Align(it.array, it.oddArray, s.array, s.var - it.name + 1)
      name == type.end + type.gap
  IN  Written(q, s, IF starts THEN Indent(trivia) ELSE trivia, name, type.gap,
              name + it.name + array.width + it.tail + AsInt(array.rest),
              type.fails \/ array.fails \/ type.gap < 0 \/ AsInt(array.rest) < 0)

(* _format of an assign: name is where the operators are; an assignment     *)
(* after the first is put on a line of its own.                             *)
FormatAssign(s, q) ==
  LET operator(left) == 7 + left + 1 + s.var - left
      columns == {operator(q.it.lefts[i]) : i \in DOMAIN q.it.lefts}
      least == CHOOSE c \in columns : \A d \in columns : c <= d
  IN  Written(q, s, Indent(q.it.trivia), least, 1, MaxIn(columns),
              \E i \in DOMAIN q.it.lefts : 1 + s.var - q.it.lefts[i] < 0)

(* _format of an instance: the columns of the parentheses of its bindings.  *)
(* params->hash is used also when there is no params, and the expression of *)
(* a parameter also when it has none.                                       *)
FormatInstance(s, q) ==
  LET bindings == {q.it.ports[i] : i \in DOMAIN q.it.ports}
      params == IF q.it.params = NoParams THEN {} ELSE ToSet(q.it.params)
  IN  Written(q, s, Indent(q.it.trivia), s.port, 0, s.port + s.portValue,
              \/ q.it.params = NoParams \/ q.it.blank
              \/ \E b \in bindings : b[1] > s.port \/ b[2] > s.portValue
              \/ \E b \in params : b[1] > s.param \/ b[2] > s.paramValue)

Format(s, q) ==
  CASE q.it.kind = "HierarchyInstantiation" -> FormatInstance(s, q)
    [] q.it.kind = "ContinuousAssign" -> FormatAssign(s, q)
    [] OTHER -> FormatDeclaration(s, q)

----------------------------------------------------------------------------
(* DataDeclarationSyntaxVisitor                                             *)

NewVisitor ==
  [mods |-> <<>>, dims |-> <<>>, array |-> <<>>, type |-> 0, var |-> 0,
   param |-> 0, paramValue |-> 0, port |-> 0, portValue |-> 0,
   kind |-> "Unknown", queue |-> <<>>, out |-> <<>>, block |-> 0]

(* Mutant: the widths of the ranges are kept from block to block.           *)
Clear_KeepsDims(s) ==
  [NewVisitor EXCEPT !.dims = s.dims, !.kind = s.kind, !.out = s.out, !.block = s.block]

Clear(s) == [NewVisitor EXCEPT !.kind = s.kind, !.out = s.out, !.block = s.block]

ProcessPending(s) ==
  Clear([s EXCEPT !.out = @ \o [i \in DOMAIN s.queue |-> Format(s, s.queue[i])],
                  !.block = @ + 1])

(* _split_bloc: two line ends before an item end the block before it        *)
SplitBloc(s, it) ==
  IF Len(SelectSeq(it.trivia, LAMBDA t : t = "newline")) >= 2 THEN ProcessPending(s) ELSE s

(* Mutant: an instance does not end the block before it.                    *)
SwitchBlocType_NotForced(s, kind, force) ==
  LET t == IF s.kind = "Unknown" THEN [s EXCEPT !.kind = kind] ELSE s
  IN  IF kind # t.kind /\ ~force THEN ProcessPending(t) ELSE t

(* _switch_bloc_type: the kind is that of the first item of the file        *)
SwitchBlocType(s, kind, force) ==
  LET t == IF s.kind = "Unknown" THEN [s EXCEPT !.kind = kind] ELSE s
  IN  IF force \/ kind # t.kind THEN ProcessPending(t) ELSE t

Entry(it, i, j) == [at |-> <<i, j>>, it |-> it]
Queued(s, q) == [s EXCEPT !.queue = Append(@, q)]
Fails(s) == \E i \in DOMAIN s.out : s.out[i].fails

Visits(it, s) ==
  /\ file' = Append(file, it)
  /\ fmt' = s
  /\ phase' = IF Fails(s) THEN "failed" ELSE phase

At(it) == Entry(it, Len(file) + 1, 0)

HandleDataDeclaration(it) ==
  /\ it.kind \in Types
  /\ Visits(it, Queued(Measured(SwitchBlocType(SplitBloc(fmt, it), it.kind, FALSE), it), At(it)))

HandleContinuousAssign(it) ==
  /\ it.kind = "ContinuousAssign"
  /\ LET s == SwitchBlocType(SplitBloc(fmt, it), it.kind, FALSE)
     IN  Visits(it, Queued([s EXCEPT !.var = MaxIn({@} \cup ToSet(it.lefts))], At(it)))

(* The bindings are visited, then the instance is written at once.          *)
HandleHierarchyInstantiation(it) ==
  /\ it.kind = "HierarchyInstantiation"
  /\ LET s == SwitchBlocType(fmt, it.kind, TRUE)
         firsts(bindings) == {bindings[i][1] : i \in DOMAIN bindings}
         seconds(bindings) == {bindings[i][2] : i \in DOMAIN bindings}
         params == IF it.params = NoParams THEN <<>> ELSE it.params
         t == [s EXCEPT !.param = MaxIn({@} \cup firsts(params)),
                        !.paramValue = MaxIn({@} \cup seconds(params)),
                        !.port = MaxIn({@} \cup firsts(it.ports)),
                        !.portValue = MaxIn({@} \cup seconds(it.ports))]
     IN  Visits(it, [t EXCEPT !.out = Append(@, Format(t, At(it)))])

VisitPort(s, port, i, j) ==
  IF Explicit(port) THEN s
  ELSE Queued(Measured(SwitchBlocType(s, port.kind, FALSE), port), Entry(port, i, j))

(* The ports are queued as declarations are, but for the explicit ones;     *)
(* then the queue is read by the number of the port, by at(), which throws  *)
(* past its end.                                                            *)
HandleAnsiPortList(it) ==
  /\ it.kind = "AnsiPortList"
  /\ LET visited[j \in 0 .. Len(it.ports)] ==
           IF j = 0 THEN ProcessPending(fmt)
           ELSE VisitPort(visited[j - 1], it.ports[j], Len(file) + 1, j)
         s == visited[Len(it.ports)]
         ports == [j \in 1 .. Len(s.queue) |-> Format(s, s.queue[j])]
     IN  /\ file' = Append(file, it)
         /\ fmt' = Clear([s EXCEPT !.out = @ \o ports, !.block = @ + 1])
         /\ phase' = IF Len(s.queue) < Len(it.ports) \/ Fails(fmt') THEN "failed" ELSE phase

(* The end of the compilation unit                                          *)
HandleCompilationUnit ==
  /\ fmt' = ProcessPending(fmt)
  /\ phase' = IF Fails(fmt') THEN "failed" ELSE "done"
  /\ UNCHANGED file

Init == file = <<>> /\ fmt = NewVisitor /\ phase = "visit"

Next ==
  /\ phase = "visit"
  /\ \/ /\ Len(file) < MaxItems
        /\ \E it \in Items :
             \/ HandleDataDeclaration(it) \/ HandleContinuousAssign(it)
             \/ HandleHierarchyInstantiation(it) \/ HandleAnsiPortList(it)
     \/ HandleCompilationUnit

Spec == Init /\ [][Next]_vars

----------------------------------------------------------------------------
(* Properties                                                               *)

(* Type invariant.                                                          *)
(* What was measured is what the pending items need: nothing is left of the *)
(* block before, and nothing is forgotten, so every spacing of the block is *)
(* the smallest that aligns it.                                             *)
Pending(s) == {s.queue[i].it : i \in DOMAIN s.queue}
Declarations(s) == {it \in Pending(s) : it.kind # "ContinuousAssign"}
Assigns(s) == {it \in Pending(s) : it.kind = "ContinuousAssign"}
Longest(sizes, all) == Len(sizes) = MaxIn({Len(d) : d \in all})
Having(all, i) == {d \in all : i \in DOMAIN d}
Covers(sizes, all) ==
  /\ Longest(sizes, all)
  /\ \A i \in DOMAIN sizes : sizes[i] = MaxIn({d[i] : d \in Having(all, i)})
CoversPairs(sizes, all) ==
  /\ Longest(sizes, all)
  /\ \A i \in DOMAIN sizes : \A k \in 1 .. 2 :
       sizes[i][k] = MaxIn({d[i][k] : d \in Having(all, i)})
Fits(s) ==
  /\ Covers(s.mods, {Modifiers(it) : it \in Declarations(s)})
  /\ s.type = MaxIn({TypeLength(it) : it \in Declarations(s)})
  /\ s.var = MaxIn((UNION {{it.name} \cup it.others : it \in Declarations(s)})
                   \cup (UNION {ToSet(it.lefts) : it \in Assigns(s)}))
  /\ CoversPairs(s.dims, {TypeDims(it) : it \in Declarations(s)})
  /\ CoversPairs(s.array, UNION {{FirstArray(it), it.otherArray} : it \in Declarations(s)})
SizesFit == phase \in {"visit", "done", "failed"} /\ Len(file) <= MaxItems /\ Fits(fmt)

(* Every item is written once, in the order of the file, whichever blocks   *)
(* it went through; it keeps its comments and its line ends, and one that   *)
(* is indented starts a line.                                               *)
Places(it, i) ==
  IF it.kind = "AnsiPortList" THEN [j \in 1 .. Len(it.ports) |-> <<i, j>>] ELSE << <<i, 0>> >>
Expected == FlattenSeq([i \in 1 .. Len(file) |-> Places(file[i], i)])
PlacesOf(entries) == [i \in DOMAIN entries |-> entries[i].at]
Pieces(trivia) ==
  LET pieces[i \in 0 .. Len(trivia)] ==
        IF i = 0 THEN <<>>
        ELSE IF trivia[i] \in {"newline", "comment"} THEN Append(pieces[i - 1], trivia[i])
        ELSE pieces[i - 1]
  IN  pieces[Len(trivia)]
LeadKept(w) ==
  LET given == Pieces(w.it.trivia)
  IN  /\ Pieces(w.lead) \in {given, Append(given, "newline")}
      /\ Contains(w.lead, "indent") =>
           w.lead[Len(w.lead)] = "indent" /\ w.lead[Len(w.lead) - 1] = "newline"
WrittenOnce ==
  phase # "failed" =>
    /\ PlacesOf(fmt.out) \o PlacesOf(fmt.queue) = Expected
    /\ phase = "done" => fmt.queue = <<>>
    /\ \A i \in DOMAIN fmt.out : LeadKept(fmt.out[i])

(* In a block, the names of the unsigned logic declarations whose type has  *)
(* no bracket but ranges are in one column.  Their semicolons are as far to *)
(* the right of that column as what stands before them is wide: in one      *)
(* column but for the tail, the brackets of the array that hold no range,   *)
(* and one space more after an array of fewer ranges than the block made    *)
(* room for.  The same goes for ports with as many modifiers, and their     *)
(* commas.  The operators of the assigns are in one column.                 *)
IsDeclaration(w) == w.it.kind \notin {"ContinuousAssign", "HierarchyInstantiation"}
Plain(w) ==
  /\ IsDeclaration(w) /\ w.it.type = "LogicType" /\ w.it.signing = 0 /\ w.it.oddDims = <<>>
  /\ IsPort(w.it) => ~w.it.net
ArrayLength(it) == Larger(Len(it.array) + Len(it.oddArray), Len(it.otherArray))
Shorter(w, out) ==
  /\ ~NoBracket(w.it.array, w.it.oddArray)
  /\ \E i \in DOMAIN out : /\ IsDeclaration(out[i]) /\ out[i].block = w.block
                          /\ ArrayLength(out[i].it) > Len(w.it.array)
EndOf(w, out) ==
  w.end - w.it.tail - SumOf(w.it.oddArray) - IF Shorter(w, out) THEN 1 ELSE 0
InColumns(v, w, out) ==
  v.block = w.block /\ v.it.kind = w.it.kind =>
    /\ Plain(v) /\ Plain(w) /\ (IsPort(v.it) => Len(v.it.mods) = Len(w.it.mods)) =>
         v.name = w.name /\ EndOf(v, out) = EndOf(w, out)
    /\ v.it.kind = "ContinuousAssign" => v.name = w.name /\ v.end = v.name
Aligned ==
  phase # "failed" => \A i, j \in DOMAIN fmt.out : InColumns(fmt.out[i], fmt.out[j], fmt.out)

(* A file is formatted whatever it holds, but for these shapes: an instance *)
(* without parameters, or with a parameter that is named and given nothing; *)
(* a list of ports with an explicit one, or with two or more in a file that *)
(* does not begin with ports; a signed type that no other type of its block *)
(* exceeds and no bracket follows; and an empty bracket, but after a type   *)
(* the formatter does not know.                                             *)
Risky(it) ==
  \/ it.type = "LogicType" /\ it.signing > 0 /\ NoBracket(it.dims, it.oddDims)
  \/ it.type \notin OtherTypes /\ Empty(it.oddDims)
  \/ Empty(it.oddArray)
Hazardous(it) ==
  \/ it.kind = "HierarchyInstantiation" /\ (it.params = NoParams \/ it.blank)
  \/ it.kind = "AnsiPortList" /\ Len(it.ports) > 1 /\ fmt.kind # "ImplicitAnsiPort"
  \/ it.kind = "AnsiPortList"
     /\ \E j \in DOMAIN it.ports : Explicit(it.ports[j]) \/ Risky(it.ports[j])
  \/ it.kind \in Types /\ Risky(it)
FailuresKnown == phase = "failed" => \E i \in DOMAIN file : Hazardous(file[i])

(* "In case of doubt, do nothing !": a type the formatter does not know is  *)
(* left as it was, and so is the space between it and the name.             *)
NamesKeptApart ==
  \A i \in DOMAIN fmt.out :
    LET w == fmt.out[i]
    IN  w.it.kind \in OtherTypes /\ NoBracket(w.it.dims, w.it.oddDims) => w.gap > 0
============================================================================
