---------------------------- MODULE MCFormatter ----------------------------
(* Formatter on files of a few items, one for each shape that the code      *)
(* tells apart.  The widths are those of the keywords, and two lengths of   *)
(* names, of modules' parameters and of ranges.                             *)
EXTENDS Formatter

Declared(type, keyword, name) ==
  [kind |-> type, type |-> type, mods |-> <<>>, keyword |-> keyword, signing |-> 0,
   dims |-> <<>>, oddDims |-> <<>>, name |-> name, array |-> <<>>, oddArray |-> <<>>,
   others |-> {}, otherArray |-> <<>>, tail |-> 0, net |-> FALSE,
   trivia |-> <<"newline", "space">>]
Logic(name) == Declared("LogicType", 5, name)
APort(mods, name) == [Logic(name) EXCEPT !.kind = "ImplicitAnsiPort", !.mods = mods]
AnExplicitPort == [kind |-> "ExplicitAnsiPort"]
List(list) == [kind |-> "AnsiPortList", ports |-> list]
AnAssign(lefts) == [kind |-> "ContinuousAssign", lefts |-> lefts,
                  trivia |-> <<"space", "comment", "newline", "space">>]
AnInstance(params, ports) == [kind |-> "HierarchyInstantiation", params |-> params,
                            ports |-> ports, blank |-> FALSE, trivia |-> <<"newline", "newline", "space">>]

FileItems ==
  { Logic(1),
    [Logic(4) EXCEPT !.trivia = <<"space", "comment", "newline", "newline", "space">>],
    [Logic(2) EXCEPT !.dims = << <<1, 1>> >>, !.trivia = <<>>],
    [Logic(3) EXCEPT !.dims = << <<2, 1>>, <<1, 3>> >>, !.others = {6},
                     !.otherArray = << <<3, 1>> >>, !.tail = 13],
    [Logic(1) EXCEPT !.oddArray = <<1>>, !.tail = 4],
    [Logic(1) EXCEPT !.oddArray = <<0>>],
    [Logic(3) EXCEPT !.mods = <<6>>, !.array = << <<1, 2>> >>],
    [Logic(1) EXCEPT !.mods = <<5, 6>>, !.array = << <<2, 1>>, <<1, 1>> >>],
    [Logic(2) EXCEPT !.signing = 6],
    [Logic(2) EXCEPT !.signing = 6, !.dims = << <<2, 1>> >>],
    Declared("NamedType", 3, 1),
    [Declared("NamedType", 8, 2) EXCEPT !.dims = << <<3, 1>> >>],
    [Declared("NamedType", 4, 2) EXCEPT !.mods = <<5>>],
    Declared("RegType", 3, 1),
    Declared("BitType", 3, 1),
    AnAssign(<<2, 5>>),
    AnAssign(<<1>>),
    List(<<APort(<<5>>, 1)>>),
    List(<<APort(<<5>>, 3), [APort(<<6>>, 1) EXCEPT !.dims = << <<1, 1>> >>],
            [APort(<<5, 3>>, 2) EXCEPT !.array = << <<1, 1>> >>],
            [APort(<<>>, 2) EXCEPT !.trivia = <<"space", "comment", "newline">>],
            [APort(<<5, 4>>, 1) EXCEPT !.net = TRUE, !.type = "ImplicitType", !.keyword = 0]>>),
    List(<<APort(<<5>>, 2), AnExplicitPort>>),
    AnInstance(NoParams, << <<1, 2>> >>),
    [AnInstance(<< <<2, 0>> >>, << <<1, 2>> >>) EXCEPT !.blank = TRUE],
    AnInstance(<< <<3, 1>>, <<2, 4>> >>, << <<1, 0>>, <<4, 2>> >>) }
============================================================================
