----------------------------- MODULE MCIndexer -----------------------------
(* Indexer on two files and two headers: a package, a module instantiated   *)
(* twice or more, with a loop whose body declares a name of its own, and an *)
(* array of instances.                                                      *)
EXTENDS Indexer

F == "a.sv"
G == "b.sv"
H == "c.svh"
D == "d.svh"
MCFiles == <<F, G, H, D>>

R(file, start, end) == [file |-> file, start |-> start, end |-> end]
Node(kind, name, in, range) ==
  [kind |-> kind, name |-> name, range |-> range, id |-> NoRange, in |-> in, of |-> 0,
   many |-> FALSE]
Called(node, range) == [node EXCEPT !.id = range]
Of(node, n) == [node EXCEPT !.of = n]

(* package p; logic z; function f; z; endpackage                            *)
(* module m; logic x; for ...: g begin logic w = x; w; end  x; y;           *)
(*   c #(.x()) ...; endmodule                                               *)
(* module n; logic i; endmodule                                             *)
(* module t; import p::*, q::*; logic y, x; (k, by an include)              *)
(*   m u(.x(y)); m v(.x(z)); if ...: h begin logic y; y; m w(.x()); end     *)
(*   n a [...](.i(y)); if ...: r begin (q, by an include) end               *)
(* The y of m is not declared there, there is no package q, and the ports   *)
(* of w are in the header that q is in.                                     *)
MCSource == <<
  Node("unit", "", 0, R(F, 1, 90)),
  Node("package", "p", 1, R(F, 2, 20)),
  Node("symbol", "z", 2, R(F, 5, 6)),
  Called(Node("function", "f", 2, R(F, 8, 18)), R(F, 9, 10)),
  Node("identifier", "z", 4, R(F, 12, 13)),
  Called(Node("module", "m", 1, R(F, 30, 66)), R(F, 31, 32)),
  Node("symbol", "x", 6, R(F, 34, 35)),
  Node("block", "g", 6, R(F, 37, 54)),
  [Node("block", "", 8, R(F, 38, 53)) EXCEPT !.many = TRUE],
  Node("symbol", "w", 9, R(F, 40, 45)),
  Node("identifier", "x", 9, R(F, 43, 44)),
  Node("identifier", "w", 9, R(F, 47, 48)),
  Node("identifier", "x", 6, R(F, 56, 57)),
  Node("identifier", "y", 6, R(F, 59, 60)),
  Node("port", "x", 6, R(F, 62, 63)),
  Called(Node("module", "n", 1, R(F, 70, 80)), R(F, 71, 72)),
  Node("symbol", "i", 16, R(F, 74, 75)),
  Node("unit", "", 0, R(G, 1, 99)),
  Called(Node("module", "t", 18, R(G, 2, 95)), R(G, 3, 4)),
  Node("import", "p", 19, R(G, 5, 6)),
  Node("import", "q", 19, R(G, 6, 7)),
  Node("symbol", "y", 19, R(G, 8, 9)),
  Node("symbol", "x", 19, R(G, 11, 12)),
  Node("symbol", "k", 19, R(H, 1, 2)),
  Node("identifier", "k", 19, R(H, 4, 5)),
  Of(Called(Node("instance", "u", 19, R(G, 16, 24)), R(G, 16, 17)), 6),
  Node("port", "x", 26, R(G, 18, 19)),
  Node("identifier", "y", 26, R(G, 20, 21)),
  Of(Node("type", "m", 19, R(G, 14, 15)), 26),
  Of(Called(Node("instance", "v", 19, R(G, 28, 36)), R(G, 28, 29)), 6),
  Node("port", "x", 30, R(G, 30, 31)),
  Node("identifier", "z", 30, R(G, 32, 33)),
  Of(Node("type", "m", 19, R(G, 26, 27)), 30),
  Node("block", "h", 19, R(G, 38, 58)),
  Node("symbol", "y", 34, R(G, 40, 41)),
  Node("identifier", "y", 34, R(G, 43, 44)),
  Of(Called(Node("instance", "w", 34, R(G, 51, 56)), R(G, 51, 52)), 6),
  Node("port", "x", 37, R(D, 4, 5)),
  Of(Node("type", "m", 34, R(G, 46, 47)), 37),
  Node("block", "a", 19, R(G, 62, 72)),
  [Of(Called(Node("instance", "", 40, R(G, 62, 72)), R(G, 62, 63)), 16) EXCEPT !.many = TRUE],
  Node("port", "i", 41, R(G, 65, 66)),
  Node("identifier", "y", 41, R(G, 68, 69)),
  Of(Node("type", "n", 19, R(G, 60, 61)), 41),
  Node("block", "r", 19, R(G, 74, 84)),
  Node("symbol", "q", 45, R(D, 1, 2)),
  Of(Node("instance", "t", 0, NoRange), 19) >>
Ids == <<"unnamed0", "unnamed1", "unnamed2">>
ASSUME Source = MCSource => Unambiguous

(* Two branches with one name, of a module instantiated twice: the index    *)
(* has one scope for both.                                                  *)
(* module m; endmodule  module n; endmodule  module t #(P); if (P) begin    *)
(* : a  m u(); m v(); end else begin : a  n w(); n v(); end endmodule       *)
(* module s; t #(1) x(); t #(0) y(); endmodule                              *)
BranchSource == <<
  Node("unit", "", 0, R(F, 1, 90)),
  Called(Node("module", "m", 1, R(F, 2, 9)), R(F, 3, 4)),
  Called(Node("module", "n", 1, R(F, 12, 19)), R(F, 13, 14)),
  Called(Node("module", "t", 1, R(F, 22, 69)), R(F, 23, 24)),
  Node("block", "a", 4, R(F, 26, 45)),
  Of(Called(Node("instance", "u", 5, R(F, 30, 33)), R(F, 30, 31)), 2),
  Of(Called(Node("instance", "v", 5, R(F, 36, 39)), R(F, 36, 37)), 2),
  Node("block", "a", 4, R(F, 47, 67)),
  Of(Called(Node("instance", "w", 8, R(F, 50, 53)), R(F, 50, 51)), 3),
  Of(Called(Node("instance", "v", 8, R(F, 56, 59)), R(F, 56, 57)), 3),
  Called(Node("module", "s", 1, R(F, 70, 89)), R(F, 71, 72)),
  Of(Called(Node("instance", "x", 11, R(F, 75, 78)), R(F, 75, 76)), 4),
  Of(Called(Node("instance", "y", 11, R(F, 80, 83)), R(F, 80, 81)), 4),
  Of(Node("instance", "s", 0, NoRange), 11) >>
============================================================================
