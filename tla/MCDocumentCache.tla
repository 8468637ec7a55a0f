--------------------------- MODULE MCDocumentCache ---------------------------
(* DocumentCache on two files: each may be missing, hold no module at all,  *)
(* the module a that the other one may define too, or both modules.  At     *)
(* first each holds both modules or is missing; the rest comes by edits.    *)
EXTENDS DocumentCache, TLC

FileContents == {{}, {"a"}, {"a", "b"}}
MCInit == Init /\ \A f \in Files : disk[f] \in {{"a", "b"}, Gone}
MCSpec == MCInit /\ [][Next]_vars

InterchangeableFiles == Permutations(Files)
=============================================================================
