------------------------------ MODULE MCDesign ------------------------------
(* Design with two files, a problem in each and one without a place.       *)
EXTENDS Design, TLC

CONSTANTS f1, f2, p1, p2, p3, nowhere

MCFiles == {f1, f2}
MCProblems == {p1, p2, p3}
MCPlace == (p1 :> f1) @@ (p2 :> f2) @@ (p3 :> nowhere)
=============================================================================
