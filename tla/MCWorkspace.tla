----------------------------- MODULE MCWorkspace -----------------------------
(* Workspace on two files and three modules: a and b share a file, c has    *)
(* its own.  At first f defines a and b, and g defines c or is missing; an   *)
(* edit may turn one into a copy of the other.                              *)
EXTENDS Workspace

MCInit == WInit /\ disk["f"] = {"a", "b"} /\ disk["g"] \in {{"c"}, Gone}
MCSpec == MCInit /\ [][WNext]_wvars /\ WFairness

FileContents == {{"a", "b"}, {"c"}}
NoUris == {}

(* a needs both others, and b needs a in return.                            *)
LoopDeps == [m \in {"a", "b", "c"} |->
               CASE m = "a" -> {"b", "c"} [] m = "b" -> {"a"} [] OTHER -> {}]

(* a needs b, which needs c.                                                *)
ChainDeps == [m \in {"a", "b", "c"} |->
                CASE m = "a" -> {"b"} [] m = "b" -> {"c"} [] OTHER -> {}]
=============================================================================
