-------------------------- MODULE MCWorkflowEngine --------------------------
(* Small graphs for model checking WorkflowEngine. *)
EXTENDS WorkflowEngineProofs, TLC

(* A diamond in which D lists its dependency on B twice, as loadConfig      *)
(* accepts: A -> B, A -> C, B -> D, C -> D, B -> D.                         *)
DiamondNodes == {"A", "B", "C", "D"}
DiamondEdges == 1 .. 5
DiamondFrom  == <<"A", "A", "B", "C", "B">>
DiamondTo    == <<"B", "C", "D", "D", "D">>
(* B retries once.                                                          *)
DiamondRetries == [n \in DiamondNodes |-> IF n = "B" THEN 1 ELSE 0]

(* Two roots and their common dependent: A -> B, C -> B.                    *)
JoinNodes == {"A", "B", "C"}
JoinEdges == 1 .. 2
JoinFrom  == <<"A", "C">>
JoinTo    == <<"B", "B">>
JoinRetries == [n \in JoinNodes |-> IF n = "B" THEN -1 ELSE 0]

WorkerSymmetry == Permutations(Workers)
=============================================================================
