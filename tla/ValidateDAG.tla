---------------------------- MODULE ValidateDAG ----------------------------
(***************************************************************************)
(* The cycle check of WorkflowEngine::validateDAG, the same algorithm as   *)
(* GraphBuilder::check_cycles (Kahn): count down the dependencies of the   *)
(* dependents of every node that has none left.                            *)
(*                                                                         *)
(* The entries of the dependency lists are a variable that no step         *)
(* changes, so that one run covers every small graph.  An entry            *)
(* <<<<d, n>>, i>> says that node n lists d; a node may list d twice, with     *)
(* different i.  The order of the queue is abstracted.                     *)
(***************************************************************************)
EXTENDS Integers, FiniteSets

CONSTANTS Nodes, Copies,
          MaxEntries    \* bound: how many entries a configuration has

ASSUME NodesAssumption ==
    IsFiniteSet(Nodes) /\ IsFiniteSet(Copies) /\ MaxEntries \in Nat

VARIABLES
    deps,       \* the entries of the configuration being checked
    in_degree, q, visited,
    todo,       \* entries of the loop over the current node's dependents
    result,     \* "running", or how the function ends
    when        \* history: the value of visited when a node was visited

vars == <<deps, in_degree, q, visited, todo, result, when>>

Entries == (Nodes \X Nodes) \X Copies
From(e) == e[1][1]
To(e)   == e[1][2]
In(n)   == {e \in deps : To(e) = n}
Out(n)  == {e \in deps : From(e) = n}

Init ==
    /\ deps \in SUBSET Entries /\ Cardinality(deps) <= MaxEntries
    /\ in_degree = [n \in Nodes |-> Cardinality(In(n))]
    /\ q = {n \in Nodes : in_degree[n] = 0}
    /\ visited = 0 /\ todo = {} /\ result = "running"
    /\ when = [n \in Nodes |-> 0]

Visit(n) ==
    /\ result = "running" /\ todo = {} /\ n \in q
    /\ q' = q \ {n}
    /\ visited' = visited + 1
    /\ when' = [when EXCEPT ![n] = visited + 1]
    /\ todo' = Out(n)
    /\ UNCHANGED <<deps, in_degree, result>>

(* --in_degree[ds_id] == 0                                                  *)
ReachesZero_Mutant(n) == in_degree[n] <= 2
ReachesZero(n)        == in_degree[n] = 1

Decrement(e) ==
    /\ e \in todo
    /\ in_degree' = [in_degree EXCEPT ![To(e)] = @ - 1]
    /\ q' = IF ReachesZero(To(e)) THEN q \cup {To(e)} ELSE q
    /\ todo' = todo \ {e}
    /\ UNCHANGED <<deps, visited, result, when>>

AllVisited_Mutant == visited + 1 >= Cardinality(Nodes)
AllVisited        == visited = Cardinality(Nodes)

Decide ==
    /\ result = "running" /\ todo = {} /\ q = {}
    /\ result' = IF AllVisited THEN "accepted" ELSE "rejected"
    /\ UNCHANGED <<deps, in_degree, q, visited, todo, when>>

Next == \/ \E n \in Nodes : Visit(n)
        \/ \E e \in deps : Decrement(e)
        \/ Decide

Spec == Init /\ [][Next]_vars

-----------------------------------------------------------------------------
(* Properties.                                                              *)
KahnTypeOK ==
    /\ deps \subseteq Entries
    /\ in_degree \in [Nodes -> Nat]
    /\ q \subseteq Nodes
    /\ visited \in Nat
    /\ todo \subseteq deps
    /\ result \in {"running", "accepted", "rejected"}
    /\ when \in [Nodes -> Nat]

(* The nodes can be numbered so that each one follows what it depends on.   *)
Acyclic == \E rank \in [Nodes -> 0 .. Cardinality(Nodes)] :
              \A e \in deps : rank[From(e)] < rank[To(e)]

(* Some nodes wait for one another: none of them can ever be the first.     *)
Stuck(S)  == S # {} /\ \A n \in S : \E e \in In(n) : From(e) \in S
HasCycle  == \E S \in SUBSET Nodes : Stuck(S)

(* A configuration that loads is a DAG, so that every run of it can end.    *)
AcceptsOnlyDags == result = "accepted" => Acyclic

(* A configuration that is refused for a cycle has one.                     *)
RejectsOnlyCycles == result = "rejected" => HasCycle
=============================================================================
