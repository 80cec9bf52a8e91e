------------------------------- MODULE DagRun -------------------------------
(***************************************************************************)
(* What the engine promises its client about the execution of a DAG: runs  *)
(* follow one another, a node starts once all it depends on has succeeded, *)
(* what a failure makes unreachable is cancelled and nothing else is, and  *)
(* a run ends when every node has its verdict.  No counter, latch, queue   *)
(* or thread appears here.                                                 *)
(***************************************************************************)
CONSTANTS
    Nodes,
    Needs           \* Needs[n]: the nodes that n depends on

VARIABLES
    active,         \* a run is in progress
    status          \* the state of each node in the current or last run

vars == <<active, status>>

Final == {"Success", "Failed", "Cancelled"}

Init == /\ active = FALSE
        /\ status = [n \in Nodes |-> "Pending"]

Begin == /\ ~active
         /\ active' = TRUE
         /\ status' = [n \in Nodes |-> "Pending"]

Start(n) == /\ active /\ status[n] = "Pending"
            /\ \A m \in Needs[n] : status[m] = "Success"
            /\ status' = [status EXCEPT ![n] = "Running"]
            /\ UNCHANGED active

Finish(n, v) == /\ active /\ status[n] = "Running"
                /\ status' = [status EXCEPT ![n] = v]
                /\ UNCHANGED active

Cancel(n) == /\ active /\ status[n] = "Pending"
             /\ \E m \in Needs[n] : status[m] \in {"Failed", "Cancelled"}
             /\ status' = [status EXCEPT ![n] = "Cancelled"]
             /\ UNCHANGED active

End == /\ active /\ \A n \in Nodes : status[n] \in Final
       /\ active' = FALSE
       /\ UNCHANGED status

Next == \/ Begin \/ End
        \/ \E n \in Nodes : \/ Start(n) \/ Cancel(n)
                            \/ \E v \in {"Success", "Failed"} : Finish(n, v)

Spec == Init /\ [][Next]_vars
=============================================================================
