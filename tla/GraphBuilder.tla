---------------------------- MODULE GraphBuilder ----------------------------
(***************************************************************************)
(* GraphBuilder::build() and run(): a configuration that the cycle check   *)
(* accepts becomes one task for each of its rows, and the tasks run on the *)
(* worker threads of a Taskflow executor.                                  *)
(*                                                                         *)
(* An id may be given to two rows.  The cycle check takes them for one     *)
(* node; of their tasks only the last one is wired.  The second copy of an *)
(* entry is an entry of the second row, where there is one.                *)
(***************************************************************************)
EXTENDS ValidateDAG

VARIABLES
    twice,  \* the ids of two rows
    build,  \* "checking", "refused", "built" or "returned"
    task    \* of a row: "waiting", "running", "done" or "threw"

gbVars == <<twice, build, task>>

ASSUME CopiesAssumption == Copies = {1, 2}

RowOf(n, i) == <<n, IF n \in twice THEN i ELSE 1>>
Rows        == {RowOf(n, i) : n \in Nodes, i \in Copies}
RowsOf(n)   == {RowOf(n, i) : i \in Copies}

(* tasks[id] = task: the last row of an id overwrites the first.            *)
Tasks(n) == RowOf(n, 2)

(* tasks.at(dep).precede(tasks.at(id))                                      *)
Precede_Mutant == {<<Tasks(To(e)), Tasks(From(e))>> : e \in deps}
Precede        == {<<Tasks(From(e)), Tasks(To(e))>> : e \in deps}

GBInit ==
    /\ Init
    /\ twice \in SUBSET Nodes /\ Cardinality(twice) <= 1
    /\ build = "checking" /\ task = [r \in Rows |-> "waiting"]

Refused ==
    /\ build = "checking" /\ result = "rejected" /\ build' = "refused"
    /\ UNCHANGED <<vars, twice, task>>

(* has() of the type of every row; build() throws for one it does not know. *)
Build ==
    /\ build = "checking" /\ result = "accepted"
    /\ build' \in {"built", "refused"}
    /\ UNCHANGED <<vars, twice, task>>

-----------------------------------------------------------------------------
(* The executor.  A task that throws, in create() or execute(), cancels     *)
(* what has not started; wait() returns without the exception.              *)
Cancelled == \E r \in Rows : task[r] = "threw"

StartTask(r) ==
    /\ build = "built" /\ task[r] = "waiting" /\ ~Cancelled
    /\ \A p \in Precede : p[2] = r => task[p[1]] = "done"
    /\ task' = [task EXCEPT ![r] = "running"]
    /\ UNCHANGED <<vars, twice, build>>

EndTask(r) ==
    /\ task[r] = "running"
    /\ \E outcome \in {"done", "threw"} : task' = [task EXCEPT ![r] = outcome]
    /\ UNCHANGED <<vars, twice, build>>

WaitReturns ==
    /\ \A r \in Rows : task[r] # "running"
    /\ Cancelled \/ \A r \in Rows : task[r] = "done"

RunReturns ==
    /\ build = "built" /\ WaitReturns /\ build' = "returned"
    /\ UNCHANGED <<vars, twice, task>>

GBNext ==
    \/ Next /\ UNCHANGED gbVars
    \/ Refused \/ Build \/ RunReturns
    \/ \E r \in Rows : StartTask(r) \/ EndTask(r)

GBSpec == GBInit /\ [][GBNext]_<<vars, gbVars>> /\ WF_<<vars, gbVars>>(GBNext)

-----------------------------------------------------------------------------
(* Properties.                                                              *)
Started(r) == task[r] # "waiting"

(* A node starts after everything it depends on has ended, on every path of *)
(* every graph: as long as no id is given twice.  With two rows the node    *)
(* still waits for the last row of each dependency, in its own last row.    *)
DependenciesFirst ==
    \A e \in deps : Started(Tasks(To(e))) => task[Tasks(From(e))] = "done"

(* What has passed the cycle check runs to its end: no task waits for ever. *)
BuiltRuns == build = "built" ~> build = "returned"
=============================================================================
