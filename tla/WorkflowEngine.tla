--------------------------- MODULE WorkflowEngine ---------------------------
(***************************************************************************)
(* The DAG scheduler of WorkflowEngine: run(), waitForCompletion() and     *)
(* the tasks they post to the ThreadPool (scheduleNode, executeNode,       *)
(* cancelNodeAndDownstream), one action per access to shared state.        *)
(*                                                                         *)
(* The loaded configuration is a constant here.  An element of Edges is    *)
(* one entry of a "dependencies" array: it occurs once in the dependency   *)
(* list of To[e] and once in the downstream list of From[e], so a          *)
(* dependency that is listed twice is two edges.  The order of the lists   *)
(* is abstracted: every loop over one takes its elements in any order.     *)
(***************************************************************************)
EXTENDS Integers, FiniteSets

CONSTANTS
    Nodes,          \* the ids of the loaded nodes
    Edges,          \* the entries of all the "dependencies" arrays
    From,           \* From[e]: the dependency that entry e names
    To,             \* To[e]: the node that declares entry e
    MaxRetries,     \* MaxRetries[n]: "max_retries" of node n, of either sign
    ForeignThrow,   \* nodes whose factory may throw no std::exception
    Workers,        \* threads of the pool
    Callers,        \* threads that call run() and waitForCompletion()
    MaxRuns,        \* bound: how many times run() gets past its checks
    NoNode          \* what an idle worker works on

ASSUME GraphAssumption ==
    /\ IsFiniteSet(Nodes) /\ Nodes # {}
    /\ IsFiniteSet(Edges)
    /\ From \in [Edges -> Nodes] /\ To \in [Edges -> Nodes]
ASSUME ThreadAssumption ==
    /\ MaxRetries \in [Nodes -> Int]
    /\ ForeignThrow \subseteq Nodes
    /\ MaxRuns \in Nat
    /\ NoNode \notin Nodes

InEdges(n)  == {e \in Edges : To[e] = n}
OutEdges(n) == {e \in Edges : From[e] = n}
Upstream(n) == {From[e] : e \in InEdges(n)}

(* Definitions named ..._Mutant are faults planted to show that a property  *)
(* notices them; no specification uses them.                                *)
Roots_Mutant == {n \in Nodes : Cardinality(InEdges(n)) <= 1}
Roots        == {n \in Nodes : InEdges(n) = {}}

(* The start value of a node's counter: a duplicate entry counts twice, as  *)
(* it does in the downstream list of the dependency.                        *)
DepCount_Mutant(n) == Cardinality(Upstream(n))
DepCount(n)        == Cardinality(InEdges(n))

Verdicts  == {"Success", "Failed", "Cancelled"}
NodeState == {"Pending", "Running"} \cup Verdicts

VARIABLES
    running_,           \* the flag that refuses a second run()
    completion_latch_,  \* the count left; 0 while there is no latch yet
    node_state,
    uncompleted_deps,
    execution_ctx_,     \* the nodes that have written to the shared context
    metrics_,           \* how many nodes reached each verdict, never reset
    posted,             \* tasks in the pool's queue, for each node
    runs,               \* run() calls that took the flag
    cpc, ctodo,         \* of a caller: where it is, nodes left in its loop
    pc, subject, verdict, attempt, todo
                        \* of a worker: where it is, the node it works on,
                        \* what it decided for it, its attempts, and the
                        \* downstream entries it still has to process

engine == <<running_, completion_latch_, node_state, uncompleted_deps,
            execution_ctx_, metrics_, posted, runs>>
caller == <<cpc, ctodo>>
worker == <<pc, subject, verdict, attempt, todo>>
vars   == <<engine, caller, worker>>

PoolIdle == /\ \A n \in Nodes : posted[n] = 0
            /\ \A w \in Workers : pc[w] = "idle"

(* The configuration has just been loaded. *)
Init ==
    /\ running_ = FALSE /\ completion_latch_ = 0 /\ runs = 0
    /\ node_state = [n \in Nodes |-> "Pending"]
    /\ uncompleted_deps = [n \in Nodes |-> 0]
    /\ execution_ctx_ = {}
    /\ metrics_ = [v \in Verdicts |-> 0]
    /\ posted = [n \in Nodes |-> 0]
    /\ cpc = [c \in Callers |-> "outside"]
    /\ ctodo = [c \in Callers |-> {}]
    /\ pc = [w \in Workers |-> "idle"]
    /\ subject = [w \in Workers |-> NoNode]
    /\ verdict = [w \in Workers |-> "Success"]
    /\ attempt = [w \in Workers |-> 0]
    /\ todo = [w \in Workers |-> {}]

-----------------------------------------------------------------------------
(* scheduleNode: the CAS Pending -> Running and, when it succeeds, the post *)
(* to the pool, one step: nobody tells a Running node that is not yet       *)
(* queued from one that is.                                                 *)
ScheduleNode(n) ==
    IF node_state[n] = "Pending"
    THEN /\ node_state' = [node_state EXCEPT ![n] = "Running"]
         /\ posted' = [posted EXCEPT ![n] = @ + 1]
    ELSE UNCHANGED <<node_state, posted>>

FlagFree == running_ = FALSE

(* run(): the CAS on running_.  A call that finds it set throws and changes *)
(* nothing.                                                                 *)
Run(c) ==
    /\ cpc[c] = "outside" /\ FlagFree /\ runs < MaxRuns
    /\ running_' = TRUE
    /\ runs' = runs + 1
    /\ cpc' = [cpc EXCEPT ![c] = "latch"]
    /\ UNCHANGED <<completion_latch_, node_state, uncompleted_deps,
                   execution_ctx_, metrics_, posted, ctodo, worker>>

NewLatch(c) ==
    /\ cpc[c] = "latch"
    /\ completion_latch_' = Cardinality(Nodes)
    /\ cpc' = [cpc EXCEPT ![c] = "reset"]
    /\ ctodo' = [ctodo EXCEPT ![c] = Nodes]
    /\ UNCHANGED <<running_, node_state, uncompleted_deps, execution_ctx_,
                   metrics_, posted, runs, worker>>

ResetNode(c, n) ==
    /\ cpc[c] = "reset" /\ n \in ctodo[c]
    /\ uncompleted_deps' =
           [uncompleted_deps EXCEPT ![n] = DepCount(n)]
    /\ node_state' = [node_state EXCEPT ![n] = "Pending"]
    /\ ctodo' = [ctodo EXCEPT ![c] = @ \ {n}]
    /\ UNCHANGED <<running_, completion_latch_, execution_ctx_, metrics_,
                   posted, runs, cpc, worker>>

ClearContext_Mutant(c) ==
    /\ cpc[c] = "reset" /\ ctodo[c] = {}
    /\ cpc' = [cpc EXCEPT ![c] = "roots"]
    /\ ctodo' = [ctodo EXCEPT ![c] = Roots]
    /\ UNCHANGED <<engine, worker>>
ClearContext(c) ==
    /\ cpc[c] = "reset" /\ ctodo[c] = {}
    /\ execution_ctx_' = {}
    /\ cpc' = [cpc EXCEPT ![c] = "roots"]
    /\ ctodo' = [ctodo EXCEPT ![c] = Roots]
    /\ UNCHANGED <<running_, completion_latch_, node_state, uncompleted_deps,
                   metrics_, posted, runs, worker>>

ScheduleRoot(c, n) ==
    /\ cpc[c] = "roots" /\ n \in ctodo[c]
    /\ ScheduleNode(n)
    /\ ctodo' = [ctodo EXCEPT ![c] = @ \ {n}]
    /\ UNCHANGED <<running_, completion_latch_, uncompleted_deps,
                   execution_ctx_, metrics_, runs, cpc, worker>>

RunReturns(c) ==
    /\ cpc[c] = "roots" /\ ctodo[c] = {}
    /\ cpc' = [cpc EXCEPT ![c] = "outside"]
    /\ UNCHANGED <<engine, ctodo, worker>>

(* waitForCompletion(): without a latch, or with one already at zero, it    *)
(* does not block.                                                          *)
WaitForCompletion(c) ==
    /\ cpc[c] = "outside"
    /\ cpc' = [cpc EXCEPT ![c] = "wait"]
    /\ UNCHANGED <<engine, ctodo, worker>>

LatchOpens(c) ==
    /\ cpc[c] = "wait" /\ completion_latch_ = 0
    /\ cpc' = [cpc EXCEPT ![c] = "release"]
    /\ UNCHANGED <<engine, ctodo, worker>>

AllowNextRun(c) ==
    /\ cpc[c] = "release"
    /\ running_' = FALSE
    /\ cpc' = [cpc EXCEPT ![c] = "outside"]
    /\ UNCHANGED <<completion_latch_, node_state, uncompleted_deps,
                   execution_ctx_, metrics_, posted, runs, ctodo, worker>>

-----------------------------------------------------------------------------
(* A pool thread takes a task: executeNode(n).                              *)
Dequeue(w, n) ==
    /\ pc[w] = "idle" /\ posted[n] > 0
    /\ posted' = [posted EXCEPT ![n] = @ - 1]
    /\ pc' = [pc EXCEPT ![w] = "create"]
    /\ subject' = [subject EXCEPT ![w] = n]
    /\ UNCHANGED <<running_, completion_latch_, node_state, uncompleted_deps,
                   execution_ctx_, metrics_, runs, caller, verdict, attempt,
                   todo>>

(* registry_.create(): an instance, or a std::exception that fails the node. *)
CreateNode(w) ==
    /\ pc[w] = "create"
    /\ \/ /\ pc' = [pc EXCEPT ![w] = "execute"]
          /\ UNCHANGED verdict
       \/ /\ pc' = [pc EXCEPT ![w] = "store"]
          /\ verdict' = [verdict EXCEPT ![w] = "Failed"]
    /\ UNCHANGED <<engine, caller, subject, attempt, todo>>

(* The factory throws something else: it leaves executeNode and ends in the *)
(* future that nobody reads.                                                *)
CreateEscapes(w) ==
    /\ pc[w] = "create" /\ subject[w] \in ForeignThrow
    /\ pc' = [pc EXCEPT ![w] = "idle"]
    /\ subject' = [subject EXCEPT ![w] = NoNode]
    /\ UNCHANGED <<engine, caller, verdict, attempt, todo>>

(* NodeExecutionWrapper: at most max_retries + 1 attempts.  An attempt that *)
(* fails may have written to the context before it threw.                   *)
AttemptSucceeds(w) ==
    /\ pc[w] = "execute" /\ attempt[w] < MaxRetries[subject[w]] + 1
    /\ execution_ctx_' = execution_ctx_ \cup {subject[w]}
    /\ verdict' = [verdict EXCEPT ![w] = "Success"]
    /\ pc' = [pc EXCEPT ![w] = "store"]
    /\ UNCHANGED <<running_, completion_latch_, node_state, uncompleted_deps,
                   metrics_, posted, runs, caller, subject, attempt, todo>>

AttemptFails_Mutant(w) ==
    /\ pc[w] = "execute" /\ attempt[w] < MaxRetries[subject[w]] + 1
    /\ node_state' = [node_state EXCEPT ![subject[w]] = "Failed"]
    /\ attempt' = [attempt EXCEPT ![w] = @ + 1]
    /\ UNCHANGED <<running_, completion_latch_, uncompleted_deps,
                   execution_ctx_, metrics_, posted, runs, caller, pc, subject,
                   verdict, todo>>
AttemptFails(w) ==
    /\ pc[w] = "execute" /\ attempt[w] < MaxRetries[subject[w]] + 1
    /\ execution_ctx_' \in {execution_ctx_, execution_ctx_ \cup {subject[w]}}
    /\ attempt' = [attempt EXCEPT ![w] = @ + 1]
    /\ UNCHANGED <<running_, completion_latch_, node_state, uncompleted_deps,
                   metrics_, posted, runs, caller, pc, subject, verdict, todo>>

AttemptsExhausted(w) ==
    /\ pc[w] = "execute" /\ attempt[w] >= MaxRetries[subject[w]] + 1
    /\ verdict' = [verdict EXCEPT ![w] = "Failed"]
    /\ pc' = [pc EXCEPT ![w] = "store"]
    /\ UNCHANGED <<engine, caller, subject, attempt, todo>>

StoreVerdict(w) ==
    /\ pc[w] = "store"
    /\ node_state' = [node_state EXCEPT ![subject[w]] = verdict[w]]
    /\ pc' = [pc EXCEPT ![w] = "record"]
    /\ UNCHANGED <<running_, completion_latch_, uncompleted_deps,
                   execution_ctx_, metrics_, posted, runs, caller, subject,
                   verdict, attempt, todo>>

(* recordSuccess, recordFailure, recordCancelled.                           *)
Recorded_Mutant(v) ==
    IF v = "Cancelled" THEN metrics_ ELSE [metrics_ EXCEPT ![v] = @ + 1]
Recorded(v) == [metrics_ EXCEPT ![v] = @ + 1]

RecordMetric(w) ==
    /\ pc[w] = "record"
    /\ metrics_' = Recorded(verdict[w])
    /\ pc' = [pc EXCEPT ![w] = "count"]
    /\ UNCHANGED <<running_, completion_latch_, node_state, uncompleted_deps,
                   execution_ctx_, posted, runs, caller, subject, verdict,
                   attempt, todo>>

(* What a node that has been counted leaves to do: all its dependents.      *)
Cascade_Mutant(w) ==
    IF verdict[w] = "Cancelled" THEN {} ELSE OutEdges(subject[w])
Cascade(w) == OutEdges(subject[w])

(* count_down(), before anything downstream of the node is touched.         *)
CountDown(w) ==
    /\ pc[w] = "count"
    /\ completion_latch_' = completion_latch_ - 1
    /\ todo' = [todo EXCEPT ![w] = @ \cup Cascade(w)]
    /\ pc' = [pc EXCEPT ![w] = "downstream"]
    /\ UNCHANGED <<running_, node_state, uncompleted_deps, execution_ctx_,
                   metrics_, posted, runs, caller, subject, verdict, attempt>>

Succeeded_Mutant(w) == verdict[w] # "Cancelled"
Succeeded(w)        == verdict[w] = "Success"

(* The last of the entries of n is released when the counter was 1.         *)
LastOne_Mutant(n) == uncompleted_deps[n] <= 2
LastOne(n)        == uncompleted_deps[n] = 1

(* After a success: fetch_sub on the counter of one dependent, which is     *)
(* scheduled when the counter was 1.                                        *)
ReleaseDownstream(w, e) ==
    /\ pc[w] = "downstream" /\ Succeeded(w) /\ e \in todo[w]
    /\ uncompleted_deps' = [uncompleted_deps EXCEPT ![To[e]] = @ - 1]
    /\ IF LastOne(To[e])
       THEN ScheduleNode(To[e])
       ELSE UNCHANGED <<node_state, posted>>
    /\ todo' = [todo EXCEPT ![w] = @ \ {e}]
    /\ UNCHANGED <<running_, completion_latch_, execution_ctx_, metrics_,
                   runs, caller, pc, subject, verdict, attempt>>

(* The compare_exchange of cancelNodeAndDownstream expects Pending.         *)
Cancellable_Mutant(n) == node_state[n] # "Success"
Cancellable(n)        == node_state[n] = "Pending"

(* After a failure: the CAS Pending -> Cancelled on one dependent.  When it *)
(* succeeds the dependent is recorded and counted like the node itself, and *)
(* its own dependents join the work to do.                                  *)
CancelDownstream(w, e) ==
    /\ pc[w] = "downstream" /\ ~Succeeded(w) /\ e \in todo[w]
    /\ IF Cancellable(To[e])
       THEN /\ node_state' = [node_state EXCEPT ![To[e]] = "Cancelled"]
            /\ subject' = [subject EXCEPT ![w] = To[e]]
            /\ verdict' = [verdict EXCEPT ![w] = "Cancelled"]
            /\ pc' = [pc EXCEPT ![w] = "record"]
       ELSE UNCHANGED <<node_state, subject, verdict, pc>>
    /\ todo' = [todo EXCEPT ![w] = @ \ {e}]
    /\ UNCHANGED <<running_, completion_latch_, uncompleted_deps,
                   execution_ctx_, metrics_, posted, runs, caller, attempt>>

TaskReturns(w) ==
    /\ pc[w] = "downstream" /\ todo[w] = {}
    /\ pc' = [pc EXCEPT ![w] = "idle"]
    /\ subject' = [subject EXCEPT ![w] = NoNode]
    /\ verdict' = [verdict EXCEPT ![w] = "Success"]
    /\ attempt' = [attempt EXCEPT ![w] = 0]
    /\ UNCHANGED <<engine, caller, todo>>

-----------------------------------------------------------------------------
(* A call is entered, or a call in progress goes on, or a task does.        *)
Enter(c) == Run(c) \/ WaitForCompletion(c)

Continue(c) ==
    \/ NewLatch(c)
    \/ \E n \in Nodes : ResetNode(c, n) \/ ScheduleRoot(c, n)
    \/ ClearContext(c) \/ RunReturns(c) \/ LatchOpens(c) \/ AllowNextRun(c)

Work(w) ==
    \/ \E n \in Nodes : Dequeue(w, n)
    \/ CreateNode(w) \/ CreateEscapes(w)
    \/ AttemptSucceeds(w) \/ AttemptFails(w) \/ AttemptsExhausted(w)
    \/ StoreVerdict(w) \/ RecordMetric(w) \/ CountDown(w)
    \/ \E e \in Edges : ReleaseDownstream(w, e) \/ CancelDownstream(w, e)
    \/ TaskReturns(w)

Proceed == (\E c \in Callers : Continue(c)) \/ (\E w \in Workers : Work(w))

(* What the code enforces by itself: any thread calls at any time.          *)
Next == (\E c \in Callers : Enter(c)) \/ Proceed
Spec == Init /\ [][Next]_vars

(* What the code needs of its client: one call at a time, and a new run     *)
(* only when no task of the last one is left in the pool.  The first run of *)
(* an engine that a single thread uses always satisfies it.                 *)
Orderly(c) ==
    /\ \A d \in Callers : cpc[d] = "outside"
    /\ \/ PoolIdle /\ Run(c)
       \/ WaitForCompletion(c)

OrderlyNext == (\E c \in Callers : Orderly(c)) \/ Proceed
OrderlySpec == Init /\ [][OrderlyNext]_vars

(* Threads of the program are scheduled, a call that is in progress goes    *)
(* on, and the plugin's execute() returns.  Nobody has to call.             *)
Fairness == /\ \A c \in Callers : WF_vars(Continue(c))
            /\ \A w \in Workers : WF_vars(Work(w))

FairOrderlySpec == OrderlySpec /\ Fairness

-----------------------------------------------------------------------------
(* Properties.                                                              *)

(* run() has the flag but has not reset every node yet: what the nodes and  *)
(* the latch hold is left over from the run before.                         *)
Starting == \E c \in Callers : \/ cpc[c] = "latch"
                               \/ cpc[c] = "reset" /\ ctodo[c] # {}
InRun    == runs > 0 /\ ~Starting
Finished == InRun /\ completion_latch_ = 0

(* The task of node n is queued, or a worker has not decided its verdict.   *)
Active(n) == \/ posted[n] > 0
             \/ \E w \in Workers : /\ subject[w] = n
                                   /\ pc[w] \in {"create", "execute", "store"}

(* Every variable has its type; no counter or latch leaves the range it     *)
(* starts in (count_down past zero is undefined), no node is queued twice.  *)
TypeOK ==
    /\ running_ \in BOOLEAN
    /\ completion_latch_ \in 0 .. Cardinality(Nodes)
    /\ node_state \in [Nodes -> NodeState]
    /\ uncompleted_deps \in [Nodes -> 0 .. Cardinality(Edges)]
    /\ execution_ctx_ \subseteq Nodes
    /\ metrics_ \in [Verdicts -> Nat]
    /\ posted \in [Nodes -> {0, 1}]
    /\ runs \in Nat
    /\ cpc \in [Callers -> {"outside", "latch", "reset", "roots", "wait",
                            "release"}]
    /\ ctodo \in [Callers -> SUBSET Nodes]
    /\ pc \in [Workers -> {"idle", "create", "execute", "store", "record",
                           "count", "downstream"}]
    /\ subject \in [Workers -> Nodes \cup {NoNode}]
    /\ verdict \in [Workers -> Verdicts]
    /\ attempt \in [Workers -> Nat]
    /\ todo \in [Workers -> SUBSET Edges]

(* Pending means "waiting for upstream dependencies to complete": a node is *)
(* queued and executed only when each node it depends on has succeeded.     *)
DependencyOrder ==
    \A n \in Nodes : Active(n) =>
        \A m \in Upstream(n) : node_state[m] = "Success"

(* waitForCompletion() blocks "until every node in the DAG has finished":   *)
(* an open latch means that every node has a verdict.                       *)
CompletionSound == Finished => \A n \in Nodes : node_state[n] \in Verdicts

(* Fail-fast is exact: a finished run has cancelled a node if and only if   *)
(* something that the node depends on did not succeed.                      *)
OutcomeDetermined ==
    Finished => \A n \in Nodes :
        node_state[n] = "Cancelled"
            <=> \E m \in Upstream(n) : node_state[m] # "Success"

(* When the latch opens the metrics account for every node of every run,    *)
(* each once, and after one run they are the tally of its verdicts.         *)
MetricsExact ==
    Finished =>
        /\ metrics_["Success"] + metrics_["Failed"] + metrics_["Cancelled"]
               = runs * Cardinality(Nodes)
        /\ runs = 1 => \A v \in Verdicts :
               metrics_[v] = Cardinality({n \in Nodes : node_state[n] = v})

(* "Nodes always start with a clean shared context", and with the results   *)
(* of what they depend on: when a node executes, the context holds what its *)
(* upstream wrote and nothing from a node that has not run in this run.     *)
ContextOfThisRun ==
    \A w \in Workers : pc[w] = "execute" =>
        /\ Upstream(subject[w]) \subseteq execution_ctx_
        /\ \A n \in execution_ctx_ : node_state[n] \notin {"Pending", "Cancelled"}

(* A verdict is final: only the reset of the next run() takes it back, so a *)
(* cancelled node never runs and a running node is never cancelled.         *)
VerdictIsFinal ==
    [][\A n \in Nodes :
          \/ node_state[n] \notin Verdicts
          \/ node_state'[n] = node_state[n]
          \/ \E c \in Callers : cpc[c] = "reset" /\ n \in ctodo[c]]_vars

(* A run that starts comes to its end: the latch opens and the pool drains. *)
(* Only a factory that throws what executeNode() does not catch prevents    *)
(* it: the pool drains all the same, and its node stays as it was.          *)
Lost == \E n \in ForeignThrow : node_state[n] = "Running"
RunDrains == Starting ~> (PoolIdle /\ (Finished \/ Lost))

(* The engine implements DagRun.  While run() has not reset a node yet, the *)
(* node counts as reset: nothing can tell the difference.                   *)
status ==
    [n \in Nodes |->
        IF \E c \in Callers : \/ cpc[c] = "latch"
                              \/ cpc[c] = "reset" /\ n \in ctodo[c]
        THEN "Pending" ELSE node_state[n]]
Abstract == INSTANCE DagRun WITH active <- running_,
                Needs <- [n \in Nodes |-> Upstream(n)]
ImplementsDagRun == Abstract!Spec
=============================================================================
