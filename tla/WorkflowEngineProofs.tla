------------------------ MODULE WorkflowEngineProofs ------------------------
(***************************************************************************)
(* Proofs about WorkflowEngine for every graph, every number of workers    *)
(* and callers and every number of runs, under OrderlyNext: one call at a  *)
(* time, a new run only on an idle pool.                                   *)
(***************************************************************************)
EXTENDS WorkflowEngine, FiniteSetTheorems, TLAPS

Deciding(w) == pc[w] \in {"create", "execute", "store"}
Counting(w) == pc[w] \in {"record", "count"}
Busy(w)     == Deciding(w) \/ Counting(w)

(* The entries of n that have not been taken off its counter: their         *)
(* dependency has not succeeded, or the worker that ran it still holds them. *)
Held(e) == \E w \in Workers : \/ e \in todo[w]
                              \/ Counting(w) /\ subject[w] = From[e]
Unreleased(n) ==
    {e \in InEdges(n) : node_state[From[e]] # "Success" \/ Held(e)}

(* The nodes that the latch still waits for.                                *)
Uncounted ==
    {n \in Nodes : \/ node_state[n] \in {"Pending", "Running"}
                   \/ \E w \in Workers : Counting(w) /\ subject[w] = n}

(* One call at a time; what run() has established so far.                   *)
CallerInv ==
    /\ \A c, d \in Callers :
           cpc[c] # "outside" /\ cpc[d] # "outside" => c = d
    /\ \A c \in Callers :
        /\ cpc[c] \in {"latch", "reset"} => PoolIdle
        /\ cpc[c] \in {"latch", "reset", "roots"} => running_ /\ runs > 0
        /\ cpc[c] = "reset" =>
               /\ completion_latch_ = Cardinality(Nodes)
               /\ \A n \in Nodes \ ctodo[c] :
                      /\ node_state[n] = "Pending"
                      /\ uncompleted_deps[n] = DepCount(n)
        /\ cpc[c] = "roots" => ctodo[c] \subseteq Roots
        /\ cpc[c] = "release" => completion_latch_ = 0
    /\ ~running_ => completion_latch_ = 0
    /\ runs = 0 => PoolIdle /\ ~running_

(* A worker's locals agree with the node it works on.                       *)
WorkerInv ==
    \A w \in Workers :
        /\ pc[w] # "idle" => subject[w] \in Nodes
        /\ pc[w] \in {"idle", "create", "execute", "store"} => todo[w] = {}
        /\ pc[w] = "store" => verdict[w] # "Cancelled"
        /\ Deciding(w) => node_state[subject[w]] = "Running"
        /\ Counting(w) => /\ node_state[subject[w]] = verdict[w]
                          /\ Succeeded(w) => todo[w] = {}
        /\ \A e \in todo[w] :
               IF Succeeded(w)
               THEN node_state[From[e]] = "Success"
               ELSE node_state[From[e]] \in {"Failed", "Cancelled"}

(* No node and no downstream entry is in the hands of two workers.          *)
OwnershipInv ==
    /\ \A n \in Nodes : posted[n] = 1 =>
           /\ node_state[n] = "Running"
           /\ \A w \in Workers : ~(Busy(w) /\ subject[w] = n)
    /\ \A w, x \in Workers :
           /\ Busy(w) /\ Busy(x) /\ subject[w] = subject[x] => w = x
           /\ todo[w] \cap todo[x] # {} => w = x
           /\ \A e \in todo[w] : ~(Counting(x) /\ subject[x] = From[e])

(* What the states of a node and of its dependencies have to do with each   *)
(* other.                                                                   *)
GraphInv ==
    \A n \in Nodes :
        /\ node_state[n] \in {"Running", "Success", "Failed"} =>
               \A e \in InEdges(n) : node_state[From[e]] = "Success"
        /\ node_state[n] = "Cancelled" =>
               \E e \in InEdges(n) : node_state[From[e]] \in {"Failed", "Cancelled"}

(* What the counters count.                                                 *)
CounterInv ==
    /\ \A n \in Nodes : uncompleted_deps[n] = Cardinality(Unreleased(n))
    /\ completion_latch_ = Cardinality(Uncounted)

(* The inductive invariant: the last two parts hold once the nodes and the  *)
(* latch belong to the run in progress or to the last one.                  *)
IInv == /\ TypeOK /\ CallerInv /\ WorkerInv /\ OwnershipInv
        /\ InRun => GraphInv /\ CounterInv

-----------------------------------------------------------------------------
(* The entries of a node and the nodes themselves are finitely many.        *)
LEMMA Finiteness ==
    /\ Cardinality(Nodes) \in Nat /\ Cardinality(Nodes) > 0
    /\ Cardinality(Edges) \in Nat
    /\ \A n \in Nodes : /\ IsFiniteSet(InEdges(n))
                        /\ DepCount(n) \in 0 .. Cardinality(Edges)
    /\ \A S \in SUBSET Nodes : IsFiniteSet(S)
    /\ \A S \in SUBSET Edges : IsFiniteSet(S)
<1>1. \A n \in Nodes : InEdges(n) \in SUBSET Edges
  BY DEF InEdges
<1>2. \A S \in SUBSET Nodes : IsFiniteSet(S)
  BY GraphAssumption, FS_Subset
<1>3. \A S \in SUBSET Edges :
        IsFiniteSet(S) /\ Cardinality(S) <= Cardinality(Edges)
                       /\ Cardinality(S) \in Nat
  BY GraphAssumption, FS_Subset, FS_CardinalityType
<1>4. Cardinality(Nodes) \in Nat /\ Cardinality(Edges) \in Nat
  BY GraphAssumption, FS_CardinalityType
<1>5. Cardinality(Nodes) # 0
  BY GraphAssumption, FS_EmptySet
<1>6. \A n \in Nodes : DepCount(n) \in 0 .. Cardinality(Edges)
  BY <1>1, <1>3, <1>4 DEF DepCount
<1>7. QED
  BY <1>1, <1>2, <1>3, <1>4, <1>5, <1>6

(* A worker that is not idle works for a run whose nodes are all reset.     *)
LEMMA WorkInRun ==
    ASSUME IInv, NEW w \in Workers, pc[w] # "idle"
    PROVE  InRun /\ GraphInv /\ CounterInv
<1>1. ~PoolIdle
  BY DEF PoolIdle
<1>2. runs > 0 /\ \A c \in Callers : cpc[c] \notin {"latch", "reset"}
  BY <1>1 DEF IInv, CallerInv, TypeOK
<1>3. InRun
  BY <1>2 DEF InRun, Starting
<1>4. QED
  BY <1>3 DEF IInv

LEMMA InitIInv == Init => IInv
<1> SUFFICES ASSUME Init PROVE IInv
  OBVIOUS
<1>1. TypeOK
  <2>1. "Pending" \in NodeState /\ "Success" \in Verdicts
    BY DEF NodeState, Verdicts
  <2>2. 0 \in 0 .. Cardinality(Nodes) /\ 0 \in 0 .. Cardinality(Edges)
    BY Finiteness
  <2>3. QED
    BY <2>1, <2>2 DEF Init, TypeOK
<1>2. CallerInv
  BY DEF Init, CallerInv, PoolIdle
<1>3. WorkerInv
  BY DEF Init, WorkerInv, Deciding, Counting
<1>4. OwnershipInv
  BY DEF Init, OwnershipInv, Busy, Deciding, Counting
<1>5. ~InRun
  BY DEF Init, InRun
<1>6. QED
  BY <1>1, <1>2, <1>3, <1>4, <1>5 DEF IInv

-----------------------------------------------------------------------------
(* A step that touches neither the states, the counters, the latch, what is *)
(* held nor what is being counted preserves what relates them.              *)
LEMMA SameCounters ==
    ASSUME GraphInv, CounterInv,
           UNCHANGED <<node_state, uncompleted_deps, completion_latch_>>,
           \A e \in Edges : Held(e)' <=> Held(e),
           \A n \in Nodes : (\E w \in Workers : Counting(w) /\ subject[w] = n)'
                           <=> (\E w \in Workers : Counting(w) /\ subject[w] = n)
    PROVE  GraphInv' /\ CounterInv'
<1>1. Uncounted' = Uncounted
  BY DEF Uncounted
<1>2. \A n \in Nodes : Unreleased(n)' = Unreleased(n)
  BY DEF Unreleased, InEdges
<1>3. QED
  BY <1>1, <1>2 DEF GraphInv, CounterInv

(* The steps of a call.                                                     *)
LEMMA RunStep ==
    ASSUME IInv, NEW c \in Callers, \A d \in Callers : cpc[d] = "outside",
           PoolIdle, Run(c)
    PROVE  IInv'
<1> USE DEF IInv, Run, worker
<1>1. TypeOK'
  BY DEF TypeOK
<1>2. CallerInv'
  BY DEF CallerInv, TypeOK, PoolIdle
<1>3. WorkerInv'
  BY DEF WorkerInv, Deciding, Counting, Succeeded
<1>4. OwnershipInv'
  BY DEF OwnershipInv, Busy, Deciding, Counting
<1>5. ~InRun'
  BY DEF InRun, Starting, TypeOK
<1>6. QED
  BY <1>1, <1>2, <1>3, <1>4, <1>5

LEMMA NewLatchStep ==
    ASSUME IInv, NEW c \in Callers, NewLatch(c)
    PROVE  IInv'
<1> USE DEF IInv, NewLatch, worker
<1>1. TypeOK'
  BY Finiteness DEF TypeOK
<1>2. CallerInv'
  BY DEF CallerInv, TypeOK, PoolIdle
<1>3. WorkerInv'
  BY DEF WorkerInv, Deciding, Counting, Succeeded
<1>4. OwnershipInv'
  BY DEF OwnershipInv, Busy, Deciding, Counting
<1>5. ~InRun'
  BY GraphAssumption DEF InRun, Starting, TypeOK
<1>6. QED
  BY <1>1, <1>2, <1>3, <1>4, <1>5

LEMMA ResetNodeStep ==
    ASSUME IInv, NEW c \in Callers, NEW n \in Nodes, ResetNode(c, n)
    PROVE  IInv'
<1> USE DEF IInv, ResetNode, worker
<1>1. TypeOK'
  BY Finiteness DEF TypeOK, NodeState
<1>2. CallerInv'
  BY DEF CallerInv, TypeOK, PoolIdle
<1>3. PoolIdle /\ PoolIdle'
  BY DEF CallerInv, PoolIdle
<1>4. WorkerInv'
  BY <1>3 DEF WorkerInv, Deciding, Counting, Succeeded, PoolIdle, TypeOK
<1>5. OwnershipInv'
  BY <1>3 DEF OwnershipInv, Busy, Deciding, Counting, PoolIdle, TypeOK
<1>6. ASSUME InRun' PROVE GraphInv' /\ CounterInv'
  <2>1. ctodo'[c] = {}
    BY <1>6 DEF InRun, Starting
  <2>2. /\ \A m \in Nodes : node_state'[m] = "Pending"
                          /\ uncompleted_deps'[m] = DepCount(m)
        /\ completion_latch_' = Cardinality(Nodes)
    BY <2>1, <1>2 DEF CallerInv
  <2>3. Uncounted' = Nodes
    BY <2>2 DEF Uncounted
  <2>4. \A m \in Nodes : Unreleased(m)' = InEdges(m)
    BY <2>2, GraphAssumption DEF Unreleased, InEdges
  <2>5. GraphInv'
    BY <2>2 DEF GraphInv
  <2>6. CounterInv'
    BY <2>2, <2>3, <2>4 DEF CounterInv, DepCount
  <2>7. QED
    BY <2>5, <2>6
<1>7. QED
  BY <1>1, <1>2, <1>4, <1>5, <1>6

LEMMA ClearContextStep ==
    ASSUME IInv, NEW c \in Callers, ClearContext(c)
    PROVE  IInv'
<1> USE DEF IInv, ClearContext, worker
<1>1. TypeOK'
  BY DEF TypeOK, Roots
<1>2. CallerInv'
  BY DEF CallerInv, TypeOK, PoolIdle
<1>3. WorkerInv'
  BY DEF WorkerInv, Deciding, Counting, Succeeded
<1>4. OwnershipInv'
  BY DEF OwnershipInv, Busy, Deciding, Counting
<1>5. InRun
  BY DEF InRun, Starting, CallerInv, TypeOK
<1>6. GraphInv' /\ CounterInv'
  BY <1>5, SameCounters DEF Held, Counting
<1>7. QED
  BY <1>1, <1>2, <1>3, <1>4, <1>6

(* Making a node Running whose dependencies have all succeeded: what        *)
(* scheduleNode does, from run() or from a task.                            *)
LEMMA ScheduleNodeKeeps ==
    ASSUME IInv, InRun, NEW n \in Nodes,
           \A e \in InEdges(n) : node_state[From[e]] = "Success",
           ScheduleNode(n), UNCHANGED <<pc, subject, verdict>>
    PROVE  /\ node_state' \in [Nodes -> NodeState]
           /\ posted' \in [Nodes -> {0, 1}]
           /\ GraphInv'
           /\ \A m \in Nodes : posted'[m] = 1 =>
                  /\ node_state'[m] = "Running"
                  /\ \A w \in Workers : ~(Busy(w) /\ subject[w] = m)
           /\ \A m \in Nodes :
                  /\ node_state'[m] # node_state[m] => node_state[m] = "Pending"
                  /\ node_state'[m] = "Success" <=> node_state[m] = "Success"
                  /\ node_state'[m] \in {"Pending", "Running"}
                         <=> node_state[m] \in {"Pending", "Running"}
           /\ Uncounted' = Uncounted
<1>1. CASE node_state[n] # "Pending"
  <2>1. UNCHANGED <<node_state, posted>>
    BY <1>1 DEF ScheduleNode
  <2>2. QED
    BY <2>1 DEF IInv, TypeOK, GraphInv, OwnershipInv, Uncounted, Counting
<1>2. CASE node_state[n] = "Pending"
  <2>1. /\ node_state' = [node_state EXCEPT ![n] = "Running"]
        /\ posted' = [posted EXCEPT ![n] = @ + 1]
    BY <1>2 DEF ScheduleNode
  <2>2. node_state' \in [Nodes -> NodeState]
    BY <2>1 DEF IInv, TypeOK, NodeState
  <2>3. posted[n] = 0
    BY <1>2 DEF IInv, TypeOK, OwnershipInv
  <2>4. posted' \in [Nodes -> {0, 1}]
    BY <2>1, <2>3 DEF IInv, TypeOK
  <2>11. \A m \in Nodes : node_state'[m] =
                              IF m = n THEN "Running" ELSE node_state[m]
    BY <2>1 DEF IInv, TypeOK
  <2>5. \A m \in Nodes :
            /\ node_state'[m] # node_state[m] => node_state[m] = "Pending"
            /\ node_state'[m] = "Success" <=> node_state[m] = "Success"
            /\ node_state'[m] \in {"Pending", "Running"}
                   <=> node_state[m] \in {"Pending", "Running"}
    BY <1>2, <2>11
  <2>6. \A w \in Workers : ~(Busy(w) /\ subject[w] = n)
    BY <1>2 DEF IInv, WorkerInv, Busy, TypeOK, Verdicts
  <2>7. ASSUME NEW m \in Nodes, posted'[m] = 1
        PROVE  /\ node_state'[m] = "Running"
               /\ \A w \in Workers : ~(Busy(w) /\ subject[w] = m)
    BY <2>1, <2>3, <2>6, <2>7 DEF IInv, TypeOK, OwnershipInv
  <2>8. GraphInv'
    <3>1. \A e \in Edges : From[e] \in Nodes
      BY GraphAssumption
    <3>2. node_state'[n] = "Running"
      BY <2>1 DEF IInv, TypeOK
    <3>3. \A m \in Nodes : node_state[m] \in {"Failed", "Cancelled"} =>
              node_state'[m] \in {"Failed", "Cancelled"}
      BY <2>5
    <3>4. QED
      BY <1>2, <2>5, <2>11, <3>1, <3>2, <3>3 DEF GraphInv, InEdges, IInv
  <2>9. Uncounted' = Uncounted
    BY <2>5 DEF Uncounted, Counting
  <2>10. QED
    BY <2>2, <2>4, <2>5, <2>7, <2>8, <2>9
<1>3. QED
  BY <1>1, <1>2

LEMMA ScheduleRootStep ==
    ASSUME IInv, NEW c \in Callers, NEW n \in Nodes, ScheduleRoot(c, n)
    PROVE  IInv'
<1> USE DEF ScheduleRoot, worker
<1>1. InRun
  BY DEF IInv, CallerInv, InRun, Starting, TypeOK
<1>2. InEdges(n) = {}
  BY DEF IInv, CallerInv, Roots
<1>3. /\ node_state' \in [Nodes -> NodeState] /\ posted' \in [Nodes -> {0, 1}]
      /\ GraphInv'
      /\ \A m \in Nodes : posted'[m] = 1 =>
             /\ node_state'[m] = "Running"
             /\ \A w \in Workers : ~(Busy(w) /\ subject[w] = m)
      /\ \A m \in Nodes :
             /\ node_state'[m] # node_state[m] => node_state[m] = "Pending"
             /\ node_state'[m] = "Success" <=> node_state[m] = "Success"
      /\ Uncounted' = Uncounted
  BY <1>1, <1>2, ScheduleNodeKeeps
<1>4. TypeOK'
  BY <1>3 DEF IInv, TypeOK
<1>5. CallerInv'
  BY DEF IInv, CallerInv, TypeOK, PoolIdle
<1>6. WorkerInv'
  <2>1. \A e \in Edges : From[e] \in Nodes
    BY GraphAssumption
  <2>2. QED
    BY <1>3, <2>1 DEF IInv, TypeOK, WorkerInv, Deciding, Counting, Succeeded,
                      Verdicts
<1>7. OwnershipInv'
  BY <1>3 DEF IInv, OwnershipInv, Busy, Deciding, Counting
<1>8. CounterInv'
  <2>1. \A m \in Nodes : Unreleased(m)' = Unreleased(m)
    BY <1>3, GraphAssumption DEF Unreleased, InEdges, Held, Counting
  <2>2. QED
    BY <1>1, <1>3, <2>1 DEF IInv, CounterInv
<1>9. QED
  BY <1>3, <1>4, <1>5, <1>6, <1>7, <1>8 DEF IInv

LEMMA CallerMoves ==
    ASSUME IInv, NEW c \in Callers,
           \/ RunReturns(c) \/ LatchOpens(c) \/ AllowNextRun(c)
           \/ /\ WaitForCompletion(c)
              /\ \A d \in Callers : cpc[d] = "outside"
    PROVE  IInv'
<1> USE DEF IInv, RunReturns, LatchOpens, AllowNextRun, WaitForCompletion,
            engine, worker
<1>1. TypeOK'
  BY DEF TypeOK
<1>2. CallerInv'
  BY DEF CallerInv, TypeOK, PoolIdle
<1>3. WorkerInv'
  BY DEF WorkerInv, Deciding, Counting, Succeeded
<1>4. OwnershipInv'
  BY DEF OwnershipInv, Busy, Deciding, Counting
<1>5. ASSUME InRun' PROVE GraphInv' /\ CounterInv'
  <2>1. InRun
    BY <1>5 DEF InRun, Starting, TypeOK
  <2>2. QED
    BY <2>1, SameCounters DEF Held, Counting
<1>6. QED
  BY <1>1, <1>2, <1>3, <1>4, <1>5

-----------------------------------------------------------------------------
(* The steps of a task.                                                     *)
LEMMA DequeueStep ==
    ASSUME IInv, NEW w \in Workers, NEW n \in Nodes, Dequeue(w, n)
    PROVE  IInv'
<1> USE DEF Dequeue, caller
<1>1. posted[n] = 1
  BY DEF IInv, TypeOK
<1>2. TypeOK'
  BY <1>1 DEF IInv, TypeOK
<1>3. InRun
  BY <1>1 DEF IInv, CallerInv, InRun, Starting, TypeOK, PoolIdle
<1>4. CallerInv'
  BY <1>1, <1>3 DEF IInv, CallerInv, TypeOK, PoolIdle
<1>5. WorkerInv'
  BY <1>1 DEF IInv, TypeOK, WorkerInv, OwnershipInv, Deciding, Counting,
              Succeeded
<1>6. OwnershipInv'
  BY <1>1 DEF IInv, TypeOK, OwnershipInv, WorkerInv, Busy, Deciding, Counting
<1>7. GraphInv' /\ CounterInv'
  <2>1. \A x \in Workers : Counting(x)' <=> Counting(x)
    BY DEF Counting, IInv, TypeOK
  <2>2. \A x \in Workers : Counting(x) => subject'[x] = subject[x]
    BY DEF Counting, IInv, TypeOK
  <2>3. QED
    BY <1>3, <2>1, <2>2, SameCounters DEF Held, IInv
<1>8. QED
  BY <1>2, <1>4, <1>5, <1>6, <1>7 DEF IInv

(* The steps from the creation of the instance to the decision.             *)
LEMMA DecideStep ==
    ASSUME IInv, NEW w \in Workers,
           \/ CreateNode(w) \/ CreateEscapes(w) \/ AttemptSucceeds(w)
           \/ AttemptFails(w) \/ AttemptsExhausted(w)
    PROVE  IInv'
<1> USE DEF CreateNode, CreateEscapes, AttemptSucceeds, AttemptFails,
            AttemptsExhausted, engine, caller
<1>1. pc[w] \in {"create", "execute"} /\ subject[w] \in Nodes
  BY DEF IInv, WorkerInv
<1>2. InRun /\ GraphInv /\ CounterInv
  BY <1>1, WorkInRun
<1>3. TypeOK'
  BY <1>1 DEF IInv, TypeOK, Verdicts
<1>4. CallerInv'
  BY <1>1 DEF IInv, CallerInv, TypeOK, PoolIdle
<1>5. WorkerInv'
  BY <1>1 DEF IInv, TypeOK, WorkerInv, Deciding, Counting, Succeeded
<1>6. OwnershipInv'
  BY <1>1 DEF IInv, TypeOK, OwnershipInv, WorkerInv, Busy, Deciding, Counting
<1>7. GraphInv' /\ CounterInv'
  <2>1. /\ UNCHANGED <<node_state, uncompleted_deps, completion_latch_, todo>>
        /\ \A x \in Workers : Counting(x)' <=> Counting(x)
        /\ \A x \in Workers : Counting(x) => subject'[x] = subject[x]
    BY <1>1 DEF Counting, IInv, TypeOK
  <2>2. QED
    BY <1>2, <2>1, SameCounters DEF Held
<1>8. QED
  BY <1>3, <1>4, <1>5, <1>6, <1>7 DEF IInv

LEMMA StoreVerdictStep ==
    ASSUME IInv, NEW w \in Workers, StoreVerdict(w)
    PROVE  IInv'
<1> USE DEF StoreVerdict, caller
<1>1. /\ InRun /\ GraphInv /\ CounterInv
      /\ pc[w] = "store" /\ subject[w] \in Nodes
      /\ node_state[subject[w]] = "Running"
      /\ verdict[w] \in {"Success", "Failed"} /\ todo[w] = {}
  BY WorkInRun DEF IInv, WorkerInv, TypeOK, Deciding, Verdicts
<1>2. TypeOK'
  BY <1>1 DEF IInv, TypeOK, NodeState, Verdicts
<1>3. CallerInv'
  BY <1>1 DEF IInv, CallerInv, TypeOK, PoolIdle
<1>4. \A e \in Edges : From[e] \in Nodes /\ To[e] \in Nodes
  BY GraphAssumption
<1>5. \A n \in Nodes : node_state'[n] =
          IF n = subject[w] THEN verdict[w] ELSE node_state[n]
  BY <1>1 DEF IInv, TypeOK
<1>6. \A x \in Workers : \A e \in todo[x] :
          e \in Edges /\ From[e] # subject[w]
  BY <1>1 DEF IInv, TypeOK, WorkerInv
<1>7. \A x \in Workers : x # w => (Busy(x) => subject[x] # subject[w])
  BY <1>1 DEF IInv, OwnershipInv, Busy, Deciding
<1>8. \A x \in Workers : x # w =>
          pc'[x] = pc[x] /\ (Busy(x)' <=> Busy(x))
              /\ (Deciding(x)' <=> Deciding(x))
              /\ (Counting(x)' <=> Counting(x))
  BY DEF Busy, Deciding, Counting, IInv, TypeOK
<1>9. pc'[w] = "record" /\ Counting(w)' /\ Busy(w) /\ Busy(w)' /\ ~Deciding(w)'
  BY <1>1 DEF Busy, Deciding, Counting, IInv, TypeOK
<1>10. WorkerInv'
  <2>1. ASSUME NEW x \in Workers, x # w
        PROVE  /\ pc'[x] # "idle" => subject'[x] \in Nodes
               /\ pc'[x] \in {"idle", "create", "execute", "store"} => todo'[x] = {}
               /\ pc'[x] = "store" => verdict'[x] # "Cancelled"
               /\ Deciding(x)' => node_state'[subject'[x]] = "Running"
               /\ Counting(x)' => /\ node_state'[subject'[x]] = verdict'[x]
                                  /\ Succeeded(x)' => todo'[x] = {}
               /\ \A e \in todo'[x] :
                      IF Succeeded(x)'
                      THEN node_state'[From[e]] = "Success"
                      ELSE node_state'[From[e]] \in {"Failed", "Cancelled"}
    <3>1. subject'[x] = subject[x] /\ todo'[x] = todo[x] /\ verdict'[x] = verdict[x]
      OBVIOUS
    <3>2. (Deciding(x) \/ Counting(x)) =>
              subject[x] \in Nodes /\ node_state'[subject[x]] = node_state[subject[x]]
      BY <2>1, <1>5, <1>7 DEF IInv, WorkerInv, Busy, Deciding, Counting
    <3>3. \A e \in todo[x] : node_state'[From[e]] = node_state[From[e]]
      BY <1>4, <1>5, <1>6
    <3>4. QED
      BY <2>1, <3>1, <3>2, <3>3, <1>8 DEF IInv, WorkerInv, Succeeded
  <2>2. /\ subject'[w] \in Nodes
        /\ node_state'[subject'[w]] = verdict'[w] /\ todo'[w] = {}
    BY <1>1, <1>5
  <2>3. QED
    BY <2>1, <2>2, <1>9 DEF WorkerInv
<1>11. OwnershipInv'
  <2>1. \A n \in Nodes : posted'[n] = 1 =>
            /\ node_state'[n] = "Running"
            /\ \A x \in Workers : ~(Busy(x)' /\ subject'[x] = n)
    BY <1>1, <1>5, <1>8, <1>9 DEF IInv, OwnershipInv
  <2>2. \A x, y \in Workers : Busy(x)' /\ Busy(y)' /\ subject'[x] = subject'[y]
                                  => x = y
    BY <1>8, <1>9 DEF IInv, OwnershipInv
  <2>3. \A x, y \in Workers : todo'[x] \cap todo'[y] # {} => x = y
    BY DEF IInv, OwnershipInv
  <2>4. \A x, y \in Workers : \A e \in todo'[x] :
            ~(Counting(y)' /\ subject'[y] = From[e])
    BY <1>6, <1>8 DEF IInv, OwnershipInv
  <2>5. QED
    BY <2>1, <2>2, <2>3, <2>4 DEF OwnershipInv
<1>12. GraphInv'
  BY <1>1, <1>4, <1>5 DEF GraphInv, InEdges
<1>13. CounterInv'
  <2>1. Uncounted' = Uncounted
    <3>1. \A n \in Nodes :
              (\E x \in Workers : Counting(x)' /\ subject'[x] = n)
                 <=> (\/ n = subject[w]
                      \/ \E x \in Workers : Counting(x) /\ subject[x] = n)
      BY <1>1, <1>8, <1>9 DEF Counting
    <3>2. \A n \in Nodes : n # subject[w] => node_state'[n] = node_state[n]
      BY <1>5
    <3>3. QED
      BY <1>1, <3>1, <3>2 DEF Uncounted
  <2>2. ASSUME NEW n \in Nodes PROVE Unreleased(n)' = Unreleased(n)
    <3>1. \A e \in Edges : Held(e)' <=> (Held(e) \/ From[e] = subject[w])
      BY <1>1, <1>8, <1>9 DEF Held, Counting
    <3>2. QED
      BY <1>1, <1>4, <1>5, <3>1 DEF Unreleased, InEdges
  <2>3. QED
    BY <1>1, <2>1, <2>2 DEF CounterInv
<1>14. QED
  BY <1>2, <1>3, <1>10, <1>11, <1>12, <1>13 DEF IInv

LEMMA RecordMetricStep ==
    ASSUME IInv, NEW w \in Workers, RecordMetric(w)
    PROVE  IInv'
<1> USE DEF RecordMetric, Recorded, caller
<1>1. pc[w] = "record" /\ InRun /\ GraphInv /\ CounterInv
  BY WorkInRun
<1>2. TypeOK'
  BY DEF IInv, TypeOK
<1>3. CallerInv'
  BY <1>1 DEF IInv, CallerInv, TypeOK, PoolIdle
<1>4. \A x \in Workers :
          /\ Counting(x)' <=> Counting(x)
          /\ Deciding(x)' <=> Deciding(x)
          /\ pc'[x] # "idle" <=> pc[x] # "idle"
          /\ pc'[x] \in {"idle", "create", "execute", "store"}
                 <=> pc[x] \in {"idle", "create", "execute", "store"}
          /\ pc'[x] = "store" <=> pc[x] = "store"
  BY <1>1 DEF Counting, Deciding, IInv, TypeOK
<1>5. WorkerInv'
  BY <1>4 DEF IInv, WorkerInv, Succeeded
<1>6. OwnershipInv'
  BY <1>4 DEF IInv, OwnershipInv, Busy
<1>7. GraphInv' /\ CounterInv'
  BY <1>1, <1>4, SameCounters DEF Held
<1>8. QED
  BY <1>2, <1>3, <1>5, <1>6, <1>7 DEF IInv

LEMMA CountDownStep ==
    ASSUME IInv, NEW w \in Workers, CountDown(w)
    PROVE  IInv'
<1> USE DEF CountDown, Cascade, caller
<1>1. /\ InRun /\ GraphInv /\ CounterInv
      /\ pc[w] = "count" /\ subject[w] \in Nodes
      /\ Counting(w) /\ Busy(w) /\ ~Deciding(w)
      /\ node_state[subject[w]] = verdict[w]
      /\ verdict[w] \in {"Success", "Failed", "Cancelled"}
      /\ Succeeded(w) => todo[w] = {}
  BY WorkInRun DEF IInv, WorkerInv, TypeOK, Counting, Busy, Deciding, Verdicts
<1>2. /\ pc' = [pc EXCEPT ![w] = "downstream"]
      /\ \A x \in Workers : todo'[x] =
             IF x = w THEN todo[w] \cup OutEdges(subject[w]) ELSE todo[x]
      /\ ~Counting(w)' /\ ~Busy(w)' /\ ~Deciding(w)'
      /\ pc'[w] = "downstream"
  BY DEF IInv, TypeOK, Counting, Busy, Deciding
<1>3. \A x \in Workers : x # w =>
          pc'[x] = pc[x] /\ (Busy(x)' <=> Busy(x))
              /\ (Deciding(x)' <=> Deciding(x))
              /\ (Counting(x)' <=> Counting(x))
  BY DEF Busy, Deciding, Counting, IInv, TypeOK
<1>4. \A x \in Workers : x # w => (Busy(x) => subject[x] # subject[w])
  BY <1>1 DEF IInv, OwnershipInv
<1>5. Uncounted' = Uncounted \ {subject[w]}
  <2>1. \A n \in Nodes : n # subject[w] =>
            ((\E x \in Workers : Counting(x)' /\ subject'[x] = n)
                <=> (\E x \in Workers : Counting(x) /\ subject[x] = n))
    BY <1>2, <1>3
  <2>2. ~ \E x \in Workers : Counting(x)' /\ subject'[x] = subject[w]
    BY <1>2, <1>3, <1>4 DEF Busy
  <2>3. node_state'[subject[w]] \notin {"Pending", "Running"}
    BY <1>1
  <2>4. QED
    BY <2>1, <2>2, <2>3 DEF Uncounted
<1>6. subject[w] \in Uncounted
  BY <1>1 DEF Uncounted
<1>7. /\ completion_latch_' \in 0 .. Cardinality(Nodes)
      /\ completion_latch_' = Cardinality(Uncounted')
      /\ completion_latch_ # 0
  <2>1. IsFiniteSet(Uncounted)
    BY Finiteness DEF Uncounted
  <2>2. Cardinality(Uncounted') = Cardinality(Uncounted) - 1
    BY <1>5, <1>6, <2>1, FS_RemoveElement
  <2>3. Cardinality(Uncounted) # 0 /\ Cardinality(Uncounted) \in Nat
    BY <1>6, <2>1, FS_EmptySet, FS_CardinalityType
  <2>4. QED
    BY <1>1, <2>2, <2>3, Finiteness DEF CounterInv, IInv, TypeOK
<1>8. TypeOK'
  BY <1>7 DEF IInv, TypeOK, OutEdges
<1>9. CallerInv'
  BY <1>1, <1>7 DEF IInv, CallerInv, TypeOK, PoolIdle
<1>10. WorkerInv'
  <2>1. \A e \in todo'[w] :
            IF Succeeded(w)'
            THEN node_state'[From[e]] = "Success"
            ELSE node_state'[From[e]] \in {"Failed", "Cancelled"}
    BY <1>1, <1>2 DEF OutEdges, Succeeded, IInv, WorkerInv
  <2>2. ASSUME NEW x \in Workers, x # w
        PROVE  /\ pc'[x] # "idle" => subject'[x] \in Nodes
               /\ pc'[x] \in {"idle", "create", "execute", "store"} => todo'[x] = {}
               /\ pc'[x] = "store" => verdict'[x] # "Cancelled"
               /\ Deciding(x)' => node_state'[subject'[x]] = "Running"
               /\ Counting(x)' => /\ node_state'[subject'[x]] = verdict'[x]
                                  /\ Succeeded(x)' => todo'[x] = {}
               /\ \A e \in todo'[x] :
                      IF Succeeded(x)'
                      THEN node_state'[From[e]] = "Success"
                      ELSE node_state'[From[e]] \in {"Failed", "Cancelled"}
    BY <1>2, <1>3, <2>2 DEF IInv, WorkerInv, Succeeded
  <2>3. QED
    BY <1>1, <1>2, <2>1, <2>2 DEF WorkerInv
<1>11. OwnershipInv'
  <2>1. \A n \in Nodes : posted'[n] = 1 =>
            /\ node_state'[n] = "Running"
            /\ \A x \in Workers : ~(Busy(x)' /\ subject'[x] = n)
    BY <1>2, <1>3 DEF IInv, OwnershipInv
  <2>2. \A x, y \in Workers :
            Busy(x)' /\ Busy(y)' /\ subject'[x] = subject'[y] => x = y
    BY <1>2, <1>3 DEF IInv, OwnershipInv
  <2>3. \A x \in Workers : \A e \in todo[x] : From[e] # subject[w]
    BY <1>1 DEF IInv, OwnershipInv
  <2>4. \A x, y \in Workers : todo'[x] \cap todo'[y] # {} => x = y
    BY <1>2, <2>3 DEF IInv, OwnershipInv, OutEdges
  <2>5. \A x, y \in Workers : \A e \in todo'[x] :
            ~(Counting(y)' /\ subject'[y] = From[e])
    BY <1>2, <1>3, <1>4 DEF IInv, OwnershipInv, OutEdges, Busy
  <2>6. QED
    BY <2>1, <2>2, <2>4, <2>5 DEF OwnershipInv
<1>12. GraphInv'
  BY <1>1 DEF GraphInv
<1>13. CounterInv'
  <2>1. \A e \in Edges : Held(e)' <=> Held(e)
    <3>1. ASSUME NEW e \in Edges, Held(e) PROVE Held(e)'
      <4>1. PICK x \in Workers :
                e \in todo[x] \/ (Counting(x) /\ subject[x] = From[e])
        BY <3>1 DEF Held
      <4>2. CASE e \in todo[x] \/ x = w
        <5>1. e \in todo'[x]
          <6>1. x = w => e \in todo[w] \cup OutEdges(subject[w])
            BY <4>1 DEF OutEdges
          <6>2. QED
            BY <1>2, <4>2, <6>1
        <5>2. QED
          BY <5>1 DEF Held
      <4>3. CASE e \notin todo[x] /\ x # w
        <5>1. Counting(x)' /\ subject'[x] = From[e]
          BY <1>3, <4>1, <4>3
        <5>2. QED
          BY <5>1 DEF Held, Counting
      <4>4. QED
        BY <4>2, <4>3
    <3>2. ASSUME NEW e \in Edges, Held(e)' PROVE Held(e)
      <4>1. PICK x \in Workers :
                e \in todo'[x] \/ (Counting(x)' /\ subject'[x] = From[e])
        BY <3>2 DEF Held, Counting
      <4>2. CASE x = w
        BY <1>1, <1>2, <4>1, <4>2 DEF Held, OutEdges, Counting
      <4>3. CASE x # w
        BY <1>2, <1>3, <4>1, <4>3 DEF Held, Counting
      <4>4. QED
        BY <4>2, <4>3
    <3>3. QED
      BY <3>1, <3>2
  <2>2. \A n \in Nodes : Unreleased(n)' = Unreleased(n)
    BY <2>1 DEF Unreleased, InEdges
  <2>3. QED
    BY <1>1, <1>7, <2>2 DEF CounterInv
<1>14. QED
  BY <1>8, <1>9, <1>10, <1>11, <1>12, <1>13 DEF IInv

(* What a worker has taken off its list is no longer held by anybody.       *)
LEMMA EntryLeaves ==
    ASSUME IInv, NEW w \in Workers, NEW e \in Edges, e \in todo[w],
           todo' = [todo EXCEPT ![w] = @ \ {e}],
           UNCHANGED <<pc, subject>>
    PROVE  /\ ~Held(e)'
           /\ \A f \in Edges : f # e => (Held(f)' <=> Held(f))
<1>1. \A x \in Workers : todo'[x] = IF x = w THEN todo[w] \ {e} ELSE todo[x]
  BY DEF IInv, TypeOK
<1>2. \A x \in Workers : x # w => e \notin todo[x]
  BY DEF IInv, OwnershipInv
<1>3. \A x \in Workers : ~(Counting(x) /\ subject[x] = From[e])
  BY DEF IInv, OwnershipInv
<1>4. QED
  BY <1>1, <1>2, <1>3 DEF Held, Counting

LEMMA ReleaseDownstreamStep ==
    ASSUME IInv, NEW w \in Workers, NEW e \in Edges, ReleaseDownstream(w, e)
    PROVE  IInv'
<1> USE DEF ReleaseDownstream, LastOne, caller
<1> DEFINE n == To[e]
<1>1. /\ InRun /\ GraphInv /\ CounterInv
      /\ n \in Nodes /\ e \in InEdges(n)
      /\ pc[w] = "downstream" /\ verdict[w] = "Success" /\ e \in todo[w]
      /\ node_state[From[e]] = "Success"
  BY WorkInRun, GraphAssumption DEF IInv, WorkerInv, InEdges, Succeeded
<1>2. \A x \in Workers : todo'[x] = IF x = w THEN todo[w] \ {e} ELSE todo[x]
  BY DEF IInv, TypeOK
<1>3. /\ ~Held(e)' /\ Held(e)
      /\ \A f \in Edges : f # e => (Held(f)' <=> Held(f))
  BY <1>1, EntryLeaves DEF Held
<1>4. e \in Unreleased(n)
  BY <1>1, <1>3 DEF Unreleased
<1>5. \A m \in Nodes :
          /\ IsFiniteSet(Unreleased(m))
          /\ Cardinality(Unreleased(m)) \in 0 .. Cardinality(Edges)
  <2>1. ASSUME NEW m \in Nodes PROVE Unreleased(m) \in SUBSET Edges
    BY DEF Unreleased, InEdges
  <2>2. QED
    BY <2>1, GraphAssumption, FS_Subset, FS_CardinalityType
<1>6. uncompleted_deps[n] # 0
  BY <1>1, <1>4, <1>5, FS_EmptySet DEF CounterInv
<1>7. ASSUME uncompleted_deps[n] = 1
      PROVE  \A f \in InEdges(n) : node_state[From[f]] = "Success"
  <2>1. Cardinality(Unreleased(n)) = 1
    BY <1>1, <1>7 DEF CounterInv
  <2>2. Unreleased(n) = {e}
    BY <1>1, <1>4, <1>5, <2>1, FS_Singleton
  <2>3. QED
    BY <1>1, <2>2 DEF Unreleased
<1>8. /\ node_state' \in [Nodes -> NodeState] /\ posted' \in [Nodes -> {0, 1}]
      /\ GraphInv'
      /\ \A m \in Nodes : posted'[m] = 1 =>
             /\ node_state'[m] = "Running"
             /\ \A x \in Workers : ~(Busy(x) /\ subject[x] = m)
      /\ \A m \in Nodes :
             /\ node_state'[m] # node_state[m] => node_state[m] = "Pending"
             /\ node_state'[m] = "Success" <=> node_state[m] = "Success"
      /\ Uncounted' = Uncounted
  <2>1. CASE uncompleted_deps[n] = 1
    <3>1. ScheduleNode(n)
      BY <2>1
    <3>2. QED
      BY <1>1, <1>7, <2>1, <3>1, ScheduleNodeKeeps
  <2>2. CASE uncompleted_deps[n] # 1
    <3>1. UNCHANGED <<node_state, posted>>
      BY <2>2
    <3>2. QED
      BY <1>1, <3>1 DEF IInv, TypeOK, GraphInv, OwnershipInv, Uncounted, Counting
  <2>3. QED
    BY <2>1, <2>2
<1>9. TypeOK'
  <2>1. uncompleted_deps' \in [Nodes -> 0 .. Cardinality(Edges)]
    BY <1>1, <1>6, Finiteness DEF IInv, TypeOK
  <2>2. todo' \in [Workers -> SUBSET Edges]
    BY DEF IInv, TypeOK
  <2>3. QED
    BY <1>8, <2>1, <2>2 DEF IInv, TypeOK
<1>10. CallerInv'
  BY <1>1 DEF IInv, CallerInv, TypeOK, PoolIdle
<1>11. WorkerInv'
  <2>1. \A f \in Edges : From[f] \in Nodes
    BY GraphAssumption
  <2>2. \A x \in Workers : todo'[x] \subseteq todo[x] /\ todo[x] \subseteq Edges
    BY <1>2 DEF IInv, TypeOK
  <2>3. \A x \in Workers :
            (Deciding(x)' <=> Deciding(x)) /\ (Counting(x)' <=> Counting(x))
    BY DEF Deciding, Counting
  <2>4. ASSUME NEW x \in Workers, NEW f \in todo'[x]
        PROVE  node_state'[From[f]] = node_state[From[f]]
    BY <1>8, <2>1, <2>2 DEF IInv, WorkerInv
  <2>5. ASSUME NEW x \in Workers
        PROVE  /\ Deciding(x) => node_state'[subject[x]] = "Running"
               /\ Counting(x) => node_state'[subject[x]] = verdict[x]
    BY <1>8 DEF IInv, WorkerInv, TypeOK, Verdicts, Deciding, Counting
  <2>6. UNCHANGED <<pc, subject, verdict>>
    OBVIOUS
  <2>7. QED
    BY <2>2, <2>4, <2>5, <2>6 DEF IInv, WorkerInv, Succeeded, Deciding, Counting
<1>12. OwnershipInv'
  <2>1. \A x \in Workers : todo'[x] \subseteq todo[x]
    BY <1>2
  <2>2. \A x \in Workers :
            (Busy(x)' <=> Busy(x)) /\ (Counting(x)' <=> Counting(x))
    BY DEF Busy, Deciding, Counting
  <2>3. subject' = subject
    OBVIOUS
  <2>4. \A x, y \in Workers : \A f \in todo'[x] :
            ~(Counting(y)' /\ subject'[y] = From[f])
    BY <2>1, <2>3 DEF IInv, OwnershipInv, Counting
  <2>5. \A x, y \in Workers : todo'[x] \cap todo'[y] # {} => x = y
    BY <2>1 DEF IInv, OwnershipInv
  <2>6. QED
    BY <1>8, <2>3, <2>4, <2>5 DEF IInv, OwnershipInv, Busy, Deciding, Counting
<1>13. CounterInv'
  <2>1. ASSUME NEW m \in Nodes
        PROVE  Unreleased(m)' = IF m = n THEN Unreleased(n) \ {e} ELSE Unreleased(m)
    <3>1. \A f \in Edges : node_state'[From[f]] = "Success"
                               <=> node_state[From[f]] = "Success"
      BY <1>8, GraphAssumption
    <3>2. e \in InEdges(m) => m = n
      BY DEF InEdges
    <3>3. QED
      BY <1>1, <1>3, <3>1, <3>2 DEF Unreleased, InEdges
  <2>2. Cardinality(Unreleased(n) \ {e}) = Cardinality(Unreleased(n)) - 1
    BY <1>1, <1>4, <1>5, FS_RemoveElement
  <2>3. \A m \in Nodes : uncompleted_deps'[m] =
            IF m = n THEN uncompleted_deps[n] - 1 ELSE uncompleted_deps[m]
    BY DEF IInv, TypeOK
  <2>4. QED
    BY <1>1, <1>8, <2>1, <2>2, <2>3 DEF CounterInv
<1>14. QED
  BY <1>8, <1>9, <1>10, <1>11, <1>12, <1>13 DEF IInv

LEMMA CancelDownstreamStep ==
    ASSUME IInv, NEW w \in Workers, NEW e \in Edges, CancelDownstream(w, e)
    PROVE  IInv'
<1> USE DEF CancelDownstream, Cancellable, caller
<1> DEFINE n == To[e]
<1>1. /\ InRun /\ GraphInv /\ CounterInv
      /\ n \in Nodes /\ e \in InEdges(n)
      /\ pc[w] = "downstream" /\ ~Succeeded(w) /\ e \in todo[w]
      /\ node_state[From[e]] \in {"Failed", "Cancelled"}
  BY WorkInRun, GraphAssumption DEF IInv, WorkerInv, InEdges
<1>2. \A x \in Workers : todo'[x] = IF x = w THEN todo[w] \ {e} ELSE todo[x]
  BY DEF IInv, TypeOK
<1>3. \A f \in Edges : From[f] \in Nodes
  BY GraphAssumption
<1>4. CallerInv'
  BY <1>1 DEF IInv, CallerInv, TypeOK, PoolIdle
<1>5. CASE node_state[n] # "Pending"
  <2>1. UNCHANGED <<node_state, subject, verdict, pc>>
    BY <1>5
  <2>2. TypeOK'
    BY <2>1 DEF IInv, TypeOK
  <2>3. \A x \in Workers : todo'[x] \subseteq todo[x]
    BY <1>2
  <2>4. WorkerInv'
    BY <2>1, <2>3 DEF IInv, WorkerInv, Succeeded, Deciding, Counting
  <2>5. OwnershipInv'
    BY <2>1, <2>3 DEF IInv, OwnershipInv, Busy, Deciding, Counting
  <2>6. GraphInv'
    BY <1>1, <2>1 DEF GraphInv
  <2>7. Uncounted' = Uncounted
    BY <2>1 DEF Uncounted, Counting
  <2>8. \A f \in Edges : f # e => (Held(f)' <=> Held(f))
    BY <1>1, <2>1, EntryLeaves
  <2>9. \A m \in Nodes : Unreleased(m)' = Unreleased(m)
    BY <1>1, <2>1, <2>8 DEF Unreleased, InEdges
  <2>10. QED
    BY <1>1, <1>4, <2>2, <2>4, <2>5, <2>6, <2>7, <2>9 DEF IInv, CounterInv
<1>6. CASE node_state[n] = "Pending"
  <2>1. /\ node_state' = [node_state EXCEPT ![n] = "Cancelled"]
        /\ subject' = [subject EXCEPT ![w] = n]
        /\ verdict' = [verdict EXCEPT ![w] = "Cancelled"]
        /\ pc' = [pc EXCEPT ![w] = "record"]
    BY <1>6
  <2>2. TypeOK'
    BY <1>1, <2>1 DEF IInv, TypeOK, NodeState, Verdicts
  <2>3. \A m \in Nodes :
            node_state'[m] = IF m = n THEN "Cancelled" ELSE node_state[m]
    BY <2>1 DEF IInv, TypeOK
  <2>4. /\ pc'[w] = "record" /\ subject'[w] = n /\ verdict'[w] = "Cancelled"
        /\ ~Busy(w)
        /\ \A x \in Workers : x # w =>
               /\ pc'[x] = pc[x] /\ subject'[x] = subject[x]
               /\ verdict'[x] = verdict[x] /\ todo'[x] = todo[x]
    BY <1>1, <1>2, <2>1 DEF IInv, TypeOK, Busy, Deciding, Counting
  <2>5. \A x \in Workers : Busy(x) => subject[x] # n
    BY <1>6 DEF IInv, WorkerInv, Busy, TypeOK, Verdicts
  <2>6. \A x \in Workers : \A f \in todo[x] : f \in Edges /\ From[f] # n
    BY <1>6 DEF IInv, WorkerInv, TypeOK
  <2>7. posted[n] = 0
    BY <1>1, <1>6 DEF IInv, OwnershipInv, TypeOK
  <2>8. WorkerInv'
    <3>1. ASSUME NEW x \in Workers, x # w
          PROVE  /\ pc'[x] # "idle" => subject'[x] \in Nodes
                 /\ pc'[x] \in {"idle", "create", "execute", "store"} => todo'[x] = {}
                 /\ pc'[x] = "store" => verdict'[x] # "Cancelled"
                 /\ Deciding(x)' => node_state'[subject'[x]] = "Running"
                 /\ Counting(x)' => /\ node_state'[subject'[x]] = verdict'[x]
                                    /\ Succeeded(x)' => todo'[x] = {}
                 /\ \A f \in todo'[x] :
                        IF Succeeded(x)'
                        THEN node_state'[From[f]] = "Success"
                        ELSE node_state'[From[f]] \in {"Failed", "Cancelled"}
      <4>1. Deciding(x) \/ Counting(x) =>
                subject[x] \in Nodes /\ node_state'[subject[x]] = node_state[subject[x]]
        BY <2>3, <2>5 DEF IInv, WorkerInv, Busy, Deciding, Counting
      <4>2. \A f \in todo[x] : node_state'[From[f]] = node_state[From[f]]
        BY <1>3, <2>3, <2>6
      <4>3. QED
        BY <2>4, <3>1, <4>1, <4>2
           DEF IInv, WorkerInv, Succeeded, Deciding, Counting
    <3>2. \A f \in todo'[w] : node_state'[From[f]] \in {"Failed", "Cancelled"}
      BY <1>1, <1>2, <1>3, <2>3, <2>6 DEF IInv, WorkerInv
    <3>3. /\ ~Succeeded(w)' /\ ~Deciding(w)'
          /\ node_state'[subject'[w]] = verdict'[w]
      BY <1>1, <2>3, <2>4 DEF Succeeded, Deciding
    <3>4. QED
      BY <1>1, <2>4, <3>1, <3>2, <3>3 DEF WorkerInv
  <2>9. OwnershipInv'
    <3>1. \A x \in Workers : x # w =>
              (Busy(x)' <=> Busy(x)) /\ (Counting(x)' <=> Counting(x))
      BY <2>4 DEF Busy, Deciding, Counting
    <3>2. \A m \in Nodes : posted'[m] = 1 =>
              /\ node_state'[m] = "Running"
              /\ \A x \in Workers : ~(Busy(x)' /\ subject'[x] = m)
      BY <2>3, <2>4, <2>7, <3>1 DEF IInv, OwnershipInv
    <3>3. \A x, y \in Workers :
              Busy(x)' /\ Busy(y)' /\ subject'[x] = subject'[y] => x = y
      BY <2>4, <2>5, <3>1 DEF IInv, OwnershipInv
    <3>4. \A x \in Workers : todo'[x] \subseteq todo[x]
      BY <1>2
    <3>5. \A x, y \in Workers : todo'[x] \cap todo'[y] # {} => x = y
      BY <3>4 DEF IInv, OwnershipInv
    <3>6. \A x, y \in Workers : \A f \in todo'[x] :
              ~(Counting(y)' /\ subject'[y] = From[f])
      BY <2>4, <2>6, <3>1, <3>4 DEF IInv, OwnershipInv
    <3>7. QED
      BY <3>2, <3>3, <3>5, <3>6 DEF OwnershipInv, Busy, Deciding, Counting
  <2>10. GraphInv'
    BY <1>1, <1>3, <1>6, <2>3 DEF GraphInv, InEdges
  <2>11. Uncounted' = Uncounted
    <3>1. ASSUME NEW m \in Nodes, m # n
          PROVE  (\E x \in Workers : Counting(x)' /\ subject'[x] = m)
                     <=> (\E x \in Workers : Counting(x) /\ subject[x] = m)
      BY <1>1, <2>4, <3>1 DEF Counting
    <3>2. \E x \in Workers : Counting(x)' /\ subject'[x] = n
      BY <2>4 DEF Counting
    <3>3. QED
      BY <1>6, <2>3, <3>1, <3>2 DEF Uncounted, Counting
  <2>12. \A m \in Nodes : Unreleased(m)' = Unreleased(m)
    <3>1. ASSUME NEW f \in Edges, From[f] # n, f # e
          PROVE  Held(f)' <=> Held(f)
      BY <1>1, <1>2, <2>4, <3>1 DEF Held, Counting
    <3>2. \A f \in Edges : node_state'[From[f]] = "Success"
                               <=> node_state[From[f]] = "Success"
      BY <1>3, <1>6, <2>3
    <3>3. node_state[n] # "Success" /\ node_state[From[e]] # "Success"
      BY <1>1, <1>6
    <3>4. QED
      BY <3>1, <3>2, <3>3 DEF Unreleased, InEdges
  <2>13. QED
    BY <1>1, <1>4, <2>2, <2>8, <2>9, <2>10, <2>11, <2>12 DEF IInv, CounterInv
<1>7. QED
  BY <1>5, <1>6

LEMMA TaskReturnsStep ==
    ASSUME IInv, NEW w \in Workers, TaskReturns(w)
    PROVE  IInv'
<1> USE DEF TaskReturns, engine, caller
<1>1. pc[w] = "downstream" /\ todo[w] = {} /\ InRun /\ GraphInv /\ CounterInv
  BY WorkInRun
<1>2. TypeOK'
  BY DEF IInv, TypeOK, Verdicts
<1>3. CallerInv'
  BY <1>1 DEF IInv, CallerInv, TypeOK, PoolIdle
<1>4. WorkerInv'
  BY <1>1 DEF IInv, TypeOK, WorkerInv, Deciding, Counting, Succeeded
<1>5. OwnershipInv'
  BY <1>1 DEF IInv, TypeOK, OwnershipInv, Busy, Deciding, Counting
<1>6. GraphInv' /\ CounterInv'
  <2>1. /\ \A x \in Workers : Counting(x)' <=> Counting(x)
        /\ \A x \in Workers : Counting(x) => subject'[x] = subject[x]
    BY <1>1 DEF Counting, IInv, TypeOK
  <2>2. QED
    BY <1>1, <2>1, SameCounters DEF Held
<1>7. QED
  BY <1>2, <1>3, <1>4, <1>5, <1>6 DEF IInv

-----------------------------------------------------------------------------
LEMMA NextIInv == IInv /\ [OrderlyNext]_vars => IInv'
<1> SUFFICES ASSUME IInv, [OrderlyNext]_vars PROVE IInv'
  OBVIOUS
<1>1. CASE \E c \in Callers : Orderly(c)
  BY <1>1, RunStep, CallerMoves DEF Orderly
<1>2. CASE \E c \in Callers : Continue(c)
  <2>1. PICK c \in Callers : Continue(c)
    BY <1>2
  <2>2. CASE \E n \in Nodes : ResetNode(c, n) \/ ScheduleRoot(c, n)
    BY <2>2, ResetNodeStep, ScheduleRootStep
  <2>3. CASE NewLatch(c) \/ ClearContext(c)
    BY <2>3, NewLatchStep, ClearContextStep
  <2>4. CASE RunReturns(c) \/ LatchOpens(c) \/ AllowNextRun(c)
    BY <2>4, CallerMoves
  <2>5. QED
    BY <2>1, <2>2, <2>3, <2>4 DEF Continue
<1>3. CASE \E w \in Workers : Work(w)
  BY <1>3, DequeueStep, DecideStep, StoreVerdictStep, RecordMetricStep,
     CountDownStep, ReleaseDownstreamStep, CancelDownstreamStep,
     TaskReturnsStep DEF Work
<1>4. CASE UNCHANGED vars
  <2>1. UNCHANGED <<engine, caller, worker>>
    BY <1>4 DEF vars
  <2>2. TypeOK'
    BY <2>1 DEF engine, caller, worker, IInv, TypeOK
  <2>3. CallerInv'
    BY <2>1 DEF engine, caller, worker, IInv, CallerInv, PoolIdle
  <2>4. WorkerInv'
    BY <2>1 DEF engine, worker, IInv, WorkerInv, Deciding, Counting, Succeeded
  <2>5. OwnershipInv'
    BY <2>1 DEF engine, worker, IInv, OwnershipInv, Busy, Deciding, Counting
  <2>6. InRun' => InRun
    BY <2>1 DEF engine, caller, InRun, Starting
  <2>7. InRun => GraphInv' /\ CounterInv'
    BY <2>1, SameCounters DEF IInv, engine, worker, Held, Counting
  <2>8. QED
    BY <2>2, <2>3, <2>4, <2>5, <2>6, <2>7 DEF IInv
<1>5. QED
  BY <1>1, <1>2, <1>3, <1>4 DEF OrderlyNext, Proceed

(* The inductive invariant holds of every behaviour of an orderly client.   *)
THEOREM Invariance == OrderlySpec => []IInv
BY InitIInv, NextIInv, PTL DEF OrderlySpec

(* Types, and with them the ranges: no counter and no latch goes below      *)
(* zero, no node is queued twice.                                           *)
THEOREM TypeCorrect == OrderlySpec => []TypeOK
<1>1. IInv => TypeOK
  BY DEF IInv
<1>2. QED
  BY <1>1, Invariance, PTL

(* A node that is queued or executes is Running, in a run that goes on.     *)
LEMMA ActiveRuns ==
    ASSUME IInv, NEW n \in Nodes, Active(n)
    PROVE  InRun /\ node_state[n] = "Running"
<1>1. CASE posted[n] > 0
  <2>1. ~PoolIdle /\ posted[n] = 1
    BY <1>1 DEF PoolIdle, IInv, TypeOK
  <2>2. InRun
    BY <2>1 DEF IInv, CallerInv, InRun, Starting, TypeOK
  <2>3. QED
    BY <2>1, <2>2 DEF IInv, OwnershipInv
<1>2. CASE \E w \in Workers : /\ subject[w] = n
                             /\ pc[w] \in {"create", "execute", "store"}
  BY <1>2, WorkInRun DEF IInv, WorkerInv, Deciding
<1>3. QED
  BY <1>1, <1>2 DEF Active

(* A node is queued and executed only after all it depends on succeeded.    *)
THEOREM DependencyOrderHolds == OrderlySpec => []DependencyOrder
<1>1. IInv => DependencyOrder
  <2> SUFFICES ASSUME IInv, NEW n \in Nodes, Active(n), NEW m \in Upstream(n)
               PROVE  node_state[m] = "Success"
    BY DEF DependencyOrder
  <2>1. GraphInv /\ node_state[n] = "Running"
    BY ActiveRuns DEF IInv
  <2>2. QED
    BY <2>1 DEF GraphInv, Upstream
<1>2. QED
  BY <1>1, Invariance, PTL

(* The latch is open in a run exactly when nothing is left to count.        *)
LEMMA OpenLatch ==
    ASSUME IInv, Finished
    PROVE  GraphInv /\ \A n \in Nodes : node_state[n] \in Verdicts
<1>1. GraphInv /\ Cardinality(Uncounted) = 0
  BY DEF Finished, IInv, CounterInv
<1>2. Uncounted = {}
  BY <1>1, Finiteness, FS_EmptySet DEF Uncounted
<1>3. QED
  BY <1>1, <1>2 DEF Uncounted, IInv, TypeOK, NodeState

(* waitForCompletion() does not return before every node has a verdict.     *)
THEOREM CompletionIsSound == OrderlySpec => []CompletionSound
<1>1. IInv => CompletionSound
  BY OpenLatch DEF CompletionSound
<1>2. QED
  BY <1>1, Invariance, PTL

(* Fail-fast cancels exactly what a failure has made unreachable.           *)
THEOREM OutcomeIsDetermined == OrderlySpec => []OutcomeDetermined
<1>1. IInv => OutcomeDetermined
  <2> SUFFICES ASSUME IInv, Finished, NEW n \in Nodes
               PROVE  node_state[n] = "Cancelled"
                          <=> \E m \in Upstream(n) : node_state[m] # "Success"
    BY DEF OutcomeDetermined
  <2>1. GraphInv /\ \A m \in Nodes : node_state[m] \in Verdicts
    BY OpenLatch
  <2>2. ASSUME node_state[n] = "Cancelled"
        PROVE  \E m \in Upstream(n) : node_state[m] # "Success"
    BY <2>1, <2>2 DEF GraphInv, Upstream
  <2>3. ASSUME NEW m \in Upstream(n), node_state[m] # "Success"
        PROVE  node_state[n] = "Cancelled"
    BY <2>1, <2>3 DEF GraphInv, Upstream, Verdicts
  <2>4. QED
    BY <2>2, <2>3
<1>2. QED
  BY <1>1, Invariance, PTL

(* Only the reset of the next run takes a verdict back.                     *)
THEOREM VerdictsAreFinal == OrderlySpec => VerdictIsFinal
<1> DEFINE Kept == \A n \in Nodes :
               \/ node_state[n] \notin Verdicts
               \/ node_state'[n] = node_state[n]
               \/ \E c \in Callers : cpc[c] = "reset" /\ n \in ctodo[c]
<1>1. IInv /\ [OrderlyNext]_vars => [Kept]_vars
  <2> SUFFICES ASSUME IInv, OrderlyNext PROVE Kept
    OBVIOUS
  <2>1. ASSUME NEW n \in Nodes, ScheduleNode(n) \/ UNCHANGED node_state
        PROVE  Kept
    BY <2>1 DEF ScheduleNode, Verdicts, IInv, TypeOK
  <2>2. ASSUME NEW c \in Callers, Orderly(c) \/ Continue(c) PROVE Kept
    <3>1. ASSUME NEW n \in Nodes, ResetNode(c, n) PROVE Kept
      BY <3>1 DEF ResetNode, IInv, TypeOK
    <3>2. ASSUME NEW n \in Nodes, ScheduleRoot(c, n) PROVE Kept
      BY <3>2, <2>1 DEF ScheduleRoot
    <3>3. CASE Orderly(c) \/ NewLatch(c) \/ ClearContext(c) \/ RunReturns(c)
                   \/ LatchOpens(c) \/ AllowNextRun(c)
      BY <3>3 DEF Orderly, Run, WaitForCompletion, NewLatch, ClearContext,
                  RunReturns, LatchOpens, AllowNextRun, engine
    <3>4. QED
      BY <2>2, <3>1, <3>2, <3>3 DEF Continue
  <2>3. ASSUME NEW w \in Workers, Work(w) PROVE Kept
    <3>1. CASE StoreVerdict(w)
      BY <3>1 DEF StoreVerdict, IInv, TypeOK, WorkerInv, Deciding, Verdicts
    <3>2. ASSUME NEW e \in Edges, ReleaseDownstream(w, e) PROVE Kept
      <4>1. To[e] \in Nodes
        BY GraphAssumption
      <4>2. QED
        BY <2>1, <3>2, <4>1 DEF ReleaseDownstream
    <3>3. ASSUME NEW e \in Edges, CancelDownstream(w, e) PROVE Kept
      BY <3>3 DEF CancelDownstream, Cancellable, IInv, TypeOK, Verdicts
    <3>4. ASSUME NEW n \in Nodes, Dequeue(w, n) PROVE Kept
      BY <3>4 DEF Dequeue
    <3>5. CASE \/ CreateNode(w) \/ CreateEscapes(w) \/ AttemptSucceeds(w)
               \/ AttemptFails(w) \/ AttemptsExhausted(w)
      BY <3>5 DEF CreateNode, CreateEscapes, AttemptSucceeds, AttemptFails,
                  AttemptsExhausted, engine
    <3>6. CASE RecordMetric(w) \/ CountDown(w) \/ TaskReturns(w)
      BY <3>6 DEF RecordMetric, CountDown, TaskReturns, engine
    <3>7. QED
      BY <2>3, <3>1, <3>2, <3>3, <3>4, <3>5, <3>6 DEF Work
  <2>4. QED
    BY <2>2, <2>3 DEF OrderlyNext, Proceed
<1>2. QED
  BY <1>1, Invariance, PTL DEF OrderlySpec, VerdictIsFinal

-----------------------------------------------------------------------------
(* The engine implements DagRun: each step is a step of the abstract run or *)
(* changes nothing of it.                                                   *)
LEMMA StatusInRun ==
    ASSUME InRun
    PROVE  \A n \in Nodes : status[n] = node_state[n]
BY DEF InRun, Starting, status

LEMMA SameStatus ==
    ASSUME UNCHANGED <<running_, node_state, cpc, ctodo>>
    PROVE  UNCHANGED Abstract!vars
BY DEF Abstract!vars, status

(* A node that is scheduled starts.                                         *)
LEMMA ScheduleNodeStarts ==
    ASSUME IInv, InRun, InRun', NEW n \in Nodes, running_,
           \A e \in InEdges(n) : node_state[From[e]] = "Success",
           ScheduleNode(n), UNCHANGED running_
    PROVE  Abstract!Start(n) \/ UNCHANGED Abstract!vars
<1>1. status = node_state /\ status' = node_state'
  <2>1. status = [m \in Nodes |-> node_state[m]]
    BY DEF InRun, Starting, status
  <2>2. status' = [m \in Nodes |-> node_state'[m]]
    BY DEF InRun, Starting, status
  <2>3. node_state' = [m \in Nodes |-> node_state'[m]]
    BY DEF ScheduleNode, IInv, TypeOK
  <2>4. QED
    BY <2>1, <2>2, <2>3 DEF IInv, TypeOK
<1>2. CASE node_state[n] = "Pending"
  <2>1. \A m \in Upstream(n) : status[m] = "Success"
    BY <1>1 DEF Upstream
  <2>2. status' = [status EXCEPT ![n] = "Running"]
    BY <1>1, <1>2 DEF ScheduleNode
  <2>3. QED
    BY <1>1, <1>2, <2>1, <2>2 DEF Abstract!Start
<1>3. CASE node_state[n] # "Pending"
  BY <1>1, <1>3 DEF ScheduleNode, Abstract!vars
<1>4. QED
  BY <1>2, <1>3

LEMMA CallerSimulates ==
    ASSUME IInv, IInv', NEW c \in Callers, Orderly(c) \/ Continue(c)
    PROVE  [Abstract!Next]_(Abstract!vars)
<1>1. CASE Run(c)
  <2>1. status' = [n \in Nodes |-> "Pending"]
    BY <1>1 DEF Run, status, IInv, TypeOK
  <2>2. QED
    BY <1>1, <2>1 DEF Run, FlagFree, Abstract!Begin, Abstract!Next
<1>2. CASE NewLatch(c)
  <2>1. status' = status
    BY <1>2 DEF NewLatch, status, IInv, TypeOK
  <2>2. QED
    BY <1>2, <2>1 DEF NewLatch, Abstract!vars
<1>3. ASSUME NEW n \in Nodes, ResetNode(c, n) PROVE UNCHANGED Abstract!vars
  <2>1. \A d \in Callers : cpc[d] # "outside" => d = c
    BY <1>3 DEF ResetNode, IInv, CallerInv
  <2>2. ASSUME NEW m \in Nodes
        PROVE  (IF \E d \in Callers : cpc'[d] = "latch"
                       \/ (cpc'[d] = "reset" /\ m \in ctodo'[d])
                THEN "Pending" ELSE node_state'[m])
               = (IF \E d \in Callers : cpc[d] = "latch"
                       \/ (cpc[d] = "reset" /\ m \in ctodo[d])
                  THEN "Pending" ELSE node_state[m])
    BY <1>3, <2>1 DEF ResetNode, IInv, TypeOK
  <2>3. status' = status
    BY <2>2 DEF status
  <2>4. QED
    BY <1>3, <2>3 DEF ResetNode, Abstract!vars
<1>4. CASE \/ ClearContext(c) \/ RunReturns(c) \/ LatchOpens(c)
           \/ WaitForCompletion(c)
  <2>1. status' = status
    BY <1>4 DEF ClearContext, RunReturns, LatchOpens, WaitForCompletion,
                engine, status, IInv, TypeOK
  <2>2. QED
    BY <1>4, <2>1 DEF ClearContext, RunReturns, LatchOpens, WaitForCompletion,
                      engine, Abstract!vars
<1>5. ASSUME NEW n \in Nodes, ScheduleRoot(c, n)
      PROVE  Abstract!Start(n) \/ UNCHANGED Abstract!vars
  <2>1. InRun /\ InRun'
    BY <1>5 DEF ScheduleRoot, InRun, Starting, IInv, CallerInv, TypeOK
  <2>2. running_ /\ InEdges(n) = {}
    BY <1>5 DEF ScheduleRoot, IInv, CallerInv, Roots
  <2>3. QED
    BY <1>5, <2>1, <2>2, ScheduleNodeStarts DEF ScheduleRoot
<1>6. CASE AllowNextRun(c)
  <2>1. status' = status
    BY <1>6 DEF AllowNextRun, status, IInv, TypeOK
  <2>2. CASE running_
    <3>1. Finished
      BY <1>6, <2>2 DEF AllowNextRun, Finished, InRun, Starting, IInv,
                        CallerInv, TypeOK
    <3>2. \A n \in Nodes : status[n] \in {"Success", "Failed", "Cancelled"}
      BY <3>1, OpenLatch, StatusInRun DEF Finished, Verdicts
    <3>3. Abstract!End
      BY <1>6, <2>1, <2>2, <3>2 DEF AllowNextRun, Abstract!End, Abstract!Final
    <3>4. QED
      BY <3>3 DEF Abstract!Next
  <2>3. CASE ~running_
    BY <1>6, <2>1, <2>3 DEF AllowNextRun, Abstract!vars, IInv, TypeOK
  <2>4. QED
    BY <2>2, <2>3
<1>7. QED
  BY <1>1, <1>2, <1>3, <1>4, <1>5, <1>6 DEF Orderly, Continue, Abstract!Next

LEMMA WorkerSimulates ==
    ASSUME IInv, IInv', NEW w \in Workers, Work(w)
    PROVE  [Abstract!Next]_(Abstract!vars)
<1>1. UNCHANGED <<running_, runs, cpc, ctodo>>
  BY DEF Work, Dequeue, CreateNode, CreateEscapes, AttemptSucceeds, AttemptFails,
         AttemptsExhausted, StoreVerdict, RecordMetric, CountDown,
         ReleaseDownstream, CancelDownstream, TaskReturns, engine, caller
<1>2. ASSUME UNCHANGED node_state PROVE UNCHANGED Abstract!vars
  BY <1>1, <1>2, SameStatus
<1>3. ASSUME InRun
      PROVE  status = node_state /\ status' = node_state'
  <2>1. InRun'
    BY <1>1, <1>3 DEF InRun, Starting
  <2>2. status = [m \in Nodes |-> node_state[m]]
    BY <1>3 DEF InRun, Starting, status
  <2>3. status' = [m \in Nodes |-> node_state'[m]]
    BY <2>1 DEF InRun, Starting, status
  <2>4. QED
    BY <2>2, <2>3 DEF IInv, TypeOK
<1>4. ASSUME pc[w] # "idle", NEW n \in Nodes, node_state[n] \in {"Pending", "Running"}
      PROVE  running_ /\ InRun
  <2>1. InRun /\ CounterInv
    BY <1>4, WorkInRun
  <2>2. n \in Uncounted /\ IsFiniteSet(Uncounted)
    BY <1>4, Finiteness DEF Uncounted
  <2>3. completion_latch_ # 0
    BY <2>1, <2>2, FS_EmptySet DEF CounterInv
  <2>4. QED
    BY <2>1, <2>3 DEF IInv, CallerInv, TypeOK
<1>5. CASE StoreVerdict(w)
  <2>1. /\ pc[w] # "idle" /\ subject[w] \in Nodes
        /\ node_state[subject[w]] = "Running"
        /\ verdict[w] \in {"Success", "Failed"}
    BY <1>5 DEF StoreVerdict, IInv, WorkerInv, Deciding, TypeOK, Verdicts
  <2>2. running_ /\ InRun
    BY <1>4, <2>1
  <2>3. Abstract!Finish(subject[w], verdict[w])
    BY <1>1, <1>3, <1>5, <2>1, <2>2 DEF StoreVerdict, Abstract!Finish
  <2>4. QED
    BY <2>1, <2>3 DEF Abstract!Next
<1>6. ASSUME NEW e \in Edges, ReleaseDownstream(w, e)
      PROVE  [Abstract!Next]_(Abstract!vars)
  <2>1. To[e] \in Nodes /\ pc[w] # "idle"
    BY <1>6, GraphAssumption DEF ReleaseDownstream
  <2>2. InRun /\ InRun' /\ GraphInv'
    BY <1>1, <2>1, WorkInRun DEF InRun, Starting, IInv
  <2>3. CASE node_state' = node_state
    BY <1>2, <2>3
  <2>4. CASE node_state' # node_state
    <3>1. ScheduleNode(To[e]) /\ node_state[To[e]] = "Pending"
      BY <1>6, <2>4 DEF ReleaseDownstream, ScheduleNode
    <3>2. node_state' = [node_state EXCEPT ![To[e]] = "Running"]
      BY <3>1 DEF ScheduleNode
    <3>3. node_state'[To[e]] = "Running"
      BY <2>1, <3>2 DEF IInv, TypeOK
    <3>4. \A f \in InEdges(To[e]) : node_state'[From[f]] = "Success"
      BY <2>1, <2>2, <3>3 DEF GraphInv
    <3>5. \A f \in InEdges(To[e]) : node_state[From[f]] = "Success"
      BY <2>1, <3>2, <3>4, GraphAssumption DEF InEdges, IInv, TypeOK
    <3>6. running_
      BY <1>4, <2>1, <3>1
    <3>7. Abstract!Start(To[e]) \/ UNCHANGED Abstract!vars
      BY <1>1, <2>1, <2>2, <3>1, <3>5, <3>6, ScheduleNodeStarts
    <3>8. QED
      BY <2>1, <3>7 DEF Abstract!Next
  <2>5. QED
    BY <2>3, <2>4
<1>7. ASSUME NEW e \in Edges, CancelDownstream(w, e)
      PROVE  [Abstract!Next]_(Abstract!vars)
  <2>1. /\ To[e] \in Nodes /\ From[e] \in Upstream(To[e]) /\ pc[w] # "idle"
        /\ node_state[From[e]] \in {"Failed", "Cancelled"}
    BY <1>7, GraphAssumption DEF CancelDownstream, IInv, WorkerInv, Upstream,
                                 InEdges
  <2>2. CASE node_state[To[e]] # "Pending"
    BY <1>2, <1>7, <2>2 DEF CancelDownstream, Cancellable
  <2>3. CASE node_state[To[e]] = "Pending"
    <3>1. running_ /\ InRun
      BY <1>4, <2>1, <2>3
    <3>2. node_state' = [node_state EXCEPT ![To[e]] = "Cancelled"]
      BY <1>7, <2>3 DEF CancelDownstream, Cancellable
    <3>3. Abstract!Cancel(To[e])
      BY <1>1, <1>3, <2>1, <2>3, <3>1, <3>2 DEF Abstract!Cancel
    <3>4. QED
      BY <2>1, <3>3 DEF Abstract!Next
  <2>4. QED
    BY <2>2, <2>3
<1>8. CASE \/ \E n \in Nodes : Dequeue(w, n)
           \/ CreateNode(w) \/ CreateEscapes(w) \/ AttemptSucceeds(w)
           \/ AttemptFails(w) \/ AttemptsExhausted(w) \/ RecordMetric(w)
           \/ CountDown(w) \/ TaskReturns(w)
  BY <1>2, <1>8 DEF Dequeue, CreateNode, CreateEscapes, AttemptSucceeds,
     AttemptFails, AttemptsExhausted, RecordMetric, CountDown, TaskReturns, engine
<1>9. QED
  BY <1>5, <1>6, <1>7, <1>8 DEF Work

(* Every behaviour of the engine under an orderly client is a behaviour of  *)
(* the abstract run.                                                        *)
THEOREM Refinement == OrderlySpec => ImplementsDagRun
<1>1. Init => Abstract!Init
  BY DEF Init, Abstract!Init, status
<1>2. IInv /\ IInv' /\ [OrderlyNext]_vars => [Abstract!Next]_(Abstract!vars)
  <2> SUFFICES ASSUME IInv, IInv', [OrderlyNext]_vars
               PROVE  [Abstract!Next]_(Abstract!vars)
    OBVIOUS
  <2>1. CASE UNCHANGED vars
    BY <2>1, SameStatus DEF vars, engine, caller
  <2>2. CASE OrderlyNext
    BY <2>2, CallerSimulates, WorkerSimulates DEF OrderlyNext, Proceed
  <2>3. QED
    BY <2>1, <2>2
<1>3. QED
  BY <1>1, <1>2, Invariance, PTL DEF OrderlySpec, ImplementsDagRun, Abstract!Spec

-----------------------------------------------------------------------------
(* The shared context.  From the moment that run() has cleared it, it holds *)
(* what succeeded, and nothing of a node that has not been executed.        *)
Cleared    == runs > 0 /\ \A c \in Callers : cpc[c] \notin {"latch", "reset"}
ContextInv ==
    Cleared =>
        /\ \A n \in Nodes : node_state[n] = "Success" => n \in execution_ctx_
        /\ \A n \in execution_ctx_ : node_state[n] \notin {"Pending", "Cancelled"}
        /\ \A w \in Workers :
               pc[w] = "store" /\ verdict[w] = "Success" => subject[w] \in execution_ctx_

LEMMA WorkCleared ==
    ASSUME IInv, NEW w \in Workers, pc[w] # "idle"
    PROVE  Cleared
<1>1. ~PoolIdle
  BY DEF PoolIdle
<1>2. QED
  BY <1>1 DEF IInv, CallerInv, TypeOK, Cleared

(* ScheduleNode changes one state, if any, from Pending to Running.         *)
LEMMA ScheduleNodeStates ==
    ASSUME TypeOK, NEW n \in Nodes, ScheduleNode(n)
    PROVE  \A m \in Nodes : \/ node_state'[m] = node_state[m]
                            \/ node_state[m] = "Pending" /\ node_state'[m] = "Running"
BY DEF ScheduleNode, TypeOK

LEMMA CallerKeepsContext ==
    ASSUME IInv, ContextInv, NEW c \in Callers, Orderly(c) \/ Continue(c)
    PROVE  ContextInv'
<1>1. CASE Run(c) \/ NewLatch(c) \/ \E n \in Nodes : ResetNode(c, n)
  <2>1. cpc'[c] \in {"latch", "reset"}
    BY <1>1 DEF Run, NewLatch, ResetNode, IInv, TypeOK
  <2>2. QED
    BY <2>1 DEF ContextInv, Cleared
<1>2. CASE ClearContext(c)
  <2>1. /\ \A n \in Nodes : node_state[n] = "Pending"
        /\ \A w \in Workers : pc[w] = "idle"
    BY <1>2 DEF ClearContext, IInv, CallerInv, PoolIdle
  <2>2. QED
    BY <1>2, <2>1 DEF ClearContext, ContextInv, worker
<1>3. ASSUME NEW n \in Nodes, ScheduleRoot(c, n) PROVE ContextInv'
  <2>1. Cleared' => Cleared
    BY <1>3 DEF ScheduleRoot, Cleared
  <2>2. UNCHANGED <<execution_ctx_, pc, verdict, subject>> /\ execution_ctx_ \subseteq Nodes
    BY <1>3 DEF ScheduleRoot, worker, IInv, TypeOK
  <2>3. QED
    BY <1>3, <2>1, <2>2, ScheduleNodeStates DEF ScheduleRoot, ContextInv, IInv
<1>4. CASE RunReturns(c) \/ WaitForCompletion(c) \/ LatchOpens(c) \/ AllowNextRun(c)
  <2>1. Cleared' => Cleared
    BY <1>4 DEF RunReturns, WaitForCompletion, LatchOpens, AllowNextRun, Cleared, engine,
                IInv, TypeOK
  <2>2. UNCHANGED <<execution_ctx_, node_state, pc, verdict, subject>>
    BY <1>4 DEF RunReturns, WaitForCompletion, LatchOpens, AllowNextRun, engine, worker
  <2>3. QED
    BY <2>1, <2>2 DEF ContextInv
<1>5. QED
  BY <1>1, <1>2, <1>3, <1>4 DEF Orderly, Continue

LEMMA WorkerKeepsContext ==
    ASSUME IInv, ContextInv, NEW w \in Workers, Work(w)
    PROVE  ContextInv'
<1>1. Cleared' => Cleared
  BY DEF Work, Dequeue, CreateNode, CreateEscapes, AttemptSucceeds, AttemptFails,
         AttemptsExhausted, StoreVerdict, RecordMetric, CountDown, ReleaseDownstream,
         CancelDownstream, TaskReturns, engine, caller, Cleared
<1>2. CASE AttemptSucceeds(w) \/ AttemptFails(w)
  <2>1. /\ Cleared /\ subject[w] \in Nodes /\ node_state[subject[w]] = "Running"
        /\ pc[w] = "execute"
    BY <1>2, WorkCleared DEF AttemptSucceeds, AttemptFails, IInv, WorkerInv, Deciding
  <2>2. /\ node_state' = node_state /\ subject' = subject
        /\ execution_ctx_' \in {execution_ctx_, execution_ctx_ \cup {subject[w]}}
        /\ \A x \in Workers : pc'[x] = "store" /\ verdict'[x] = "Success" =>
               (pc[x] = "store" /\ verdict[x] = "Success") \/ subject[x] \in execution_ctx_'
    BY <1>2 DEF AttemptSucceeds, AttemptFails, IInv, TypeOK
  <2>3. QED
    BY <2>1, <2>2 DEF ContextInv
<1>3. CASE StoreVerdict(w)
  <2>1. /\ Cleared /\ subject[w] \in Nodes /\ pc[w] = "store" /\ verdict[w] # "Cancelled"
        /\ verdict[w] \in Verdicts
    BY <1>3, WorkCleared DEF StoreVerdict, IInv, WorkerInv, TypeOK
  <2>2. /\ \A n \in Nodes : node_state'[n] = IF n = subject[w] THEN verdict[w] ELSE node_state[n]
        /\ UNCHANGED <<execution_ctx_, subject, verdict>> /\ execution_ctx_ \subseteq Nodes
        /\ \A x \in Workers : pc'[x] = "store" => pc[x] = "store"
    BY <1>3 DEF StoreVerdict, IInv, TypeOK
  <2>3. QED
    BY <2>1, <2>2 DEF ContextInv, Verdicts
<1>4. ASSUME NEW e \in Edges, ReleaseDownstream(w, e) PROVE ContextInv'
  <2>1. UNCHANGED <<execution_ctx_, pc, verdict, subject>> /\ execution_ctx_ \subseteq Nodes
    BY <1>4 DEF ReleaseDownstream, IInv, TypeOK
  <2>2. \A m \in Nodes : \/ node_state'[m] = node_state[m]
                         \/ node_state[m] = "Pending" /\ node_state'[m] = "Running"
    <3>1. To[e] \in Nodes
      BY GraphAssumption
    <3>2. ScheduleNode(To[e]) \/ UNCHANGED node_state
      BY <1>4 DEF ReleaseDownstream
    <3>3. QED
      BY <3>1, <3>2, ScheduleNodeStates DEF IInv
  <2>3. QED
    BY <1>1, <2>1, <2>2 DEF ContextInv
<1>5. ASSUME NEW e \in Edges, CancelDownstream(w, e) PROVE ContextInv'
  <2>1. /\ Cleared /\ execution_ctx_' = execution_ctx_ /\ execution_ctx_ \subseteq Nodes
        /\ \A x \in Workers : pc'[x] = "store" =>
               pc[x] = "store" /\ verdict'[x] = verdict[x] /\ subject'[x] = subject[x]
        /\ \A n \in Nodes : \/ node_state'[n] = node_state[n]
                            \/ node_state[n] = "Pending" /\ node_state'[n] = "Cancelled"
    BY <1>5, WorkCleared DEF CancelDownstream, Cancellable, IInv, TypeOK
  <2>2. QED
    BY <2>1 DEF ContextInv
<1>6. CASE \/ \E n \in Nodes : Dequeue(w, n)
           \/ CreateNode(w) \/ CreateEscapes(w) \/ AttemptsExhausted(w)
           \/ RecordMetric(w) \/ CountDown(w) \/ TaskReturns(w)
  <2>1. /\ UNCHANGED <<execution_ctx_, node_state>>
        /\ \A x \in Workers : pc'[x] = "store" /\ verdict'[x] = "Success" =>
               pc[x] = "store" /\ verdict[x] = "Success" /\ subject'[x] = subject[x]
    BY <1>6 DEF Dequeue, CreateNode, CreateEscapes, AttemptsExhausted, RecordMetric,
                CountDown, TaskReturns, engine, IInv, TypeOK
  <2>2. QED
    BY <1>1, <2>1 DEF ContextInv
<1>7. QED
  BY <1>2, <1>3, <1>4, <1>5, <1>6 DEF Work

(* A node executes with the results of everything it depends on and with    *)
(* nothing of an earlier run: the reset is over before a node is queued.    *)
THEOREM ContextIsOfThisRun == OrderlySpec => []ContextOfThisRun
<1>1. Init => ContextInv
  BY DEF Init, ContextInv, Cleared
<1>2. IInv /\ ContextInv /\ [OrderlyNext]_vars => ContextInv'
  <2> SUFFICES ASSUME IInv, ContextInv, [OrderlyNext]_vars PROVE ContextInv'
    OBVIOUS
  <2>1. CASE UNCHANGED vars
    BY <2>1 DEF vars, engine, caller, worker, ContextInv, Cleared
  <2>2. CASE OrderlyNext
    BY <2>2, CallerKeepsContext, WorkerKeepsContext DEF OrderlyNext, Proceed
  <2>3. QED
    BY <2>1, <2>2
<1>3. IInv /\ ContextInv => ContextOfThisRun
  <2> SUFFICES ASSUME IInv, ContextInv, NEW w \in Workers, pc[w] = "execute"
               PROVE  /\ Upstream(subject[w]) \subseteq execution_ctx_
                      /\ \A n \in execution_ctx_ : node_state[n] \notin {"Pending", "Cancelled"}
    BY DEF ContextOfThisRun
  <2>1. Cleared /\ GraphInv /\ subject[w] \in Nodes /\ node_state[subject[w]] = "Running"
    BY WorkCleared, WorkInRun DEF IInv, WorkerInv, Deciding
  <2>2. \A e \in InEdges(subject[w]) : From[e] \in Nodes /\ node_state[From[e]] = "Success"
    BY <2>1, GraphAssumption DEF GraphInv, InEdges
  <2>3. QED
    BY <2>1, <2>2 DEF ContextInv, Upstream
<1>4. QED
  BY <1>1, <1>2, <1>3, Invariance, PTL DEF OrderlySpec

-----------------------------------------------------------------------------
(* The metrics: what earlier runs have left, and the nodes of this run that *)
(* have a verdict which has been recorded.                                  *)
Recording(n) == \E w \in Workers : pc[w] = "record" /\ subject[w] = n
Counted(v)   == {n \in Nodes : node_state[n] = v /\ ~ Recording(n)}
Total   == metrics_["Success"] + metrics_["Failed"] + metrics_["Cancelled"]
Tally   == Cardinality(Counted("Success")) + Cardinality(Counted("Failed"))
               + Cardinality(Counted("Cancelled"))
Earlier == (runs - 1) * Cardinality(Nodes)

MetricsInv ==
    /\ runs = 0 => \A v \in Verdicts : metrics_[v] = 0
    /\ runs > 0 /\ Starting => /\ Total = Earlier
                               /\ runs = 1 => \A v \in Verdicts : metrics_[v] = 0
    /\ InRun => /\ Total = Earlier + Tally
                /\ runs = 1 => \A v \in Verdicts : metrics_[v] = Cardinality(Counted(v))

LEMMA CountedFinite ==
    \A v \in Verdicts : IsFiniteSet(Counted(v)) /\ Cardinality(Counted(v)) \in Nat
<1>1. \A v \in Verdicts : Counted(v) \in SUBSET Nodes
  BY DEF Counted
<1>2. QED
  BY <1>1, Finiteness, FS_CardinalityType

(* When the latch is open each node has one verdict, and it is recorded.    *)
LEMMA TallyComplete ==
    ASSUME IInv, Finished
    PROVE  /\ Tally = Cardinality(Nodes)
           /\ \A v \in Verdicts : Counted(v) = {n \in Nodes : node_state[n] = v}
<1>1. Uncounted = {}
  BY Finiteness, FS_EmptySet DEF Finished, IInv, CounterInv, Uncounted
<1>2. \A n \in Nodes : node_state[n] \in Verdicts /\ ~ Recording(n)
  BY <1>1 DEF Uncounted, Counting, Recording, IInv, TypeOK, NodeState
<1>3. \A v \in Verdicts : Counted(v) = {n \in Nodes : node_state[n] = v}
  BY <1>2 DEF Counted
<1>4. Tally = Cardinality(Nodes)
  <2> DEFINE S == Counted("Success")
             F == Counted("Failed")
             C == Counted("Cancelled")
  <2>1. /\ S \cap F = {} /\ (S \cup F) \cap C = {} /\ (S \cup F) \cup C = Nodes
    BY <1>2 DEF Counted, Verdicts
  <2>2. IsFiniteSet(S) /\ IsFiniteSet(F) /\ IsFiniteSet(C)
    BY CountedFinite DEF Verdicts
  <2>3. Tally = Cardinality(S) + Cardinality(F) + Cardinality(C)
    BY DEF Tally
  <2> HIDE DEF S, F, C
  <2>4. /\ IsFiniteSet(S \cup F)
        /\ Cardinality(S \cup F) = Cardinality(S) + Cardinality(F) - Cardinality(S \cap F)
    BY <2>2, FS_Union
  <2>5. Cardinality((S \cup F) \cup C)
            = Cardinality(S \cup F) + Cardinality(C) - Cardinality((S \cup F) \cap C)
    BY <2>2, <2>4, FS_Union
  <2>6. /\ Cardinality(S) \in Nat /\ Cardinality(F) \in Nat /\ Cardinality(C) \in Nat
        /\ Cardinality({}) = 0
    BY <2>2, FS_CardinalityType, FS_EmptySet
  <2>7. Cardinality(S \cap F) = 0 /\ Cardinality((S \cup F) \cap C) = 0
    BY <2>1, <2>6
  <2>8. Cardinality(Nodes) = Cardinality(S \cup F) + Cardinality(C)
                                - Cardinality((S \cup F) \cap C)
    BY <2>1, <2>5
  <2>9. QED
    BY <2>3, <2>4, <2>6, <2>7, <2>8
<1>5. QED
  BY <1>3, <1>4

LEMMA SameMetrics ==
    ASSUME MetricsInv, UNCHANGED <<runs, metrics_>>, Starting' <=> Starting,
           \A v \in Verdicts : Counted(v)' = Counted(v)
    PROVE  MetricsInv'
<1>1. Tally' = Tally
  BY DEF Tally, Verdicts
<1>2. QED
  BY <1>1 DEF MetricsInv, Total, Earlier, InRun

LEMMA CallerKeepsMetrics ==
    ASSUME IInv, IInv', MetricsInv, NEW c \in Callers, Orderly(c) \/ Continue(c)
    PROVE  MetricsInv'
<1> USE DEF IInv
<1>1. CASE Run(c) /\ PoolIdle /\ \A d \in Callers : cpc[d] = "outside"
  <2>1. runs \in Nat /\ runs' = runs + 1 /\ metrics_' = metrics_ /\ Starting' /\ ~ InRun'
    BY <1>1 DEF Run, TypeOK, Starting, InRun
  <2>2. CASE runs = 0
    <3>1. \A v \in Verdicts : metrics_[v] = 0
      BY <2>2 DEF MetricsInv
    <3>2. Earlier' = 0 /\ Total' = 0
      BY <2>1, <2>2, <3>1, Finiteness DEF Earlier, Total, Verdicts
    <3>3. QED
      BY <2>1, <2>2, <3>1, <3>2 DEF MetricsInv
  <2>3. CASE runs # 0
    <3>1. Finished
      BY <1>1, <2>1, <2>3 DEF Run, FlagFree, CallerInv, Finished, InRun, Starting
    <3>2. Total = Earlier + Cardinality(Nodes)
      BY <3>1, TallyComplete DEF MetricsInv, Finished
    <3>3. Earlier' = Earlier + Cardinality(Nodes)
      <4>1. Cardinality(Nodes)' = Cardinality(Nodes)
        OBVIOUS
      <4>2. \A r, n \in Nat : ((r + 1) - 1) * n = (r - 1) * n + n
        OBVIOUS
      <4>3. QED
        BY <2>1, <4>1, <4>2, Finiteness DEF Earlier
    <3>4. Total' = Total
      BY <2>1 DEF Total
    <3>5. QED
      BY <2>1, <2>3, <3>2, <3>3, <3>4 DEF MetricsInv
  <2>4. QED
    BY <2>2, <2>3
<1>2. CASE NewLatch(c)
  <2>1. Starting' /\ Starting /\ ~ InRun'
    BY <1>2, GraphAssumption DEF NewLatch, Starting, InRun, TypeOK
  <2>2. UNCHANGED <<runs, metrics_>>
    BY <1>2 DEF NewLatch
  <2>3. QED
    BY <2>1, <2>2 DEF MetricsInv, Total, Earlier
<1>3. ASSUME NEW n \in Nodes, ResetNode(c, n) PROVE MetricsInv'
  <2>1. Starting /\ runs > 0 /\ UNCHANGED <<runs, metrics_>>
    BY <1>3 DEF ResetNode, Starting, CallerInv
  <2>2. ASSUME InRun'
        PROVE  \A v \in Verdicts : Counted(v)' = {}
    <3>1. ctodo'[c] = {} /\ cpc'[c] = "reset"
      BY <1>3, <2>2 DEF ResetNode, InRun, Starting, TypeOK
    <3>2. \A m \in Nodes : node_state'[m] = "Pending"
      BY <3>1 DEF CallerInv
    <3>3. QED
      BY <3>2 DEF Counted, Verdicts
  <2>3. ASSUME InRun' PROVE Tally' = 0 /\ \A v \in Verdicts : Cardinality(Counted(v)') = 0
    BY <2>2, <2>3, FS_EmptySet DEF Tally, Verdicts
  <2>4. Earlier' = Earlier /\ Total' = Total /\ Earlier \in Int
    BY <2>1, Finiteness DEF Earlier, Total, TypeOK
  <2>5. /\ runs' = runs /\ runs \in Nat /\ runs # 0
        /\ Total = Earlier
        /\ runs = 1 => \A v \in Verdicts : metrics_[v] = 0
    BY <2>1 DEF MetricsInv, TypeOK
  <2>6. /\ Total' = Earlier'
        /\ runs' = 1 => \A v \in Verdicts : metrics_'[v] = 0
    BY <2>1, <2>4, <2>5
  <2>7. ASSUME InRun'
        PROVE  /\ Total' = Earlier' + Tally'
               /\ runs' = 1 => \A v \in Verdicts : metrics_'[v] = Cardinality(Counted(v)')
    <3>1. Total' = Earlier' + Tally'
      <4>1. Tally' = 0 /\ Total' = Earlier' /\ Earlier' \in Int
        BY <2>3, <2>4, <2>6, <2>7
      <4>2. \A e \in Int : e = e + 0
        OBVIOUS
      <4>3. Earlier' = Earlier' + 0
        BY <4>1, <4>2
      <4>4. QED
        BY <4>1, <4>3
    <3>2. QED
      BY <3>1, <2>3, <2>6, <2>7
  <2>8. QED
    BY <2>5, <2>6, <2>7 DEF MetricsInv
<1>4. CASE ClearContext(c) \/ RunReturns(c) \/ WaitForCompletion(c) \/ LatchOpens(c)
           \/ AllowNextRun(c)
  <2>1. UNCHANGED <<runs, metrics_, node_state, pc, subject>>
    BY <1>4 DEF ClearContext, RunReturns, WaitForCompletion, LatchOpens, AllowNextRun,
                engine, worker
  <2>2. Starting' <=> Starting
    BY <1>4 DEF ClearContext, RunReturns, WaitForCompletion, LatchOpens, AllowNextRun,
                engine, Starting, TypeOK
  <2>3. QED
    BY <2>1, <2>2, SameMetrics DEF Counted, Recording
<1>5. ASSUME NEW n \in Nodes, ScheduleRoot(c, n) PROVE MetricsInv'
  <2>1. UNCHANGED <<runs, metrics_, pc, subject, cpc>>
    BY <1>5 DEF ScheduleRoot, worker
  <2>2. Starting' <=> Starting
    BY <1>5 DEF ScheduleRoot, Starting, TypeOK
  <2>3. \A m \in Nodes : \/ node_state'[m] = node_state[m]
                         \/ node_state[m] = "Pending" /\ node_state'[m] = "Running"
    BY <1>5, ScheduleNodeStates DEF ScheduleRoot
  <2>4. \A v \in Verdicts : Counted(v)' = Counted(v)
    BY <2>1, <2>3 DEF Counted, Recording, Verdicts
  <2>5. QED
    BY <2>1, <2>2, <2>4, SameMetrics
<1>6. QED
  BY <1>1, <1>2, <1>3, <1>4, <1>5 DEF Orderly, Continue

LEMMA WorkerKeepsMetrics ==
    ASSUME IInv, IInv', MetricsInv, NEW w \in Workers, Work(w)
    PROVE  MetricsInv'
<1> USE DEF IInv
<1>1. UNCHANGED <<runs, cpc, ctodo>> /\ (Starting' <=> Starting)
  BY DEF Work, Dequeue, CreateNode, CreateEscapes, AttemptSucceeds, AttemptFails,
         AttemptsExhausted, StoreVerdict, RecordMetric, CountDown, ReleaseDownstream,
         CancelDownstream, TaskReturns, engine, caller, Starting
<1>2. CASE RecordMetric(w)
  <2>0. PICK v \in Verdicts, n \in Nodes : v = verdict[w] /\ n = subject[w]
    BY <1>2 DEF RecordMetric, WorkerInv, TypeOK
  <2>1. /\ pc[w] = "record" /\ pc[w] # "idle" /\ Counting(w) /\ Busy(w)
        /\ n \in Nodes /\ v \in Verdicts /\ node_state[n] = v
    BY <1>2, <2>0 DEF RecordMetric, WorkerInv, TypeOK, Counting, Busy
  <2>2. InRun
    BY <2>1, WorkInRun
  <2>3. /\ UNCHANGED <<node_state, subject>>
        /\ \A x \in Workers : pc'[x] = "record" <=> pc[x] = "record" /\ x # w
        /\ \A u \in Verdicts : metrics_'[u] = IF u = v THEN metrics_[u] + 1 ELSE metrics_[u]
    BY <1>2, <2>0 DEF RecordMetric, Recorded, TypeOK
  <2>4. \A x \in Workers : pc[x] = "record" /\ subject[x] = n => x = w
    BY <2>0, <2>1 DEF OwnershipInv, Busy, Counting
  <2>5. \A m \in Nodes : Recording(m)' <=> Recording(m) /\ m # n
    BY <2>0, <2>1, <2>3, <2>4 DEF Recording
  <2>6. Recording(n)
    BY <2>0, <2>1 DEF Recording
  <2>7. Counted(v)' = Counted(v) \cup {n} /\ n \notin Counted(v)
    BY <2>1, <2>3, <2>5, <2>6 DEF Counted
  <2>8. \A u \in Verdicts : u # v => Counted(u)' = Counted(u)
    BY <2>1, <2>3, <2>5 DEF Counted
  <2>9. \A u \in Verdicts : /\ metrics_[u] \in Nat /\ Cardinality(Counted(u)) \in Nat
                            /\ IsFiniteSet(Counted(u))
    BY CountedFinite DEF TypeOK
  <2>10. Cardinality(Counted(v)') = Cardinality(Counted(v)) + 1
    BY <2>1, <2>7, <2>9, FS_AddElement
  <2>11. \A u \in Verdicts : Cardinality(Counted(u))'
                = IF u = v THEN Cardinality(Counted(u)) + 1 ELSE Cardinality(Counted(u))
    BY <2>8, <2>10
  <2>12. Total' = Total + 1 /\ Tally' = Tally + 1
    BY <2>1, <2>3, <2>9, <2>11 DEF Total, Tally, Verdicts
  <2>13. Earlier' = Earlier /\ Earlier \in Int /\ Tally \in Int
    BY <1>1, <2>9, Finiteness DEF Earlier, Tally, TypeOK, Verdicts
  <2>14. \A u \in Verdicts : runs = 1 => metrics_'[u] = Cardinality(Counted(u))'
    BY <2>2, <2>3, <2>11 DEF MetricsInv
  <2>15. ~ Starting /\ runs > 0
    BY <2>2 DEF InRun
  <2>16. QED
    BY <1>1, <2>2, <2>12, <2>13, <2>14, <2>15 DEF MetricsInv, InRun
<1>3. CASE StoreVerdict(w)
  <2>1. /\ pc[w] = "store" /\ subject[w] \in Nodes /\ node_state[subject[w]] = "Running"
    BY <1>3 DEF StoreVerdict, WorkerInv, Deciding
  <2>2. /\ \A m \in Nodes : m # subject[w] => node_state'[m] = node_state[m]
        /\ UNCHANGED <<subject, metrics_>> /\ pc'[w] = "record"
        /\ \A x \in Workers : x # w => pc'[x] = pc[x]
    BY <1>3 DEF StoreVerdict, TypeOK
  <2>3. \A m \in Nodes : m # subject[w] => (Recording(m)' <=> Recording(m))
    BY <2>1, <2>2 DEF Recording
  <2>4. Recording(subject[w])'
    BY <2>2 DEF Recording
  <2>5. \A u \in Verdicts : Counted(u)' = Counted(u)
    BY <2>1, <2>2, <2>3, <2>4 DEF Counted, Verdicts
  <2>6. QED
    BY <1>1, <2>2, <2>5, SameMetrics
<1>4. ASSUME NEW e \in Edges, CancelDownstream(w, e) PROVE MetricsInv'
  <2>1. pc[w] = "downstream" /\ metrics_' = metrics_ /\ To[e] \in Nodes
    BY <1>4, GraphAssumption DEF CancelDownstream
  <2>2. CASE Cancellable(To[e])
    <3>1. /\ node_state[To[e]] = "Pending"
          /\ \A m \in Nodes : m # To[e] => node_state'[m] = node_state[m]
          /\ pc'[w] = "record" /\ subject'[w] = To[e]
          /\ \A x \in Workers : x # w => pc'[x] = pc[x] /\ subject'[x] = subject[x]
      BY <1>4, <2>2 DEF CancelDownstream, Cancellable, TypeOK
    <3>2. \A m \in Nodes : m # To[e] => (Recording(m)' <=> Recording(m))
      BY <2>1, <3>1 DEF Recording
    <3>3. Recording(To[e])'
      BY <3>1 DEF Recording
    <3>4. \A u \in Verdicts : Counted(u)' = Counted(u)
      BY <3>1, <3>2, <3>3 DEF Counted, Verdicts
    <3>5. QED
      BY <1>1, <2>1, <3>4, SameMetrics
  <2>3. CASE ~ Cancellable(To[e])
    <3>1. UNCHANGED <<node_state, subject, pc>>
      BY <1>4, <2>3 DEF CancelDownstream
    <3>2. QED
      BY <1>1, <2>1, <3>1, SameMetrics DEF Counted, Recording
  <2>4. QED
    BY <2>2, <2>3
<1>5. ASSUME NEW e \in Edges, ReleaseDownstream(w, e) PROVE MetricsInv'
  <2>1. UNCHANGED <<metrics_, pc, subject>> /\ To[e] \in Nodes
    BY <1>5, GraphAssumption DEF ReleaseDownstream
  <2>2. ScheduleNode(To[e]) \/ UNCHANGED node_state
    BY <1>5 DEF ReleaseDownstream
  <2>3. \A m \in Nodes : \/ node_state'[m] = node_state[m]
                         \/ node_state[m] = "Pending" /\ node_state'[m] = "Running"
    BY <2>1, <2>2, ScheduleNodeStates
  <2>4. \A u \in Verdicts : Counted(u)' = Counted(u)
    BY <2>1, <2>3 DEF Counted, Recording, Verdicts
  <2>5. QED
    BY <1>1, <2>1, <2>4, SameMetrics
<1>6. CASE \/ \E n \in Nodes : Dequeue(w, n)
           \/ CreateNode(w) \/ CreateEscapes(w) \/ AttemptSucceeds(w) \/ AttemptFails(w)
           \/ AttemptsExhausted(w) \/ CountDown(w) \/ TaskReturns(w)
  <2>1. /\ UNCHANGED <<metrics_, node_state>> /\ pc[w] # "record" /\ pc'[w] # "record"
        /\ \A x \in Workers : x # w => pc'[x] = pc[x] /\ subject'[x] = subject[x]
    BY <1>6 DEF Dequeue, CreateNode, CreateEscapes, AttemptSucceeds, AttemptFails,
                AttemptsExhausted, CountDown, TaskReturns, engine, TypeOK
  <2>2. \A m \in Nodes : Recording(m)' <=> Recording(m)
    BY <2>1 DEF Recording
  <2>3. QED
    BY <1>1, <2>1, <2>2, SameMetrics DEF Counted
<1>7. QED
  BY <1>2, <1>3, <1>4, <1>5, <1>6 DEF Work

(* When the latch opens the metrics account for every node of every run.    *)
THEOREM MetricsAreExact == OrderlySpec => []MetricsExact
<1>1. Init => MetricsInv
  BY DEF Init, MetricsInv, Starting, InRun
<1>2. IInv /\ IInv' /\ MetricsInv /\ [OrderlyNext]_vars => MetricsInv'
  <2> SUFFICES ASSUME IInv, IInv', MetricsInv, [OrderlyNext]_vars PROVE MetricsInv'
    OBVIOUS
  <2>1. CASE UNCHANGED vars
    BY <2>1, SameMetrics DEF vars, engine, caller, worker, Starting, Counted, Recording
  <2>2. CASE OrderlyNext
    BY <2>2, CallerKeepsMetrics, WorkerKeepsMetrics DEF OrderlyNext, Proceed
  <2>3. QED
    BY <2>1, <2>2
<1>3. IInv /\ MetricsInv => MetricsExact
  <2> SUFFICES ASSUME IInv, MetricsInv, Finished
               PROVE  /\ Total = runs * Cardinality(Nodes)
                      /\ runs = 1 => \A v \in Verdicts :
                             metrics_[v] = Cardinality({n \in Nodes : node_state[n] = v})
    BY DEF MetricsExact, Total
  <2>1. /\ Tally = Cardinality(Nodes)
        /\ \A v \in Verdicts : Counted(v) = {n \in Nodes : node_state[n] = v}
    BY TallyComplete
  <2>2. \A r, n \in Nat : (r - 1) * n + n = r * n
    OBVIOUS
  <2>3. Earlier + Cardinality(Nodes) = runs * Cardinality(Nodes)
    BY <2>2, Finiteness DEF Earlier, IInv, TypeOK
  <2>4. QED
    BY <2>1, <2>3 DEF MetricsInv, Finished
<1>4. QED
  BY <1>1, <1>2, <1>3, Invariance, PTL DEF OrderlySpec

-----------------------------------------------------------------------------
(* No run is stuck: what RunDrains says of the end of a run, as an          *)
(* invariant.  While run() resets the nodes and schedules the roots it goes *)
(* on by itself; after that a node that has no verdict is either at work,   *)
(* or waits for one that is, unless its factory has thrown.                 *)
Acyclic == \A S \in SUBSET Nodes : S # {} => \E n \in S : Upstream(n) \cap S = {}
Called  == \E c \in Callers : cpc[c] \in {"latch", "reset", "roots"}

NeverStuck == Acyclic /\ runs > 0 /\ PoolIdle /\ ~Called => Finished \/ Lost

(* A running node is in somebody's hands, and a pending one waits for a     *)
(* counter, for run() or for a worker that is about to cancel it.           *)
ToSchedule(n) == \E c \in Callers : \/ cpc[c] = "reset"
                                    \/ cpc[c] = "roots" /\ n \in ctodo[c]
HandsInv ==
    \A n \in Nodes :
        node_state[n] = "Running" => Active(n) \/ n \in ForeignThrow
WaitingInv ==
    \A n \in Nodes : node_state[n] = "Pending" =>
        /\ uncompleted_deps[n] = 0 => ToSchedule(n)
        /\ \A e \in InEdges(n) : node_state[From[e]] \in {"Failed", "Cancelled"} => Held(e)
StuckInv == InRun => HandsInv /\ WaitingInv

(* With the pool idle and the roots scheduled nobody holds anything: a      *)
(* pending node without a pending dependency would have been scheduled or   *)
(* cancelled.                                                               *)
LEMMA SomeoneHasWork == IInv /\ StuckInv => NeverStuck
<1> SUFFICES ASSUME IInv, StuckInv, Acyclic, runs > 0, PoolIdle, ~Called, ~Lost
             PROVE  Finished
  BY DEF NeverStuck
<1>1. InRun /\ GraphInv /\ CounterInv /\ HandsInv /\ WaitingInv
  BY DEF Called, InRun, Starting, IInv, StuckInv
<1>2. \A n \in Nodes : node_state[n] # "Running"
  BY <1>1 DEF HandsInv, Active, PoolIdle, Lost
<1>3. \A e \in Edges : ~Held(e)
  BY DEF PoolIdle, Held, Counting, IInv, WorkerInv
<1>4. \A n \in Nodes : ~ToSchedule(n)
  BY DEF Called, ToSchedule
<1> DEFINE P == {n \in Nodes : node_state[n] = "Pending"}
<1>5. P = {}
  <2>1. SUFFICES ASSUME P # {} PROVE FALSE
    OBVIOUS
  <2>2. PICK n \in P : Upstream(n) \cap P = {}
    BY <2>1 DEF Acyclic
  <2>3. \A e \in InEdges(n) : From[e] \in Nodes /\ node_state[From[e]] \in Verdicts
    BY <1>2, <2>2, GraphAssumption DEF Upstream, InEdges, IInv, TypeOK, NodeState
  <2>4. \A e \in InEdges(n) : node_state[From[e]] = "Success"
    BY <1>1, <1>3, <2>2, <2>3 DEF WaitingInv, Verdicts, InEdges
  <2>5. Unreleased(n) = {}
    BY <1>3, <2>4 DEF Unreleased, InEdges
  <2>6. uncompleted_deps[n] = 0
    BY <1>1, <2>2, <2>5, FS_EmptySet DEF CounterInv
  <2>7. QED
    BY <1>1, <1>4, <2>2, <2>6 DEF WaitingInv
<1>6. Uncounted = {}
  BY <1>2, <1>5 DEF Uncounted, Counting, PoolIdle
<1>7. QED
  BY <1>1, <1>6, FS_EmptySet DEF CounterInv, Finished

(* Scheduling a node puts it into the pool's queue.                         *)
LEMMA ScheduleNodeQueues ==
    ASSUME TypeOK, NEW n \in Nodes, ScheduleNode(n)
    PROVE  /\ \A m \in Nodes : \/ node_state'[m] = node_state[m]
                               \/ node_state[m] = "Pending" /\ node_state'[m] = "Running"
                                                            /\ posted'[m] > 0
           /\ \A m \in Nodes : posted[m] > 0 => posted'[m] > 0
           /\ node_state'[n] # "Pending"
BY DEF ScheduleNode, TypeOK, NodeState, Verdicts

LEMMA CallerLeavesNoneBehind ==
    ASSUME IInv, StuckInv, NEW c \in Callers, Orderly(c) \/ Continue(c)
    PROVE  StuckInv'
<1>1. CASE Run(c) \/ NewLatch(c)
  <2>1. ~InRun'
    BY <1>1, GraphAssumption DEF Run, NewLatch, IInv, TypeOK, InRun, Starting
  <2>2. QED
    BY <2>1 DEF StuckInv
<1>2. ASSUME NEW n \in Nodes, ResetNode(c, n) PROVE StuckInv'
  <2>1. SUFFICES ASSUME InRun' PROVE HandsInv' /\ WaitingInv'
    BY DEF StuckInv
  <2>2. cpc'[c] = "reset" /\ ctodo'[c] = {}
    BY <1>2, <2>1 DEF ResetNode, InRun, Starting, IInv, TypeOK
  <2>3. \A m \in Nodes : node_state'[m] = "Pending"
    BY <1>2, <2>2 DEF ResetNode, IInv, TypeOK, CallerInv
  <2>4. QED
    BY <2>2, <2>3, GraphAssumption DEF HandsInv, WaitingInv, ToSchedule, InEdges
<1>3. CASE ClearContext(c)
  <2>1. \A n \in Nodes : node_state[n] = "Pending" /\ uncompleted_deps[n] = DepCount(n)
    BY <1>3 DEF ClearContext, IInv, CallerInv
  <2>2. cpc'[c] = "roots" /\ ctodo'[c] = Roots
    BY <1>3 DEF ClearContext, IInv, TypeOK
  <2>3. \A n \in Nodes : DepCount(n) = 0 => n \in Roots
    BY Finiteness, FS_EmptySet DEF DepCount, Roots
  <2>4. UNCHANGED <<node_state, uncompleted_deps>>
    BY <1>3 DEF ClearContext
  <2>5. QED
    BY <2>1, <2>2, <2>3, <2>4, GraphAssumption
    DEF StuckInv, HandsInv, WaitingInv, ToSchedule, InEdges
<1>4. ASSUME NEW n \in Nodes, ScheduleRoot(c, n) PROVE StuckInv'
  <2>1. InRun' => InRun
    BY <1>4 DEF ScheduleRoot, InRun, Starting, IInv, TypeOK
  <2>2. /\ UNCHANGED <<pc, subject, todo, uncompleted_deps, cpc>> /\ n \in ctodo[c]
        /\ cpc[c] = "roots" /\ ScheduleNode(n)
        /\ \A d \in Callers : \A m \in Nodes : m # n /\ m \in ctodo[d] => m \in ctodo'[d]
    BY <1>4 DEF ScheduleRoot, worker, IInv, TypeOK
  <2>3. HandsInv => HandsInv'
    BY <2>2, ScheduleNodeQueues DEF HandsInv, Active, IInv
  <2>4. \A m \in Nodes : node_state'[m] = "Pending" => node_state[m] = "Pending" /\ m # n
    BY <2>2, ScheduleNodeQueues DEF IInv
  <2>5. \A m \in Nodes : m # n /\ ToSchedule(m) => ToSchedule(m)'
    BY <2>2 DEF ToSchedule
  <2>6. \A m \in Nodes : node_state'[m] \in {"Failed", "Cancelled"}
                             => node_state[m] \in {"Failed", "Cancelled"}
    BY <2>2, ScheduleNodeQueues DEF IInv
  <2>7. \A e \in Edges : Held(e) => Held(e)'
    BY <2>2 DEF Held, Counting
  <2>8. WaitingInv => WaitingInv'
    BY <2>2, <2>4, <2>5, <2>6, <2>7, GraphAssumption DEF WaitingInv, InEdges
  <2>9. QED
    BY <2>1, <2>3, <2>8 DEF StuckInv
<1>5. CASE RunReturns(c) \/ WaitForCompletion(c) \/ LatchOpens(c) \/ AllowNextRun(c)
  <2>1. InRun' => InRun
    BY <1>5 DEF RunReturns, WaitForCompletion, LatchOpens, AllowNextRun, engine, InRun, Starting,
                IInv, TypeOK
  <2>2. /\ UNCHANGED <<node_state, posted, pc, subject, todo, uncompleted_deps, ctodo>>
        /\ cpc[c] = "reset" => cpc'[c] = "reset"
        /\ cpc[c] = "roots" => ctodo[c] = {} \/ cpc'[c] = "roots"
        /\ \A d \in Callers : d # c => cpc'[d] = cpc[d]
    BY <1>5 DEF RunReturns, WaitForCompletion, LatchOpens, AllowNextRun, engine, worker, IInv, TypeOK
  <2>3. \A n \in Nodes : ToSchedule(n) => ToSchedule(n)'
    BY <2>2 DEF ToSchedule
  <2>4. HandsInv => HandsInv'
    BY <2>2 DEF HandsInv, Active
  <2>5. WaitingInv => WaitingInv'
    BY <2>2, <2>3 DEF WaitingInv, Held, Counting, InEdges
  <2>6. QED
    BY <2>1, <2>4, <2>5 DEF StuckInv
<1>6. QED
  BY <1>1, <1>2, <1>3, <1>4, <1>5 DEF Orderly, Continue

LEMMA WorkerLeavesNoneBehind ==
    ASSUME IInv, StuckInv, NEW w \in Workers, Work(w)
    PROVE  StuckInv'
<1>0. \A n \in Nodes : ToSchedule(n)' <=> ToSchedule(n)
  BY DEF Work, Dequeue, CreateNode, CreateEscapes, AttemptSucceeds, AttemptFails,
         AttemptsExhausted, StoreVerdict, RecordMetric, CountDown, ReleaseDownstream,
         CancelDownstream, TaskReturns, engine, caller, ToSchedule
<1>1. InRun' => InRun
  BY DEF Work, Dequeue, CreateNode, CreateEscapes, AttemptSucceeds, AttemptFails,
         AttemptsExhausted, StoreVerdict, RecordMetric, CountDown, ReleaseDownstream,
         CancelDownstream, TaskReturns, engine, caller, InRun, Starting
<1>2. SUFFICES ASSUME InRun, HandsInv, WaitingInv PROVE HandsInv' /\ WaitingInv'
  BY <1>1 DEF StuckInv
<1> DEFINE Bad(n) == node_state[n] \in {"Failed", "Cancelled"}
<1>3. CASE \E n \in Nodes : Dequeue(w, n)
  <2>1. PICK n \in Nodes : Dequeue(w, n)
    BY <1>3
  <2>2. /\ pc[w] = "idle" /\ pc'[w] = "create" /\ subject'[w] = n
        /\ \A x \in Workers : x # w => pc'[x] = pc[x] /\ subject'[x] = subject[x]
        /\ \A m \in Nodes : m # n => posted'[m] = posted[m]
        /\ UNCHANGED <<node_state, uncompleted_deps, todo>>
    BY <2>1 DEF Dequeue, IInv, TypeOK
  <2>3. HandsInv'
    BY <1>2, <2>2 DEF HandsInv, Active
  <2>4. \A e \in Edges : Held(e) => Held(e)'
    BY <2>2 DEF Held, Counting
  <2>5. WaitingInv'
    BY <1>0, <1>2, <2>2, <2>4 DEF WaitingInv, InEdges
  <2>6. QED
    BY <2>3, <2>5
<1>4. CASE CreateNode(w) \/ AttemptSucceeds(w) \/ AttemptFails(w) \/ AttemptsExhausted(w)
  <2>1. /\ pc[w] \in {"create", "execute"} /\ pc'[w] \in {"execute", "store"}
        /\ \A x \in Workers : x # w => pc'[x] = pc[x]
        /\ UNCHANGED <<node_state, uncompleted_deps, todo, posted, subject>>
    BY <1>4 DEF CreateNode, AttemptSucceeds, AttemptFails, AttemptsExhausted, engine, IInv, TypeOK
  <2>2. HandsInv'
    BY <1>2, <2>1 DEF HandsInv, Active
  <2>3. \A e \in Edges : Held(e) => Held(e)'
    BY <2>1 DEF Held, Counting
  <2>4. WaitingInv'
    BY <1>0, <1>2, <2>1, <2>3 DEF WaitingInv, InEdges
  <2>5. QED
    BY <2>2, <2>4
<1>5. CASE CreateEscapes(w)
  <2>1. /\ pc[w] = "create" /\ pc'[w] = "idle" /\ subject[w] \in ForeignThrow
        /\ \A x \in Workers : x # w => pc'[x] = pc[x] /\ subject'[x] = subject[x]
        /\ UNCHANGED <<node_state, uncompleted_deps, todo, posted>>
    BY <1>5 DEF CreateEscapes, engine, IInv, TypeOK
  <2>2. HandsInv'
    BY <1>2, <2>1 DEF HandsInv, Active
  <2>3. \A e \in Edges : Held(e) => Held(e)'
    BY <2>1 DEF Held, Counting
  <2>4. WaitingInv'
    BY <1>0, <1>2, <2>1, <2>3 DEF WaitingInv, InEdges
  <2>5. QED
    BY <2>2, <2>4
<1>6. CASE StoreVerdict(w)
  <2>1. /\ pc[w] = "store" /\ pc'[w] = "record" /\ subject[w] \in Nodes /\ verdict[w] \in Verdicts
        /\ \A n \in Nodes : node_state'[n] = IF n = subject[w] THEN verdict[w] ELSE node_state[n]
        /\ \A x \in Workers : x # w => pc'[x] = pc[x]
        /\ UNCHANGED <<uncompleted_deps, todo, posted, subject>>
    BY <1>6 DEF StoreVerdict, IInv, TypeOK, WorkerInv
  <2>2. HandsInv'
    BY <1>2, <2>1 DEF HandsInv, Active, Verdicts
  <2>3. \A e \in Edges : Held(e) \/ From[e] = subject[w] => Held(e)'
    BY <2>1 DEF Held, Counting
  <2>4. WaitingInv'
    BY <1>0, <1>2, <2>1, <2>3, GraphAssumption DEF WaitingInv, InEdges, Verdicts
  <2>5. QED
    BY <2>2, <2>4
<1>7. CASE RecordMetric(w)
  <2>1. /\ pc[w] = "record" /\ pc'[w] = "count"
        /\ \A x \in Workers : x # w => pc'[x] = pc[x]
        /\ UNCHANGED <<node_state, uncompleted_deps, todo, posted, subject>>
    BY <1>7 DEF RecordMetric, IInv, TypeOK
  <2>2. HandsInv'
    BY <1>2, <2>1 DEF HandsInv, Active
  <2>3. \A e \in Edges : Held(e) => Held(e)'
    BY <2>1 DEF Held, Counting
  <2>4. WaitingInv'
    BY <1>0, <1>2, <2>1, <2>3 DEF WaitingInv, InEdges
  <2>5. QED
    BY <2>2, <2>4
<1>8. CASE CountDown(w)
  <2>1. /\ pc[w] = "count" /\ pc'[w] = "downstream"
        /\ todo'[w] = todo[w] \cup OutEdges(subject[w])
        /\ \A x \in Workers : x # w => pc'[x] = pc[x] /\ todo'[x] = todo[x]
        /\ UNCHANGED <<node_state, uncompleted_deps, posted, subject>>
    BY <1>8 DEF CountDown, Cascade, IInv, TypeOK
  <2>2. HandsInv'
    BY <1>2, <2>1 DEF HandsInv, Active
  <2>3. \A e \in Edges : Held(e) => Held(e)'
    BY <2>1 DEF Held, Counting, OutEdges
  <2>4. WaitingInv'
    BY <1>0, <1>2, <2>1, <2>3 DEF WaitingInv, InEdges
  <2>5. QED
    BY <2>2, <2>4
<1>9. ASSUME NEW e \in Edges, ReleaseDownstream(w, e) PROVE HandsInv' /\ WaitingInv'
  <2> DEFINE n == To[e]
  <2>1. /\ UNCHANGED <<pc, subject>> /\ todo' = [todo EXCEPT ![w] = @ \ {e}] /\ e \in todo[w]
        /\ n \in Nodes /\ node_state[From[e]] = "Success"
        /\ \A m \in Nodes : uncompleted_deps'[m] =
               IF m = n THEN uncompleted_deps[m] - 1 ELSE uncompleted_deps[m]
    BY <1>9, GraphAssumption DEF ReleaseDownstream, IInv, TypeOK, WorkerInv
  <2>2. CASE uncompleted_deps[n] = 1
    <3>1. ScheduleNode(n)
      BY <1>9, <2>2 DEF ReleaseDownstream, LastOne
    <3>2. HandsInv'
      BY <1>2, <2>1, <3>1, ScheduleNodeQueues DEF HandsInv, Active, IInv
    <3>3. \A m \in Nodes : /\ node_state'[m] = "Pending" => node_state[m] = "Pending" /\ m # n
                           /\ Bad(m)' => Bad(m)
      BY <2>1, <3>1, ScheduleNodeQueues DEF IInv
    <3>4. \A f \in Edges : Held(f) /\ f # e => Held(f)'
      BY <2>1, EntryLeaves
    <3>5. WaitingInv'
      BY <1>0, <1>2, <2>1, <3>3, <3>4, GraphAssumption DEF WaitingInv, InEdges
    <3>6. QED
      BY <3>2, <3>5
  <2>3. CASE uncompleted_deps[n] # 1
    <3>1. UNCHANGED <<node_state, posted>>
      BY <1>9, <2>3 DEF ReleaseDownstream, LastOne
    <3>2. HandsInv'
      BY <1>2, <2>1, <3>1 DEF HandsInv, Active
    <3>3. \A f \in Edges : Held(f) /\ f # e => Held(f)'
      BY <2>1, EntryLeaves
    <3>4. uncompleted_deps'[n] # 0
      BY <2>1, <2>3 DEF IInv, TypeOK
    <3>5. WaitingInv'
      BY <1>0, <1>2, <2>1, <3>1, <3>3, <3>4, GraphAssumption DEF WaitingInv, InEdges
    <3>6. QED
      BY <3>2, <3>5
  <2>4. QED
    BY <2>2, <2>3
<1>10. ASSUME NEW e \in Edges, CancelDownstream(w, e) PROVE HandsInv' /\ WaitingInv'
  <2> DEFINE n == To[e]
  <2>1. /\ pc[w] = "downstream" /\ e \in todo[w] /\ n \in Nodes
        /\ \A x \in Workers : todo'[x] = IF x = w THEN todo[x] \ {e} ELSE todo[x]
        /\ \A x \in Workers : x # w => pc'[x] = pc[x] /\ subject'[x] = subject[x]
        /\ UNCHANGED <<uncompleted_deps, posted>>
    BY <1>10, GraphAssumption DEF CancelDownstream, IInv, TypeOK
  <2>2. CASE node_state[n] = "Pending"
    <3>1. /\ pc'[w] = "record" /\ subject'[w] = n
          /\ \A m \in Nodes : node_state'[m] = IF m = n THEN "Cancelled" ELSE node_state[m]
      BY <1>10, <2>2 DEF CancelDownstream, Cancellable, IInv, TypeOK
    <3>2. HandsInv'
      BY <1>2, <2>1, <3>1 DEF HandsInv, Active
    <3>3. \A f \in Edges : (Held(f) /\ f # e) \/ From[f] = n => Held(f)'
      BY <2>1, <3>1 DEF Held, Counting
    <3>4. WaitingInv'
      BY <1>0, <1>2, <2>1, <3>1, <3>3, GraphAssumption DEF WaitingInv, InEdges
    <3>5. QED
      BY <3>2, <3>4
  <2>3. CASE node_state[n] # "Pending"
    <3>1. UNCHANGED <<node_state, pc, subject>>
      BY <1>10, <2>3 DEF CancelDownstream, Cancellable
    <3>2. HandsInv'
      BY <1>2, <2>1, <3>1 DEF HandsInv, Active
    <3>3. \A f \in Edges : Held(f) /\ f # e => Held(f)'
      BY <2>1, <3>1 DEF Held, Counting
    <3>4. WaitingInv'
      BY <1>0, <1>2, <2>1, <2>3, <3>1, <3>3, GraphAssumption DEF WaitingInv, InEdges
    <3>5. QED
      BY <3>2, <3>4
  <2>4. QED
    BY <2>2, <2>3
<1>11. CASE TaskReturns(w)
  <2>1. /\ pc[w] = "downstream" /\ pc'[w] = "idle"
        /\ \A x \in Workers : x # w => pc'[x] = pc[x] /\ subject'[x] = subject[x]
        /\ UNCHANGED <<node_state, uncompleted_deps, todo, posted>>
    BY <1>11 DEF TaskReturns, engine, IInv, TypeOK
  <2>2. HandsInv'
    BY <1>2, <2>1 DEF HandsInv, Active
  <2>3. \A e \in Edges : Held(e) => Held(e)'
    BY <2>1 DEF Held, Counting
  <2>4. WaitingInv'
    BY <1>0, <1>2, <2>1, <2>3 DEF WaitingInv, InEdges
  <2>5. QED
    BY <2>2, <2>4
<1>12. QED
  BY <1>3, <1>4, <1>5, <1>6, <1>7, <1>8, <1>9, <1>10, <1>11 DEF Work

(* For every acyclic graph: a run whose latch is still closed has a task in *)
(* the pool or is still being started, unless a factory has thrown what     *)
(* executeNode() does not catch.                                            *)
THEOREM RunsAreNeverStuck == OrderlySpec => []NeverStuck
<1>1. Init => StuckInv
  BY DEF Init, StuckInv, InRun
<1>2. IInv /\ StuckInv /\ [OrderlyNext]_vars => StuckInv'
  <2> SUFFICES ASSUME IInv, StuckInv, [OrderlyNext]_vars PROVE StuckInv'
    OBVIOUS
  <2>1. CASE UNCHANGED vars
    BY <2>1 DEF vars, engine, caller, worker, StuckInv, InRun, Starting, HandsInv, Active,
                WaitingInv, ToSchedule, Held, Counting
  <2>2. CASE OrderlyNext
    BY <2>2, CallerLeavesNoneBehind, WorkerLeavesNoneBehind DEF OrderlyNext, Proceed
  <2>3. QED
    BY <2>1, <2>2
<1>3. QED
  BY <1>1, <1>2, SomeoneHasWork, Invariance, PTL DEF OrderlySpec

-----------------------------------------------------------------------------
(* A run is bounded work: everything that is left to do in it is a finite   *)
(* set, and each step of a worker takes something out of that set.  With    *)
(* NeverStuck this is what RunDrains rests on besides fairness.             *)
Rank(place) == CASE place = "create"     -> 6
                 [] place = "execute"    -> 5
                 [] place = "store"      -> 4
                 [] place = "record"     -> 3
                 [] place = "count"      -> 2
                 [] place = "downstream" -> 1
                 [] place = "idle"       -> 0

(* The places that the task of a node has not passed, the attempts it has   *)
(* not made, and the downstream entries nobody has processed.               *)
Steps    == {p \in Nodes \X (1 .. 8) :
                \/ node_state[p[1]] = "Pending"
                \/ p[2] < 8 /\ posted[p[1]] > 0
                \/ \E w \in Workers : subject[w] = p[1] /\ p[2] <= Rank(pc[w])}
AllTries == {p \in Nodes \X (Nat \ {0}) : p[2] <= MaxRetries[p[1]] + 1}
Tries    == {p \in AllTries :
                \/ node_state[p[1]] = "Pending" \/ posted[p[1]] > 0
                \/ \E w \in Workers : /\ subject[w] = p[1]
                                      /\ \/ pc[w] = "create"
                                         \/ pc[w] = "execute" /\ attempt[w] < p[2]}
Entries  == {e \in Edges : node_state[From[e]] \in {"Pending", "Running"} \/ Held(e)}

Tagged(steps, tries, entries) ==
    (steps \X {"step"}) \cup (tries \X {"try"}) \cup (entries \X {"entry"})
Chores   == Tagged(Nodes \X (1 .. 8), AllTries, Edges)
Left     == Tagged(Steps, Tries, Entries)

EachStepUsesUp ==
    [][InRun => /\ Left' \subseteq Left
                /\ \A w \in Workers :
                       Work(w) => <<Left', Left>> \in StrictSubsetOrdering(Chores)]_vars

LEMMA ChoresAreFinite == IsFiniteSet(Chores)
<1>1. IsFiniteSet(Nodes \X (1 .. 8))
  <2>1. 1 \in Int /\ 8 \in Int
    OBVIOUS
  <2>2. IsFiniteSet(1 .. 8)
    BY ONLY <2>1, FS_Interval
  <2>3. QED
    BY <2>2, GraphAssumption, FS_Product
<1>2. IsFiniteSet(AllTries)
  <2> DEFINE Row(n) == {n} \X (1 .. MaxRetries[n] + 1)
             Rows   == {Row(n) : n \in Nodes}
             f      == [n \in Nodes |-> Row(n)]
  <2>1. ASSUME NEW n \in Nodes PROVE IsFiniteSet(Row(n))
    <3>1. 1 \in Int /\ MaxRetries[n] + 1 \in Int
      BY ThreadAssumption
    <3>2. IsFiniteSet(1 .. MaxRetries[n] + 1)
      BY ONLY <3>1, FS_Interval
    <3>3. IsFiniteSet({n})
      BY FS_Singleton
    <3>4. QED
      BY <3>2, <3>3, FS_Product
  <2>2. f \in Surjection(Nodes, Rows)
    BY DEF Surjection
  <2>3. IsFiniteSet(Rows)
    BY <2>2, GraphAssumption, FS_Surjection
  <2>4. IsFiniteSet(UNION Rows)
    BY <2>1, <2>3, FS_UNION
  <2>5. AllTries \in SUBSET (UNION Rows)
    <3>1. SUFFICES ASSUME NEW p \in AllTries PROVE p \in UNION Rows
      OBVIOUS
    <3>2. p[1] \in Nodes /\ p[2] \in 1 .. MaxRetries[p[1]] + 1 /\ p = <<p[1], p[2]>>
      BY <3>1, ThreadAssumption DEF AllTries
    <3>3. p \in Row(p[1])
      BY <3>2
    <3>4. QED
      BY <3>2, <3>3
  <2>6. QED
    BY <2>4, <2>5, FS_Subset
<1>3. \A S : IsFiniteSet(S) => \A tag : IsFiniteSet(S \X {tag})
  BY FS_Singleton, FS_Product
<1>4. /\ IsFiniteSet((Nodes \X (1 .. 8)) \X {"step"}) /\ IsFiniteSet(AllTries \X {"try"})
      /\ IsFiniteSet(Edges \X {"entry"})
  <2>2. IsFiniteSet(Edges)
    BY GraphAssumption
  <2>3. IsFiniteSet((Nodes \X (1 .. 8)) \X {"step"})
    BY ONLY <1>1, <1>3
  <2>4. IsFiniteSet(AllTries \X {"try"})
    BY ONLY <1>2, <1>3
  <2>5. IsFiniteSet(Edges \X {"entry"})
    BY ONLY <2>2, <1>3
  <2>6. QED
    BY <2>3, <2>4, <2>5
<1>5. IsFiniteSet(((Nodes \X (1 .. 8)) \X {"step"}) \cup (AllTries \X {"try"}))
  BY ONLY <1>4, FS_Union
<1>6. QED
  BY ONLY <1>4, <1>5, FS_Union DEF Chores, Tagged

(* No two workers have the same node, not even one that is counted.         *)
SubjectInv ==
    /\ \A w \in Workers : pc[w] = "downstream" => node_state[subject[w]] \in Verdicts
    /\ \A w, x \in Workers :
           pc[w] # "idle" /\ pc[x] # "idle" /\ subject[w] = subject[x] => w = x

LEMMA CallerKeepsSubjects ==
    ASSUME IInv, SubjectInv, NEW c \in Callers, Orderly(c) \/ Continue(c)
    PROVE  SubjectInv'
<1>1. UNCHANGED <<pc, subject>>
  BY DEF Orderly, Continue, Run, NewLatch, ResetNode, ClearContext, ScheduleRoot, RunReturns,
         WaitForCompletion, LatchOpens, AllowNextRun, engine, worker
<1>2. CASE PoolIdle
  BY <1>1, <1>2 DEF SubjectInv, PoolIdle
<1>3. CASE ~PoolIdle
  <2>1. \/ UNCHANGED node_state
        \/ \E n \in Nodes : ScheduleNode(n)
    BY <1>3 DEF Orderly, Continue, Run, NewLatch, ResetNode, ClearContext, ScheduleRoot,
                RunReturns, WaitForCompletion, LatchOpens, AllowNextRun, engine, IInv, CallerInv
  <2>2. \A m \in Nodes : node_state[m] \in Verdicts => node_state'[m] = node_state[m]
    BY <2>1, ScheduleNodeStates DEF IInv, Verdicts
  <2>3. QED
    BY <1>1, <2>2 DEF SubjectInv, IInv, WorkerInv
<1>4. QED
  BY <1>2, <1>3

LEMMA WorkerKeepsSubjects ==
    ASSUME IInv, SubjectInv, NEW w \in Workers, Work(w)
    PROVE  SubjectInv'
<1>1. CASE \E n \in Nodes : Dequeue(w, n)
  <2>1. PICK n \in Nodes : Dequeue(w, n)
    BY <1>1
  <2>2. /\ pc'[w] = "create" /\ subject'[w] = n /\ UNCHANGED node_state
        /\ \A x \in Workers : x # w => pc'[x] = pc[x] /\ subject'[x] = subject[x]
        /\ posted[n] = 1
    BY <2>1 DEF Dequeue, IInv, TypeOK
  <2>3. node_state[n] = "Running" /\ \A x \in Workers : ~(Busy(x) /\ subject[x] = n)
    BY <2>2 DEF IInv, OwnershipInv
  <2>4. \A x \in Workers : pc[x] # "idle" => subject[x] # n
    BY <2>3 DEF SubjectInv, Busy, Deciding, Counting, IInv, TypeOK, Verdicts
  <2>5. QED
    BY <2>2, <2>4 DEF SubjectInv
<1>2. CASE \/ CreateNode(w) \/ CreateEscapes(w) \/ AttemptSucceeds(w) \/ AttemptFails(w)
           \/ AttemptsExhausted(w) \/ RecordMetric(w) \/ TaskReturns(w)
  <2>1. /\ UNCHANGED node_state /\ pc[w] # "idle" /\ pc'[w] # "downstream"
        /\ pc'[w] # "idle" => subject'[w] = subject[w]
        /\ \A x \in Workers : x # w => pc'[x] = pc[x] /\ subject'[x] = subject[x]
    BY <1>2 DEF CreateNode, CreateEscapes, AttemptSucceeds, AttemptFails, AttemptsExhausted,
                RecordMetric, TaskReturns, engine, IInv, TypeOK
  <2>2. QED
    BY <2>1 DEF SubjectInv
<1>3. CASE StoreVerdict(w)
  <2>1. /\ pc[w] = "store" /\ pc'[w] = "record" /\ verdict[w] \in Verdicts
        /\ \A n \in Nodes : node_state'[n] = IF n = subject[w] THEN verdict[w] ELSE node_state[n]
        /\ UNCHANGED subject /\ \A x \in Workers : x # w => pc'[x] = pc[x]
    BY <1>3 DEF StoreVerdict, IInv, TypeOK
  <2>2. QED
    BY <2>1 DEF SubjectInv, IInv, WorkerInv
<1>4. CASE CountDown(w)
  <2>1. /\ pc[w] = "count" /\ pc'[w] = "downstream" /\ UNCHANGED <<node_state, subject>>
        /\ \A x \in Workers : x # w => pc'[x] = pc[x]
    BY <1>4 DEF CountDown, IInv, TypeOK
  <2>2. node_state[subject[w]] \in Verdicts
    BY <2>1 DEF IInv, WorkerInv, TypeOK, Counting
  <2>3. QED
    BY <2>1, <2>2 DEF SubjectInv
<1>5. ASSUME NEW e \in Edges, ReleaseDownstream(w, e) PROVE SubjectInv'
  <2>1. To[e] \in Nodes /\ UNCHANGED <<pc, subject>>
    BY <1>5, GraphAssumption DEF ReleaseDownstream
  <2>2. UNCHANGED node_state \/ ScheduleNode(To[e])
    BY <1>5 DEF ReleaseDownstream
  <2>3. \A m \in Nodes : node_state[m] \in Verdicts => node_state'[m] = node_state[m]
    BY <2>1, <2>2, ScheduleNodeStates DEF IInv, Verdicts
  <2>4. QED
    BY <2>1, <2>3 DEF SubjectInv, IInv, WorkerInv
<1>6. ASSUME NEW e \in Edges, CancelDownstream(w, e) PROVE SubjectInv'
  <2>1. CASE node_state[To[e]] # "Pending"
    BY <1>6, <2>1 DEF CancelDownstream, Cancellable, SubjectInv
  <2>2. CASE node_state[To[e]] = "Pending"
    <3>1. /\ pc'[w] = "record" /\ subject'[w] = To[e] /\ To[e] \in Nodes
          /\ \A m \in Nodes : node_state'[m] = IF m = To[e] THEN "Cancelled" ELSE node_state[m]
          /\ \A x \in Workers : x # w => pc'[x] = pc[x] /\ subject'[x] = subject[x]
      BY <1>6, <2>2, GraphAssumption DEF CancelDownstream, Cancellable, IInv, TypeOK
    <3>2. \A x \in Workers : pc[x] # "idle" => subject[x] # To[e] /\ subject[x] \in Nodes
      BY <2>2 DEF IInv, WorkerInv, TypeOK, Verdicts, Deciding, Counting, SubjectInv
    <3>3. QED
      BY <3>1, <3>2 DEF SubjectInv
  <2>3. QED
    BY <2>1, <2>2
<1>7. QED
  BY <1>1, <1>2, <1>3, <1>4, <1>5, <1>6 DEF Work

Places == {"create", "execute", "store", "record", "count", "downstream", "idle"}

LEMMA RankFacts ==
    /\ Rank("create") = 6 /\ Rank("execute") = 5 /\ Rank("store") = 4 /\ Rank("record") = 3
    /\ Rank("count") = 2 /\ Rank("downstream") = 1 /\ Rank("idle") = 0
    /\ \A a \in Places : Rank(a) \in 0 .. 6 /\ (a # "idle" => Rank(a) > 0)
<1>1. /\ Rank("create") = 6 /\ Rank("execute") = 5 /\ Rank("store") = 4 /\ Rank("record") = 3
      /\ Rank("count") = 2 /\ Rank("downstream") = 1 /\ Rank("idle") = 0
  BY DEF Rank
<1>2. QED
  BY <1>1 DEF Places

(* What is left shrinks when none of its three parts grows and one shrinks. *)
LEMMA PartsShrink ==
    ASSUME Steps' \subseteq Steps, Tries' \subseteq Tries, Entries' \subseteq Entries
    PROVE  /\ Left' \subseteq Left
           /\ Steps' # Steps \/ Tries' # Tries \/ Entries' # Entries
                  => <<Left', Left>> \in StrictSubsetOrdering(Chores)
<1>1. /\ Steps \subseteq Nodes \X (1 .. 8) /\ Tries \subseteq AllTries
      /\ Entries \subseteq Edges
  BY DEF Steps, Tries, Entries
<1>2. \A p : /\ <<p, "step">> \in Left <=> p \in Steps
             /\ <<p, "try">> \in Left <=> p \in Tries
             /\ <<p, "entry">> \in Left <=> p \in Entries
  BY DEF Left, Tagged
<1>3. \A p : /\ <<p, "step">> \in Left' <=> p \in Steps'
             /\ <<p, "try">> \in Left' <=> p \in Tries'
             /\ <<p, "entry">> \in Left' <=> p \in Entries'
  BY DEF Left, Tagged
<1>4. Left' \subseteq Left
  BY DEF Left, Tagged
<1>5. Left \subseteq Chores
  BY <1>1 DEF Left, Chores, Tagged
<1>6. ASSUME Steps' # Steps \/ Tries' # Tries \/ Entries' # Entries
      PROVE  Left' # Left
  <2>1. \/ \E p \in Steps : p \notin Steps'
        \/ \E p \in Tries : p \notin Tries'
        \/ \E p \in Entries : p \notin Entries'
    BY <1>6
  <2>2. ASSUME NEW p \in Steps, p \notin Steps' PROVE Left' # Left
    BY ONLY <1>2, <1>3, <2>2
  <2>3. ASSUME NEW p \in Tries, p \notin Tries' PROVE Left' # Left
    BY ONLY <1>2, <1>3, <2>3
  <2>4. ASSUME NEW p \in Entries, p \notin Entries' PROVE Left' # Left
    BY ONLY <1>2, <1>3, <2>4
  <2>5. QED
    BY <2>1, <2>2, <2>3, <2>4
<1>7. QED
  BY <1>4, <1>5, <1>6 DEF StrictSubsetOrdering

(* A step of one worker, who moves down its task or takes a node that       *)
(* nobody has begun; no node goes back to Pending or into the queue.        *)
LEMMA StepsShrink ==
    ASSUME IInv, NEW w \in Workers,
           \A x \in Workers : x # w => pc'[x] = pc[x] /\ subject'[x] = subject[x]
                                       /\ attempt'[x] = attempt[x],
           \A n \in Nodes :
               /\ node_state'[n] = "Pending" => node_state[n] = "Pending"
               /\ posted'[n] > 0 => posted[n] > 0 \/ node_state[n] = "Pending",
           pc'[w] \in Places,
           \/ pc'[w] = "idle"
           \/ node_state[subject'[w]] = "Pending" /\ subject'[w] \in Nodes
           \/ posted[subject'[w]] > 0 /\ subject'[w] \in Nodes
           \/ /\ subject'[w] = subject[w] /\ Rank(pc'[w]) <= Rank(pc[w])
              /\ pc'[w] = "create" => pc[w] = "create"
              /\ pc'[w] = "execute" => \/ pc[w] = "create"
                                       \/ pc[w] = "execute" /\ attempt[w] <= attempt'[w],
           attempt'[w] \in Nat
    PROVE  Steps' \subseteq Steps /\ Tries' \subseteq Tries
<1>1. ASSUME NEW p \in Steps' PROVE p \in Steps
  <2>1. p \in Nodes \X (1 .. 8) /\ p[1] \in Nodes /\ p[2] \in 1 .. 8
    BY <1>1 DEF Steps
  <2>2. CASE node_state'[p[1]] = "Pending"
    BY <2>1, <2>2 DEF Steps
  <2>3. CASE p[2] < 8 /\ posted'[p[1]] > 0
    BY <2>1, <2>3 DEF Steps
  <2>4. ASSUME NEW x \in Workers, subject'[x] = p[1], p[2] <= Rank(pc'[x]) PROVE p \in Steps
    <3>1. CASE x # w
      BY <2>1, <2>4, <3>1 DEF Steps
    <3>2. CASE x = w
      <4>1. pc'[w] # "idle" /\ p[2] < 8
        <5>1. Rank(pc'[w]) \in 0 .. 6 /\ p[2] \in 1 .. 8 /\ p[2] <= Rank(pc'[w])
          BY <2>1, <2>4, <3>2, RankFacts
        <5>2. p[2] < 8 /\ Rank(pc'[w]) # 0
          BY ONLY <5>1
        <5>3. QED
          BY <5>2, RankFacts
      <4>2. Rank(pc[w]) \in 0 .. 6 /\ Rank(pc'[w]) \in 0 .. 6
        BY RankFacts DEF IInv, TypeOK, Places
      <4>3. QED
        BY <2>1, <2>4, <3>2, <4>1, <4>2 DEF Steps
    <3>3. QED
      BY <3>1, <3>2
  <2>5. QED
    BY <1>1, <2>2, <2>3, <2>4 DEF Steps
<1>2. ASSUME NEW p \in Tries' PROVE p \in Tries
  <2>1. p \in AllTries /\ p[1] \in Nodes /\ p[2] \in Nat
    BY <1>2 DEF Tries, AllTries
  <2>2. CASE node_state'[p[1]] = "Pending" \/ posted'[p[1]] > 0
    BY <2>1, <2>2 DEF Tries
  <2>3. ASSUME NEW x \in Workers, subject'[x] = p[1],
               pc'[x] = "create" \/ (pc'[x] = "execute" /\ attempt'[x] < p[2])
        PROVE  p \in Tries
    <3>1. CASE x # w
      BY <2>1, <2>3, <3>1 DEF Tries
    <3>2. CASE x = w
      <4>1. attempt[w] \in Nat /\ pc'[w] # "idle"
        BY <2>3, <3>2 DEF IInv, TypeOK
      <4>2. QED
        BY <2>1, <2>3, <3>2, <4>1 DEF Tries
    <3>3. QED
      BY <3>1, <3>2
  <2>4. QED
    BY <1>2, <2>2, <2>3 DEF Tries
<1>3. QED
  BY <1>1, <1>2

(* The place a worker has left is off the list for good.                    *)
LEMMA PlaceIsPassed ==
    ASSUME IInv, SubjectInv, NEW w \in Workers, pc[w] # "idle",
           node_state'[subject[w]] # "Pending", posted'[subject[w]] = posted[subject[w]],
           \A x \in Workers : x # w => pc'[x] = pc[x] /\ subject'[x] = subject[x],
           pc'[w] \in Places,
           subject'[w] = subject[w] => Rank(pc'[w]) < Rank(pc[w]),
           node_state[subject[w]] # "Running" \/ Busy(w)
    PROVE  Steps' # Steps
<1> DEFINE p == <<subject[w], Rank(pc[w])>>
<1>1. subject[w] \in Nodes /\ Rank(pc[w]) \in 1 .. 6
  BY RankFacts DEF IInv, TypeOK, WorkerInv, Places
<1>2. p \in Steps
  BY <1>1 DEF Steps
<1>3. posted'[subject[w]] = 0
  BY <1>1 DEF IInv, TypeOK, OwnershipInv
<1>4. \A x \in Workers : x # w => pc[x] = "idle" \/ subject[x] # subject[w]
  BY DEF SubjectInv
<1>5. \A x \in Workers : subject'[x] = subject[w] => ~(Rank(pc[w]) <= Rank(pc'[x]))
  <2>1. SUFFICES ASSUME NEW x \in Workers, subject'[x] = subject[w]
                 PROVE  ~(Rank(pc[w]) <= Rank(pc'[x]))
    OBVIOUS
  <2>2. CASE x # w
    <3>1. pc'[x] = "idle"
      BY <1>4, <2>1, <2>2
    <3>2. QED
      BY <1>1, <3>1, RankFacts
  <2>3. CASE x = w
    <3>1. Rank(pc'[w]) < Rank(pc[w]) /\ Rank(pc'[w]) \in 0 .. 6
      BY <2>1, <2>3, RankFacts
    <3>2. QED
      BY <1>1, <2>3, <3>1
  <2>4. QED
    BY <2>2, <2>3
<1>6. p \notin Steps'
  BY <1>1, <1>3, <1>5 DEF Steps
<1>7. QED
  BY <1>2, <1>6

(* The entries left: no node begins again, and a worker that takes up a     *)
(* node or lets go of an entry has what was on the list.                    *)
LEMMA EntriesShrink ==
    ASSUME IInv, NEW w \in Workers,
           \A x \in Workers : x # w => pc'[x] = pc[x] /\ subject'[x] = subject[x]
                                       /\ todo'[x] = todo[x],
           \A n \in Nodes : node_state'[n] \in {"Pending", "Running"}
                                => node_state[n] \in {"Pending", "Running"},
           \A e \in todo'[w] : e \in todo[w] \/ (Counting(w) /\ subject[w] = From[e]),
           Counting(w)' => \/ Counting(w) /\ subject'[w] = subject[w]
                           \/ node_state[subject'[w]] \in {"Pending", "Running"}
    PROVE  Entries' \subseteq Entries
<1>1. SUFFICES ASSUME NEW e \in Entries' PROVE e \in Entries
  OBVIOUS
<1>2. e \in Edges /\ From[e] \in Nodes
  BY <1>1, GraphAssumption DEF Entries
<1>3. CASE node_state'[From[e]] \in {"Pending", "Running"}
  BY <1>2, <1>3 DEF Entries
<1>4. ASSUME NEW x \in Workers, x # w,
             e \in todo'[x] \/ (Counting(x)' /\ subject'[x] = From[e])
      PROVE  e \in Entries
  <2>1. Counting(x)' <=> Counting(x)
    BY <1>4 DEF Counting
  <2>2. Held(e)
    BY <1>4, <2>1 DEF Held
  <2>3. QED
    BY <1>2, <2>2 DEF Entries
<1>5. CASE e \in todo'[w] \/ (Counting(w)' /\ subject'[w] = From[e])
  <2>1. Held(e) \/ node_state[From[e]] \in {"Pending", "Running"}
    BY <1>5 DEF Held
  <2>2. QED
    BY <1>2, <2>1 DEF Entries
<1>6. QED
  <2>1. node_state'[From[e]] \in {"Pending", "Running"} \/ Held(e)'
    BY <1>1 DEF Entries
  <2>2. QED
    BY <1>3, <1>4, <1>5, <2>1 DEF Held

(* Each step of a task.                                                     *)
LEMMA DequeueUsesUp ==
    ASSUME IInv, NEW w \in Workers, NEW n \in Nodes, Dequeue(w, n)
    PROVE  <<Left', Left>> \in StrictSubsetOrdering(Chores)
<1>1. /\ pc[w] = "idle" /\ pc'[w] = "create" /\ subject'[w] = n /\ posted[n] = 1 /\ posted'[n] = 0
      /\ \A m \in Nodes : m # n => posted'[m] = posted[m]
      /\ \A x \in Workers : x # w => pc'[x] = pc[x] /\ subject'[x] = subject[x]
      /\ UNCHANGED <<node_state, attempt, todo>> /\ attempt[w] \in Nat
  BY DEF Dequeue, IInv, TypeOK
<1>2. Steps' \subseteq Steps /\ Tries' \subseteq Tries
  BY <1>1, StepsShrink DEF Places
<1>3. Entries' \subseteq Entries
  BY <1>1, EntriesShrink DEF Counting
<1>4. <<n, 7>> \in Steps /\ <<n, 7>> \notin Steps'
  <2>1. node_state[n] = "Running"
    BY <1>1 DEF IInv, OwnershipInv
  <2>2. \A x \in Workers : Rank(pc'[x]) \in 0 .. 6
    BY <1>1, RankFacts DEF IInv, TypeOK, Places
  <2>3. QED
    BY <1>1, <2>1, <2>2 DEF Steps
<1>5. QED
  BY <1>2, <1>3, <1>4, PartsShrink

LEMMA MoveUsesUp ==
    ASSUME IInv, SubjectInv, NEW w \in Workers,
           \/ CreateNode(w) \/ CreateEscapes(w) \/ AttemptSucceeds(w) \/ AttemptsExhausted(w)
           \/ StoreVerdict(w) \/ RecordMetric(w) \/ CountDown(w) \/ TaskReturns(w)
    PROVE  <<Left', Left>> \in StrictSubsetOrdering(Chores)
<1>1. /\ pc[w] # "idle" /\ subject[w] \in Nodes /\ pc'[w] \in Places
      /\ \A x \in Workers : x # w => /\ pc'[x] = pc[x] /\ subject'[x] = subject[x]
                                     /\ attempt'[x] = attempt[x] /\ todo'[x] = todo[x]
      /\ UNCHANGED posted /\ attempt'[w] \in Nat
  BY DEF CreateNode, CreateEscapes, AttemptSucceeds, AttemptsExhausted, StoreVerdict,
         RecordMetric, CountDown, TaskReturns, engine, IInv, TypeOK, WorkerInv, Places
<1>2. \/ pc'[w] = "idle"
      \/ /\ subject'[w] = subject[w] /\ attempt'[w] = attempt[w]
         /\ \/ pc[w] = "create" /\ pc'[w] \in {"execute", "store"}
            \/ pc[w] = "execute" /\ pc'[w] = "store"
            \/ pc[w] = "store" /\ pc'[w] = "record"
            \/ pc[w] = "record" /\ pc'[w] = "count"
            \/ pc[w] = "count" /\ pc'[w] = "downstream"
  BY DEF CreateNode, CreateEscapes, AttemptSucceeds, AttemptsExhausted, StoreVerdict,
         RecordMetric, CountDown, TaskReturns, IInv, TypeOK
<1>3. \A n \in Nodes : \/ node_state'[n] = node_state[n]
                       \/ /\ n = subject[w] /\ node_state'[n] \in Verdicts /\ pc[w] = "store"
  BY DEF CreateNode, CreateEscapes, AttemptSucceeds, AttemptsExhausted, StoreVerdict,
         RecordMetric, CountDown, TaskReturns, engine, IInv, TypeOK
<1>4. Rank(pc'[w]) < Rank(pc[w])
  BY <1>1, <1>2, RankFacts DEF IInv, TypeOK, Places
<1>5. \A n \in Nodes : /\ node_state'[n] = "Pending" => node_state[n] = "Pending"
                       /\ node_state'[n] \in {"Pending", "Running"}
                              => node_state[n] \in {"Pending", "Running"}
  BY <1>3 DEF Verdicts
<1>6. /\ pc'[w] # "idle" => subject'[w] = subject[w] /\ Rank(pc'[w]) <= Rank(pc[w])
      /\ pc'[w] # "create" /\ (pc'[w] = "execute" => pc[w] = "create")
  <2>1. Rank(pc'[w]) \in 0 .. 6 /\ Rank(pc[w]) \in 0 .. 6
    BY <1>1, RankFacts DEF IInv, TypeOK, Places
  <2>2. QED
    BY <1>2, <1>4, <2>1
<1>7. Steps' \subseteq Steps /\ Tries' \subseteq Tries
  <2>1. \/ pc'[w] = "idle"
        \/ /\ subject'[w] = subject[w] /\ Rank(pc'[w]) <= Rank(pc[w])
           /\ pc'[w] = "create" => pc[w] = "create"
           /\ pc'[w] = "execute" => \/ pc[w] = "create"
                                    \/ pc[w] = "execute" /\ attempt[w] <= attempt'[w]
    BY <1>6
  <2>2. \A n \in Nodes : /\ node_state'[n] = "Pending" => node_state[n] = "Pending"
                         /\ posted'[n] > 0 => posted[n] > 0 \/ node_state[n] = "Pending"
    BY <1>1, <1>5
  <2>3. QED
    BY <1>1, <2>1, <2>2, StepsShrink
<1>8. \A e \in todo'[w] : e \in todo[w] \/ (Counting(w) /\ subject[w] = From[e])
  BY <1>1 DEF CreateNode, CreateEscapes, AttemptSucceeds, AttemptsExhausted, StoreVerdict,
              RecordMetric, CountDown, TaskReturns, IInv, TypeOK, Cascade, OutEdges, Counting
<1>9. Counting(w)' => \/ Counting(w) /\ subject'[w] = subject[w]
                      \/ node_state[subject'[w]] \in {"Pending", "Running"}
  BY <1>2 DEF Counting, IInv, WorkerInv, Deciding
<1>10. Entries' \subseteq Entries
  BY <1>1, <1>5, <1>8, <1>9, EntriesShrink
<1>11. Steps' # Steps
  <2>1. node_state'[subject[w]] # "Pending"
    BY <1>1, <1>3 DEF Verdicts, IInv, WorkerInv, Deciding, Counting, TypeOK, SubjectInv
  <2>2. node_state[subject[w]] # "Running" \/ Busy(w)
    BY <1>1 DEF SubjectInv, Verdicts, Busy, Deciding, Counting, IInv, TypeOK
  <2>3. QED
    BY <1>1, <1>4, <2>1, <2>2, PlaceIsPassed
<1>12. QED
  BY <1>7, <1>10, <1>11, PartsShrink

LEMMA AttemptUsesUp ==
    ASSUME IInv, SubjectInv, NEW w \in Workers, AttemptFails(w)
    PROVE  <<Left', Left>> \in StrictSubsetOrdering(Chores)
<1> DEFINE n == subject[w]
           p == <<n, attempt[w] + 1>>
<1>1. /\ pc[w] = "execute" /\ n \in Nodes /\ attempt[w] \in Nat
      /\ attempt[w] < MaxRetries[n] + 1 /\ MaxRetries[n] \in Int
      /\ attempt' = [attempt EXCEPT ![w] = @ + 1] /\ attempt'[w] = attempt[w] + 1
      /\ \A x \in Workers : x # w => attempt'[x] = attempt[x]
      /\ UNCHANGED <<node_state, posted, pc, subject, todo>>
  BY ThreadAssumption DEF AttemptFails, IInv, TypeOK, WorkerInv
<1>2. Steps' \subseteq Steps /\ Tries' \subseteq Tries
  BY <1>1, StepsShrink, RankFacts DEF Places
<1>3. Entries' \subseteq Entries
  BY <1>1, EntriesShrink DEF Counting
<1>4. p \in Tries
  BY <1>1 DEF Tries, AllTries
<1>5. node_state[n] = "Running" /\ posted[n] = 0
  BY <1>1 DEF IInv, WorkerInv, OwnershipInv, TypeOK, Deciding, Busy
<1>6. \A x \in Workers : x # w => pc[x] = "idle" \/ subject[x] # n
  BY <1>1 DEF SubjectInv
<1>7. p \notin Tries'
  BY <1>1, <1>5, <1>6 DEF Tries
<1>8. QED
  BY <1>2, <1>3, <1>4, <1>7, PartsShrink

LEMMA EntryUsesUp ==
    ASSUME IInv, SubjectInv, NEW w \in Workers, NEW e \in Edges,
           ReleaseDownstream(w, e) \/ CancelDownstream(w, e)
    PROVE  <<Left', Left>> \in StrictSubsetOrdering(Chores)
<1> DEFINE n == To[e]
<1>1. /\ pc[w] = "downstream" /\ e \in todo[w] /\ n \in Nodes /\ From[e] \in Nodes
      /\ \A x \in Workers : todo'[x] = IF x = w THEN todo[x] \ {e} ELSE todo[x]
      /\ \A x \in Workers : x # w => pc'[x] = pc[x] /\ subject'[x] = subject[x]
      /\ UNCHANGED attempt /\ attempt[w] \in Nat
  <2>1. CASE ReleaseDownstream(w, e)
    BY <2>1, GraphAssumption DEF ReleaseDownstream, IInv, TypeOK
  <2>2. CASE CancelDownstream(w, e)
    <3>1. n \in Nodes /\ From[e] \in Nodes
      BY GraphAssumption
    <3>2. /\ pc[w] = "downstream" /\ e \in todo[w] /\ attempt' = attempt
          /\ todo' = [todo EXCEPT ![w] = @ \ {e}]
          /\ \/ pc' = [pc EXCEPT ![w] = "record"] /\ subject' = [subject EXCEPT ![w] = n]
             \/ UNCHANGED <<pc, subject>>
      BY <2>2 DEF CancelDownstream
    <3>3. QED
      BY <3>1, <3>2 DEF IInv, TypeOK
  <2>3. QED
    BY <2>1, <2>2
<1>2. \/ UNCHANGED <<node_state, posted, pc, subject>>
      \/ /\ node_state[n] = "Pending" /\ UNCHANGED <<pc, subject>>
         /\ \A m \in Nodes : node_state'[m] = IF m = n THEN "Running" ELSE node_state[m]
         /\ \A m \in Nodes : m # n => posted'[m] = posted[m]
      \/ /\ node_state[n] = "Pending" /\ UNCHANGED posted /\ pc'[w] = "record" /\ subject'[w] = n
         /\ \A m \in Nodes : node_state'[m] = IF m = n THEN "Cancelled" ELSE node_state[m]
  BY <1>1 DEF ReleaseDownstream, CancelDownstream, Cancellable, ScheduleNode, IInv, TypeOK
<1>3. Steps' \subseteq Steps /\ Tries' \subseteq Tries
  <2>1. \A m \in Nodes :
            /\ node_state'[m] = "Pending" => node_state[m] = "Pending"
            /\ posted'[m] > 0 => posted[m] > 0 \/ node_state[m] = "Pending"
    BY <1>2
  <2>2. /\ pc'[w] \in Places
        /\ pc'[w] # "create" /\ pc'[w] # "execute"
        /\ \/ node_state[subject'[w]] = "Pending" /\ subject'[w] \in Nodes
           \/ subject'[w] = subject[w] /\ pc'[w] = pc[w] /\ Rank(pc'[w]) <= Rank(pc[w])
    BY <1>1, <1>2, RankFacts DEF Places
  <2>3. QED
    BY <1>1, <2>1, <2>2, StepsShrink
<1>4. Entries' \subseteq Entries
  <2>1. \A m \in Nodes : node_state'[m] \in {"Pending", "Running"}
                             => node_state[m] \in {"Pending", "Running"}
    BY <1>2
  <2>2. Counting(w)' => node_state[subject'[w]] \in {"Pending", "Running"}
    BY <1>1, <1>2 DEF Counting
  <2>3. QED
    BY <1>1, <2>1, <2>2, EntriesShrink
<1>5. e \in Entries /\ e \notin Entries'
  <2>1. Held(e)
    BY <1>1 DEF Held
  <2>2. node_state[From[e]] \in Verdicts
    BY <1>1 DEF IInv, WorkerInv, Verdicts
  <2>3. node_state'[From[e]] \notin {"Pending", "Running"}
    BY <1>1, <1>2, <2>2 DEF Verdicts
  <2>4. ~Held(e)'
    <3>1. \A x \in Workers : x # w => e \notin todo[x]
      BY <1>1 DEF IInv, OwnershipInv
    <3>2. \A x \in Workers : ~(Counting(x) /\ subject[x] = From[e])
      BY <1>1 DEF IInv, OwnershipInv
    <3>3. \A x \in Workers : ~(Counting(x)' /\ subject'[x] = From[e])
      BY <1>1, <1>2, <2>2, <3>2 DEF Counting, Verdicts
    <3>4. QED
      BY <1>1, <3>1, <3>3 DEF Held
  <2>5. QED
    BY <2>1, <2>3, <2>4 DEF Entries
<1>6. QED
  BY <1>3, <1>4, <1>5, PartsShrink

(* Outside of its reset a run gives nobody more to do.                      *)
LEMMA CallerAddsNothing ==
    ASSUME IInv, InRun, NEW c \in Callers, Orderly(c) \/ Continue(c)
    PROVE  Left' \subseteq Left
<1>1. CASE \E n \in Nodes : ScheduleRoot(c, n)
  <2>1. PICK n \in Nodes : ScheduleNode(n) /\ UNCHANGED <<pc, subject, attempt, todo>>
    BY <1>1 DEF ScheduleRoot, worker
  <2>2. /\ \A m \in Nodes : /\ node_state'[m] = "Pending" => node_state[m] = "Pending"
                            /\ posted'[m] > 0 => posted[m] > 0 \/ node_state[m] = "Pending"
                            /\ node_state'[m] \in {"Pending", "Running"}
                                   => node_state[m] \in {"Pending", "Running"}
    BY <2>1 DEF ScheduleNode, IInv, TypeOK
  <2>3. Steps' \subseteq Steps /\ Tries' \subseteq Tries
    <3>1. pc' = pc /\ subject' = subject /\ attempt' = attempt
      BY <2>1
    <3>2. ASSUME NEW q \in Steps' PROVE q \in Steps
      BY <2>2, <3>1, <3>2 DEF Steps
    <3>3. ASSUME NEW q \in Tries' PROVE q \in Tries
      BY <2>2, <3>1, <3>3 DEF Tries, AllTries
    <3>4. QED
      BY <3>2, <3>3
  <2>4. \A e \in Edges : Held(e)' <=> Held(e)
    BY <2>1 DEF Held, Counting
  <2>5. Entries' \subseteq Entries
    BY <2>2, <2>4, GraphAssumption DEF Entries
  <2>6. QED
    BY <2>3, <2>5, PartsShrink
<1>2. CASE ~ \E n \in Nodes : ScheduleRoot(c, n)
  <2>1. \A n \in Nodes : ~ResetNode(c, n)
    BY DEF ResetNode, InRun, Starting
  <2>2. ~NewLatch(c)
    BY DEF NewLatch, InRun, Starting
  <2>3. UNCHANGED <<node_state, posted, pc, subject, attempt, todo>>
    BY <1>2, <2>1, <2>2 DEF Orderly, Continue, Run, ClearContext, RunReturns, WaitForCompletion,
                            LatchOpens, AllowNextRun, engine, worker
  <2>4. Steps' = Steps /\ Tries' = Tries /\ Entries' = Entries
    BY <2>3 DEF Steps, Tries, Entries, Held, Counting
  <2>5. QED
    BY <2>4, PartsShrink
<1>3. QED
  BY <1>1, <1>2

(* For every graph: what is left of a run is finite, no step of it adds to  *)
(* that, every step of a worker takes something away, and a finite set      *)
(* cannot lose an element for ever.  A worker therefore takes finitely many *)
(* steps between two resets, however the threads are scheduled.             *)
THEOREM WorkIsBounded ==
    /\ OrderlySpec => EachStepUsesUp
    /\ OrderlySpec => [](Left \in FiniteSubsetsOf(Chores))
    /\ IsWellFoundedOn(StrictSubsetOrdering(Chores), FiniteSubsetsOf(Chores))
<1> DEFINE A == InRun => /\ Left' \subseteq Left
                         /\ \A w \in Workers :
                                Work(w) => <<Left', Left>> \in StrictSubsetOrdering(Chores)
<1>1. Init => SubjectInv
  BY DEF Init, SubjectInv
<1>2. IInv /\ SubjectInv /\ [OrderlyNext]_vars => SubjectInv'
  <2> SUFFICES ASSUME IInv, SubjectInv, [OrderlyNext]_vars PROVE SubjectInv'
    OBVIOUS
  <2>1. CASE UNCHANGED vars
    BY <2>1 DEF vars, engine, caller, worker, SubjectInv
  <2>2. CASE OrderlyNext
    BY <2>2, CallerKeepsSubjects, WorkerKeepsSubjects DEF OrderlyNext, Proceed
  <2>3. QED
    BY <2>1, <2>2
<1>3. IInv /\ SubjectInv /\ [OrderlyNext]_vars => [A]_vars
  <2> SUFFICES ASSUME IInv, SubjectInv, OrderlyNext, InRun
               PROVE  /\ Left' \subseteq Left
                      /\ \A w \in Workers :
                             Work(w) => <<Left', Left>> \in StrictSubsetOrdering(Chores)
    OBVIOUS
  <2>1. ASSUME NEW w \in Workers, Work(w)
        PROVE  <<Left', Left>> \in StrictSubsetOrdering(Chores)
    BY <2>1, DequeueUsesUp, MoveUsesUp, AttemptUsesUp, EntryUsesUp DEF Work
  <2>2. ASSUME NEW w \in Workers, Work(w) PROVE Left' \subseteq Left
    BY <2>1, <2>2 DEF StrictSubsetOrdering
  <2>3. QED
    BY <2>1, <2>2, CallerAddsNothing DEF OrderlyNext, Proceed
<1>4. Left \in FiniteSubsetsOf(Chores)
  <2>1. Left \in SUBSET Chores
    BY DEF Left, Chores, Tagged, Steps, Tries, Entries
  <2>2. QED
    BY <2>1, ChoresAreFinite, FS_Subset DEF FiniteSubsetsOf
<1>5. OrderlySpec => EachStepUsesUp
  BY <1>1, <1>2, <1>3, Invariance, PTL DEF OrderlySpec, EachStepUsesUp
<1>6. OrderlySpec => [](Left \in FiniteSubsetsOf(Chores))
  BY <1>4, PTL
<1>7. IsWellFoundedOn(StrictSubsetOrdering(Chores), FiniteSubsetsOf(Chores))
  BY FS_StrictSubsetOrderingWellFounded
<1>8. QED
  BY <1>5, <1>6, <1>7

-----------------------------------------------------------------------------
(* One thread and one run, as in a program that makes an engine, runs it    *)
(* and waits: such a client needs no discipline.  Nothing is posted before  *)
(* the first run.                                                           *)
OneClient == /\ \A c, d \in Callers : c = d
             /\ MaxRuns = 1

FreshInv ==
    /\ runs \in Nat
    /\ runs = 0 => PoolIdle /\ \A c \in Callers : cpc[c] \in {"outside", "wait", "release"}

THEOREM OneRunIsOrderly ==
    ASSUME OneClient
    PROVE  Spec => OrderlySpec
<1>1. Init => FreshInv
  BY DEF Init, FreshInv, PoolIdle
<1>2. FreshInv /\ [Next]_vars => FreshInv'
  <2> SUFFICES ASSUME FreshInv, [Next]_vars PROVE FreshInv'
    OBVIOUS
  <2>1. CASE UNCHANGED vars
    BY <2>1 DEF vars, engine, caller, worker, FreshInv, PoolIdle
  <2>2. ASSUME NEW c \in Callers, Run(c) PROVE FreshInv'
    BY <2>2 DEF Run, FreshInv
  <2>3. ASSUME NEW c \in Callers, WaitForCompletion(c) \/ LatchOpens(c) \/ AllowNextRun(c)
        PROVE  FreshInv'
    <3>1. /\ UNCHANGED <<runs, posted, pc>>
          /\ \E p \in {"outside", "wait", "release"} : cpc' = [cpc EXCEPT ![c] = p]
      BY <2>3 DEF WaitForCompletion, LatchOpens, AllowNextRun, engine, worker
    <3>2. QED
      BY <3>1 DEF FreshInv, PoolIdle
  <2>4. ASSUME NEW c \in Callers,
               \/ NewLatch(c) \/ ClearContext(c) \/ RunReturns(c)
               \/ \E n \in Nodes : ResetNode(c, n) \/ ScheduleRoot(c, n)
        PROVE  FreshInv'
    <3>1. cpc[c] \in {"latch", "reset", "roots"} /\ UNCHANGED runs
      BY <2>4 DEF NewLatch, ClearContext, RunReturns, ResetNode, ScheduleRoot, engine
    <3>2. QED
      BY <3>1 DEF FreshInv
  <2>5. ASSUME NEW w \in Workers, Work(w) PROVE FreshInv'
    <3>1. UNCHANGED runs /\ ~PoolIdle
      BY <2>5 DEF Work, Dequeue, CreateNode, CreateEscapes, AttemptSucceeds, AttemptFails,
                  AttemptsExhausted, StoreVerdict, RecordMetric, CountDown, ReleaseDownstream,
                  CancelDownstream, TaskReturns, engine, PoolIdle
    <3>2. QED
      BY <3>1 DEF FreshInv
  <2>6. QED
    BY <2>1, <2>2, <2>3, <2>4, <2>5 DEF Next, Enter, Proceed, Continue
<1>3. FreshInv /\ [Next]_vars => [OrderlyNext]_vars
  <2> SUFFICES ASSUME FreshInv, NEW c \in Callers, Enter(c)
               PROVE  Orderly(c)
    BY DEF Next, OrderlyNext
  <2>1. \A d \in Callers : cpc[d] = "outside"
    BY DEF OneClient, Enter, Run, WaitForCompletion
  <2>2. Run(c) => PoolIdle
    BY DEF OneClient, Run, FreshInv
  <2>3. QED
    BY <2>1, <2>2 DEF Enter, Orderly
<1>4. QED
  BY <1>1, <1>2, <1>3, PTL DEF Spec, OrderlySpec

(* What the theorems say of OrderlySpec therefore holds of such a program   *)
(* as it stands.                                                            *)
THEOREM OneRunIsSafe ==
    ASSUME OneClient
    PROVE  Spec => /\ [](TypeOK /\ DependencyOrder /\ CompletionSound /\ OutcomeDetermined)
                   /\ [](MetricsExact /\ ContextOfThisRun /\ NeverStuck)
                   /\ ImplementsDagRun
<1>1. OrderlySpec => [](MetricsExact /\ ContextOfThisRun /\ NeverStuck)
  BY MetricsAreExact, ContextIsOfThisRun, RunsAreNeverStuck, PTL
<1>2. OrderlySpec => [](TypeOK /\ DependencyOrder /\ CompletionSound /\ OutcomeDetermined)
  BY TypeCorrect, DependencyOrderHolds, CompletionIsSound, OutcomeIsDetermined, PTL
<1>3. QED
  BY <1>1, <1>2, OneRunIsOrderly, Refinement
=============================================================================
