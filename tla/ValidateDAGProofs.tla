------------------------- MODULE ValidateDAGProofs -------------------------
(***************************************************************************)
(* For every finite set of nodes and every configuration over it, the      *)
(* cycle check accepts nothing but DAGs and refuses nothing but cycles;    *)
(* and the tasks that GraphBuilder makes of it keep to its dependencies.   *)
(***************************************************************************)
EXTENDS GraphBuilder, FiniteSetTheorems, WellFoundedInduction, TLAPS

(* The entries of n that its counter still counts.                          *)
Open(n) == {e \in In(n) : when[From(e)] = 0 \/ e \in todo}
Done    == {n \in Nodes : when[n] > 0}

(* The counter is exact; the queue holds the nodes that are ready; nodes    *)
(* are numbered in the order of their visits, which respects the entries.   *)
Counting == \A n \in Nodes : in_degree[n] = Cardinality(Open(n))
Queueing == \A n \in Nodes : (n \in q) <=> (when[n] = 0 /\ Open(n) = {})
Ordering ==
    /\ visited = Cardinality(Done)
    /\ \A n \in Nodes : when[n] <= visited
    /\ \A n \in Nodes : when[n] > 0 =>
           \A e \in In(n) : when[From(e)] > 0 /\ when[From(e)] < when[n]
    /\ \A e \in todo : when[From(e)] > 0 /\ when[To(e)] = 0
Ending == result # "running" =>
              /\ todo = {} /\ q = {}
              /\ (result = "accepted") <=> (visited = Cardinality(Nodes))

KahnInv == KahnTypeOK /\ Counting /\ Queueing /\ Ordering /\ Ending

-----------------------------------------------------------------------------
(* Any set of entries of the configuration is finite. *)
LEMMA EntriesFinite ==
    ASSUME KahnTypeOK
    PROVE  /\ IsFiniteSet(deps)
           /\ \A e \in deps : From(e) \in Nodes /\ To(e) \in Nodes
           /\ \A n : IsFiniteSet(Open(n)) /\ IsFiniteSet(In(n))
           /\ IsFiniteSet(Done)
<1>1. IsFiniteSet(Nodes \X Nodes)
  BY NodesAssumption, FS_Product
<1>2. IsFiniteSet(Entries)
  BY <1>1, NodesAssumption, FS_Product DEF Entries
<1>3. IsFiniteSet(deps)
  BY <1>2, FS_Subset DEF KahnTypeOK
<1>4. \A e \in deps : From(e) \in Nodes /\ To(e) \in Nodes
  BY DEF KahnTypeOK, Entries, From, To
<1>5. ASSUME NEW n
      PROVE  IsFiniteSet(Open(n)) /\ IsFiniteSet(In(n))
  <2>1. Open(n) \in SUBSET deps /\ In(n) \in SUBSET deps
    BY DEF Open, In
  <2> QED BY <2>1, <1>3, FS_Subset
<1>6. IsFiniteSet(Done)
  <2>1. Done \in SUBSET Nodes
    BY DEF Done
  <2> QED BY <2>1, NodesAssumption, FS_Subset
<1> QED BY <1>3, <1>4, <1>5, <1>6

LEMMA KahnInitInv == Init => KahnInv
<1> SUFFICES ASSUME Init PROVE KahnInv
  OBVIOUS
<1>1. \A n \in Nodes : Open(n) = In(n)
  <2>1. \A e \in deps : From(e) \in Nodes
    BY DEF Init, Entries, From
  <2> QED BY <2>1 DEF Init, Open, In
<1>2. KahnTypeOK
  <2>1. IsFiniteSet(Nodes \X Nodes)
    BY NodesAssumption, FS_Product
  <2>2. IsFiniteSet(Entries)
    BY <2>1, NodesAssumption, FS_Product DEF Entries
  <2>3. ASSUME NEW n \in Nodes PROVE Cardinality(In(n)) \in Nat
    <3>1. In(n) \in SUBSET Entries
      BY DEF Init, In
    <3>2. IsFiniteSet(In(n))
      BY <3>1, <2>2, FS_Subset
    <3> QED BY <3>2, FS_CardinalityType
  <2> QED BY <2>3 DEF Init, KahnTypeOK
<1>3. Counting
  BY <1>1 DEF Init, Counting
<1>4. Queueing
  <2>1. ASSUME NEW n \in Nodes
        PROVE  (n \in q) <=> (when[n] = 0 /\ Open(n) = {})
    <3>1. IsFiniteSet(In(n))
      BY <1>2, EntriesFinite
    <3>2. Cardinality(In(n)) = 0 <=> In(n) = {}
      BY <3>1, FS_EmptySet
    <3> QED BY <3>2, <1>1 DEF Init
  <2> QED BY <2>1 DEF Queueing
<1>5. Ordering
  <2>1. Done = {}
    BY DEF Init, Done
  <2> QED BY <2>1, FS_EmptySet DEF Init, Ordering
<1>6. Ending
  BY DEF Init, Ending
<1> QED BY <1>2, <1>3, <1>4, <1>5, <1>6 DEF KahnInv

-----------------------------------------------------------------------------
(* A visit moves the open entries of the visited node's dependents from     *)
(* "dependency not visited" to "loop not there yet": no set changes.        *)
LEMMA VisitInv ==
    ASSUME KahnInv, NEW n \in Nodes, Visit(n)
    PROVE  KahnInv'
<1> USE DEF KahnInv
<1>1. /\ result = "running" /\ todo = {} /\ n \in q
      /\ q' = q \ {n} /\ visited' = visited + 1
      /\ when' = [when EXCEPT ![n] = visited + 1]
      /\ todo' = Out(n)
      /\ deps' = deps /\ in_degree' = in_degree /\ result' = result
  BY DEF Visit
<1>2. when[n] = 0 /\ Open(n) = {}
  BY <1>1 DEF Queueing
<1>3. KahnTypeOK'
  BY <1>1 DEF KahnTypeOK, Out
<1>4. visited \in Nat /\ when \in [Nodes -> Nat]
  BY DEF KahnTypeOK
<1>5. \A e \in deps : From(e) \in Nodes /\ To(e) \in Nodes
  BY EntriesFinite
<1>6. \A m : In(m)' = In(m)
  BY <1>1 DEF In
<1>7. \A m \in Nodes : Open(m)' = Open(m)
  <2> SUFFICES ASSUME NEW m \in Nodes, NEW e \in In(m)
               PROVE  (when'[From(e)] = 0 \/ e \in todo')
                          <=> (when[From(e)] = 0 \/ e \in todo)
    BY <1>6 DEF Open
  <2>1. e \in deps /\ From(e) \in Nodes
    BY <1>5 DEF In
  <2>2. CASE From(e) = n
    BY <2>1, <2>2, <1>1, <1>2, <1>4 DEF Out
  <2>3. CASE From(e) # n
    BY <2>1, <2>3, <1>1, <1>4 DEF Out
  <2> QED BY <2>2, <2>3
<1>8. Counting'
  BY <1>1, <1>7 DEF Counting
<1>9. Queueing'
  <2> SUFFICES ASSUME NEW m \in Nodes
               PROVE  (m \in q') <=> (when'[m] = 0 /\ Open(m)' = {})
    BY DEF Queueing
  <2>1. CASE m = n
    BY <2>1, <1>1, <1>4
  <2>2. CASE m # n
    BY <2>2, <1>1, <1>4, <1>7 DEF Queueing
  <2> QED BY <2>1, <2>2
<1>10. Ordering'
  <2>1. Done' = Done \cup {n}
    BY <1>1, <1>4 DEF Done
  <2>2. n \notin Done /\ IsFiniteSet(Done)
    BY <1>2, EntriesFinite DEF Done
  <2>3. visited' = Cardinality(Done')
    BY <2>1, <2>2, <1>1, FS_AddElement DEF Ordering
  <2>4. \A m \in Nodes : when'[m] <= visited'
    BY <1>1, <1>4 DEF Ordering
  <2>5. ASSUME NEW m \in Nodes, when'[m] > 0, NEW e \in In(m)'
        PROVE  when'[From(e)] > 0 /\ when'[From(e)] < when'[m]
    <3>1. e \in In(m) /\ e \in deps /\ From(e) \in Nodes
      BY <1>5, <1>6 DEF In
    <3>2. CASE m = n
      <4>1. when[From(e)] # 0
        BY <3>1, <3>2, <1>2 DEF Open
      <4>2. From(e) # n
        BY <4>1, <1>2
      <4> QED BY <4>1, <4>2, <3>1, <3>2, <1>1, <1>4 DEF Ordering
    <3>3. CASE m # n
      <4>1. when[From(e)] > 0 /\ when[From(e)] < when[m]
        BY <2>5, <3>1, <3>3, <1>1, <1>4 DEF Ordering
      <4>2. From(e) # n
        BY <4>1, <1>2
      <4> QED BY <4>1, <4>2, <3>1, <3>3, <1>1, <1>4
    <3> QED BY <3>2, <3>3
  <2>6. ASSUME NEW e \in todo'
        PROVE  when'[From(e)] > 0 /\ when'[To(e)] = 0
    <3>1. e \in deps /\ From(e) = n /\ To(e) \in Nodes
      BY <1>1, <1>5 DEF Out
    <3>2. e \in In(To(e))
      BY <3>1 DEF In
    <3>3. To(e) # n
      BY <3>1, <3>2, <1>2 DEF Open
    <3>4. when[To(e)] = 0
      BY <3>1, <3>2, <1>2, <1>4 DEF Ordering
    <3> QED BY <3>1, <3>3, <3>4, <1>1, <1>4
  <2> QED BY <2>3, <2>4, <2>5, <2>6 DEF Ordering
<1>11. Ending'
  BY <1>1 DEF Ending
<1> QED BY <1>3, <1>8, <1>9, <1>10, <1>11

(* One entry is counted off: the set of its node loses exactly it.          *)
LEMMA DecrementInv ==
    ASSUME KahnInv, NEW e \in deps, Decrement(e)
    PROVE  KahnInv'
<1> USE DEF KahnInv
<1>1. /\ e \in todo
      /\ in_degree' = [in_degree EXCEPT ![To(e)] = @ - 1]
      /\ q' = IF ReachesZero(To(e)) THEN q \cup {To(e)} ELSE q
      /\ todo' = todo \ {e}
      /\ deps' = deps /\ visited' = visited /\ result' = result
      /\ when' = when
  BY DEF Decrement
<1>2. \A f \in deps : From(f) \in Nodes /\ To(f) \in Nodes
  BY EntriesFinite
<1> DEFINE n == To(e)
<1>3. n \in Nodes
  BY <1>2
<1>4. \A m : In(m)' = In(m)
  BY <1>1 DEF In
<1>5. when[From(e)] > 0 /\ when \in [Nodes -> Nat]
  BY <1>1 DEF Ordering, KahnTypeOK
<1>6. Open(n)' = Open(n) \ {e} /\ e \in Open(n)
  BY <1>1, <1>2, <1>4, <1>5 DEF Open, In
<1>7. \A m \in Nodes : m # n => Open(m)' = Open(m)
  BY <1>1, <1>4 DEF Open, In
<1>8. /\ Cardinality(Open(n)') = Cardinality(Open(n)) - 1
      /\ Cardinality(Open(n)) \in Nat
      /\ Cardinality(Open(n)') \in Nat
      /\ (Cardinality(Open(n)') = 0) <=> (Open(n)' = {})
  <2>1. IsFiniteSet(Open(n))
    BY EntriesFinite
  <2>2. IsFiniteSet(Open(n)')
    BY <2>1, <1>6, FS_RemoveElement
  <2> QED BY <2>1, <2>2, <1>6, FS_RemoveElement, FS_CardinalityType, FS_EmptySet
<1>9. in_degree[n] = Cardinality(Open(n)) /\ in_degree \in [Nodes -> Nat]
  BY <1>3 DEF Counting, KahnTypeOK
<1>10. KahnTypeOK'
  <2>1. in_degree' \in [Nodes -> Nat]
    BY <1>1, <1>3, <1>8, <1>9
  <2> QED BY <2>1, <1>1, <1>3 DEF KahnTypeOK
<1>11. Counting'
  <2> SUFFICES ASSUME NEW m \in Nodes
               PROVE  in_degree'[m] = Cardinality(Open(m)')
    BY DEF Counting
  <2>1. CASE m = n
    BY <2>1, <1>1, <1>3, <1>8, <1>9
  <2>2. CASE m # n
    BY <2>2, <1>1, <1>7, <1>9 DEF Counting
  <2> QED BY <2>1, <2>2
<1>12. when[n] = 0 /\ n \notin q
  BY <1>1, <1>3, <1>6 DEF Ordering, Queueing
<1>13. Queueing'
  <2> SUFFICES ASSUME NEW m \in Nodes
               PROVE  (m \in q') <=> (when'[m] = 0 /\ Open(m)' = {})
    BY DEF Queueing
  <2>1. CASE m = n
    BY <2>1, <1>1, <1>8, <1>9, <1>12 DEF ReachesZero
  <2>2. CASE m # n
    BY <2>2, <1>1, <1>7 DEF Queueing
  <2> QED BY <2>1, <2>2
<1>14. Ordering'
  <2>1. Done' = Done
    BY <1>1 DEF Done
  <2> QED BY <2>1, <1>1, <1>4 DEF Ordering
<1>15. Ending'
  <2>1. result = "running"
    BY <1>1 DEF Ending
  <2> QED BY <2>1, <1>1 DEF Ending
<1> QED BY <1>10, <1>11, <1>13, <1>14, <1>15

LEMMA DecideInv ==
    ASSUME KahnInv, Decide
    PROVE  KahnInv'
<1> USE DEF KahnInv
<1>1. \A m : Open(m)' = Open(m) /\ In(m)' = In(m)
  BY DEF Decide, Open, In
<1>2. Done' = Done
  BY DEF Decide, Done
<1>3. KahnTypeOK' /\ Ending'
  BY DEF Decide, KahnTypeOK, Ending, AllVisited
<1>4. Counting' /\ Queueing'
  BY <1>1 DEF Decide, Counting, Queueing
<1>5. Ordering'
  BY <1>1, <1>2 DEF Decide, Ordering
<1> QED BY <1>3, <1>4, <1>5

LEMMA KahnStutter ==
    ASSUME KahnInv, UNCHANGED vars
    PROVE  KahnInv'
<1>1. \A m : Open(m)' = Open(m) /\ In(m)' = In(m)
  BY DEF vars, Open, In
<1>2. Done' = Done
  BY DEF vars, Done
<1> QED
  BY <1>1, <1>2 DEF vars, KahnInv, KahnTypeOK, Counting, Queueing, Ordering, Ending

(* The strengthening is inductive. *)
THEOREM KahnInvariance == Spec => []KahnInv
<1>1. KahnInv /\ [Next]_vars => KahnInv'
  <2> SUFFICES ASSUME KahnInv, [Next]_vars PROVE KahnInv'
    OBVIOUS
  <2>1. CASE \E n \in Nodes : Visit(n)
    BY <2>1, VisitInv
  <2>2. CASE \E e \in deps : Decrement(e)
    BY <2>2, DecrementInv
  <2>3. CASE Decide
    BY <2>3, DecideInv
  <2>4. CASE UNCHANGED vars
    BY <2>4, KahnStutter
  <2> QED BY <2>1, <2>2, <2>3, <2>4 DEF Next
<1> QED BY <1>1, KahnInitInv, PTL DEF Spec

(* All nodes visited: the numbers of the visits order the nodes.            *)
THEOREM AcceptanceIsSound == Spec => []AcceptsOnlyDags
<1>1. KahnInv => AcceptsOnlyDags
  <2> SUFFICES ASSUME KahnInv, result = "accepted" PROVE Acyclic
    BY DEF AcceptsOnlyDags
  <2> USE DEF KahnInv
  <2>1. Cardinality(Done) = Cardinality(Nodes)
    BY DEF Ending, Ordering
  <2>2. Done \in SUBSET Nodes
    BY DEF Done
  <2>3. Done = Nodes
    BY <2>1, <2>2, NodesAssumption, FS_Subset
  <2>4. when \in [Nodes -> 0 .. Cardinality(Nodes)]
    <3>1. Cardinality(Nodes) \in Nat /\ visited = Cardinality(Nodes)
      BY NodesAssumption, FS_CardinalityType DEF Ending
    <3>2. \A n \in Nodes : when[n] \in 0 .. Cardinality(Nodes)
      BY <3>1 DEF Ordering, KahnTypeOK
    <3> QED BY <3>2 DEF KahnTypeOK
  <2>5. ASSUME NEW e \in deps PROVE when[From(e)] < when[To(e)]
    <3>1. To(e) \in Nodes /\ e \in In(To(e))
      BY EntriesFinite DEF In
    <3>2. when[To(e)] > 0
      BY <3>1, <2>3 DEF Done
    <3> QED BY <3>1, <3>2 DEF Ordering
  <2> QED BY <2>4, <2>5 DEF Acyclic
<1> QED BY <1>1, KahnInvariance, PTL

(* The nodes never visited wait for one another.                            *)
THEOREM RejectionIsSound == Spec => []RejectsOnlyCycles
<1>1. KahnInv => RejectsOnlyCycles
  <2> SUFFICES ASSUME KahnInv, result = "rejected" PROVE HasCycle
    BY DEF RejectsOnlyCycles
  <2> USE DEF KahnInv
  <2> DEFINE S == {n \in Nodes : when[n] = 0}
  <2>1. todo = {} /\ q = {} /\ Cardinality(Done) # Cardinality(Nodes)
    BY DEF Ending, Ordering
  <2>2. Done # Nodes
    BY <2>1
  <2>3. S # {}
    BY <2>2 DEF Done, KahnTypeOK
  <2>4. ASSUME NEW n \in S PROVE \E e \in In(n) : From(e) \in S
    <3>1. Open(n) # {}
      BY <2>1 DEF Queueing
    <3>2. PICK e \in In(n) : when[From(e)] = 0
      BY <3>1, <2>1 DEF Open
    <3>3. From(e) \in Nodes
      BY EntriesFinite DEF In
    <3> QED BY <3>2, <3>3
  <2>5. Stuck(S)
    BY <2>3, <2>4 DEF Stuck
  <2> QED BY <2>5 DEF HasCycle
<1> QED BY <1>1, KahnInvariance, PTL

-----------------------------------------------------------------------------
(* GraphBuilder: no task has started before there is a graph, and what a    *)
(* started one waits for stays done.                                        *)
BuildInv ==
    /\ deps \subseteq Entries
    /\ task \in [Rows -> {"waiting", "running", "done", "threw"}]
    /\ build \in {"checking", "refused"} => \A r \in Rows : task[r] = "waiting"
    /\ DependenciesFirst

LEMMA TasksAreRows ==
    ASSUME deps \subseteq Entries
    PROVE  \A e \in deps : Tasks(From(e)) \in Rows /\ Tasks(To(e)) \in Rows
BY CopiesAssumption DEF Entries, From, To, Tasks, Rows

(* The guard of a task is about its own dependencies; who depends on it has *)
(* not started, because it was not done.                                    *)
LEMMA StartKeepsOrder ==
    ASSUME BuildInv, NEW r \in Rows, StartTask(r)
    PROVE  BuildInv'
<1>1. /\ build = "built" /\ build' = "built" /\ task[r] = "waiting"
      /\ task' = [task EXCEPT ![r] = "running"] /\ UNCHANGED <<deps, twice>>
      /\ \A p \in Precede : p[2] = r => task[p[1]] = "done"
  BY DEF StartTask, vars
<1>2. /\ task'[r] = "running" /\ \A x \in Rows : x # r => task'[x] = task[x]
      /\ task' \in [Rows -> {"waiting", "running", "done", "threw"}]
  BY <1>1 DEF BuildInv
<1>3. Rows' = Rows /\ \A n : Tasks(n)' = Tasks(n)
  BY <1>1 DEF Rows, Tasks, RowOf
<1>4. ASSUME NEW e \in deps, task'[Tasks(To(e))] # "waiting"
      PROVE  task'[Tasks(From(e))] = "done"
  <2>1. Tasks(From(e)) \in Rows /\ Tasks(To(e)) \in Rows
    BY TasksAreRows DEF BuildInv
  <2>2. task[Tasks(From(e))] = "done"
    <3>1. CASE Tasks(To(e)) = r
      <4>1. <<Tasks(From(e)), Tasks(To(e))>> \in Precede
        BY DEF Precede
      <4>2. QED
        BY <1>1, <3>1, <4>1
    <3>2. CASE Tasks(To(e)) # r
      BY <1>2, <1>4, <2>1, <3>2 DEF BuildInv, DependenciesFirst, Started
    <3>3. QED
      BY <3>1, <3>2
  <2>3. QED
    BY <1>1, <1>2, <2>1, <2>2
<1>5. QED
  BY <1>1, <1>2, <1>3, <1>4 DEF BuildInv, DependenciesFirst, Started

LEMMA EndKeepsOrder ==
    ASSUME BuildInv, NEW r \in Rows, EndTask(r)
    PROVE  BuildInv'
<1>1. PICK outcome \in {"done", "threw"} : task' = [task EXCEPT ![r] = outcome]
  BY DEF EndTask
<1>2. task[r] = "running" /\ UNCHANGED <<deps, twice, build>>
  BY DEF EndTask, vars
<1>3. /\ task'[r] = outcome /\ \A x \in Rows : x # r => task'[x] = task[x]
      /\ task' \in [Rows -> {"waiting", "running", "done", "threw"}]
  BY <1>1 DEF BuildInv
<1>4. Rows' = Rows /\ \A n : Tasks(n)' = Tasks(n)
  BY <1>2 DEF Rows, Tasks, RowOf
<1>5. ASSUME NEW e \in deps, task'[Tasks(To(e))] # "waiting"
      PROVE  task'[Tasks(From(e))] = "done"
  <2>1. Tasks(From(e)) \in Rows /\ Tasks(To(e)) \in Rows
    BY TasksAreRows DEF BuildInv
  <2>2. task[Tasks(To(e))] # "waiting"
    BY <1>2, <1>3, <1>5, <2>1
  <2>3. task[Tasks(From(e))] = "done"
    BY <2>2 DEF BuildInv, DependenciesFirst, Started
  <2>4. QED
    BY <1>2, <1>3, <2>1, <2>3
<1>6. QED
  BY <1>2, <1>3, <1>4, <1>5 DEF BuildInv, DependenciesFirst, Started

(* The strengthening is inductive, whatever the graph is and with two rows  *)
(* for an id or not.                                                        *)
THEOREM BuildInvariance == GBSpec => []BuildInv
<1>1. GBInit => BuildInv
  <2> SUFFICES ASSUME GBInit PROVE BuildInv
    OBVIOUS
  <2>1. deps \subseteq Entries /\ task = [r \in Rows |-> "waiting"]
    BY DEF GBInit, Init
  <2>2. DependenciesFirst
    BY <2>1, TasksAreRows DEF DependenciesFirst, Started
  <2>3. QED
    BY <2>1, <2>2 DEF BuildInv
<1>2. BuildInv /\ [GBNext]_<<vars, gbVars>> => BuildInv'
  <2> SUFFICES ASSUME BuildInv, [GBNext]_<<vars, gbVars>> PROVE BuildInv'
    OBVIOUS
  <2>1. CASE UNCHANGED <<deps, twice, build, task>>
    BY <2>1 DEF BuildInv, DependenciesFirst, Started, Tasks, Rows, RowOf
  <2>2. CASE Next /\ UNCHANGED gbVars
    BY <2>1, <2>2 DEF Next, Visit, Decrement, Decide, gbVars
  <2>3. CASE Refused \/ Build \/ RunReturns
    <3>1. UNCHANGED <<deps, twice, task>> /\ build' \in {"refused", "built", "returned"}
      BY <2>3 DEF Refused, Build, RunReturns, vars
    <3>2. build' = "refused" => build = "checking"
      BY <2>3 DEF Refused, Build, RunReturns
    <3>3. QED
      BY <3>1, <3>2 DEF BuildInv, DependenciesFirst, Started, Tasks, Rows, RowOf
  <2>4. ASSUME NEW r \in Rows, StartTask(r) \/ EndTask(r) PROVE BuildInv'
    BY <2>4, StartKeepsOrder, EndKeepsOrder
  <2>5. CASE UNCHANGED <<vars, gbVars>>
    BY <2>1, <2>5 DEF vars, gbVars
  <2>6. QED
    BY <2>2, <2>3, <2>4, <2>5 DEF GBNext
<1>3. QED
  BY <1>1, <1>2, PTL DEF GBSpec

(* A task starts after what it depends on has ended without an exception.   *)
THEOREM DependenciesComeFirst == GBSpec => []DependenciesFirst
<1>1. BuildInv => DependenciesFirst
  BY DEF BuildInv
<1>2. QED
  BY <1>1, BuildInvariance, PTL

(* build() only looks at the result of the check: whatever the tasks do,    *)
(* what is said about the check holds of it.                                *)
THEOREM BuildRunsTheCheck == GBSpec => Spec
<1>1. GBInit => Init
  BY DEF GBInit
<1>2. [GBNext]_<<vars, gbVars>> => [Next]_vars
  BY DEF GBNext, Refused, Build, RunReturns, StartTask, EndTask
<1>3. QED
  BY <1>1, <1>2, PTL DEF GBSpec, Spec

-----------------------------------------------------------------------------
(* What is built runs to its end.  The order in which the check visited the *)
(* nodes shows for any set of them which one waits for none of the others.  *)
Ready(r) == /\ task[r] = "waiting" /\ ~Cancelled
            /\ \A p \in Precede : p[2] = r => task[p[1]] = "done"
SomeTaskMoves ==
    build = "built" => WaitReturns \/ \E r \in Rows : task[r] = "running" \/ Ready(r)

(* What the tasks have left to do: to start and to end.                     *)
TaskSteps == {p \in Rows \X {1, 2} :
                 task[p[1]] = "waiting" \/ (task[p[1]] = "running" /\ p[2] = 1)}
TasksUseUp ==
    [][build = "built" => /\ TaskSteps' \subseteq TaskSteps
                          /\ TaskSteps' = TaskSteps => build' = "returned"]_<<vars, gbVars>>

LEMMA SomeNodeIsFirst ==
    ASSUME KahnInv, NEW X \in SUBSET Nodes, X # {}
    PROVE  \E n \in X : \A m \in X : ~ (when[m] < when[n])
<1> DEFINE Before(n) == {m \in Nodes : when[m] < when[n]}
           B == {Before(n) : n \in X}
<1>1. B \subseteq FiniteSubsetsOf(Nodes) /\ B # {}
  <2>1. \A n \in X : Before(n) \in SUBSET Nodes
    OBVIOUS
  <2>2. \A T \in SUBSET Nodes : IsFiniteSet(T)
    BY NodesAssumption, FS_Subset
  <2>3. B # {}
    OBVIOUS
  <2>4. QED
    BY <2>1, <2>2, <2>3 DEF FiniteSubsetsOf
<1>2. IsWellFoundedOn(StrictSubsetOrdering(Nodes), FiniteSubsetsOf(Nodes))
  BY FS_StrictSubsetOrderingWellFounded
<1>3. PICK b \in B : \A c \in B : <<c, b>> \notin StrictSubsetOrdering(Nodes)
  BY <1>1, <1>2, WFMin
<1>4. PICK n \in X : b = Before(n)
  BY <1>3
<1>5. ASSUME NEW m \in X, when[m] < when[n] PROVE FALSE
  <2>1. when \in [Nodes -> Nat]
    BY DEF KahnInv, KahnTypeOK
  <2>2. m \in Before(n) /\ m \notin Before(m) /\ Before(m) \subseteq Before(n)
    BY <1>5, <2>1
  <2>3. <<Before(m), Before(n)>> \in StrictSubsetOrdering(Nodes)
    BY <2>2 DEF StrictSubsetOrdering
  <2>4. QED
    BY <1>3, <1>4, <2>3
<1>6. QED
  BY <1>5

LEMMA BuiltMoves ==
    ASSUME KahnInv, BuildInv, build = "built" => result = "accepted"
    PROVE  SomeTaskMoves
<1> SUFFICES ASSUME build = "built", ~WaitReturns, \A r \in Rows : task[r] # "running"
             PROVE  \E r \in Rows : Ready(r)
  BY DEF SomeTaskMoves
<1>1. ~Cancelled /\ task \in [Rows -> {"waiting", "running", "done", "threw"}]
  BY DEF WaitReturns, BuildInv
<1>2. \A r \in Rows : task[r] \in {"waiting", "done"}
  BY <1>1 DEF Cancelled
<1>3. PICK r \in Rows : task[r] = "waiting"
  BY <1>2 DEF WaitReturns
<1>4. CASE \A n \in Nodes : task[Tasks(n)] # "waiting"
  <2>1. \A e \in deps : Tasks(From(e)) \in Rows /\ task[Tasks(From(e))] = "done"
    BY <1>2, <1>4, TasksAreRows, EntriesFinite DEF BuildInv, KahnInv
  <2>2. QED
    BY <1>1, <1>3, <2>1 DEF Ready, Precede
<1>5. CASE \E n \in Nodes : task[Tasks(n)] = "waiting"
  <2> DEFINE X == {n \in Nodes : task[Tasks(n)] = "waiting"}
  <2>1. PICK n \in X : \A m \in X : ~ (when[m] < when[n])
    BY <1>5, SomeNodeIsFirst
  <2>2. \A m \in Nodes : when[m] > 0
    <3>1. visited = Cardinality(Nodes) /\ visited = Cardinality(Done)
      BY DEF KahnInv, Ending, Ordering
    <3>2. Done \in SUBSET Nodes
      BY DEF Done
    <3>3. Done = Nodes
      BY <3>1, <3>2, NodesAssumption, FS_Subset
    <3>4. QED
      BY <3>3 DEF Done
  <2>3. ASSUME NEW e \in deps, Tasks(To(e)) = Tasks(n)
        PROVE  task[Tasks(From(e))] = "done"
    <3>1. To(e) = n /\ e \in In(n) /\ From(e) \in Nodes /\ Tasks(From(e)) \in Rows
      BY <2>3, TasksAreRows, EntriesFinite DEF Tasks, RowOf, In, BuildInv, KahnInv
    <3>2. when[From(e)] < when[n]
      BY <2>2, <3>1 DEF KahnInv, Ordering
    <3>3. QED
      BY <1>2, <2>1, <3>1, <3>2
  <2>4. Tasks(n) \in Rows
    BY CopiesAssumption DEF Tasks, Rows
  <2>5. QED
    BY <1>1, <2>1, <2>3, <2>4 DEF Ready, Precede
<1>6. QED
  BY <1>4, <1>5

LEMMA BuiltUsesUp ==
    ASSUME KahnInv, BuildInv, build = "built", result = "accepted", GBNext
    PROVE  /\ TaskSteps' \subseteq TaskSteps
           /\ TaskSteps' = TaskSteps => build' = "returned"
<1>1. task \in [Rows -> {"waiting", "running", "done", "threw"}]
  BY DEF BuildInv
<1>2. ASSUME NEW r \in Rows, StartTask(r)
      PROVE  TaskSteps' \subseteq TaskSteps /\ TaskSteps' # TaskSteps
  <2>1. /\ Rows' = Rows /\ task[r] = "waiting" /\ task'[r] = "running"
        /\ \A x \in Rows : x # r => task'[x] = task[x]
    BY <1>1, <1>2 DEF StartTask, Rows, RowOf
  <2>2. <<r, 2>> \in TaskSteps /\ <<r, 2>> \notin TaskSteps'
    BY <2>1 DEF TaskSteps
  <2>3. TaskSteps' \subseteq TaskSteps
    BY <2>1 DEF TaskSteps
  <2>4. QED
    BY <2>2, <2>3
<1>3. ASSUME NEW r \in Rows, EndTask(r)
      PROVE  TaskSteps' \subseteq TaskSteps /\ TaskSteps' # TaskSteps
  <2>1. /\ Rows' = Rows /\ task[r] = "running" /\ task'[r] \in {"done", "threw"}
        /\ \A x \in Rows : x # r => task'[x] = task[x]
    BY <1>1, <1>3 DEF EndTask, Rows, RowOf
  <2>2. <<r, 1>> \in TaskSteps /\ <<r, 1>> \notin TaskSteps'
    BY <2>1 DEF TaskSteps
  <2>3. TaskSteps' \subseteq TaskSteps
    BY <2>1 DEF TaskSteps
  <2>4. QED
    BY <2>2, <2>3
<1>4. ~Next
  BY DEF Next, Visit, Decrement, Decide, KahnInv, Ending
<1>5. CASE RunReturns
  BY <1>5 DEF RunReturns, TaskSteps, Rows, RowOf
<1>6. QED
  BY <1>2, <1>3, <1>4, <1>5 DEF GBNext, Refused, Build

(* A graph that was built, with two rows for an id or not: in every state   *)
(* a task can start or end, or wait() can return; each start and each end   *)
(* is one of finitely many that have not been yet, so that run() returns.   *)
THEOREM BuiltRunsOut ==
    GBSpec => []SomeTaskMoves /\ TasksUseUp /\ []IsFiniteSet(TaskSteps)
<1> DEFINE Accepted == build = "built" => result = "accepted"
           UsesUp == build = "built" => /\ TaskSteps' \subseteq TaskSteps
                                        /\ TaskSteps' = TaskSteps => build' = "returned"
<1>1. GBSpec => []KahnInv
  BY BuildRunsTheCheck, KahnInvariance, PTL
<1>2. GBInit => Accepted
  BY DEF GBInit
<1>3. Accepted /\ [GBNext]_<<vars, gbVars>> => Accepted'
  BY DEF GBNext, Next, Visit, Decrement, Decide, Refused, Build, RunReturns, StartTask, EndTask,
         vars, gbVars
<1>4. KahnInv /\ BuildInv /\ Accepted => SomeTaskMoves
  BY BuiltMoves
<1>5. KahnInv /\ BuildInv /\ Accepted /\ [GBNext]_<<vars, gbVars>> => [UsesUp]_<<vars, gbVars>>
  BY BuiltUsesUp
<1>6. GBSpec => []Accepted
  BY <1>2, <1>3, PTL DEF GBSpec
<1>7. IsFiniteSet(TaskSteps)
  <2>1. IsFiniteSet((Nodes \X Copies) \X {1, 2})
    <3>1. IsFiniteSet(Nodes) /\ IsFiniteSet(Copies) /\ IsFiniteSet({1, 2})
      BY CopiesAssumption, NodesAssumption
    <3>2. QED
      BY <3>1, FS_Product
  <2>2. TaskSteps \in SUBSET ((Nodes \X Copies) \X {1, 2})
    BY CopiesAssumption DEF TaskSteps, Rows, RowOf
  <2>3. QED
    BY <2>1, <2>2, FS_Subset
<1>8. QED
  BY <1>1, <1>4, <1>5, <1>6, <1>7, BuildInvariance, PTL DEF GBSpec, TasksUseUp
=============================================================================
