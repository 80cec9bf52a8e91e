---------------------------- MODULE ConfigReload ----------------------------
(***************************************************************************)
(* The graph of the engine while it is loaded, reloaded and run:           *)
(* loadConfig() as called by onConfigChanged(), one action per element of  *)
(* its loops, against run() and the tasks that use what it rebuilds.       *)
(*                                                                         *)
(* Here every node succeeds, and to decrement a counter and to schedule the *)
(* node it releases is one action: module WorkflowEngine has the detail, on *)
(* a graph that does not change.                                            *)
(***************************************************************************)
EXTENDS Integers, Sequences, FiniteSets, Functions

CONSTANTS
    Ids,
    NoDocument, \* what a loader that has read nothing holds
    Documents,  \* what the configuration file may hold: well-formed or not,
                \* and its nodes: an id, a "type" or not, the dependencies
    Loaders,    \* threads that call onConfigChanged()
    MaxCalls    \* bound: how many loads and runs begin

ASSUME DocumentsAssumption ==
    \A d \in Documents :
        /\ d.wellformed \in BOOLEAN
        /\ d.nodes \in Seq([id : Ids, typed : BOOLEAN, deps : Seq(Ids)])

VARIABLES
    node_configs_,  \* sequence of ids with their dependencies
    node_states_,   \* by id: pending, uncompleted_deps, downstream
    generation,     \* history: how often node_states_ has been cleared
    calls,          \* history: loads and runs that began
    outcome,        \* how the last load ended, "ok" or "error"; "none" before
                    \* the first one, "exit" if that one fails
    pc, text, i,    \* of a loader: where it is, what it read, loop index
    cpc, ci,        \* the same of the client thread that calls run()
    latch, tasks,   \* of the run: its latch, its tasks with the generation
                    \* of the state they refer to (0: not started) and the
                    \* entry of downstream they are at (0: not counted down)
    fault           \* the first access to a state that does not exist

config == <<node_configs_, node_states_, generation, outcome>>
loader == <<pc, text, i>>
client == <<cpc, ci, latch, tasks, fault>>
vars   == <<calls, config, loader, client>>

Count(s, x) == Cardinality({k \in DOMAIN s : s[k] = x})
Declared    == {cfg.id : cfg \in Range(node_configs_)}
Known       == DOMAIN node_states_

(* What validateDAG decides (see ValidateDAG), on the graph as installed.   *)
Acyclic_Mutant == TRUE
Acyclic ==
    \A S \in (SUBSET Known) \ {{}} : \E n \in S :
        \A m \in S : Count(node_states_[m].downstream, n) = 0

NewState == [pending |-> TRUE, left |-> 0, downstream |-> <<>>]
Entry(n) == [id |-> n.id, deps |-> n.deps]

Valid(d) ==
    LET ids == {n.id : n \in Range(d.nodes)}
    IN  /\ d.wellformed
        /\ \A n \in Range(d.nodes) : n.typed /\ Range(n.deps) \subseteq ids
        /\ Cardinality(ids) = Len(d.nodes)
        /\ \A S \in (SUBSET Range(d.nodes)) \ {{}} :
               \E n \in S : \A m \in S : m.id \notin Range(n.deps)

Init ==
    /\ node_configs_ = <<>> /\ node_states_ = <<>>
    /\ generation = 1 /\ outcome = "none"
    /\ pc = [t \in Loaders |-> "idle"] /\ calls = 0
    /\ text = [t \in Loaders |-> NoDocument] /\ i = [t \in Loaders |-> 1]
    /\ cpc = "outside" /\ ci = 1 /\ latch = 0 /\ tasks = {} /\ fault = "none"

-----------------------------------------------------------------------------
Goto(t, label, k) == /\ pc' = [pc EXCEPT ![t] = label]
                     /\ i' = [i EXCEPT ![t] = k]

(* loadConfig() returns or throws.  The first load is that of main(), which  *)
(* exits when it throws; onConfigChanged() swallows what later ones throw.  *)
End(t, how) ==
    /\ outcome' = IF outcome = "none" /\ how = "error" THEN "exit" ELSE how
    /\ Goto(t, "idle", 1)

Quiet == \A t \in Loaders : pc[t] = "idle"

(* The file has been edited to hold d.  What cannot be parsed throws before  *)
(* anything is changed.                                                     *)
Read(t, d) ==
    /\ pc[t] = "idle" /\ calls < MaxCalls
    /\ outcome = "none" => Quiet
    /\ calls' = calls + 1
    /\ text' = [text EXCEPT ![t] = d]
    /\ IF d.wellformed
       THEN Goto(t, "clear", 1) /\ UNCHANGED outcome
       ELSE End(t, "error")
    /\ UNCHANGED <<node_configs_, node_states_, generation, client>>

ClearConfigs(t) ==
    /\ pc[t] = "clear"
    /\ node_configs_' = <<>>
    /\ Goto(t, "entry", 1)
    /\ UNCHANGED <<node_states_, generation, outcome, calls, text, client>>

ReadEntry(t) ==
    /\ pc[t] = "entry" /\ i[t] <= Len(text[t].nodes)
    /\ LET n == text[t].nodes[i[t]]
       IN  IF n.typed
           THEN /\ node_configs_' = Append(node_configs_, Entry(n))
                /\ Goto(t, "entry", i[t] + 1) /\ UNCHANGED outcome
           ELSE End(t, "error") /\ UNCHANGED node_configs_
    /\ UNCHANGED <<node_states_, generation, calls, text, client>>

ClearStates(t) ==
    /\ pc[t] = "entry" /\ i[t] > Len(text[t].nodes)
    /\ node_states_' = <<>> /\ generation' = generation + 1
    /\ Goto(t, "insert", 1)
    /\ UNCHANGED <<node_configs_, outcome, calls, text, client>>

(* A second state of the same id throws.                                    *)
Duplicate_Mutant(id) == FALSE
Duplicate(id)        == id \in Known

InsertState(t) ==
    /\ pc[t] = "insert" /\ i[t] <= Len(node_configs_)
    /\ LET id == node_configs_[i[t]].id
       IN  IF Duplicate(id)
           THEN End(t, "error") /\ UNCHANGED node_states_
           ELSE /\ node_states_' = [n \in Known \cup {id} |->
                        IF n = id THEN NewState ELSE node_states_[n]]
                /\ Goto(t, "insert", i[t] + 1) /\ UNCHANGED outcome
    /\ UNCHANGED <<node_configs_, generation, calls, text, client>>

CheckDependencies(t) ==
    /\ pc[t] = "insert" /\ i[t] > Len(node_configs_)
    /\ IF \A cfg \in Range(node_configs_) : Range(cfg.deps) \subseteq Known
       THEN Goto(t, "link", 1) /\ UNCHANGED outcome
       ELSE End(t, "error")
    /\ UNCHANGED <<node_configs_, node_states_, generation, calls, text,
                   client>>

(* One element of the outer loop; at(dep) throws when the entry is gone.    *)
Linked(cfg) ==
    [n \in Known |-> [node_states_[n] EXCEPT !.downstream =
        @ \o [k \in 1 .. Count(cfg.deps, n) |-> cfg.id]]]

Link(t) ==
    /\ pc[t] = "link" /\ i[t] <= Len(node_configs_)
    /\ LET cfg == node_configs_[i[t]]
       IN  IF Range(cfg.deps) \subseteq Known
           THEN /\ node_states_' = Linked(cfg)
                /\ Goto(t, "link", i[t] + 1) /\ UNCHANGED outcome
           ELSE End(t, "error") /\ UNCHANGED node_states_
    /\ UNCHANGED <<node_configs_, generation, calls, text, client>>

Validate(t) ==
    /\ pc[t] = "link" /\ i[t] > Len(node_configs_)
    /\ End(t, IF Acyclic THEN "ok" ELSE "error")
    /\ UNCHANGED <<node_configs_, node_states_, generation, calls, text,
                   client>>

Load(t) == \/ ClearConfigs(t) \/ ReadEntry(t) \/ ClearStates(t)
           \/ InsertState(t) \/ CheckDependencies(t) \/ Link(t) \/ Validate(t)

-----------------------------------------------------------------------------
(* run().  Indexing node_states_ with an id it lacks makes a null state.    *)
Missing    == fault' = "missing_state"
Queued(id) == [id |-> id, gen |-> 0, next |-> 0]

Run ==
    /\ cpc = "outside" /\ outcome # "none"
    /\ node_configs_ # <<>> /\ calls < MaxCalls
    /\ calls' = calls + 1
    /\ latch' = Len(node_configs_) /\ ci' = 1 /\ cpc' = "reset"
    /\ UNCHANGED <<config, loader, tasks, fault>>

ResetNode ==
    /\ cpc = "reset" /\ ci <= Len(node_configs_)
    /\ LET cfg == node_configs_[ci]
       IN  IF cfg.id \in Known
           THEN /\ node_states_' = [node_states_ EXCEPT
                        ![cfg.id].pending = TRUE, ![cfg.id].left = Len(cfg.deps)]
                /\ UNCHANGED fault
           ELSE Missing /\ UNCHANGED node_states_
    /\ ci' = ci + 1
    /\ UNCHANGED <<calls, node_configs_, generation, outcome, loader, cpc, latch,
                   tasks>>

AllReset ==
    /\ cpc = "reset" /\ ci > Len(node_configs_)
    /\ cpc' = "roots" /\ ci' = 1
    /\ UNCHANGED <<calls, config, loader, latch, tasks, fault>>

ScheduleRoot ==
    /\ cpc = "roots" /\ ci <= Len(node_configs_)
    /\ ci' = ci + 1
    /\ LET cfg == node_configs_[ci]
       IN  IF cfg.deps # <<>> THEN UNCHANGED <<node_states_, tasks, fault>>
           ELSE IF cfg.id \notin Known
           THEN Missing /\ UNCHANGED <<node_states_, tasks>>
           ELSE /\ node_states_' = [node_states_ EXCEPT ![cfg.id].pending = FALSE]
                /\ tasks' = IF node_states_[cfg.id].pending
                            THEN tasks \cup {Queued(cfg.id)}
                            ELSE tasks
                /\ UNCHANGED fault
    /\ UNCHANGED <<calls, node_configs_, generation, outcome, loader, cpc, latch>>

RunReturns ==
    /\ cpc = "roots" /\ ci > Len(node_configs_)
    /\ cpc' = "wait"
    /\ UNCHANGED <<calls, config, loader, ci, latch, tasks, fault>>

WaitReturns ==
    /\ cpc = "wait" /\ latch = 0
    /\ cpc' = "outside"
    /\ UNCHANGED <<calls, config, loader, ci, latch, tasks, fault>>

(* executeNode() takes a reference to the state and keeps it to the end.    *)
TaskStarts(k) ==
    /\ k \in tasks /\ k.gen = 0
    /\ IF k.id \in Known
       THEN /\ tasks' = (tasks \ {k}) \cup {[k EXCEPT !.gen = generation]}
            /\ UNCHANGED fault
       ELSE Missing /\ UNCHANGED tasks
    /\ UNCHANGED <<calls, config, loader, cpc, ci, latch>>

Dangling(k) == k.gen # generation
Destroyed   == fault' = "dangling_reference"

(* The verdict is stored and the latch counted down before the task looks   *)
(* at what depends on its node.                                             *)
CountDown(k) ==
    /\ k \in tasks /\ k.gen # 0 /\ k.next = 0
    /\ IF Dangling(k)
       THEN Destroyed /\ UNCHANGED <<tasks, latch>>
       ELSE /\ latch' = latch - 1
            /\ tasks' = (tasks \ {k}) \cup {[k EXCEPT !.next = 1]}
            /\ UNCHANGED fault
    /\ UNCHANGED <<calls, config, loader, cpc, ci>>

(* The loop over downstream: begin() and end() of the list are read once,   *)
(* also of one without entries; each entry is a decrement, and the last one *)
(* that a node waits for schedules it.                                      *)
LastOne_Mutant(n) == node_states_[n].left = 0
LastOne(n)        == node_states_[n].left = 1

Release(n, k, after) ==
    LET ready == LastOne(n) /\ node_states_[n].pending
    IN  /\ node_states_' = [node_states_ EXCEPT
                ![n].left = @ - 1, ![n].pending = @ /\ ~ready]
        /\ tasks' = (tasks \ {k}) \cup after
                        \cup (IF ready THEN {Queued(n)} ELSE {})

Walk(k) ==
    /\ k \in tasks /\ k.next # 0
    /\ IF Dangling(k) THEN Destroyed /\ UNCHANGED <<node_states_, tasks>>
       ELSE LET ds == node_states_[k.id].downstream
            IN  IF ds = <<>>
                THEN tasks' = tasks \ {k} /\ UNCHANGED <<node_states_, fault>>
                ELSE IF ds[k.next] \notin Known
                THEN Missing /\ UNCHANGED <<node_states_, tasks>>
                ELSE /\ Release(ds[k.next], k,
                            IF k.next = Len(ds) THEN {}
                            ELSE {[k EXCEPT !.next = @ + 1]})
                     /\ UNCHANGED fault
    /\ UNCHANGED <<calls, node_configs_, generation, outcome, loader, cpc, ci,
                   latch>>

RunSteps == \/ ResetNode \/ AllReset \/ ScheduleRoot \/ RunReturns
            \/ WaitReturns
            \/ \E k \in tasks :
                TaskStarts(k) \/ CountDown(k) \/ Walk(k)

-----------------------------------------------------------------------------
(* What the code enforces: nothing keeps the threads apart.                 *)
Up == fault = "none" /\ outcome # "exit"
Next ==
    /\ Up
    /\ \/ Run \/ RunSteps
       \/ \E t \in Loaders : Load(t) \/ \E d \in Documents : Read(t, d)
Spec == Init /\ [][Next]_vars

(* One load or one run at a time: each begins when the calls before it have *)
(* returned, waitForCompletion() after run().  That is not enough: the task *)
(* that opened the latch may still be in its loop over downstream, and the  *)
(* load destroys what it refers to.                                         *)
InTurns == Quiet /\ cpc = "outside"
SerialNext ==
    /\ Up
    /\ \/ RunSteps \/ \E t \in Loaders : Load(t)
       \/ InTurns /\ (Run \/ \E t \in Loaders, d \in Documents : Read(t, d))
SerialSpec == Init /\ [][SerialNext]_vars

(* What the code needs: one load or one run at a time, each of them begun   *)
(* when the pool is idle.  Nothing in the interface tells a caller when.    *)
PoolIdle == tasks = {}
QuietNext ==
    /\ Up
    /\ \/ RunSteps \/ \E t \in Loaders : Load(t)
       \/ /\ InTurns /\ PoolIdle
          /\ Run \/ \E t \in Loaders, d \in Documents : Read(t, d)
QuietSpec == Init /\ [][QuietNext]_vars

-----------------------------------------------------------------------------
(* Properties.                                                              *)

(* The two containers describe one DAG: the ids agree, downstream lists are *)
(* the dependency lists turned round, with their repetitions.               *)
Consistent ==
    /\ Declared = Known /\ Cardinality(Declared) = Len(node_configs_)
    /\ \A cfg \in Range(node_configs_) : \A n \in Ids :
           Count(cfg.deps, n) =
               IF n \in Known THEN Count(node_states_[n].downstream, cfg.id) ELSE 0
    /\ \A S \in (SUBSET Range(node_configs_)) \ {{}} :
           \E c \in S : \A d \in S : d.id \notin Range(c.deps)

(* A load that reports success leaves a graph that can be run.              *)
LoadedIsRunnable == Quiet /\ outcome = "ok" => Consistent

(* onConfigChanged() counts a reload exactly when the document it read is   *)
(* a configuration: parsed, typed, without duplicates, ghosts and cycles.   *)
LoadVerdictExact ==
    [][\A t \in Loaders : pc[t] # "idle" /\ pc'[t] = "idle" =>
          (outcome' = "ok" <=> Valid(text[t]))]_vars

(* After a load that succeeded a run finds every state it needs, as do its  *)
(* tasks to their last access, and it never waits for a latch that no task  *)
(* is left to count down (QuietSpec; not so under SerialSpec).              *)
Hung == cpc = "wait" /\ tasks = {} /\ latch # 0
RunAfterGoodLoad == outcome = "ok" => fault = "none" /\ ~Hung
=============================================================================
