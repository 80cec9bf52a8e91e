# Verification of cpp20-workflow-engine

TLA+ models of the engine, the TLC configurations that check them on small
instances, and theorems that TLAPS checks for instances of any size.

## The system

A daemon loads a JSON file that describes a DAG of nodes, runs the nodes on a
thread pool in dependency order, reloads plugins and the file while it lives, and
answers commands on a Unix socket.

| Component | Source | State | Operations |
|---|---|---|---|
| WorkflowEngine | `src/src/WorkflowEngine.cpp` | `running_`, `completion_latch_`, per node `node_state` and `uncompleted_deps`, `downstream` lists | `run`, `waitForCompletion`, `scheduleNode`, `executeNode`, `cancelNodeAndDownstream` |
| its configuration | same file, `loadConfig`, `validateDAG` | `node_configs_`, `node_states_` | `loadConfig`, `onConfigChanged` |
| NodeExecutionWrapper, NodeState | `src/include/` | attempt count, verdict | `execute`, `executeOnce` |
| ThreadPool | `src/src/ThreadPool.cpp` | queue of tasks, `stop_` | `enqueue`, destructor |
| ExecutionContext | `src/src/ExecutionContext.cpp` | typed map under a shared mutex | `set`, `get`, `has`, `remove`, `clear`, the C interface |
| EngineMetrics | `src/include/EngineMetrics.h` | four counters | `record...` |
| LockFreeRingBuffer | `src/include/LockFreeRingBuffer.h` | slots with sequence numbers, `write_pos_`, `read_pos_` | `push`, `pop` |
| AsyncLogger | `src/include/AsyncLogger.h` | ring, background thread, sink | `log`, `flush`, destructor |
| PluginManager, PluginNodeAdapter | `src/src/PluginManager.cpp`, `src/include/PluginNodeAdapter.h` | the current node, its handle in a deleter | `reload`, `getNode` |
| PluginRegistry | `src/core/PluginRegistry.cpp` | map of factories under a shared mutex | `register_node`, `create`, `has` |
| ConfigWatcher | `src/src/ConfigWatcher.cpp` | inotify queue, eventfd, thread | `watchLoop`, destructor |
| ControlPlane | `src/core/ControlPlane.cpp` | acceptor, handlers, one thread | `do_accept`, `handle_session`, `dispatch` |
| workflow-cli | `src/tools/workflow-cli.cpp` | a connection and two timeouts | connect, send, receive |
| Daemon | `src/src/main.cpp` | stop flags, all of the above | start, RELOAD, STOP, STATUS, shut down |
| GraphBuilder | `src/core/GraphBuilder.cpp` | a Taskflow graph | `check_cycles`, `build`, `run` |
| LlmTextAnalyzer | `src/plugins/llm_text_analyzer_plugin.cpp` | worker threads, counters, output and temporary files | `execute`, `processFile`, the HTTP client |
| LlmAudioEditor | `src/plugins/llm_audio_editor_plugin.cpp` | worker threads, counters, temporary files, pipes and children | `execute`, `executeEditCommand`, `runCommand` |

How they interact. Client threads call the engine; `run()` posts the roots to the
pool, and a pool thread that ends a node posts or cancels its dependents and counts
the latch down that `waitForCompletion()` blocks on. A task asks the registry for a
node, whose factory takes a reference to the plugin manager's current one. Every
step logs to the ring, which a background thread empties. The watcher's thread and
the control plane's thread both call `PluginManager::reload` and
`onConfigChanged`. `GraphBuilder` is a second way to run a graph, on a Taskflow
executor instead of the engine. The two LLM nodes share a directory: the first
writes analyses into it, the second carries out the commands it finds there. Nothing
in the engine locks: atomics, one compare-exchange per state change and the latch are
all there is.

What is hard about it, and what makes each part right:

- *Engine.* A node is released by the last of several concurrent decrements, or
  cancelled by a failing dependency at the same moment. Right means: no node before
  its dependencies, no node twice, every node counted down exactly once, the outcome
  a function of what the nodes do and not of the schedule, no wait without end.
- *Loading.* The containers are cleared before the new content is checked, and
  nothing keeps a load from a run or from another load. Right means: a good load
  leaves a graph that can be run to its end, a bad one is refused.
- *Ring and logger.* Several producers, one consumer, sequence numbers that tell
  a free slot from a published one over any number of laps. Right means: no two
  threads at one slot's data, FIFO, "full" only when full, every accepted event
  reaches the sink once and in order, shutdown ends and loses nothing.
- *Plugins.* A library is closed when the last reference to its node goes,
  wherever that happens. Right means: no code is unmapped that can still be called,
  every handle is closed once.
- *Watcher, control plane, client, daemon.* Merged and lost notifications, partial
  reads, clients that say nothing, a shutdown that has to reach three threads. Right
  means: a reported edit is read, a client holds up the others no longer than its session
  takes, the process ends when it is told to, and nothing is destroyed that a thread
  uses. (A client that stays silent breaks the second and the third: finding 4.)
- *GraphBuilder.* Doubled ids, tasks that throw. Right means: a graph that passes
  runs in order and to its end.
- *The LLM nodes.* Cut answers, names made from stems or from the process id that
  several workers share, children that inherit pipes. Right means: each input is
  counted once, an output is whole, nothing temporary stays, and no worker waits for
  something nobody will do.

`PROJECT.json` lists each hazard at its line, with the properties that would catch it going
wrong. Where the code itself goes wrong, or a property holds only because it leaves the case out,
no property is named and the note says why.

## Modules

| Module | Models |
|---|---|
| `DagRun` | What a run promises: an abstract specification, nodes go Pending, Running, verdict; a node starts when all it needs has succeeded and is cancelled when something has not |
| `WorkflowEngine` | `run`, `waitForCompletion` and the tasks, one action per atomic access or per call that changes shared state |
| `WorkflowEngineProofs` | Its inductive invariant and theorems, the refinement of `DagRun` |
| `MCWorkflowEngine` | Graphs for TLC |
| `ValidateDAG`, `ValidateDAGProofs` | Kahn's cycle check (`validateDAG` and `GraphBuilder::check_cycles`), its proof and that of `GraphBuilder` |
| `ConfigReload`, `MCConfigReload` | `loadConfig`/`onConfigChanged` loop step by loop step, against `run()` and its tasks; documents for TLC |
| `ConfigReloadProofs` | Loads and runs that begin with an idle pool: its inductive invariant and theorems |
| `BoundedQueue` | What the ring promises: a bounded FIFO queue that refuses only when it was full |
| `LockFreeRingBuffer` | `push` and `pop`, one action per atomic access, the unsynchronised move of the data as two |
| `LockFreeRingBufferProofs` | No data race, the refinement of `BoundedQueue` |
| `AsyncLogger` | EXTENDS the ring with the logger: the background loop, `flush()`, the destructor |
| `AsyncLoggerProofs` | EXTENDS the ring's proofs: a logger that nobody flushes |
| `PluginManager`, `PluginManagerProofs` | `reload()`, the shared pointer and its deleter, adapters, the dynamic loader; mapped code and balanced handles proved |
| `GraphBuilder` | EXTENDS `ValidateDAG` with `build()`, the tasks and the executor |
| `ControlPlane` | the accept loop, a session, `workflow-cli` |
| `ConfigWatcher` | the file, the inotify queue, `watchLoop()` |
| `Daemon`, `DaemonProofs` | EXTENDS both with the handlers, the callback and the shutdown of `main()`; its safety proved |
| `RunCommand` | `runCommand()` for several workers: pipes, fork, streams, waiting |
| `LlmTextAnalyzer` | the analyzer's workers, its answers and its files |
| `LlmAudioEditor` | EXTENDS `RunCommand` with the commands, their temporary files and outputs |
| `LlmPipeline`, `MCLlmPipeline` | EXTENDS both plugins: one node after the other; inputs and commands for TLC |
| `LlmPipelineProofs` | The safety of both plugins and of `RunCommand` in the pipeline |

### WorkflowEngine

Variables carry the names of the members. `posted` is the pool's queue (a bag of
node ids that the code never lets exceed one each: part of `TypeOK`). `cpc` and
`ctodo` say where a client thread is in `run()` or `waitForCompletion()` and which
nodes its loop has left; `pc`, `subject`, `verdict`, `attempt` and `todo` say the
same of a pool thread. A dependency entry is an *edge* with a source and a target, so a
list that names a node twice gives two edges, as two entries of `downstream`.

| Action | Code |
|---|---|
| `Run`, `NewLatch`, `ResetNode`, `ClearContext`, `ScheduleRoot`, `RunReturns` | `run()`, 300-338 |
| `WaitForCompletion`, `LatchOpens`, `AllowNextRun` | `waitForCompletion()`, 344-350 |
| `Dequeue`, `CreateNode`, `CreateEscapes` | the head of `executeNode()`, with the factory |
| `AttemptSucceeds`, `AttemptFails`, `AttemptsExhausted` | `NodeExecutionWrapper::execute()` |
| `StoreVerdict`, `RecordMetric`, `CountDown` | the three shared writes that follow, in their order |
| `ReleaseDownstream`, `CancelDownstream`, `TaskReturns` | the loop over `downstream`: decrement and schedule, or cascade |

The loops over nodes and edges take their elements in any order: `node_configs_`
may list them in any, and the explicit stack of the cascade only fixes one.
`scheduleNode`'s compare-exchange and the post are one action, since nothing reads
the queue between them. What a node does is a choice of success or failure per
attempt; a factory throws a `std::exception` (a failed node) or, for nodes in
`ForeignThrow`, anything else, which ends in the future that `scheduleNode` drops.

Two specifications share these actions. `Spec` is what the code enforces: any client
thread calls at any time. `OrderlySpec` is what the code needs: one call at a
time, and `run()` again only when the pool is idle. The distance between them is
a finding (`join_restart`): a single thread that calls `run(); waitForCompletion();
run();` as the documentation shows leaves `OrderlySpec`, because the last task opens
the latch before it is done.

### ConfigReload and ValidateDAG

`ConfigReload` has one action per iteration of the loops of `loadConfig`, so that
its throws leave exactly the half-built containers that the code leaves. A
document is a record: well-formed or not, and its nodes with id, type or none, and
dependencies. `generation` counts how often the states were destroyed: a task keeps
the generation of the reference it took, and touching an older one, or a state that
is not there, is recorded in `fault` and stops the behaviour, as it may the program. Every
node succeeds. `TaskStarts` takes the reference, `CountDown` stores the verdict and counts
the latch down, and each `Walk` is one entry of the loop over `downstream`, so that the latch
opens while its last task still has its list to walk, as in the code. `Walk`
decrements and releases in one action, because `WorkflowEngine` has that in detail; `Acyclic`
stands for what `ValidateDAG` shows the loop to decide.

Three specifications share the actions. `Spec` is what the code enforces. Under it two
threads may be inside the containers at once, a data race for which the model has only
the outcomes of interleaved iterations; they are enough for a finding, and no property is
claimed to hold there. `SerialSpec` has one load or one run at a time, each begun when the
calls before it have returned: what a caller can arrange. It is not enough. With
`SPECIFICATION SerialSpec` in `reload.cfg` TLC finds `RunAfterGoodLoad` violated: a load begins
after `waitForCompletion()`, clears `node_states_` (216), and the last task of the run goes on
along the list of a state that is gone. It is the gap of `join_restart`, met by a load
instead of a run. `QuietSpec` is what the code needs: each load and each run begins
when the pool is idle. No function of the engine tells a caller when that is.

`ValidateDAG` is a loop over a variable `deps` that no step changes: one run covers
every graph up to the bound. Entries have a copy number, so lists with repetitions
are covered.

### Ring and logger

A thread's `pc` is its place in `push` or `pop`, `pos` its local, `item` the event in
its hand. `WriteData`/`Publish` and `MoveData`/`FreeSlot` are apart, so that a slot
whose data two threads reach at once shows (`NoDataRace`). Memory is
sequentially consistent: the code's acquire/release pairs are on `seq`, the only
variable that orders other accesses, and the relaxed positions are confirmed by a
compare-exchange or written by one thread. `BoundedQueue` is refined with a push at its
claim and a pop where the slot is freed; "refuse" is allowed only if the queue was
full at some moment of the call, which is what the stale sequence number means.
`write_pos_` is capped by `MaxPushes`; positions are 64-bit in the code and do not wrap.

`AsyncLogger` adds what each consumer thread is doing: the background thread alternates between
reading the stop token and a batch, a caller of `flush()` drains, the owner stops,
joins and drains. Formatting and the sleep between batches are left out.

### PluginManager

`handles` and `library` are the dynamic loader's reference count and mapping for the
one path that the daemon uses: `dlopen` maps the file only when nothing is mapped.
`Rebind` is every assignment to a shared pointer: if it drops the last reference to a
node, the deleter runs in the same step. `CreateThrows` is a `create_node` that throws
past `reload()`, after which nothing closes the handle; `leaked` counts those.
`Dlopen` and `CreateNode` show what becomes of a recompiled plugin: while a node of
the old build is alive, the node that is created is of the old build too.

### ControlPlane, ConfigWatcher and Daemon

`Daemon` has the three threads of the process. `server` and `job["control"]` are the
place of the control thread, `watch` and `job["watcher"]` that of the watcher's,
`main` that of the main thread; `left` are the locals of `main()` that are not yet
destroyed. The start-up is over in `Init`.

| Action | Code |
|---|---|
| `Connect`, `Send`, `Receive`, `GiveUp` | `workflow-cli`, a client that is killed, too |
| `Accept`, `AcceptFails`, `RunReturns` | `do_accept()`, `start_control_plane()` |
| `Read`, `ReadFails`, `Refuse`, `EndSession` | `handle_session()`, `dispatch()` |
| `Save`, `Rename`, `OtherFile` | the editor and the kernel (external) |
| `Poll`, `NextEvent`, `CallbackReturns` | `watchLoop()` |
| `Reload`, `Status`, `Stop`, `StopAnswered`, `Callback` | the handlers and the callback of `main()` |
| `PluginReloaded`, `PluginThrows`, `Load`, `Install` | the steps of a reload on either thread |
| `Signal`, `Shutdown`, `Join`, `StopWatcher`, `Destroy` | the flags, the end of `main()` |

There is no deadline in a session. The code sets `SO_RCVTIMEO`, but the `read_some()`
of Boost.Asio on a blocking socket answers `EAGAIN` with a `poll()` that has no timeout: it
returns for data, for the end of file or an error. `ReadFails` is therefore the step of a session
whose client has hung up (`HungUp`). The client's own three seconds are `GiveUp`, which may
happen at any time before the answer, as may its death.
The command is read with one `read_some()`, so that a piece of a command is one more
unknown command: `"other"`. The version of the file is a number that each edit
raises; what the watcher's last reload has read, against the version that the last event told of, is
what `EditsAreRead` is about. A reload is three steps here, since `PluginManager` and `ConfigReload`
have its detail.

### GraphBuilder

`twice` are the ids that two rows of the document have. The cycle check merges them
and the map of tasks keeps the last one, so that `Precede` relates last rows only.
The executor is external: a task starts when those that precede it are done, an
exception stops the starting of others, `wait()` returns when none is running.

### The LLM pipeline

`LlmTextAnalyzer` gives each temporary file and each output an inode (named for the
input that created it): a rename moves the inode that another worker, with
an input of the same stem, may have open. The content of an inode is the set of inputs whose
text was written to it, with `Cut` if an answer was not complete. `post` is the set
of results of one request: every length at which the answer can end,
every status the code tells apart. `splitText` is the constant `Segments`. Three options are
chosen at the start: overwrite, merge, and what goes wrong with the disk. On one that is full
nothing is written (`disk_full`), and a temporary file may refuse to be removed, which the code
does not look at (`tmp_stays`); `OutputsWhole` and `NoTmpLeft` each leave one of the two out.
The report may be left in `_merged_report.md.tmp` when its rename fails: nobody removes it, and
`NoTmpLeft` is about the workers' files only.

`RunCommand` has, for each worker, who holds the write ends of its pipes: the parent
until it closes them, and every child that was forked while they were open, since
the code does not close them on exec. One pair stands for the two pipes, which are opened
and closed together. `verbose` programs write more to stderr than a pipe holds and are stuck until
it is read. A program ends with success or failure at any moment, or closes its
streams and is killed by the timeout.

`LlmAudioEditor` takes the commands of a file in order. A command is plain (one
program on the sources), a merge (a list file) or a silence (a generated file and a
list file); temporary files are keyed by their kind only, as in the code, whose
names contain nothing but the process id. `EditorStarts` keeps the files that have
commands, in their order, as an increasing function of indices. `audio` says from whose sources an output
was made, and `Partial` that its program has not finished. The calls of `ffprobe` are
left out: no outcome depends on a duration.

`LlmPipeline` starts the editor when the analyzer's node has returned, with whatever
status, on whatever commands the directory holds by then. The analyses
are not read again, so the model resets them at that step, which keeps the two state spaces from
multiplying.

## Runs

| Run | Instance | Shows |
|---|---|---|
| `diamond` | 4 nodes, 5 edges (one doubled), a node that retries, a foreign throw, 2 workers, 2 clients, 2 runs; 190 k states | Nine properties under `FairOrderlySpec`: types and counter ranges, dependency order, a sound latch, exact cascade, exact metrics, a clean context, final verdicts, runs that end, refinement of `DagRun` |
| `join_restart` | 2 roots and their dependent, one client, 2 runs | Finding: with `Spec` a late decrement of the first run starts a node of the second too early |
| `async_logger` | capacity 2, 2 producers, 4 pushes of 2 events, batch 2, nobody flushes; 362 k states | No data race, refinement of `BoundedQueue` over two laps; events reach the sink once, in order and eventually; the destructor drains |
| `logger_shutdown` | a producer, a thread that flushes | The destructor ends, whatever two consumers have done to the ring |
| `logger_flush_loses` | as before | Finding: `flush()` is a second consumer, after which events can be lost for good |
| `validate_dag` | module `GraphBuilder`: all graphs of 3 nodes with up to 4 entries in 2 copies, one id on two rows; 182 k states | The check accepts exactly the acyclic graphs; what is built runs in order and to its end, whichever task throws |
| `reload` | ten documents, two loader threads and a client, 5 calls, each begun with an idle pool; 174 k states | Loads decide exactly, leave a consistent graph, and runs after them end with no task at a state that is gone |
| `reload_twice_at_once` | good documents, two loaders at once | Finding: two concurrent reloads refuse a good document |
| `plugin_reload` | two reloaders, two adapters, 4 nodes, 3 handles | Code stays mapped while it can be called, every handle has one owner |
| `daemon` | 2 clients that speak or hang up, 2 edits, an event queue of 1; 456 k states | Nothing destroyed in use, reported edits are read, the queue of clients moves, the process ends |
| `daemon_silent_client` | the same, with clients that owe nothing | Finding: a client that stays connected and silent keeps the control thread in its read for ever |
| `llm_pipeline` | 2 workers in each node, 3 inputs of 2 stems, commands of all kinds; 1.0 M states up to the names of the workers | Counts add up, outputs whole, nothing temporary left, commands counted once, success means edited, nobody stuck |

Why the bounds are enough. A diamond has every relation two nodes can have in this
code (root, chain, siblings, a join by two paths, a repeated entry), and two runs
expose what one leaves for the next. Two workers run any two racing tasks; a third
would only repeat them. Four pushes through two slots pass every slot twice and
the wrap of the mask, and the theorems about the ring have no bound; two producers and the consumer are all the roles that meet at a
slot. Three ids suffice for each way a document can be wrong, and for
a cycle with a node outside it. Two reloaders and two adapters let each kind of
holder drop the last reference. For the daemon two clients are one in a session and
one in the queue; two edits are one before and one during a callback, and a queue of one event is
where merging and overflowing happen at once. For the pipeline two workers and two
inputs of one stem are the pair that shares a file, a third input brings the long
text and the second kind of temporary files, and two workers are parent and bystander
of each fork.

Deadlock is not checked: a program whose clients call nothing more stops.

`llm_pipeline` uses symmetry: the workers of a node are members of a set that no definition
tells apart or chooses from, and the properties of the run are invariants.

Each property of a passing run has a planted fault (`..._Mutant` beside the
definition it replaces): a doubled dependency counted once, a release
one decrement early, a node cancelled twice, the verdict stored before the retries are
used up, a metric forgotten, a context not cleared, no duplicate check, a cycle accepted,
a deleter that ignores other owners, a precedence turned round, a session that
does not end with its client, a batch that empties the queue behind it,
objects destroyed in another order, a temporary file not removed or a write end not closed, an exit
code not looked at. TLC finds the property violated under each.

### Fairness

`FairOrderlySpec` and the logger's `FairSpec` assume weak fairness of every thread
that is inside a call: the operating system schedules it and the plugin's
`execute()` returns. This is what the code relies on; it has no timeout for a node.
Nobody is assumed to call `run()`, `log()`, `flush()` or the destructor.
`RunDrains` allows for one exception, a factory that throws something
`executeNode()` does not catch: then the latch never opens. It says that this is
the only one.

`Daemon`'s `Spec` assumes weak fairness of its three threads, as the operating system gives
it, and none of clients, editors or signals. That is not enough for `QueueMoves` and
`StopEnds`: a client that says nothing and stays keeps the control thread in `read_some()`,
whose deadline has no effect; `ioc_.stop()` does not wake it, and `control_thread.join()` does
not return. They are checked under `CliSpec`, which adds that a client that has connected sends
its command or goes (`Speak`). `workflow-cli` does, unless it is suspended: nothing
in it waits between `connect()` and the write. `daemon_silent_client` shows what happens without.
`GraphBuilder` assumes that the
executor's threads run and that `execute()` returns. `LlmPipeline` states no
fairness: no step of a file or of a command can be repeated (the theorem `StepsRunOut`),
so that it is enough that some step is possible until the end, which `NobodyStuck` says.

## Proofs

Eight modules hold theorems; tlapm checks every leaf. All are of one form: an
invariant that is inductive, shown for `Init` and kept by each action in a lemma of its own,
and the properties that follow from it. A theorem holds for every value of the constants
that satisfies the assumptions of its module, and for behaviours of any length.

That something *ends* is liveness and out of the prover's reach, but what makes it end is
not. For each liveness property but one there are two theorems, or two parts of one:
*never stuck*, an invariant that says who can go on while the end has not come, by the guards
of the steps; and *runs out*, an action property that says that each step of those who
can go on makes something smaller that cannot shrink for ever. What is missing from there
to the property is the last inference, that a fair scheduler lets them take the steps.

| Liveness, model-checked | Never stuck | Runs out |
|---|---|---|
| `RunDrains` | `RunsAreNeverStuck` | `WorkIsBounded` |
| `NobodyStuck` (both nodes return) | `NobodyWaitsInVain` | `StepsRunOut` |
| `BuiltRuns` | `BuiltRunsOut` | `BuiltRunsOut` |
| `ShutdownEnds`, without `flush()` | `DestructorRunsOut` | `DestructorRunsOut` |
| `StopEnds`, `QueueMoves` | `ShutdownRunsOut` | `ShutdownRunsOut` |

| Module | Specification | Assumed of the constants | Properties of the runs proved |
|---|---|---|---|
| `WorkflowEngineProofs` | `OrderlySpec`; `Spec` for one client and one run | finite nodes and edges, sensible thread parameters | `TypeOK`, `DependencyOrder`, `CompletionSound`, `OutcomeDetermined`, `MetricsExact`, `ContextOfThisRun`, `VerdictIsFinal`, `ImplementsDagRun` |
| `ValidateDAGProofs` | `Spec`, `GBSpec` | finite nodes and entries; two rows per id for the builder | `AcceptsOnlyDags`, `RejectsOnlyCycles`, `DependenciesFirst` |
| `ConfigReloadProofs` | `QuietSpec` | typed documents | `LoadedIsRunnable`, `RunAfterGoodLoad`, `LoadVerdictExact` |
| `LockFreeRingBufferProofs` | `RingSpec` | two slots at least, one consumer | `NoDataRace`, `ImplementsBoundedQueue` |
| `AsyncLoggerProofs` | `Spec` | two slots at least, `Flushers = {}` | `LoggerTypeOK`, `DestructorDrains`, `SinkInOrder` |
| `PluginManagerProofs` | `Spec` | finitely many reloaders | `PluginTypeOK`, `CodeStaysMapped`, `HandlesBalanced` |
| `DaemonProofs` | `Spec` | an event queue of one at least | `DaemonTypeOK`, `NothingUsedDestroyed`, `EditsAreRead` |
| `LlmPipelineProofs` | `Spec` | finite workers, the parent is none of them, distinct inputs, typed commands | `PipelineTypeOK`, `CountsAddUp`, `NoTmpLeft`, `OutputsWhole`, `HoldersWillClose`, `EachCommandCounted`, `SuccessMeansEdited`, `TempFilesGone` |

### The engine

Under `OrderlySpec`, for any graph, any number of client and pool threads, any
retries and any number of runs. `TypeOK` includes the ranges of the latch and the
counters: `count_down()` never goes below zero and no node is queued twice.
None of the safety theorems needs the graph to be acyclic; `RunsAreNeverStuck` does.

`OrderlySpec` assumes that calls come in order. For the simplest program, one client thread
that runs the engine once, nothing need be assumed: `OneRunIsOrderly` shows that each of its
behaviours under `Spec` is one of `OrderlySpec`, and `OneRunIsSafe` states what follows. A
second `run()` of the same thread is already a case of the first finding.

The properties are not inductive. `IInv` adds what the code maintains between them:

- `CallerInv`: one client thread is inside a call; up to the end of its reset the pool
  is idle, and what it has reset is reset;
- `WorkerInv`: what each pool thread's place says of its node and of the edges
  it has left;
- `OwnershipInv`: a running node is queued or in the hands of one worker, never two, and an
  edge is in one worker's loop;
- `GraphInv`: a node that has started has only successful dependencies, a cancelled one has one
  that failed or was cancelled;
- `CounterInv`: `uncompleted_deps[n]` is the number of edges into `n` whose source has
  not released it, because it has not succeeded or because a worker still has the edge
  to walk; the latch is the number of nodes nobody has counted down yet.

`TypeOK` needs `CounterInv` (a decrement or a count-down finds something to count),
`DependencyOrder` needs `GraphInv`, which a release at zero preserves by
`CounterInv`; `CompletionSound` is `CounterInv` at latch zero. `OutcomeDetermined` follows
from `GraphInv` and `CompletionSound`. The cardinality steps cite the library's
theorems about finite sets. `MetricsExact` and `ContextOfThisRun` have invariants of their own
on top of `IInv`. `MetricsInv`: the counters are what earlier runs left plus the nodes of
this run that have a verdict, but for those whose worker is about to record it.
`ContextInv`: from the moment that `run()` has cleared it, the context holds every node
that succeeded and none that is pending or cancelled.

That a run ends. `StuckInv`: a running node is queued, in a worker's hands or lost to a
factory that threw; a pending one with no counter left is about to be scheduled, and one
with a failed or cancelled dependency is about to be cancelled by the worker that holds
the edge. When the pool is idle nobody holds anything, so that a pending node has a
pending dependency, and that one another: in an acyclic graph there is none
(`NeverStuck`). `WorkIsBounded` holds for any graph: `Left`, the places each node has still to
pass, the attempts it has left and the edges still to be walked, is a finite set to which no step
of a run adds and from which each step of a worker removes something; strict inclusion
of finite sets is well-founded.

### The cycle check and the builder

`AcceptsOnlyDags`: a graph that passes has a numbering along its dependencies, the
order of the visits. `RejectsOnlyCycles`: the nodes not visited wait for one another. The
invariant: `in_degree[n]` counts the entries into `n` not yet processed, the queue
and the visited nodes are those at zero, and an entry is processed only after its
source was visited. `BuildRunsTheCheck` shows that the builder takes exactly the steps of the
check until it builds, so that both hold for it too. `DependenciesFirst` adds that a
task has started only when each task that precedes it is done, and `BuiltRunsOut`
that until all are done some task can start or end: of any set of nodes the one
visited first waits for none of the others (`SomeNodeIsFirst`).

### Loads and runs with an idle pool between them

`ReloadInv` says how far a load has come: the entries read are those of the document
(`ReadUpTo`), the states inserted are those of a prefix without repetitions
(`InsertedUpTo`), the downstream lists are the dependency lists of a prefix turned
round (`LinkedUpTo`: for each pair of ids, how often the one is in the list of the
other). At the end of the last loop this is the graph the document describes, and
`AcyclicIsOrdered` shows that the check on the downstream lists decides about the
dependency lists. Each `End` of a load is thereby an exact verdict, and what precedes it
(a graph, half a graph, a failed run) plays no part: the containers are cleared.

The runs need the converse: what a load that *failed* leaves may be run as well, and must
leave the next one nothing. `RunInv`: no two tasks have one node, a node
the run has not reset is never released (its counter is not above zero), and the latch is the
number of entries less the nodes that have ended. A run that returns has therefore ended every
node, and the tasks that are left have counted down and only walk their lists. They release
nobody, since all counters are used up, and they need their states: `SerialInv` says
that no task is left while a load is at work, which is what `QuietSpec` assumes of the
moment a load begins, and not a consequence of the latch. `LeftInv`, for a graph loaded
well: the counter of a node is the number of entries of downstream lists that
name it and that the task of their owner has not walked past (`Awaited`). With the order of
`Built`, some node that has not ended waits for none, so that a latch above zero has a
task to count it down: `RunAfterGoodLoad`. It says that a run cannot be stuck and no
task meets a state that is gone, not that the run ends, which is liveness.

### Ring and logger

The window of positions from `Released` on, one lap long, maps to different slots
(`WindowSlots`, from lemmas about division). `SlotInv`: a slot's sequence number is
its position, or one more once it is published; `DataInv`: exactly the published
slots hold an event; `ProducerInv` and `ConsumerInv` tie each thread's position to
that. Two threads in one slot would then be at one position, or a lap apart in a window shorter
than a lap. The refinement maps the queue to the events from `Released` to
`write_pos_`, those of the producers that have claimed and not yet written included.
With one slot "published" and "free" are the same number, so the assumption `TwoSlots` is
needed; every ring that the repository makes has four slots or more. `MaxPushes` is any number.

`AsyncLoggerProofs` reuses the step lemmas for two consumers that take turns
(`TurnsInv`: the owner pops when the background thread is gone). It assumes that
nobody calls `flush()`: with a caller of it `DestructorDrains` is refuted by the run
`logger_flush_loses`, as the second finding says. `AcceptedIsDelivered` follows from
`LoggerInv` once the destructor has returned: the events between `read_pos_` and
`write_pos_` would have to be in slots that `DestructorDrains` says are empty.
`DestructorRunsOut` counts, from the stop request on, the events not delivered, eight steps
each, and what is left of the pop and of the loop each consumer is in.

### Plugins, daemon

`CodeStaysMapped` and `HandlesBalanced` are inductive together with `NumberedInv`
(node numbers have no gap) and `LoaderInv` (a mapping exists while a handle does; a
reloader between create and store owns its node).

For the daemon, `Unread` names every place where an event may be that the watcher was
told of and has not acted upon: the queue, the batch in its hand, or a callback before its
`Load`. `EditsAreRead` is that invariant where all of them are empty. `ShutdownInv` is the order of
joins and destructors: the control thread has ended before anything goes, and the
watcher's thread before the engine and the plugin manager, which its callback uses.
`ShutdownRunsOut` gives each of the three threads a number that each of its own steps makes
smaller: what is left of the session and the connections that wait, of the callback, the
batch and the queue, of the shutdown. Connections and edits raise those of the first two, but
not the part that is left once the thread has been told to stop; and whoever the
main thread joins has been told. Whoever waits for the control thread waits for one that has a
step (`CanServe`), or that is in the session of a client without a word (`Silent`). That
client can speak or go (`CanSpeak`), and the thread can then go on; that it does so
is the assumption of `CliSpec`, not a fact about the code.

### The pipeline

For any number of workers, inputs and commands. The analyzer: a file index taken belongs to one
worker (`ShareInv`), which counts it when it is done (`CountInv`); a temporary file
belongs to a worker that has opened it, if files can be removed (`TmpInv`), an inode with a name is written
for one stem and is not empty (`InodeInv`). The editor: counts and commands pending
add up to all of them (`TallyInv`); a temporary file
will be removed by somebody who has it (`WillRemove`); and under the conditions in
`SuccessMeansEdited` (`OneEach`) the list an encoder reads is its own and a command that
has been counted as executed has a whole output. `HoldersWillClose` is almost inductive: it
needs only that a worker that has not forked has no child and that an exit code belongs to a
child that has closed its streams (`RunInv`).

`NobodyWaitsInVain` is the safety form of `NobodyStuck`: `CanMove` lists the guards of a
worker's step, and a worker that cannot move waits for a pipe whose holders are programs that
are running, which can (`HoldersWillClose`). `StepsRunOut` counts what is left of each file and
of each command. The counts are cardinalities of sets of pairs, a file or a command and a step,
so that the sums over workers need no recursion; that a text of some pieces is read no further
than its last one is `SegmentInv`.

### Only model-checked

`RunDrains`, `ShutdownEnds`, `BuiltRuns`, `QueueMoves` and `StopEnds` are liveness: the
theorems in the table above end where fairness begins. `EventReachesSink` is about a logger
that goes on for ever, whose background thread polls: nothing in it runs out. `NobodyStuck`
speaks of `ENABLED`, which the prover does not know; TLC checks there that `CanMove` is
exactly the enabling condition of a worker's step, and that the analyzer, whose workers wait
for nobody, has a step until it has ended. The types of `ValidateDAG` and of the ring
are proved with their invariants and are in no run's list of their own.

## Findings

Each is a run in which TLC finds a statement of the repository violated; `PROJECT.json`
quotes the statement.

1. `waitForCompletion()` returns before the last task has walked its downstream list,
   so the next `run()` can be hit by a late decrement.
2. `AsyncLogger::flush()`, which `waitForCompletion()` calls, pops as a second
   consumer of a single-consumer ring.
3. The watcher and the control plane can be inside `onConfigChanged()` together.
4. The receive deadline of a session has no effect: a client that connects, sends
   nothing and stays blocks the control plane, and with it the shutdown.

Met on the way, and kept as hazards with a note in `PROJECT.json`, because no
property of the code can be made of them: a refused reload has already destroyed the
graph; `reload()` opens a path that the old node keeps open, so the recompiled plugin
is not loaded; RELOAD answers OK for a configuration that was refused; after an
accept error the control plane is gone while the process lives; a file replaced by a
rename is not noticed; an answer cut by a timeout counts as an analysis; the editor
works on old analyses after a failed node; a silence that could not be generated
stays behind, as does a merged report that could not be renamed; a partial output is skipped by the next run; a program that fills its
stderr, or hangs with its streams open, hangs its worker.

## Not modelled, and the plan

Left out for good: the JSON parsers (text to data; what the loops see of it is in the
documents of `ConfigReload` and in `Extracted`), log formatting, `ScopedTimer`, the
example plugin, the demo program, DNS, TLS and the text of requests, `splitText`, the
arguments of ffmpeg and the durations of ffprobe.

Left out, and why: each accessor of `ExecutionContext` is one access to a map under one
lock, atomic by construction, and nobody registers a type in `PluginRegistry` once a
second thread exists;
`ThreadPool`'s destructor runs in the daemon when nothing was ever posted; the
start-up of `main()` has one thread; a second daemon on the same socket path needs a second
process, of which `Daemon` has none.

What is left to prove: every safety property and every refinement that a run of the
project checks is a theorem now. Two more would be worth having: `DestructorRunsOut` for a logger
with callers of `flush()`, whose ring breaks and whose destructor returns all the same, as
`logger_shutdown` checks; and, for several clients that wait for the pool to be
idle between their calls, that they never leave `OrderlySpec`.
