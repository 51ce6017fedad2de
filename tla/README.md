# A TLA+ model of FPMAS

FPMAS is a C++ library for distributed multi-agent simulations over MPI. Agents
are the nodes of a graph that is spread over processes. Each process owns some
nodes (LOCAL) and has copies of the neighbours it does not own (DISTANT, or
ghosts). A scheduler decides which agents act at each time step, a
synchronisation mode decides how processes see the data of each other, and a
load balancing algorithm moves nodes between processes.

The paths below are relative to `src/src/fpmas/`.

## 1. The system

| Part | State | Operations | Interacts with |
|---|---|---|---|
| Scheduler, runtime (`scheduler/`, `runtime/`) | jobs by start step, tasks of jobs, date | `schedule()`, `build()`, `Job::add/remove`, `run()`, `setCurrentDate()` | runs the tasks of agents and the synchronisation at the end of each job; tasks call back |
| Model, agents, groups (`model/`) | group ids, groups and tasks of each agent, agents and job of each group | `AgentGroup::add/remove/clear`, `moveAssign()`, four callbacks | called back by the graph when nodes come, go and change state; fills jobs |
| Distributed graph (`graph/distributed_graph.h`) | nodes and edges with their states, locations | `buildNode`, `link`, `unlink`, `removeNode`, `distribute`, `synchronize`, imports | the linker and data synchroniser of the mode |
| Location manager (`graph/location_manager.h`) | LOCAL, DISTANT and new LOCAL nodes; the location of each node, on its origin | `setLocal`, `setDistant`, `updateLocations` | messages to and from the origin of each node |
| Ghost mode (`synchro/ghost/`) | buffers of links, unlinks and removals | `link`, `unlink`, `removeNode`, `synchronize` of links and of data | collective exchanges |
| Hard mode (`synchro/hard/`) | one mutex per node, with queues; epoch and token of termination; edges and nodes to erase | `read`, `acquire`, `lock`, `lockShared` and releases; link requests; `terminate()` | requests and responses, served only while a process waits |
| Spatial models (`model/spatial/`) | location, mobility and perception fields of agents, as edges on layers; flags of cells | `moveTo`, the distributed move algorithm, grid builders, agent mappings | links and group jobs of the model |
| Communication (`communication/`) | none | typed wrappers of MPI, `migrate()`, gathers | everything |
| Load balancing, graph builders, I/O, random, utilities | - | - | the graph |

What is hard in this code:

* **hard mode** is a message protocol between single-threaded processes that
  serve each other only while they wait. Deadlock, lost wake-ups, double grants
  and the detection of the end of a period depend on interleavings that a test
  cannot force;
* **migration** changes who owns a node, and where everybody looks for it, in
  several exchanges, with links and removals pending;
* **callbacks** keep five lists about each agent in step by hand, on processes
  that learn of changes at different times;
* **the move algorithm** lets cells and agents rewrite each other's edges in rounds, for
  one group while the agents of other groups have moves pending;
* **restarts** rebuild a graph from a file through the same operations as migrations;
* **dates** are floats, and jobs are edited by the tasks they run.

`PROJECT.json` lists these hazards at their lines.

## 2. Modules

| Module | Code | Extends or instantiates |
|---|---|---|
| `Termination` | `synchro/hard/termination.cpp`, `server_pack.h`, the requests of `hard_sync_linker.h` | `PeriodBarrier` |
| `PeriodBarrier` | abstract specification of a period | |
| `TerminationProofs` | | `Termination` |
| `HardSyncMutex` | `synchro/hard/hard_sync_mutex.h`, `mutex_client.h`, `mutex_server.h` | |
| `HardSyncMutexProofs` | | `HardSyncMutex` |
| `HardSyncLinker` | `synchro/hard/hard_sync_linker.h` on the graph of `graph/distributed_graph.h` | |
| `HardSyncLinkerProofs` | | `HardSyncLinker` |
| `GhostGraph` | `graph/distributed_graph.h`, `graph/location_manager.h`, `synchro/ghost/ghost_mode.h` | |
| `GhostGraphProofs` | | `GhostGraph` |
| `Scheduling` | `scheduler/scheduler.cpp`, `runtime/runtime.cpp` | |
| `SchedulingProofs` | | `Scheduling` |
| `AgentGroups` | `model/detail/model.cpp`, `moveAssign()` of `model/model.h` | |
| `AgentGroupsProofs` | | `AgentGroups` |
| `Grid` | `model/spatial/von_neumann.h`, ranges and distances of `grid.h`, `moore.h`, `graph.h` | |
| `GridProofs` | | `Grid` |
| `MoveAlgorithm` | `model/spatial/dist_move_algo.h`, `spatial_model.h`, `spatial_model.cpp` | `Grid` |
| `MoveAlgorithmProofs` | | `MoveAlgorithm`, `GridProofs` |
| `AgentMapping` | `model/spatial/grid_agent_mapping.cpp` | |
| `MC...` | constants for TLC | the module of their name |

**Termination.** A process works, posting synchronous requests and serving
others while it waits for their reception (`Blocked`), then enters `terminate()`
and passes the token. `sent`, `tokens` and `ends` are the messages in flight; a
message can be received only in the epoch it is tagged with. Tasks post to one or two
processes at once, as `link()` does. The handler of a request posts nothing, but for
`REMOVE_NODE`, which may post an `UNLINK`; the constant `Removes` says which process asks
which one to remove nodes. `PeriodBarrier` says what `terminate()` promises, without token or
message, and `Termination` is shown to implement it, with the epochs as phases and
the processes that have an END to receive as the released ones.

**HardSyncMutex.** Each operation is a request, a use and a release, on a node
hosted here (`RequestLocal`, which may wait in `MutexServer::wait()`) or elsewhere
(`RequestDistant`, then `HandleRequest` on the host). The two queues of a mutex, the
flag `_locked` and the counter `_locked_shared` are variables, and
`RespondToRequests` drains the queues as `requestsToProcess()` does. The end of a
period is the barrier, since `Termination` implements it. Hosts are fixed.

**HardSyncLinker.** The graph in hard mode. A process has a stack of operations: while
one waits for its requests to be received, the process serves others, and serving
`REMOVE_NODE` starts an operation that waits, too. The two lists of locks of
`LinkServer` are read off the stack. `Link`, `Unlink` and `RemoveNode` go up to the
wait; `EndLink`, `EndUnlink`, `UnlinkNext`, `EndLoop`, `EndRemoveNode` go on after it.
`terminate()` is the barrier that `Termination` implements, and nodes are removed by
processes of at least the rank of their host, for which it is sound. `failed` is set
where the code would use an object it has deleted. `live` and `linked` are
the graph that the operations define, for the properties to compare with.

**GhostGraph.** Processes change their own graphs and buffers; a collective call is
cut at its exchanges (`MigrateLinks`, `MigrateRemovals`, `MigrateUnlinks`,
`ClearDistantNodes`, `Export`, `UpdateLocations`, `SynchronizeData`). Between two
exchanges processes do not interact, so one step does the work of all. `Restart` dumps
the graph of each process in a breakpoint and loads it in new processes: the graph is
rebuilt with `importNode()` and `importEdge()`, and buffers start empty. The constant
`Allow` here and in other modules names usages in which the code fails (section 5).

**Scheduling.** Dates are integers in units of 1/`Sub` step; sums are rounded as
floats. The three maps are lists in the order of the calls, with start steps as keys.
`Build` is `Scheduler::build()`: its loops are the recursive functions of `SubmitAll`
(the items of a key) and `SubmitByStart` (the keys in their order), which `Submit` one
item after the other. A run is a sequence of `BuildEpoch`, `BeginJob`, `RunTask`,
`EndJob`, `EndStep`, and while the tasks of a job run, jobs are scheduled and edited and
the date is set. The tasks of a job are a set, since they are shuffled before they run.

**AgentGroups.** For each process and agent, a record: state of the node, ids, groups,
tasks, membership, and how many times its task is in the job of each group.
Operators on records are the loops of the code over groups; the callbacks
compose them. The graph is what `GhostGraph` shows it to be: one owner per node,
ghosts updated when a collective call returns.

**Grid.** Pure operators: the slab of cells, the local links and the frontier links of
each process of a `VonNeumannGridBuilder`; `contains()` and `radius()` of ranges.
`IsLattice` is the reference definition the builder is compared with.

**MoveAlgorithm.** The number of edges from each agent to each cell, by layer. Agents move
and take other ranges (`MoveTo`, `Stay`); the algorithm runs for one of several groups,
one action per part between two synchronisations: `UnlinkOutgoing`, `UnlinkIncoming`,
then `Grow` (all cells) and `Crop` (the agents of the group) as often as
`DynamicEndCondition` says, then `UpdatePerceptions`. Edges are counted, since
the code may link a cell twice. That all processes see the same edges after a
synchronisation is what `GhostGraph` and `HardSyncLinker` show, so where cells and
agents are hosted does not matter here. The initial states are those
`SpatialAgentBuilder` makes.

**AgentMapping.** The constructor of `ConstrainedGridAgentMapping`, with any number drawn
that the distribution may return.

## 3. Runs

Every passing run checks its module's properties in all the states of its bounds.

| Run | Instance | Shows |
|---|---|---|
| `termination_ring` | 4 processes, 1 post per period, removals asked from lower ranks, endless periods | termination is sound, epochs isolate periods, the barrier is implemented, periods never stop |
| `termination_removals` | 3 processes, removals asked from anybody | **violation**: the end is declared with an `UNLINK` pending |
| `mutex_locks` | 3 processes, 2 nodes, reads, acquisitions and locks, endless periods of 1 operation (2 for the first host) | locks are counted exactly, queues, no lost wake-up, no lost update, every operation completes |
| `mutex_exclusion` | the same, shared and exclusive locks | **violation**: a writer with a reader |
| `hard_links` | 3 processes, a triangle of 3 nodes and a LOCAL edge, 1 operation per process and period, endless periods | nothing deleted is used, both hosts of an edge agree on it when no operation is in progress, removed nodes are gone, no deadlock |
| `ghost_data` | 2 processes, 2 nodes, 2 edges, 3 operations between collective calls, 1 write, restarts | ghosts are fresh, no data lost, no failed lookup |
| `ghost_structure` | 3 processes, 2 nodes, 2 edges, 2 operations, restarts | one owner, locations, edges and their states, removals |
| `ghost_breakpoint` | the same, with any first migration after a restart | **violation**: the origin has an old location |
| `scheduling_runs` | 2 calls of `schedule()` with lists of 2 jobs, 2 runs or dates set, 1 edit, dates with half steps | the epochs and runs are what is scheduled, in order; no task is skipped; runs end |
| `agent_groups` | 3 processes, 2 agents, 2 groups, no bound on operations | lists agree, each agent is executed once by its owner, ghosts follow, no agent vanishes |
| `move_fields` | 3 agents in 2 groups on a 2x2 and a 1x3 grid, 2 executions of agents, 2 runs of the algorithm after the first; all grids up to 5x5 on up to 5 processes for `Lattice` | one location, exact fields and perceptions whichever group runs when; grids are lattices |
| `grid_mapping` | 2x2 grid, 1 to 5 agents, 1 or 2 per cell | **violation**: agents outside the grid |

*Bounds.* Three processes are the first number with a third party: a host, the
process that owns a lock and one that waits; an old owner, a new one and one that has to
be told. The ring has four so that a process has passed the token, one has it and one
has not. The first host has two operations per
period: it takes the requests of others during one, so that it may find its own node
locked in the next and wait inside `MutexServer::wait()`. Bounds on posts and
operations are per period, and periods repeat
without bound, so sequences of any length are explored. Two nodes and two edges give
crossing migrations and an edge whose ends are both moving. Two calls of
`schedule()` give each pair of kinds, dates and sub steps; three would add orders of
the same insertions. `AgentGroups` has no bound: its state space is finite. The triangle
of `hard_links` gives each process two neighbours that may both wait for it, an edge
between two DISTANT nodes, and a removal that waits for two processes. In
`move_fields` the three agents start with three kinds of ranges, one that does not contain
the location and one whose radius is twice its size (the diagonal of 2x2); two moves and
two runs give an agent of the other group with a move pending while the algorithm
runs, then its own run.

*Symmetry* is used for agents and groups in `AgentGroups`, in runs without liveness
properties. The model chooses an owner with `CHOOSE`, but among processes, which
are not permuted.

*Deadlock* is checked, but for `Scheduling`, `MoveAlgorithm` and `AgentMapping`, where the
program may stop calling.

*Fairness.* `Termination`, `HardSyncMutex` and `HardSyncLinker`: weak fairness of each
process (in `HardSyncLinker` of its serving and of its going on). A
process is one thread that polls in a loop; MPI delivers messages that are sent, and
the tasks of agents are taken to end. In `HardSyncMutex` a task releases what it
holds (the guards of `synchro/guards.h` do so), and the barrier opens when all are
inside, which `PeriodsComplete` shows of `Termination`; so it does in `HardSyncLinker`. `Write` is not fair: a task may
release without writing. `Scheduling`: weak fairness of the steps of `run()`, one
sequential loop. There is no fairness on the calls of users anywhere.

*Mutants.* Each property of a passing run has an operator named as mutant in the
module, a plausible error of the code that violates it.

## 4. Proofs

`TerminationProofs` proves, for any number of processes and of posts, when processes ask
only processes of lower rank to remove nodes (`RemovesGoDown`, a hypothesis of the
theorems): type correctness (`TypeCorrect`), `TerminationSound` (`Soundness`),
`PeriodsDoNotMix` (`EpochIsolation`), `TokenSweep` (`Sweep`), that no process starts a
period while another works in the previous one (`BarrierStep`) and that `Termination`
implements `PeriodBarrier` (`Refinement`). The inductive invariant `IInv` has, beside the
types and `TokenSweep`: who waits for the reception of a request is in the period of the
request and has no END to receive (`SendersInPeriod`); `REMOVE_NODE` requests come from
tasks of higher rank (`RemoversWork`); an END is awaited by a process one period behind
rank 0 (`EndsAwaited`); everybody else is in the period of rank 0 (`OthersCaughtUp`);
there is one token while rank 0 terminates (`OneToken`). `TerminationSound` alone is
not inductive: it says nothing before the END is sent. The argument: behind the token
everybody is idle, and stays so, since only a process that still works, of higher rank,
could make it post again, and the token has not passed that one. When the token is back
at rank 0 nothing is pending (`TokenBack`). In the refinement a handler that posts is
the step `Forward` of the barrier: only for a process that still works can another one
become busy.

`AgentGroupsProofs` proves, for any number of processes, agents and groups, if `clear()`
never takes a ghost out of its last group (`~ClearGhosts`): `GroupsAgree`,
`ExecutedByOwner`, `AgentsKept` and `GhostGroups`. The invariant `Inv` says that each
representation is `Good`: the first two properties, and that a DISTANT agent is in a
group. The last part is needed because `add()` takes an agent without group
for a new one. Lemmas give each operator field by field, then show that each callback
makes a `Good` representation from a `Good` one; then there is one lemma per action.

`HardSyncMutexProofs` proves, for any number of processes, any nodes and hosts and any
number of operations, without a hypothesis: type correctness, `LocksCounted`,
`RequestsQueuedOnce`, `SomebodyWillWake` and `NoLostUpdate`. The queues are sequences, and
requests are taken from their heads; the proof sees a queue as the set of its sources,
each of which has one request in it. `IInv` adds to the properties: what a process is
doing tells where its node is hosted, and a response is on its way only to a process that
awaits it (`ClientInv`); the sources of a queue are the processes whose request for that
kind of lock has arrived and has not been granted (`QueueInv`). Without `QueueInv` the
counts are not inductive: a release could grant a request that nobody made. The core is a
lemma about `RespondToRequests`: which prefix of a queue it grants, and that the
processes of the prefix are exactly the new owners.

`GhostGraphProofs` proves, for any number of processes, nodes, edges, operations and
writes, for `Allow = {}`: type correctness, `NoFailure`, `OneOwner`, `LocationsCorrect`,
`EdgesAgree`, `RemovedEverywhere`, `GhostsFresh` and `DataNeverRegresses`. The properties
speak of the time when a collective call has returned; the invariant has to say what holds
between two exchanges of it: a node has one host until its removal is done; what DISTANT
nodes and origins know of locations in each phase of a migration; which buffers are empty
in which phase; an edge is on the hosts of both of its ends, unless the link is still in a buffer
or the edge is exported or about to be cleared; and an edge that is
unlinked and not yet erased somewhere is told of by a message in a buffer, or has an end
whose removal is pending. There is one lemma per exchange.

`HardSyncLinkerProofs` proves, for any number of processes, nodes, edges and operations,
for `Allow = {}`: type correctness, `NoFailure`, `LinksAgree` and `NodesAgree`. A process
has a stack of operations, and each of them goes on with a loop over edges it has read
before it waited. So the invariant says what a frame of the stack may rely on
(`StackShape`, `OpsHosted`): the requests it awaits are those in flight
(`RequestsAwaited`), a node is registered for removal once (`RegisteredOnce`), the list
of the loop of a host still holds each edge of the node it removes (`Loops`), two ends of
an edge are not removed at once (`RemovedApart`); and, of the graph: a linked edge is on the
hosts of its ends (`LinkedOnHosts`), an unlinked one is gone, or about to be erased, or
a request for it is in flight (`UnlinkedErased`).

`GridProofs` proves that `VonNeumannGridBuilder` builds a lattice for any width and
height and any number of processes, at most one per row or column (`LatticeBuilt`): each cell is built
once, and has one edge to each neighbour, whether the link is local or crosses a
frontier. It also proves what the move algorithm needs of ranges: `radius()` bounds the
distance of the cells of a range (`RadiusBound`), and each cell of a range other than its root has
a neighbour in the range that is nearer to the root (`RangeConnected`).

`MoveAlgorithmProofs` proves, for any agents, groups, grid and ranges, for `Allow = {}`:
type correctness, `Lattice`, `OneLocation`, `FieldsExact` and `PerceptionsExact`. The
invariant says of each phase: where the location of an agent is and whether the move
is committed (`Located`, `Committed`); how many steps have been taken, and that there are
no more to take than the largest radius (`Steps`); that a field holds only cells of the range
(`FieldsInside`), each at most once, and keeps its first cells (`FieldsKept`, `FieldsSeeded`); that after k
steps a field has all the cells of the range that are k links away (`FieldsReach`). The
last holds as `RangeConnected` gives each cell a predecessor that was reached one
step before. `Grow` adds edge counts over sets of cells; what the sums count is
shown by taking a smallest set that contradicts it, which replaces the induction
theorem.

`SchedulingProofs` proves, for any calls of `schedule()`, any periods, lists and tasks and
any number of runs: type correctness, `EpochIsSchedule`, `ExecutionOrder` and
`RunComplete`, if the runs end at dates of less than 2^24 units (`ExactDates`, a
hypothesis on the constants, since above the dates themselves are wrong: section 5), and
`TasksAllRun` without a hypothesis. The core is about `Build`: `Submit` inserts the
jobs of an item in one piece, keeps the order of the sub steps and the pieces that are there
(`SubmitEpoch`, `SubmitOrdered`), the loops submit what is due and nothing else
(`BuildSchedules`), and what is due according to the documentation, a number of
periods after the start and before the end, is what the test of the remainder finds
(`DueAgain`). A statement about all rounds of a loop is shown by taking the first round
that contradicts it. `IInv` relates the log to the epoch: the jobs before `pos` are the
end of the log, all others are of earlier steps (`LogInv`); and a run has executed once
what was due in each step before the current one (`DoneInv`), which goes on to the current
step when it ends, as the epoch is then the end of the log. `RunComplete` is not inductive
alone: it says nothing while a step is executed.

`Allow = {}` is the hypothesis that the program is not used in the ways of section 5, in
which the code fails: the theorems hold of all other usages, which the runs
check too. Each inductive invariant was first checked by TLC on a small instance.

The assumptions are those of the modules (`NAssumption`, `GhostAssumption`...),
which TLC evaluates in the runs.

*Only model-checked:* liveness (`PeriodsComplete`, `OperationsComplete`, `RunEnds`),
which the proof system does not handle under fairness. All other properties of passing runs
are theorems. `AgentMapping` has no theorem, as the code violates its property.

## 5. Where code and documentation disagree

With a run:

1. `termination.cpp:33` never makes a process BLACK, so one round of the token is not
   enough when a process is asked to remove a node by one of higher rank
   (`termination_removals`).
2. `hard_sync_mutex.h:341` grants an exclusive lock while shared locks are held
   (`mutex_exclusion`). For the same reason `handleUnlockShared()` grants after a partial
   unlock, against its comment at `mutex_server.h:352`.
3. `location_manager.h:97`: nodes loaded from a breakpoint stay in `new_local_nodes` when
   they leave, so two hosts report the location to the origin (`ghost_breakpoint`).
4. `grid_agent_mapping.cpp:35` draws one number too many (`grid_mapping`).

By adding a usage to `Allow` (or setting the constant) in the configuration of a passing
run; these runs exclude them, so that their properties say what holds otherwise:

| Module | Usage | What happens | Violated |
|---|---|---|---|
| `GhostGraph` | `LINK_REMOVED` | a link to a node that its host removes in the same period survives | `RemovedEverywhere` |
| | `REMOVE_TWICE` | a node removed by two processes is erased twice by its host | `NoFailure` |
| | `DISTRIBUTE_REMOVED` | `distribute()` with removals pending requests data of nodes that are gone | `NoFailure` |
| | `DISTANT_ENTRIES` | entries for DISTANT nodes of a partition, which the documentation says are ignored, export ghosts | `DataNeverRegresses` |
| | `DUMP_PENDING` | buffered operations are not in the breakpoint | `EdgesAgree` |
| `HardSyncLinker` | `LINK_RACE`, `LINK_REMOVED` | an edge is unlinked, or an end of it removed, before `link()` returns or the removal is known | `LinksAgree` or `NoFailure` |
| | `REMOVE_TWICE` | a node registered twice is erased twice | `NoFailure` |
| | `REMOVE_NESTED` | a node is removed while its host is unlinking one of its edges | `NoFailure` |
| | `UNLINK_GHOST` | an edge unlinked in the period it was linked in is erased again from `ghost_edges` | `NoFailure` (`MaxOps` of 2 for process 2) |
| `MoveAlgorithm` | `SHRINK` | an agent that stays keeps cells that are out of its smaller range; `dist_move_algo.h:93` says ranges may evolve "without any restriction" | `FieldsExact` |
| | `ZERO_RADIUS` | with a maximum radius of 0 the loop is not entered, and moves are not committed | `OneLocation` |
| `AgentGroups` | `ClearGhosts` | `clear()` takes ghosts out of their last group too, and they become new agents when they are added again | `ExecutedByOwner` |

And with dates from 2^24 units of one step on (`Sub = 1`), `RunEnds` is violated: `time++`
does not change a float any more. `runtime.h:27` says the date is reset after a run; no
code does it.

## 6. What is not modelled

* `MutexServer::wait()` serves link requests once more after the request it waits for is
  granted, before the caller takes the lock; `HardSyncMutex` takes the lock in the step
  of the grant. The difference takes a node removal that waits in between, that is, the
  composition of `HardSyncMutex` and `HardSyncLinker`.
* Mutexes that move with their nodes: hosts are fixed in both modules of hard mode.
* In `GhostGraph`: layers, weights, node building by other processes, and breakpoints
  loaded by fewer processes than saved them.
* In `AgentGroups`: hard mode, where `releaseAcquire()` also calls
  `moveAssign()`, and the order of agents in lists. `removeGroup()` is `clear()` and
  the end of the group.
* In `MoveAlgorithm`: `StaticEndCondition`, where the user gives the number of steps;
  cells that are linked while the model runs. In `Grid`: more processes than columns or
  rows, where the builder reads `cells[y][-1]`. In `AgentMapping`: the mappings that only
  count draws (`UniformGridAgentMapping`) or tabulate.
* Load balancing algorithms: any partition is possible. Random numbers: any value.
* Communication, serialization, output, logging: no state of their own that the
  properties see. Zoltan and MPI are libraries.

## 7. Plan

1. Proofs: an abstract graph that `GhostGraph` and `HardSyncLinker` implement at
   collective calls.
2. The composition of `HardSyncMutex` and `HardSyncLinker` in one process, with `wait()`
   as two steps.
3. Pure algorithms: the graph builders, `migrate()` and gathers, scheduled load
   balancing, against reference definitions.
