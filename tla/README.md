# IPS-framework: a TLA+ verification project

The Integrated Plasma Simulator framework (`src/ipsframework`) runs simulations
made of components.  Each component is an operating-system process; one more
process, the framework, hands out method invocations, matches calls with their
results, lends cores to the tasks the components launch and passes events on.
This directory holds a model of that system in TLA+, the TLC runs that check it
on small instances, and TLAPS proofs of what holds for every instance.

## 1. Inventory

| Part | Source | State it keeps | Operations | What makes it correct |
|---|---|---|---|---|
| Framework loop | `ips.py` | `in_queue`, `blocked_messages`, `outstanding_calls_list`, `call_queue_map` | `run`, `_invoke_framework_comps`, `_dispatch_service_request`, `initiate_new_simulation`, terminations | every request is answered once; a blocked one is retried when it can succeed; simulations are driven in order and do not disturb each other |
| TaskManager, calls | `taskManager.py` | `next_call_id`, `outstanding_calls`, `finished_calls` | `init_call`, `wait_call`, `return_call` | every call is in one place until its result is consumed |
| TaskManager, tasks | `taskManager.py` | `next_task_id`, `curr_task_table` | `init_task`, `init_task_pool`, `finish_task`, `build_launch_cmd` | the table and the lent cores agree |
| ResourceManager | `resourceManager.py`, `node_structure.py` | nodes, sockets and cores, `avail_nodes`, `alloc_nodes`, `active_tasks`, counters | `initialize`, `get_allocation`, `release_allocation` | a core is lent once; waiting is worthwhile; refusal is final |
| ConfigurationManager | `configurationManager.py` | `sim_map`, `finished_sim_map`, the names in use | `initialize`, `create_simulation`, `terminate_sim`, `terminate`, ports and parameters | a simulation comes and goes as a whole |
| ComponentRegistry | `componentRegistry.py`, `messages.py` | one entry per live component | `addEntry`, `removeEntry`, `getComponentArtifact` | as above |
| Component process | `component.py` | the invocation being executed | `__run__`, `terminate`, user methods | one result per invocation |
| ServicesProxy | `services.py` | `incomplete_calls`, `finished_calls`, `call_targets`, `task_map` | calls, waits, tasks, staging, sub-workflows, checkpoints | responses match requests; there is always a checkpoint to restart from |
| TaskPool | `services.py` | queued, blocked, active and finished tasks | `add_task`, `submit_tasks`, `get_finished_tasks_status`, `terminate_tasks` | a task is started and reported once; what is lent is tracked |
| Event service | `topicManager.py`, `eventService.py`, `eventServiceProxy.py`, `cca_es_spec.py`, `ips_es_spec.py` | topics, subscriptions, listeners, pending events | `subscribe`, `unsubscribe`, `publish`, `process_events` | each subscriber gets each event once, in order |
| DataManager | `dataManager.py` | nothing but files | `stage_state`, `update_state`, `merge_current_plasma_state` | no contribution to the state is lost |
| Portal bridge | `portalBridge.py` | one record per simulation, a sender process | event handler, `send_event`, `send_post`, `terminate` | the portal gets the events of a run in order, to the end |
| Dakota bridge | `dakota_bridge.py`, `ips_dakota_dynamic.py`, `ips_dakota_client.py` | evaluations in flight | accept, create simulation, reply | a client is answered with the result of its own run; the sweep ends |
| Resource usage simulator | `utils/RUS` | simulated components, steps and phases, nodes in use | `run`, `sync`, `get_ready`, checkpoint, resubmit | books agree; the plan of steps is followed; the loop ends |

The parts meet in messages.  A component sends a `ServiceRequestMessage` to the
framework's `in_queue` and waits for one `ServiceResponseMessage` on its own
`svc_response_q`; the framework invokes a component by a `MethodInvokeMessage`
on its `invocation_q`, and the component answers with a `MethodResultMessage`
in `in_queue`.  The managers are called by the framework and run in its
process.  Events go through the event service as service requests; the
framework publishes its own directly.  The bridges are components that live on
events; the Dakota bridge creates simulations.  The resource usage simulator is
a program of its own that predicts how a run of the framework uses nodes.

What is hard here: a request that cannot be answered is put aside and tried
again only when another message arrives; simulations share one loop, one
registry and one pool of cores, and end at any time, with their messages still
queued; programs are user code that may raise, leave calls in flight or hold
tasks; new simulations appear while the loop runs; listeners share one list of
events; a run may crash between any two copies of its files and is restarted
from them; clients and the portal may go away at any time.

The hazards of the code, each at its line, with the properties that are about
it or the reason why there is none, are listed in `PROJECT.json`.


## 2. Modules

| Module | What it is |
|---|---|
| `Framework` | The framework loop with the managers' calls, tasks and simulations, the component processes and their ServicesProxy |
| `SimulationRuns` | What `Framework.run` promises of each simulation, with queues and processes left out; `Framework` implements it |
| `NodeStructure` | The layout of a node and the choice of cores on it, used by the next two |
| `Node` | One node with its sockets and cores, their counters and lists |
| `ResourceManager` | All nodes, the lists of nodes, the verdict on a request, grants and releases |
| `ResourcePool` | What a keeper of cores promises; `ResourceManager` implements it |
| `TopicManager` | One topic: its list of events and the marks of its listeners, as operators on a record |
| `EventService` | The service, the proxies and the event managers of several components |
| `Mailboxes` | What a subscriber is promised; `EventService` implements it |
| `TaskPool` | A task pool with the tables of framework and proxy, processes, timeouts and dask |
| `TaskRuns` | What a pool promises of each task; `TaskPool` implements it |
| `StateFiles` | The shared state file and the copies of the components (DataManager) |
| `Checkpoint` | Time loop, checkpoints, the purge of old ones, crashes and restarts, over `StateFiles` |
| `UsageSimulator` | The main loop of the resource usage simulator |
| `WorkPlan` | What a simulated run promises of its steps; `UsageSimulator` implements it |
| `DakotaBridge` | The launcher, the clients and the driver of a Dakota sweep |
| `PortalBridge` | The portal component and its sender process |
| `Bridges` | The two bridges and the simulations of a sweep, composed |
| `Filtering` | A list without some of its elements, for `ResourceManager`, `TaskPool`, `Checkpoint` and `PortalBridge` |
| `CollectionTheorems` | Lemmas about sums over finite sets, filtered lists and occurrences in lists, for the proofs below |
| `FrameworkProofs`, `NodeProofs`, `ResourceManagerProofs`, `EventServiceProofs`, `TaskPoolProofs`, `CheckpointProofs`, `BridgesProofs` | Proofs |
| `MC...` | Instances for TLC |

### Framework

The loop over `msg_list` is one action per message, so that components move
while the framework works through a batch.

| Code | Model |
|---|---|
| `in_queue`, the local `msg_list`, `blocked_messages` | `inQueue`, `msgList`, `blockedMessages` |
| `outstanding_fwk_calls`; `outstanding_calls_list` with `call_queue_map` | `fwkCalls`; `simCalls` |
| `sim_map`; registry entries; `IPS_END` | `simMap`; `registry`; `simEnd` |
| `next_call_id`, `outstanding_calls`, `finished_calls` | same names |
| `next_task_id`, `curr_task_table`, cores of the ResourceManager | `nextTaskId`, `currTaskTable`, `availCores` |
| tasks of the ResourceManager that have no entry in `curr_task_table` | `strayTasks` |
| a component's process, `invocation_q`, `svc_response_q` | `state`, `current`, `invocationQ`, `svcResponseQ` |
| `incomplete_calls`, `call_targets`, `task_map` | `pending`, `callTargets`, `taskMap` |

Each message type has its action (`HandleInitCall`, `HandleWaitCall`,
`HandleInitTask`, `HandleFinishTask`, `HandleCreateSim`; results:
`HandleInitResult`, `HandleReturnCall`, `HandleLineResult`,
`HandleLastResult`), `GetMessage` forms a batch, `InvokeFrameworkComps`,
`StartLines` and `EndRun` are the other parts of `run`.  An exception that
leaves `_dispatch_service_request` terminates everything, as in the code.

A launch can fail after its cores have been lent.  `build_launch_cmd` comes
after `get_allocation` and before the entry in `curr_task_table`
(`taskManager.py:268`): when it raises, the requester is told of a failure, and
the cores are lent to a task that is in no table of the TaskManager
(`strayTasks`).  When `Popen` raises (`services.py:755`), the entry exists, but
`task_map` does not get the id, so nobody can ask for the end of the task (the
history variable `unstarted` remembers these).  The constants `BadCommand` and
`BadBinary` are the components to whose launches this may happen.
`CoresAccounted` says that no other cores are lost: every other entry of a
registered owner is in the owner's hands (`InHand`).

The program of a component is any sequence of service uses that ends in a
return or an exception.  The constant `Habits` names what a run assumes of
programs (`waits`, `no_rewait`, `finishes_tasks`, `no_hold_and_wait`), because
the framework is not responsible for, say, a program that holds all cores and
then waits for more.

Abstractions: nodes are a number of cores (`ResourceManager` has them); the
name, arguments and return values of methods are left out, only the kind of a
framework invocation and success or failure of a result remain; events and
monitoring are in `EventService` and `Bridges`; a component method called by
another component is called `step`; all exceptions are one failure; a component
that is sent SIGTERM stops at once.

`SimulationRuns` says, for each simulation, how many of its invocations have
been issued, which is in flight, and the verdict.  The mapping (`Issued`,
`Flying`, `Verdict` in `Framework`) reads them from `simCalls` and `simEnd`.
`RunsAsPromised`: invocations are issued in order, one at a time, none after a
failure, and `IPS_END` says ok only when the last one has succeeded.

### NodeStructure, Node, ResourceManager

| Code | Model |
|---|---|
| `Core.task_id`, `is_available` | `coreTask` |
| `Socket.avail_cores`, `my_tasks` | `sockAvail`, `myTasks` of `Node` |
| `Node.avail_cores`, `available`, `allocated`, `task_ids` | `availCores`, `available`, `allocated`, `taskIds` of `Node`; `nodeAvail` of `ResourceManager` |
| `avail_nodes`, `alloc_nodes` | `availNodes` (its order decides where a task goes), `allocNodes` |
| `avail_cores`, `alloc_cores`, `processes`, `active_tasks` | `availCores`, `allocCores`, `processes`, `activeTasks` |
| `check_whole_node_cap`, `check_whole_sock_cap`, `check_core_cap` | `RoomInNode`, `RoomInSockets`, `RoomInCores`; `Enough`, `NodesFor`, `Potential` |
| `get_allocation`, `release_allocation` | `Grant` or `Refuse` by the `Verdict`, `Release` |

The three checks are one loop over `avail_nodes` that adds up what each node
has room for; the model has the loop once (`RoomUpTo`, `Enough`) and the room
of a node once per check.  `Verdict` is an operator of a request and a machine,
so that the same request can be asked of the machine as it is (`Now`) and of an
idle one (`Idle`): that is what the docstrings of the checks promise about
waiting and refusal.  The loops that take cores are written as the set of cores
they take: the free ones with fewer than `k` free ones before them
(`FirstCores`), the cores of whole free sockets likewise (`FirstSockets`).
`AllocProcs` keeps the value the code has, what the previous node gave, where
a running sum may have been meant; with three nodes or more a whole-socket task
may therefore get a socket more than it needs.  The test
`avail_cores - total_cores == 0` on a shared node is kept too (`StaysListed`):
it never removes a node, so full nodes stay in `avail_nodes`, which the checks
skip since they have no room.

Task ids are those of the tasks that exist at a time; the code never uses an id
twice, and what it keeps of finished tasks in `active_tasks` and `my_tasks` is
not read again.  `Node` and `ResourceManager` are two views of one state:
`Node` shows that the counters and lists below a node agree, and `ResourceManager`
uses of a node only its cores and `avail_cores`.

### TopicManager, EventService, Mailboxes

| Code | Model |
|---|---|
| `topicDirectory` and its `TopicManager`s: list of events, index per listener | `topics`, `topicDirectory`: records `[events, marks]` |
| `subscriberDirectory`, its subscriptions and their listeners | `subscribers`, `subscriptions`, `listener` |
| proxy: `objcache`, `listenerDirectory` | the same names |
| the listener object of `subscribe`; what `process_events` has fetched | `evl`; `batch` |

An operation of an event manager is several service requests (`todo`), each
served on its own, so requests of others come between them.  `process_events`
fetches for all topics at once, cleans the lists up and then hands the events to
the callbacks one by one; a callback may use the service itself.  A `careless`
callback may unsubscribe or subscribe a second time: then the next event finds
no listener (`MissListener`, KeyError at `eventServiceProxy.py:139`) or the
service refuses, and the rest of the batch is lost, which `Mailboxes` allows to
careless readers only.  A process may die at any moment; its listeners stay in
the service.  `Mailboxes` knows nothing of lists and marks: a reader has a box
per topic, a publication goes into all open boxes, a reader takes the first.
The box is mapped to what is fetched and not handed over, followed by what is
behind the mark.

### TaskPool, TaskRuns

`submit_tasks` is a program of several steps (`at`): wait for any active task,
launch what fits (`LaunchTaskPool` is the framework's `init_task_pool`, one
request), start processes one by one, mark them active, and, when blocking,
wait again and drain.  Processes end, run into their timeout or are killed
between any two steps, and a component outside the pool holds cores.
`terminate_tasks` (`RemoveTaskPool`) kills and gives up everything; dask runs
all queued tasks on a worker task of its own.  `TaskRuns`: queued, running,
ended, reported, each once; only the removal of the pool drops tasks.
Two habits: `unique_names` (a name is added again only when its status was
reported: `add_task` checks only the queued ones) and `collects` (dask and
`submit_tasks` are not mixed, and dask tasks are collected before the pool is
removed: `remove_task_pool` leaves the dask workers running).

### StateFiles, Checkpoint

| Code | Model |
|---|---|
| `last_ckpt_walltime`, `last_ckpt_phystime`, `new_chkpts`, `protected_chkpts`, `chkpt_counter` | `lastWall`, `lastPhys`, `newChkpts`, `protected`, `counter` |
| directories below `SIM_ROOT/restart` | `restart[t]`, the workers whose files are there |
| the state in `STATE_WORK_DIR` and in working directories | `master`, `copy` |

A checkpoint is decided (`CheckpointComponents`), saved by each worker in its
own time or failing (`SaveRestartFiles`), collected, and old ones are removed
one directory at a time (`RemoveObsolete`).  `Crash` is possible in every state
and `Restart(t)` from every complete checkpoint.  `taken` and `made` are
history, so that `TakenWhenDue` can compare the code, which remembers only the
last checkpoint it has begun, with the documentation, which speaks of those that
have succeeded (`completed`).  `promised` has the checkpoints which the
documentation promises to keep, whether or not the code lists them: those made
with `Protect=True` and those designated by `PROTECT_FREQUENCY`.

### UsageSimulator, WorkPlan

One turn of the main loop of `rus.py` runs what is ready (`Run`), moves the
clock (`Elapse`) or falls back (`Resubmit`, `GiveUp`), and lets each simulation
catch up (`Sync`: `FinishStartup`, `NextStep`, `NextPhase`, `TakeCheckpoint`,
...).  Times are chosen from small sets, so that every order of completion
occurs.  `WorkPlan` knows only the number of steps done and saved.

### DakotaBridge, PortalBridge, Bridges

The driver of the sweep alternates between `select`, the events it has fetched
and one connection (`driver`, `ready`, `events`, `backlog`); `sim_cache` is
`cache`.  Clients connect, send, wait and may die; the launcher says START,
runs Dakota, says END, and kills the framework when nobody serves it.  The
portal component fetches events, numbers them per simulation, passes them
through a pipe to a child that posts all it finds, gives up after repeated
failures, and is joined when the last simulation has ended.  `Bridges` connects
both to the simulations: each creation and each end is published on both topics
(`initiate_new_simulation`, `run`).  `site` selects one of several
circumstances in the initial state.

## 3. Runs

| Run | Instance | Shows |
|---|---|---|
| `contention` | a driver and two workers, 2 cores, launches of 1 core by one worker and of 2 by the other, one worker may fail, launches may fail in both ways | types, no lost wakeup, requests and responses matched, results awaited, cores accounted for |
| `live` | a driver and a worker that both launch tasks on 1 core, blocking and not; worker and framework component may fail, and the worker's launches in both ways | `run` returns, unless a launch waits for cores that are lost |
| `dynamic` | an Init component and a driver, a sub-workflow and a simulation created while running, both drivers may fail | lines are driven as promised; the end of one simulation leaves the others alone |
| `abort` | two simulations, a program that leaves calls behind | expected violation: a request of a terminated component |
| `sharing` | nodes of 3 (4, capped), 2 and 2 cores in sockets of 2, 3 tasks, 15 requests of all kinds | books, lists and cores agree; grants fit; waiting is worthwhile, refusal is final; the promise of `ResourcePool` |
| `node_levels` | one node of sockets of 3 and 2 cores, 3 tasks | core, socket and node agree; no list operation fails |
| `events` | a careful and a careless component and the framework, 2 topics, 2 kinds of event | tables of service and proxies agree, nothing is kept in vain, the promise of `Mailboxes` |
| `pool` | tasks of 1 core (added twice, may time out), 2 and 3 cores (never fits), 2 cores of which another component holds 1 | what is lent is tracked, the promise of `TaskRuns`, operations end |
| `files` | 2 workers, 4 time steps, 2 runs, each mode of checkpointing | contributions and checkpoints are kept, checkpoints are not taken too early, and in time after one that has succeeded |
| `protect` | as `files`, mode `ALL` without `PROTECT_FREQUENCY` | expected violation: a checkpoint made with `Protect=True` is purged |
| `rus` | two simulations of two phases on 2, 3 or 4 nodes, checkpoints by clock and by step, a threshold of 1, which `>` makes two resubmissions | books agree, dependences are kept, no task is forgotten, the promise of `WorkPlan`, the loop ends |
| `sweep` | one evaluation with a portal that may fail; two evaluations without portal whose clients may die and whose simulations may not be created | answers go to their clients, nobody is abandoned, the portal hears all, the sweep ends |

Bounds of `Framework`: `MaxRequests` bounds the calls, launches, polls and
creations of each component (1 to 3); waits and task ends need no bound since
they use up what they refer to.  Two workers that each launch once suffice for
a launch to be blocked behind another and behind a result; three simulations
are one that ends beside another, and one that is created.
`BusyMethods = {"step"}`: programs use services in `step` only, the other
methods return at once.

The number of tasks at a time is the only bound of `ResourceManager`; its
behaviours are not bounded in length, so `availNodes` takes every order it can.
Three tasks on three nodes are enough for a node that two tasks share
with one that lies across several, and for releases in every order.  `MaxListed`
bounds the entries of a socket in `Node.allocated`: `release` leaves a socket in
that list that was full before, and each further task adds it again.

`MaxPending` (2 and 1) bounds the events of a topic that are under way, enough
for two listeners at different places of one list; `MaxListeners` (3) bounds
the listeners ever created, enough for a component that subscribes again.
`MaxAdds` bounds how often a name is added to the pool; the second addition
follows a reported first.  `MaxStep`, `MaxWall` (4) and `MaxRuns` (2) bound the
time loop, the clock and the restarts of `Checkpoint`: two intervals of 2, two
explicit values, more checkpoints than are kept, and checkpoints of an earlier
run.  `PortalBridge` posts in batches of any size; two failures (`TooMany`, 3 in
the code) and one bad connection (`FailedConnections`, 5 in the code) are
enough to be the last.  The usage simulator needs no bound: its loop ends.

Symmetry is used where the permuted values are interchangeable and the
properties are safety properties: tasks in `sharing`, kinds of events, workers.
`CHECK_DEADLOCK FALSE` stands where the modelled system really stops (a run
has ended, all processes are dead, a bound is used up; in `contention` and
`live` also a launch that waits for lost cores).

Fairness.  `Framework`: the loop takes a step whenever it can, and so does each
component process; both are loops around a blocking `get` in processes of their
own.  Nothing is assumed about which of several enabled program steps is taken.
`TaskPool`: an operation goes on, processes end and the other component
finishes.  `UsageSimulator`: the main loop is one sequential program.
`Bridges`: driver, launcher, clients, the portal component and its child go on,
and a simulation ends; nobody has to die and no call has to be made.

### Findings

Each is the expected violation of a run; `PROJECT.json` quotes what it disagrees
with.

- `abort`: a request of a component whose simulation has just been terminated ends
  the run of every simulation (`ips.py:278`, `502-506`), although the docstring of
  `run` (`ips.py:389-391`) confines the consequences to the source simulation.  It
  takes a component that is still at work when its driver returns or fails.
- `protect`: `Protect=True` has no effect without `PROTECT_FREQUENCY`
  (`services.py:1263`): the checkpoint is purged, although the docstrings of
  `checkpoint_components` and `_dispatch_checkpoint` say that it remains.

### What the models show beside the properties

These follow from reading and from the models; the runs assume configurations
and habits that keep them out, or the actions contain them.

- `services.py:531-532` promises that a blocking wait returns.  After a wait that
  raised the exception of the call, the call is gone from `finished_calls`
  (`taskManager.py:182`) and still in `call_targets`: a second blocking wait for it
  is accepted and never answered (habit `no_rewait`).  Nor is a blocking wait for a
  call into a simulation that has been terminated (`taskManager.py:190`); the run
  with fairness has one simulation.
- `resourceManager.py:485-487`: whole nodes of different sizes may be reported as
  merely insufficient when no release can ever serve the request.
  The same answer is given to a request whose GPUs fit on no node (`368`) or whose
  processes whole nodes cannot share evenly (`499`), as long as cores are missing.
  `resourceManager.py:541`: whole sockets are added up beyond `ppn`, so that too
  few nodes may be granted, and (`553`) the verdict may depend on what is in use.
  `WaitingIsWorthwhile` excepts the first two (`FitsMachine`); the requests of
  `sharing` for whole sockets are some for which neither of the others happens.
- `taskManager.py:268`, `services.py:755`: a launch that fails after its cores were
  granted keeps them for the rest of the run, and a later blocking launch that needs
  them is never answered, although `launch_task` (`services.py:619-622`) says that it
  is retried until it runs.  `CoresAccounted` and `RunEnds` (`LostCores`, `Starved`)
  name exactly this.  The launches of a pool lose cores in the same way; `BadCommand`
  and `BadBinary` of `TaskPool` model it and are empty in `pool`, whose properties
  fail with such a task.
- `services.py:1238`: intervals are documented to count from the last successful
  checkpoint (`services.py:1123-1125`); the marks are set before the components are
  called, so that a failed checkpoint postpones the next by an interval.
  `services.py:1210`: at regular physics times the first checkpoint is documented for
  `pts_i >= n PTI` (`1141-1142`); the code counts from the start of the time loop, which
  differs when the loop does not start at zero.  `TakenWhenDue` states that nothing
  is ever too early, and excepts these two from what is taken in time.
- `services.py:1225`: `PHYSTIME_EXPLICIT` raises TypeError at its first due value;
  `TakenWhenDue` excepts exactly this (`TypeError`).  With `NUM_CHECKPOINT = 0` a
  forced checkpoint calls the components and saves nothing.  `services.py:1274`: after
  a restart the protected checkpoints of earlier runs are purged like the others;
  `ProtectIsKept` is about those of the run itself.
- `resource_manager.py:174` of the usage simulator uses an undefined name: the first
  node failure ends the program (`NodeFailure`).  A checkpoint in the middle of a
  phase saves the current step where a comment (`simulation.py:763`) says the next.
- `dakota_bridge.py:92`: a client that has died ends the driver, and END leaves
  simulations in flight without a server.  `portalBridge.py:214` fails on an event of
  an unknown simulation, which `MonitoredToTheEnd` shows not to happen here; a
  batch that could not be posted is lost.  `PostFails` is the exhausted retries
  (`MaxRetryError`, `portalBridge.py:68`); any other exception of `http.request`, or
  of encoding the batch, would end the child at once and is not modelled.

## 4. Proofs

`FrameworkProofs` proves, for all values of the constants that satisfy the
module's assumptions (finitely many simulation components, disjoint names,
every simulation has a visible component of its own, the simulations of the
command line have different names, which `configurationManager.py:273` checks,
...):

- `TypeCorrect`: `Spec => []TypeOK`, one lemma per action, over lemmas on what
  `Respond`, `Kill` and `Block` do to the queues and on `Invocations`.
- `NoWakeupIsLost`: `Spec => []NoLostWakeup`.  `NoLostWakeup` is not inductive:
  if a result could be processed after a wait has been blocked again in the
  same batch, the wait would stay blocked although its call has finished.
  `RetriesComeLast` is what excludes it: a batch is one new message and then
  retries, and once something is blocked only retries are left.  With it the
  steps that free something (`HandleReturnCall`, `HandleFinishTask`) meet an
  empty blocked list, and all others only take away.
- `EndsAreContained`: `Spec => EndIsContained`, an action property.  Only
  `HandleLastResult` ends a simulation while `run` goes on
  (`OnlyLastResultEnds`), and what it kills and removes are members of the
  simulation that ends (`KillIsContained`).
- `RequestsAreKept`: `Spec => []RequestInOnePlace`.  The invariant
  (`RequestInv`) counts the requests of a component in the three lists and the
  responses to it also while the component has no registry entry: a component
  that is created later must find nothing that is under way in its name, and
  `RegistryInv` says that only absent and dead components have no entry.  A
  dead component is excepted: its requests stay in the lists, which is what
  makes the finding of run `abort` possible.
- `CoresAreAccounted`: `Spec => []CoresAccounted`, also when launches fail after
  they were granted.  The sums over the table and over the tasks without an entry
  need that task ids are fresh (`TableInv`).  That a component's tasks are in
  the table as its own needs more than the table: the response to a launch
  belongs to the launch the component waits on (`PendingInv`, by
  `RequestInOnePlace` there is no other request of it), a granted task is in
  the table before its owner knows of it (`GrantInv`), and a `finish_task` under
  way is for a task of its sender which the sender has forgotten (`FinishInv`).
  That an entry is in its owner's hands (`HandsInv`) follows the task from the
  answer to its launch to the request for its end: an answer is not overtaken or
  replaced (`AnswerServes`, `Served`), a program forgets a task only when it asks
  for its end (`AskedForEnd`), and only the failing `Popen` drops an id.

Of the calls, the same module proves:

- `CallsAreInOnePlace`: `Spec => []CallInOnePlace` and `ResultsHaveTakers`:
  `Spec => []ResultsAreAwaited`, from one invariant, `CallInv`.  `Carried(i)`
  counts where call `i` is: in invocation queues, being executed, or returned.
  `IdsInv` says that an id is carried once at most and only after it was given
  out, that no two entries of the three tables of awaited calls have the same
  id, and that what is carried while `run` goes on is awaited.  `LineInv` says
  that the call of a line is carried, and only by components of that line: with
  less, the end of another simulation, which empties the queues of its
  components, could take it away and the line would stall.  For
  `initiate_new_simulation` to keep this, the components of a new simulation
  must have had no entry before, which is `RegistryInv` again.  `LostInv` says
  that a call between components is lost only with a component.  `EarlyInv`
  covers the time before the lines start: only framework components have
  worked, so the first round of invocations, sent together (`RoundSent`), finds
  no call anywhere.  The sum over components in `Carried` changes one component
  at a time (`OneBusier`).
- `LinesRunAsPromised`: `Spec => RunsAsPromised`, the refinement of
  `SimulationRuns`.  Only four messages touch a line (`OthersUntouched`):
  `StartLines` and `HandleCreateSim` map to `Begin`, `HandleLineResult` to
  `Advance`, `HandleLastResult` to `Complete` or `GiveUp`; whatever ends the run
  early maps to `Abort`.  `ProgressInv` adds to `CallInv` that the queue of an
  entry is the rest of its line (`Follows`), that a simulation in flight is in
  `sim_map` and has no verdict, and that one with a verdict has components that
  were there, so that `create_simulation` refuses its name (`VerdictInv`).

`CheckpointProofs` proves `ContributionsAreKept`: `Spec => []ContributionsKept`,
for any workers, settings, steps, crashes and restarts.  The invariant
`StateInv` says that the master copy has the values of this step of everyone
who is done (`DoneIsIn`) and that without merging at most one worker has the
file at a time, and has the latest (`CopiedByOne`): without the second part
`update_state` would overwrite what others have written.  `WritesOwnValue` is
the lemma that uses it.

It also proves what the purge of old checkpoints leaves, for any number of
workers (at least one), settings, steps and restarts, under the habit
`once_per_step`: a second request in the same step lists the step twice, and
the purge may remove the only complete checkpoint (TLC finds this with
`Habits = {}`).

- `AlwaysRestartable`: `Spec => []CanRestart`; `RecentAreKept`:
  `Spec => []KeepsMostRecent`.  Both follow from the invariant `CkptInv`: the run's list is in the order of the
  steps and does not have the step that is being saved (`ListsInv`), a worker
  that has returned without an exception has its files there (`SavingInv`), and
  what is protected, or among the `num` last of the others (`Recent`), is
  complete (`KeptInv`).  During the purge, between any two removals, the
  candidates are exactly the unprotected checkpoints on disk, and after one of
  this run come only later ones (`PurgeInv`).  So the first of more than `num`
  candidates is not among the `num` most recent (`HeadIsNotRecent`, by counting
  the later ones), and the checkpoint just made survives.
- `ProtectedAreKept`: `Spec => []ProtectedRemain`.  `PromisedInv` relates what is
  promised to what the code lists: where `PROTECT_FREQUENCY` is set, each promised
  checkpoint is in `protected`, and with it in the scope of `KeptInv`; where all
  checkpoints are kept (`NUM_CHECKPOINT < 0`) nothing is removed.  Without a
  frequency the first part fails, which is the finding of run `protect`.
- `TakenAsDocumented`: `Spec => TakenWhenDue`, with no habit.  The driver
  compares with the last checkpoint it has begun; `LastInv` says that it is the
  latest of all in wall clock and in physics time, or that there is none yet, and
  `BegunInv` that what has succeeded was begun, one at a time.  So the code is
  never early, and if the last one has succeeded (`LastIsCompleted`) it is not
  late.  The exceptions in the property are described in section 3.

`NodeProofs` proves, for every layout of a node and any set of tasks:

- `LevelsAlwaysAgree`: `Spec => []LevelsAgree` and `RemovesSucceed`:
  `Spec => []ListsServeRelease`, together (`NodeInv`), since neither is inductive
  alone: `release` takes from `allocated` a socket that must be listed there, and
  `allocate` decides by a socket's counter whether it stays in `available`.
  Everything follows from what is taken (`TakenCounted`): cores that were free, at
  least one, as many as `Node.allocate` subtracts (the k lowest of the free ones
  are k, `LowestCounted`), and whole sockets if sockets or nodes were asked for.
  After a release the node adds up what its sockets count, which is the number of
  its free cores (`CoresBySocket`).

`ResourceManagerProofs` proves, for every machine, set of requests and number
of tasks:

- `CoresAreLentOnce`: `Spec => ManagerKeepsPromise`, the refinement of
  `ResourcePool`.  The invariant behind it (`LendingInv`) says that the counter
  of a node is the number of its free cores, since whole nodes are granted by
  that number alone, and that a task holds cores only on the nodes noted for
  it, since `release_allocation` looks nowhere else.  `TakenIsFree` is the
  central lemma: of whatever kind a request is, what it takes is free.
- `WholeIsNeverShared`: `Spec => []WholeMeansWhole`, from `LendingInv` and the
  fact that `FirstSockets` contains a socket whole or not at all.
- `BooksAlwaysAgree`: `Spec => []BooksAgree`.  The invariant (`BooksInv`) adds
  to `LendingInv` that `avail_nodes` holds every node at most once (`ListsInv`),
  that a node is in `alloc_nodes` exactly when some task has cores on it
  (`InUseInv`), and that the manager's counters are sums over nodes and tasks
  (`CountsInv`).  `release_allocation` takes a node out of `alloc_nodes` when
  all its cores are back, which is right only if each node chosen for a grant
  gave at least one core (`SomethingTaken`).
- `WaitingIsForCores`: `Spec => []NothingFreeIsMissed`.  `avail_nodes` holds
  every node with a free core, each once, so that adding up along it
  (`RoomUpTo`) is the sum over all nodes.
- `GrantedTasksFit`: `NoWholeSockets => (Spec => []GrantsFit)`.  The nodes are
  asked in turn, each for what those before it did not give (`AskedInTurn`), and
  each gives what the checks counted on or all that is missing (`FitOnNode`).
  The invariant (`FitInv`) is proved of every single task that did not ask for
  whole sockets, without the hypothesis: such a task fits whatever others ask
  for.  For whole sockets it is not true (`resourceManager.py:541`, section 3).
- `RefusalsAreFinal`: `NoWholeSockets => (Spec => []RefusalIsFinal)`.  What is
  counted on (`Potential`) bounds the room of an idle machine (`IdleIsTooSmall`),
  for single cores and whole nodes, but not for whole sockets (`541`, `553`).
- `WaitingEnds`: `Spec => []WaitingIsWorthwhile`, for requests of all three kinds.
  The property itself excepts (`FitsMachine`) what the checks look at only when the
  cores are there, GPUs and the even share of whole nodes (`368`, `499`), and the
  nodes too small for a request that the potential counts all the same (`509`).

`EventServiceProofs` proves, for any components, topics, kinds of event and
order of requests, with processes dying at any time:

- `TablesAgree`: `Spec => []ListenersAgree` and `TopicsForget`:
  `Spec => []NothingKeptInVain`, from one invariant (`ServiceInv`) of the
  service's tables, the proxies' tables and the marks of the topics.
- `EventsReachListeners`: `Spec => MailboxesKept`, the refinement of
  `Mailboxes`, step by step: what a fetch cuts off a topic's list has been
  fetched by every listener, so no box loses an event by it.

`TaskPoolProofs` proves `PoolTracksTasks`: `Spec => []TasksAreTracked`, for any
tasks, cores and timeouts, whether or not names are used again, if the pool is
used with care (`Careful`): no launch command or `Popen` fails, which would
lose cores (section 3), and the program collects what it has started before it
uses dask or removes the pool.  The invariant (`TrackInv`) says
`TasksAreTracked` id by id (`Tracked`) and adds that a task has one id
everywhere (`IdsDiffer`), that tasks are between the tables only while processes
are started (`LaunchInv`), and that with the dask workers at work nothing else
is (`WorkerInv`).  `AttemptIsSound` and `OutcomeIsSound` follow `init_task_pool`
along the queue: what it has handed out so far fits into what is free, under
ids that nobody has.

`PoolImplementsTaskRuns`: `Spec => TasksRunAsPromised`, the refinement of
`TaskRuns`, under `Careful` and the habit `unique_names`.  The invariant behind
it (`PlaceInv`, beside `TrackInv`) says where a task is: in one part of the pool
at a time, except that it stays queued until all processes of its launch have
started (`OnceInv`); the processes that may still run are those of the active
tasks and of the tasks just launched, one each (`ProcessInv`); what is handed
out and not started is queued and not launched (`GrantedInv`, since an attempt
gives each place of the queue once, `OutcomeGivenOnce`); and no two tasks that
are queued, active or finished share a name (`NamesInv`), which is what
`finished_tasks` relies on.  With it the number of attempts drops out of the
refinement mapping (`StageIs`), and each action moves the stages of some tasks
one further, drops all, or leaves them (`Stepped`).

`CollectionTheorems` holds what these proofs need of the data: sums over
finite sets, filtered lists, numbers of occurrences.  They are recursive
functions, and the induction theorems of the library, which take an operator,
cannot be used; `SmallestExists` replaces them: where a claim about sets built
up one element at a time, or about the first n elements of a list, fails, there
is a smallest failure (`OneByOne`, `CountUp`, `StepByStep`).

`BridgesProofs` proves `AnswersAreRight`: `Spec => []AnswersAreOwn`, for any
number of evaluations and in all circumstances (`Sites`).  In `AnswersInv`, the
events on their way to the driver and those it has fetched tell the truth about
runs that have ended (`Truthful`), the number of the next instance is unused
(`FreshInstance`, so a new run never replaces one that has an answer), and a
remembered connection belongs to the run with its caller's parameters
(`CacheIsRight`).  The last holds only while the driver serves: when
`create_simulation` fails, a connection has been remembered for a run that does
not exist, which is harmless since the exception ends the driver.

Three more theorems rest on `AnswersInv` and on `CallersInv`: an evaluation
connects once and its connection is taken once, so there are no more instances
than evaluations.

- `TakenAreServed`: `Spec => []NobodyIsAbandoned`.  While the driver serves, it
  remembers every client whose parameters it has taken and which it has not
  answered (`ClientInv`); it stops serving with nothing owed, at END, or with an
  exception (`ServiceInv`).  END comes when all clients are over, or when Dakota
  ends early; the invariant says that then all of the sweep have answers, or
  something has gone wrong, which stays so (`Wrong`).  That a run could not be
  created must be one of the things that go wrong (`WentWrong`): the run that
  fails need not be the run of the client that is abandoned, which shows from
  three evaluations on.
- `RunsAreMonitored`: `Spec => []MonitoredToTheEnd`.  For each run, what the
  portal component has handled and what is still on its way to it make up what
  the framework has published (`Handling`), which begins with one start and has
  its end last (`Story`).  The component may stop when it watches no run,
  because only the driver creates runs, and the end of the driver's own run is
  published after their starts (`BirthInv`).
- `PortalIsTold`: `Spec => []PortalHearsAll`.  What has been posted and what is
  in the pipe (`Stream`) has rising numbers, each with the type of the event of
  that number, and is complete if nothing was lost (`Told`); the child ends only
  when the pipe is empty or when it has given up, which is a loss (`ChildInv`).

Assumptions: those the modules name (`...Assumption`), which TLC evaluates on
the instances of the runs.  No theorem assumes fairness.

TLC only: liveness and what depends on fairness; the refinement of
`WorkPlan`; `GrantsFit` and `RefusalIsFinal` for requests for whole sockets, of
which they are not always true (section 3: `resourceManager.py:541`, `553`) and
which are checked for those of `sharing`; and the invariants of
`UsageSimulator`.

## 5. Not modelled

- Reading and checking of configuration and platform files, ports, parameters,
  staging of input and output files, replay, logging, HTML pages, time stamps,
  the text of launch commands, the URL and the content of posts: no protocol
  state, or wording only.
- `resourceHelper.py` (parses the output of batch systems), `versioneer.py`,
  `utils/HTML.py` and other utilities.
- Requests for zero processes, nodes given as lists of core names, `cpp`.
- `existsTopic`, `getTopicList`, `unregisterSubscriber`: nothing calls them.  A
  callback that calls `process_events` again.
- State of several files, whose copies are not atomic; a merge that fails.
- A pipe of limited size between the portal component and its child, which is
  joined while nobody reads the responses (`portalBridge.py:244`).  Components
  that survive the framework when the launcher kills it.
- Parameters that an evaluation does not name keep their earlier value
  (`dakota_bridge.py:162`); Dakota names all of them each time.
- Of the usage simulator: the `total_time` mode, which cannot run, what would
  follow a node failure, which is not reached, and the scripts around it
  (`viz_engine.py`, `experimentinator.py`, `configobj.py`, tables and plots).
- Starvation of a large blocked launch by an endless supply of small ones
  (`ips.py:491`), which the bounds exclude; programs that hold a task while they
  wait for another (`no_hold_and_wait`).
