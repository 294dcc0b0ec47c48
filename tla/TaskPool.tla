-------------------------------- MODULE TaskPool --------------------------------
(***************************************************************************)
(* A task pool of a component (TaskPool in services.py), with what the     *)
(* TaskManager (init_task_pool, finish_task) does for it.                  *)
(*                                                                         *)
(* submit_tasks asks the framework for cores for all queued tasks at once, *)
(* starts a process for each task that got some, and tries again after     *)
(* others have finished.  Processes end by themselves.  The requests are   *)
(* atomic here (Framework has the protocol); an operation of the pool is a *)
(* sequence of steps, so that processes and the rest of the simulation     *)
(* move in between.  Alternatively the queued tasks go to dask, which runs *)
(* them on workers that are one task of the framework.                     *)
(*                                                                         *)
(* Task ids are those of tasks that exist: the code counts them upwards,   *)
(* also for attempts that are refused.                                     *)
(***************************************************************************)
EXTENDS Integers, FiniteSets, Sequences, Functions, Filtering

CONSTANTS
  Names,        \* task names
  Cores,        \* Cores[n]: nproc of the tasks named n
  BadCommand,   \* names for which the launch command cannot be built
  BadBinary,    \* names for which Popen raises
  MayTimeOut,   \* names of tasks with a timeout
  MaxAdds,      \* MaxAdds[n]: bound on the tasks added with the name n
  TotalCores,
  OtherCores,   \* cores that another component holds at first
  DaskCores,    \* processes of the dask workers, 0 if dask is not used
  Habits        \* what the program is assumed to do, see AddTask and SubmitDask

Tasks == UNION {[name : {x}, n : 1..MaxAdds[x]] : x \in Names}
CoresOf(t) == Cores[t.name]

ASSUME PoolAssumption ==
  /\ Cores \in [Names -> Nat \ {0}]
  /\ MaxAdds \in [Names -> Nat]
  /\ TotalCores \in Nat /\ OtherCores \in 0..TotalCores /\ DaskCores \in 0..TotalCores

VARIABLES
  allocated,      \* the ResourceManager's allocations, with their cores
  currTaskTable,  \* ids in the TaskManager's table
  others          \* cores still held by the other component

VARIABLES
  taskMap,        \* ids in task_map of the component's ServicesProxy
  process,        \* processes: [id, task, state]
  queued,         \* queued_tasks, in order of their addition
  active,         \* active_tasks by id; by the id 0 those given to dask
  finished,       \* finished_tasks, one per name
  serial,         \* serial_pool
  futures,        \* dask's tasks that are not done; those that are
  daskDone,
  worker          \* dask_workers_tid, 0 when dask_pool is false

VARIABLES
  at,             \* where the component is in the operation, "idle" between
  block,          \* the argument of submit_tasks
  done,           \* done of _wait_any_task
  granted,        \* allocated_tasks that have no process yet
  launched,       \* active_tasks of launch_task_pool
  results,        \* statuses that have been reported to the program
  adds

managerVars == <<allocated, currTaskTable, others>>
poolVars == <<queued, active, finished, serial, futures, daskDone, worker>>
opVars == <<at, block, done, granted, launched>>
vars == <<managerVars, taskMap, process, poolVars, opVars, results, adds>>

Init ==
  /\ allocated = {} /\ currTaskTable = {} /\ others = OtherCores
  /\ taskMap = {} /\ process = {}
  /\ queued = <<>> /\ active = {} /\ finished = {} /\ serial = TRUE
  /\ futures = {} /\ daskDone = {} /\ worker = 0
  /\ at = "idle" /\ block = FALSE /\ done = FALSE /\ granted = <<>> /\ launched = {}
  /\ results = {} /\ adds = [n \in Names |-> 0]

CoresIn(S) == SumFunction([a \in S |-> a.cores])
AvailCores == TotalCores - others - CoresIn(allocated)
Elements(s) == {s[i] : i \in DOMAIN s}

UsedIds == {a.id : a \in allocated} \cup {p.id : p \in process}
NewId(used) == CHOOSE i \in 1..(Cardinality(used) + 1) : i \notin used

ProcessOf(i) == CHOOSE p \in process : p.id = i
Ended(i) == \E p \in process : p.id = i /\ p.state = "ended"
Become(i, state) == {IF p.id = i THEN [p EXCEPT !.state = state] ELSE p : p \in process}

-----------------------------------------------------------------------------
(* The TaskManager *)

(* init_task_pool over the queue: tasks for which there are not enough     *)
(* cores now are skipped.  A task that can never be served makes it give   *)
(* back what it has granted; any other exception does not, and _init_task  *)
(* allocates before it builds the command.                                 *)
Nothing == [allocated |-> {}, given |-> <<>>, error |-> "none"]
Allocations(r) == {[id |-> g.id, cores |-> CoresOf(g.task)] : g \in Elements(r.given)}

ReleasedNot(r) == [r EXCEPT !.error = "refused", !.given = <<>>]
Released(r) == [Nothing EXCEPT !.error = "refused"]

Fits(n, left) == n <= left

Attempt(r, t) ==
  LET left == AvailCores - CoresIn(r.allocated)
      i == NewId(UsedIds \cup {a.id : a \in r.allocated})
      more == r.allocated \cup {[id |-> i, cores |-> CoresOf(t)]}
  IN CASE r.error # "none" -> r
       [] r.error = "none" /\ CoresOf(t) > TotalCores -> Released(r)
       [] r.error = "none" /\ CoresOf(t) <= TotalCores /\ ~Fits(CoresOf(t), left) -> r
       [] r.error = "none" /\ Fits(CoresOf(t), left) ->
            IF t.name \in BadCommand
            THEN [r EXCEPT !.allocated = more, !.error = "failed"]
            ELSE [r EXCEPT !.allocated = more, !.given = Append(@, [id |-> i, task |-> t])]

InitTaskPool ==
  LET outcome[k \in 0..Len(queued)] ==
        IF k = 0 THEN Nothing ELSE Attempt(outcome[k - 1], queued[k])
  IN  outcome[Len(queued)]

(* finish_task *)
Finish(ids) ==
  /\ allocated' = {a \in allocated : a.id \notin ids}
  /\ currTaskTable' = currTaskTable \ ids
  /\ taskMap' = taskMap \ ids

-----------------------------------------------------------------------------
(* add_task *)

(* Habit "unique_names": a name is used again only after its status has *)
(* been reported.                                                       *)
AddTask(n) ==
  /\ at = "idle" /\ adds[n] < MaxAdds[n]
  /\ \A t \in Elements(queued) : t.name # n
  /\ "unique_names" \in Habits =>
        (\A a \in active : a.task.name # n) /\ (\A f \in finished : f.task.name # n)
  /\ adds' = [adds EXCEPT ![n] = @ + 1]
  /\ queued' = Append(queued, [name |-> n, n |-> adds[n] + 1])
  /\ serial' = (serial /\ Cores[n] = 1)
  /\ UNCHANGED <<managerVars, taskMap, process, active, finished, futures, daskDone, worker,
                 opVars, results>>

-----------------------------------------------------------------------------
(* submit_tasks *)

Go(place) == at' = place
Return == at' = "idle"

(* The loop in _wait_any_task ends at once when nothing is active. *)
WaitAny(place) == at' = place /\ done' = FALSE

SubmitTasks(b) ==
  /\ at = "idle"
  /\ \A a \in active : a.id # 0     \* else KeyError in wait_task_nonblocking
  /\ block' = b
  /\ WaitAny("before")
  /\ UNCHANGED <<managerVars, taskMap, process, poolVars, granted, launched, results, adds>>

(* A traversal of the active tasks: wait_task_nonblocking finds a process  *)
(* ended, or kills it because its time is over.                            *)
Recorded(a, status) ==
  {f \in finished : f.task.name # a.task.name} \cup {[task |-> a.task, status |-> status]}

CollectTask(a) ==
  /\ at \in {"before", "wait", "drain", "get"} /\ a \in active
  /\ \/ /\ Ended(a.id)
        /\ finished' = Recorded(a, "ended")
        /\ process' = {p \in process : p.id # a.id}
     \/ /\ ~Ended(a.id) /\ a.task.name \in MayTimeOut
        /\ finished' = Recorded(a, "timeout")
        /\ process' = Become(a.id, "signalled")
  /\ active' = active \ {a}
  /\ Finish({a.id})
  /\ done' = TRUE
  /\ UNCHANGED <<others, queued, serial, futures, daskDone, worker, at, block, granted,
                 launched, results, adds>>

WaitIsOverLate == done
WaitIsOver == done \/ active = {}

(* The top of the loop: with nothing queued the loop ends, and a blocking *)
(* call waits for all active tasks.                                       *)
Loop == IF queued # <<>> THEN Go("launch") ELSE IF block THEN WaitAny("drain") ELSE Return

AfterWait ==
  /\ at = "before" \/ (at = "wait" /\ WaitIsOver)
  /\ Loop
  /\ at' # "drain" => UNCHANGED done
  /\ UNCHANGED <<managerVars, taskMap, process, poolVars, block, granted, launched, results, adds>>

EndDrain ==
  /\ at = "drain" /\ active = {}
  /\ Return
  /\ UNCHANGED <<managerVars, taskMap, process, poolVars, block, done, granted, launched,
                 results, adds>>

LaunchTaskPool ==
  /\ at = "launch"
  /\ LET r == InitTaskPool IN
     /\ allocated' = allocated \cup r.allocated
     /\ currTaskTable' = currTaskTable \cup {g.id : g \in Elements(r.given)}
     /\ IF r.error = "none" THEN granted' = r.given /\ Go("popen")
                            ELSE granted' = <<>> /\ Return
  /\ UNCHANGED <<others, taskMap, process, poolVars, block, done, launched, results, adds>>

(* Popen for one task after the other; if one raises, those started before *)
(* it stay queued, and those granted after it are not started.             *)
StartProcess ==
  /\ at = "popen" /\ granted # <<>>
  /\ LET g == Head(granted) IN
     IF g.task.name \in BadBinary
     THEN granted' = <<>> /\ launched' = {} /\ Return /\ UNCHANGED <<process, taskMap>>
     ELSE /\ process' = process \cup {[id |-> g.id, task |-> g.task, state |-> "running"]}
          /\ taskMap' = taskMap \cup {g.id}
          /\ launched' = launched \cup {g}
          /\ granted' = Tail(granted)
          /\ UNCHANGED at
  /\ UNCHANGED <<managerVars, poolVars, block, done, results, adds>>

StillQueuedAll(S) == queued
StillQueued(S) == Filter(queued, Tasks \ S)

Activate ==
  /\ at = "popen" /\ granted = <<>>
  /\ active' = active \cup launched
  /\ queued' = StillQueued({g.task : g \in launched})
  /\ launched' = {}
  /\ IF block THEN WaitAny("wait") ELSE Return /\ UNCHANGED done
  /\ UNCHANGED <<managerVars, taskMap, process, finished, serial, futures, daskDone, worker,
                 block, granted, results, adds>>

-----------------------------------------------------------------------------
(* get_finished_tasks_status and terminate_tasks *)

GetFinishedTasks ==
  /\ at = "idle" /\ worker = 0
  /\ active # {} \/ finished # {}      \* else an exception
  /\ WaitAny("get")
  /\ UNCHANGED <<managerVars, taskMap, process, poolVars, block, granted, launched, results, adds>>

Report ==
  /\ at = "get" /\ WaitIsOver
  /\ results' = results \cup finished
  /\ finished' = {}
  /\ Return
  /\ UNCHANGED <<managerVars, taskMap, process, queued, active, serial, futures, daskDone,
                 worker, block, done, granted, launched, adds>>

(* remove_task_pool; the program may then create the pool anew. *)
KilledIds == {a.id : a \in active} \ {0}

RemoveTaskPool ==
  /\ at = "idle"
  /\ "collects" \in Habits => worker = 0
  /\ Finish(KilledIds)
  /\ process' = {IF p.id \in KilledIds THEN [p EXCEPT !.state = "signalled"] ELSE p : p \in process}
  /\ queued' = <<>> /\ active' = {} /\ finished' = {} /\ serial' = TRUE
  /\ futures' = {} /\ daskDone' = {} /\ worker' = 0
  /\ UNCHANGED <<others, opVars, results, adds>>

-----------------------------------------------------------------------------
(* dask *)

(* submit_dask_tasks: the workers are a task that launch_task blocks for;  *)
(* the queue replaces the active tasks.  Habit "collects": before it uses  *)
(* dask or removes the pool, the program collects what dask or an earlier  *)
(* submit_tasks has still in hand.                                         *)
SubmitDask ==
  /\ at = "idle" /\ DaskCores > 0 /\ serial /\ queued # <<>>
  /\ "collects" \in Habits => active = {} /\ finished = {} /\ worker = 0
  /\ Fits(DaskCores, AvailCores)
  /\ LET i == NewId(UsedIds) IN
     /\ allocated' = allocated \cup {[id |-> i, cores |-> DaskCores]}
     /\ currTaskTable' = currTaskTable \cup {i}
     /\ taskMap' = taskMap \cup {i}
     /\ worker' = i
  /\ futures' = Elements(queued) /\ daskDone' = {}
  /\ active' = {[id |-> 0, task |-> t] : t \in Elements(queued)}
  /\ queued' = <<>>
  /\ UNCHANGED <<others, process, finished, serial, opVars, results, adds>>

DaskTaskEnds(t) ==
  /\ t \in futures
  /\ futures' = futures \ {t} /\ daskDone' = daskDone \cup {t}
  /\ UNCHANGED <<managerVars, taskMap, process, queued, active, finished, serial, worker,
                 opVars, results, adds>>

(* get_dask_finished_tasks_status: gather waits for every task. *)
GetDaskFinished ==
  /\ at = "idle" /\ worker # 0 /\ futures = {}
  /\ results' = results \cup {[task |-> t, status |-> "ended"] : t \in daskDone}
  /\ finished' = {} /\ active' = {} /\ daskDone' = {}
  /\ Finish({worker})
  /\ worker' = 0 /\ serial' = TRUE
  /\ UNCHANGED <<others, process, queued, futures, opVars, adds>>

-----------------------------------------------------------------------------
(* Processes, and the other component *)

ProcessEnds(p) ==
  /\ p \in process
  /\ \/ p.state = "running" /\ process' = Become(p.id, "ended")
     \/ p.state = "signalled" /\ process' = process \ {p}
  /\ UNCHANGED <<managerVars, taskMap, poolVars, opVars, results, adds>>

OtherFinishes ==
  /\ others > 0 /\ others' = 0
  /\ UNCHANGED <<allocated, currTaskTable, taskMap, process, poolVars, opVars, results, adds>>

Operation ==
  \/ AfterWait \/ EndDrain \/ LaunchTaskPool \/ StartProcess \/ Activate \/ Report
  \/ \E a \in active : CollectTask(a)

Program ==
  \/ \E n \in Names : AddTask(n)
  \/ \E b \in BOOLEAN : SubmitTasks(b)
  \/ GetFinishedTasks \/ RemoveTaskPool \/ SubmitDask \/ GetDaskFinished

World ==
  \/ \E p \in process : ProcessEnds(p)
  \/ \E t \in Tasks : DaskTaskEnds(t)
  \/ OtherFinishes

Next == Operation \/ Program \/ World

Spec == Init /\ [][Next]_vars

(* Processes end, or run into their timeout; the other component finishes. *)
FairSpec == Spec /\ WF_vars(Operation) /\ WF_vars(World)

-----------------------------------------------------------------------------
(* Properties *)

(* Cores are neither lost nor lent twice; whatever the manager has lent to *)
(* the component is about to be started or is in task_map, and the pool    *)
(* knows what is in task_map, so that it can be collected or killed; only  *)
(* a process that was told to end runs without cores.                      *)
TasksAreTracked ==
  /\ AvailCores >= 0
  /\ {a.id : a \in allocated} = currTaskTable
  /\ currTaskTable = taskMap \cup {g.id : g \in Elements(granted)}
  /\ taskMap = ({a.id : a \in active \cup launched} \cup {worker}) \ {0}
  /\ \A p \in process : p.id \in taskMap \/ p.state = "signalled"

(* Tasks go the way TaskRuns says, whatever part of the pool they are in:  *)
(* none is started twice, forgotten, or reported before it has ended.      *)
In(t, S) == \E e \in S : e.task = t
Alive == {p \in process : p.state # "signalled"}
Attempts(t) == Cardinality({p \in Alive : p.task = t}) + (IF In(t, finished \cup results) THEN 1 ELSE 0)

Stage == [t \in Tasks |->
  IF t.n > adds[t.name] THEN "none"
  ELSE IF Attempts(t) > 1 THEN "twice"
  ELSE IF In(t, results) THEN "reported"
  ELSE IF In(t, finished) \/ t \in daskDone \/ In(t, {p \in Alive : p.state = "ended"}) THEN "ended"
  ELSE IF t \in futures \/ In(t, Alive) THEN "running"
  ELSE IF t \in Elements(queued) THEN "queued" ELSE "dropped"]

Runs == INSTANCE TaskRuns WITH stage <- Stage
TasksRunAsPromised == Runs!Spec

(* submit_tasks and get_finished_tasks_status return, since they retry     *)
(* whenever a task has finished or nothing is active.                      *)
OperationsEnd == at # "idle" ~> at = "idle"
=============================================================================
