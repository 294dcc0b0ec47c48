------------------------------- MODULE Framework -------------------------------
(***************************************************************************)
(* The IPS framework process and the component processes it serves.        *)
(*                                                                         *)
(* The framework (ips.py) is one loop that reads messages from in_queue:   *)
(* service requests of components, which it dispatches to its managers     *)
(* (taskManager.py, configurationManager.py), and results of component     *)
(* methods.  A request that cannot be answered yet is put aside in         *)
(* blocked_messages and tried again when the next message arrives.  A      *)
(* component (component.py) is a process that executes one method at a     *)
(* time; while it does, it uses services (services.py) by sending one      *)
(* request at a time and waiting for the response.                         *)
(*                                                                         *)
(* The loop over msg_list in run() is one action per message, so component *)
(* processes move while the framework works through a batch.  The bodies   *)
(* of component methods are the user's programs: any sequence of service   *)
(* uses, ending in a return or an exception, within the constants below.   *)
(* Nodes are reduced here to a number of cores (module ResourceManager     *)
(* has them), and the publication of events is left out.                   *)
(***************************************************************************)
EXTENDS Integers, FiniteSets, Sequences, FiniteSetsExt, Functions

CONSTANTS
  SimComps,     \* components of simulations
  Sims,         \* names of simulations
  SimOf,        \* SimOf[c]: the simulation component c belongs to
  Visible,      \* Visible[s]: the Init component of s, if any, then its Driver
  FwkList,      \* the framework components (runspaceInit, portal bridge), in order
  SimList,      \* the simulations of the command line, in order
  Calls,        \* pairs <<c, d>>: programs of c may call d
  Creates,      \* triples <<c, s, sub>>: programs of c may create simulation s
  TaskCores,    \* TaskCores[c]: core counts of the tasks that c may launch
  BlockModes,   \* values of the block arguments in use
  BusyMethods,  \* the methods whose programs use services
  MayFail,      \* components whose programs may raise an exception
  BadCommand,   \* components for whose tasks build_launch_cmd may raise
  BadBinary,    \* components whose launch commands Popen may be unable to run
  Habits,       \* what the programs are assumed to do, see CanReturn
  MaxRequests,  \* MaxRequests[c]: bound on the calls, launches and polls of c
  TotalCores    \* cores of the allocation

Elements(s) == {s[i] : i \in DOMAIN s}

FwkComps == Elements(FwkList)
Components == FwkComps \cup SimComps
Lines == Sims \cup FwkComps
Methods == <<"init", "step", "finalize">>

ASSUME ComponentAssumption ==
  /\ IsFiniteSet(SimComps)
  /\ FwkList \in Seq(FwkComps) /\ FwkList # <<>>
  /\ \A i, j \in DOMAIN FwkList : FwkList[i] = FwkList[j] => i = j
  /\ FwkComps \cap SimComps = {} /\ Sims \cap FwkComps = {}
ASSUME SimulationAssumption ==
  /\ SimOf \in [SimComps -> Sims]
  /\ \A i \in DOMAIN SimList : SimList[i] \in Sims
  /\ SimList \in Seq(Sims)
  /\ \A i, j \in DOMAIN SimList : SimList[i] = SimList[j] => i = j
  /\ Visible \in [Sims -> Seq(SimComps) \ {<<>>}]
  /\ \A s \in Sims : \A i \in DOMAIN Visible[s] : SimOf[Visible[s][i]] = s
ASSUME ProgramAssumption ==
  /\ Calls \subseteq SimComps \X SimComps
  /\ Creates \subseteq SimComps \X Sims \X BOOLEAN
  /\ TaskCores \in [SimComps -> SUBSET Nat]
  /\ BlockModes \subseteq BOOLEAN
  /\ BadCommand \subseteq SimComps /\ BadBinary \subseteq SimComps
  /\ MaxRequests \in [SimComps -> Nat] /\ TotalCores \in Nat

VARIABLES
  phase,             \* "boot", "init", "loop", then "ended" or "aborted"
  inQueue,           \* in_queue
  msgList,           \* msg_list: what is left of the batch in hand
  blockedMessages,   \* blocked_messages
  fwkCalls,          \* outstanding_fwk_calls, with the callee of each
  simCalls,          \* outstanding_calls_list and call_queue_map
  simMap,            \* the simulations in sim_map
  registry,          \* the components with a registry entry
  simEnd             \* simEnd[s]: the ok field of the IPS_END event of s

VARIABLES
  nextCallId, outstandingCalls, finishedCalls,   \* the TaskManager's calls
  nextTaskId, currTaskTable,   \* its tasks
  strayTasks,                  \* active_tasks that are not in curr_task_table
  availCores                   \* the cores left

VARIABLES
  state,         \* state[c]: "absent", "idle", "running", "waiting" or "dead"
  current,       \* the invocation c is executing
  invocationQ,   \* invocations sent to c
  svcResponseQ,  \* responses sent to c
  pending,       \* the request c is waiting on (incomplete_calls)
  callTargets,   \* calls that c has started and not seen succeed
  taskMap,       \* tasks that c has launched and not finished
  unstarted,     \* ghost: tasks that were granted and could not be started
  requests       \* how much of MaxRequests c has used

loopVars == <<phase, inQueue, msgList, blockedMessages, fwkCalls, simCalls>>
simVars  == <<simMap, registry, simEnd>>
callVars == <<nextCallId, outstandingCalls, finishedCalls>>
taskVars == <<nextTaskId, currTaskTable, strayTasks, availCores>>
clientVars == <<current, pending, callTargets, taskMap, unstarted, requests>>
compVars == <<state, invocationQ, svcResponseQ, clientVars>>
vars == <<loopVars, simVars, callVars, taskVars, compVars>>

-----------------------------------------------------------------------------
(* Messages *)

InitCall(c, d)       == [type |-> "init_call", from |-> c, callee |-> d]
WaitCall(c, i, b)    == [type |-> "wait_call", from |-> c, call |-> i, block |-> b]
InitTask(c, n, b)    == [type |-> "init_task", from |-> c, cores |-> n, block |-> b]
FinishTask(c, t)     == [type |-> "finish_task", from |-> c, task |-> t]
CreateSim(c, s, sub) == [type |-> "create_simulation", from |-> c, sim |-> s, sub |-> sub]
Result(c, i, ok)     == [type |-> "result", from |-> c, call |-> i, ok |-> ok]

Waits == [type : {"wait_call"}, from : SimComps, call : Nat, block : BOOLEAN]
Launches == [type : {"init_task"}, from : SimComps, cores : Nat, block : BOOLEAN]
Requests == [type : {"init_call"}, from : SimComps, callee : SimComps]
            \cup Waits \cup Launches
            \cup [type : {"finish_task"}, from : SimComps, task : Nat]
            \cup [type : {"create_simulation"}, from : SimComps, sim : Sims, sub : BOOLEAN]
Results == [type : {"result"}, from : Components, call : Nat, ok : BOOLEAN]
Messages == Requests \cup Results

NoRequest == [type |-> "none"]
Invocation == [call : Nat, method : {"init", "step", "finalize"}]
NoInvocation == [call |-> 0, method |-> "init"]
NoTarget == [comp |-> "none", method |-> "none"]
Response == [ok : BOOLEAN, val : Nat]

(* run() and initiate_new_simulation: the invocations of a line, in order. *)
Invocations(k) ==
  IF k \in FwkComps
  THEN <<[comp |-> k, method |-> "step"], [comp |-> k, method |-> "finalize"]>>
  ELSE [i \in 1..(3 * Len(Visible[k])) |->
          [comp |-> Visible[k][((i - 1) \div 3) + 1],
           method |-> Methods[((i - 1) % 3) + 1]]]

Target == [comp : Components, method : {"init", "step", "finalize"}]
SimCall == [call : Nat, line : Lines, inv : Target, queue : Seq(Target)]

(* The list entry of a line whose first invocation is call i. *)
EntryIdAfterIncrement(k, i) ==
  [call |-> i + 1, line |-> k, inv |-> Head(Invocations(k)), queue |-> Tail(Invocations(k))]
Entry(k, i) ==
  [call |-> i, line |-> k, inv |-> Head(Invocations(k)), queue |-> Tail(Invocations(k))]

(* The next invocation of a line is taken from the front of its queue. *)
PopFromEnd(queue) == [inv |-> queue[Len(queue)], queue |-> SubSeq(queue, 1, Len(queue) - 1)]
Pop(queue) == [inv |-> Head(queue), queue |-> Tail(queue)]

InitialLines == FwkList \o SimList
CompsOf(s) == {c \in registry \cap SimComps : SimOf[c] = s}
MembersOf(s) == {c \in SimComps : SimOf[c] = s}

-----------------------------------------------------------------------------
Init ==
  /\ phase = "boot" /\ inQueue = <<>> /\ msgList = <<>> /\ blockedMessages = <<>>
  /\ fwkCalls = {} /\ simCalls = {}
  /\ simMap = Elements(SimList)
  /\ registry = FwkComps \cup {c \in SimComps : SimOf[c] \in simMap}
  /\ simEnd = [s \in Sims |-> "none"]
  /\ nextCallId = 1 /\ outstandingCalls = {} /\ finishedCalls = {}
  /\ nextTaskId = 1 /\ currTaskTable = {} /\ strayTasks = {} /\ availCores = TotalCores
  /\ state = [c \in Components |-> IF c \in registry THEN "idle" ELSE "absent"]
  /\ current = [c \in Components |-> NoInvocation]
  /\ invocationQ = [c \in Components |-> <<>>]
  /\ svcResponseQ = [c \in Components |-> <<>>]
  /\ pending = [c \in Components |-> NoRequest]
  /\ callTargets = [c \in Components |-> {}]
  /\ taskMap = [c \in Components |-> {}] /\ unstarted = {}
  /\ requests = [c \in Components |-> 0]

-----------------------------------------------------------------------------
(* Termination *)

KillOthersToo(K) ==
  /\ registry' = registry \ SimComps
  /\ state' = [c \in Components |-> IF c \in SimComps \cap registry THEN "dead" ELSE state[c]]
  /\ invocationQ' = [c \in Components |-> IF c \in SimComps THEN <<>> ELSE invocationQ[c]]
  /\ svcResponseQ' = [c \in Components |-> IF c \in SimComps THEN <<>> ELSE svcResponseQ[c]]

(* The processes of K get a terminate message and then a SIGTERM; their    *)
(* queues go with their registry entries.                                  *)
Kill(K) ==
  /\ registry' = registry \ K
  /\ state' = [c \in Components |-> IF c \in K /\ c \in registry THEN "dead" ELSE state[c]]
  /\ invocationQ' = [c \in Components |-> IF c \in K THEN <<>> ELSE invocationQ[c]]
  /\ svcResponseQ' = [c \in Components |-> IF c \in K THEN <<>> ELSE svcResponseQ[c]]

(* terminate_all_sims, after which run() returns or raises. *)
TerminateAll(how) ==
  /\ phase' = how /\ msgList' = <<>>
  /\ Kill(Components) /\ simMap' = {}

-----------------------------------------------------------------------------
(* The framework: _dispatch_service_request *)

Working(type) == msgList # <<>> /\ Head(msgList).type = type

(* The response is put on the queue found in the registry.  If the         *)
(* requester has no entry any more, the exception reaches run(), which     *)
(* terminates everything and returns.                                      *)
Respond(c, ok, val) ==
  \/ /\ c \in registry
     /\ svcResponseQ' = [svcResponseQ EXCEPT ![c] = Append(@, [ok |-> ok, val |-> val])]
     /\ msgList' = Tail(msgList)
     /\ UNCHANGED <<phase, simMap, registry, state, invocationQ>>
  \/ /\ c \notin registry
     /\ TerminateAll("aborted")

(* BlockedMessageException: the request is kept for the next batch. *)
Block(m) ==
  /\ blockedMessages' = Append(blockedMessages, m)
  /\ msgList' = Tail(msgList)

(* TaskManager.init_call for a component.  The call id is spent whether or *)
(* not the callee exists.                                                  *)
ManagedNot(i, c) == {}
Managed(i, c) == {[call |-> i, caller |-> c]}

HandleInitCall ==
  /\ Working("init_call")
  /\ LET m == Head(msgList) IN
     /\ nextCallId' = nextCallId + 1
     /\ \/ /\ m.callee \in registry /\ m.from \in registry
           /\ invocationQ' = [invocationQ EXCEPT ![m.callee] =
                                Append(@, [call |-> nextCallId, method |-> "step"])]
           /\ outstandingCalls' = outstandingCalls \cup Managed(nextCallId, m.from)
           /\ svcResponseQ' = [svcResponseQ EXCEPT ![m.from] =
                                 Append(@, [ok |-> TRUE, val |-> nextCallId])]
           /\ msgList' = Tail(msgList)
           /\ UNCHANGED <<phase, simMap, registry, state>>
        \/ /\ m.callee \in registry /\ m.from \notin registry
           /\ outstandingCalls' = outstandingCalls \cup Managed(nextCallId, m.from)
           /\ TerminateAll("aborted")
        \/ /\ m.callee \notin registry
           /\ Respond(m.from, FALSE, 0)
           /\ UNCHANGED outstandingCalls
  /\ UNCHANGED <<inQueue, blockedMessages, fwkCalls, simCalls, simEnd,
                 finishedCalls, taskVars, clientVars>>

(* TaskManager.wait_call: a finished call is answered, and forgotten, even *)
(* when the answer is its exception.                                       *)
HandleWaitCall ==
  /\ Working("wait_call")
  /\ LET m == Head(msgList)
         done == {f \in finishedCalls : f.call = m.call}
     IN \/ /\ done # {}
           /\ finishedCalls' = finishedCalls \ done
           /\ \E f \in done : Respond(m.from, f.ok, m.call)
           /\ UNCHANGED blockedMessages
        \/ /\ done = {} /\ ~m.block
           /\ Respond(m.from, FALSE, m.call)
           /\ UNCHANGED <<finishedCalls, blockedMessages>>
        \/ /\ done = {} /\ m.block
           /\ Block(m)
           /\ UNCHANGED <<finishedCalls, phase, simMap, registry, state,
                          invocationQ, svcResponseQ>>
  /\ UNCHANGED <<inQueue, fwkCalls, simCalls, simEnd, nextCallId, outstandingCalls,
                 taskVars, clientVars>>

(* TaskManager.init_task: every attempt takes a task id, and build_launch_cmd *)
(* comes after get_allocation and before the entry in the table: when it     *)
(* raises, the cores are lent and the requester is told of a failure.        *)
GrantableOffByOne(n) == n <= availCores + 1
Grantable(n) == n <= availCores
Lent(m) == [task |-> nextTaskId, owner |-> m.from, cores |-> m.cores]

HandleInitTask ==
  /\ Working("init_task")
  /\ LET m == Head(msgList) IN
     /\ nextTaskId' = nextTaskId + 1
     /\ \/ /\ Grantable(m.cores)
           /\ availCores' = availCores - m.cores
           /\ \/ /\ currTaskTable' = currTaskTable \cup {Lent(m)}
                 /\ Respond(m.from, TRUE, nextTaskId)
                 /\ UNCHANGED strayTasks
              \/ /\ m.from \in BadCommand
                 /\ strayTasks' = strayTasks \cup {Lent(m)}
                 /\ Respond(m.from, FALSE, 0)
                 /\ UNCHANGED currTaskTable
           /\ UNCHANGED blockedMessages
        \/ /\ ~Grantable(m.cores) /\ m.cores <= TotalCores /\ m.block
           /\ Block(m)
           /\ UNCHANGED <<availCores, currTaskTable, strayTasks, phase, simMap, registry,
                          state, invocationQ, svcResponseQ>>
        \/ /\ ~Grantable(m.cores) /\ (m.cores > TotalCores \/ ~m.block)
           /\ Respond(m.from, FALSE, 0)
           /\ UNCHANGED <<availCores, currTaskTable, strayTasks, blockedMessages>>
  /\ UNCHANGED <<inQueue, fwkCalls, simCalls, simEnd, callVars, clientVars>>

(* TaskManager.finish_task *)
WithoutKept(t) == currTaskTable
Without(t) == currTaskTable \ {t}

HandleFinishTask ==
  /\ Working("finish_task")
  /\ LET m == Head(msgList) IN
     \E t \in currTaskTable :
        /\ t.task = m.task
        /\ availCores' = availCores + t.cores
        /\ currTaskTable' = Without(t)
        /\ Respond(m.from, TRUE, 0)
  /\ UNCHANGED <<inQueue, blockedMessages, fwkCalls, simCalls, simEnd, nextTaskId,
                 strayTasks, callVars, clientVars>>

(* ConfigurationManager.create_simulation and, unless it is a sub-workflow, *)
(* Framework.initiate_new_simulation.  A name can be used once.             *)
HandleCreateSim ==
  /\ Working("create_simulation")
  /\ LET m == Head(msgList)
         members == MembersOf(m.sim)
         first == Head(Invocations(m.sim))
         fresh == \A c \in members : state[c] = "absent"
     IN \/ /\ m.from \in registry /\ fresh
           /\ simMap' = simMap \cup {m.sim}
           /\ registry' = registry \cup members
           /\ state' = [c \in Components |-> IF c \in members THEN "idle" ELSE state[c]]
           /\ svcResponseQ' = [svcResponseQ EXCEPT ![m.from] = Append(@, [ok |-> TRUE, val |-> 0])]
           /\ msgList' = Tail(msgList)
           /\ \/ /\ m.sub
                 /\ UNCHANGED <<nextCallId, simCalls, invocationQ>>
              \/ /\ ~m.sub
                 /\ nextCallId' = nextCallId + 1
                 /\ simCalls' = simCalls \cup {Entry(m.sim, nextCallId)}
                 /\ invocationQ' = [invocationQ EXCEPT ![first.comp] =
                                      Append(@, [call |-> nextCallId, method |-> first.method])]
           /\ UNCHANGED phase
        \/ /\ ~(m.from \in registry /\ fresh)
           /\ Respond(m.from, FALSE, 0)
           /\ UNCHANGED <<nextCallId, simCalls>>
  /\ UNCHANGED <<inQueue, blockedMessages, fwkCalls, simEnd, outstandingCalls,
                 finishedCalls, taskVars, clientVars>>

-----------------------------------------------------------------------------
(* The framework: run() *)

(* _invoke_framework_comps: init is invoked on every framework component. *)
InvokeFrameworkComps ==
  /\ phase = "boot" /\ phase' = "init"
  /\ fwkCalls' = {[call |-> nextCallId + i - 1, comp |-> FwkList[i]] : i \in DOMAIN FwkList}
  /\ invocationQ' = [c \in Components |->
       IF \E i \in DOMAIN FwkList : FwkList[i] = c
       THEN LET i == CHOOSE i \in DOMAIN FwkList : FwkList[i] = c
            IN Append(invocationQ[c], [call |-> nextCallId + i - 1, method |-> "init"])
       ELSE invocationQ[c]]
  /\ nextCallId' = nextCallId + Len(FwkList)
  /\ UNCHANGED <<inQueue, msgList, blockedMessages, simCalls, simVars, outstandingCalls,
                 finishedCalls, taskVars, state, svcResponseQ, clientVars>>

(* The next message, then every blocked one, are the next batch. *)
BatchBlockedFirst == blockedMessages \o <<Head(inQueue)>>
Batch == <<Head(inQueue)>> \o blockedMessages
StillBlockedKept == blockedMessages
StillBlocked == <<>>

GetMessage ==
  /\ msgList = <<>> /\ inQueue # <<>>
  /\ \/ phase = "init" /\ fwkCalls # {}
     \/ phase = "loop" /\ simCalls # {}
  /\ msgList' = Batch
  /\ inQueue' = Tail(inQueue)
  /\ blockedMessages' = StillBlocked
  /\ UNCHANGED <<phase, fwkCalls, simCalls, simVars, callVars, taskVars, compVars>>

(* The result of a framework component's init. *)
HandleInitResult ==
  /\ phase = "init" /\ Working("result")
  /\ \E e \in fwkCalls :
        /\ e.call = Head(msgList).call
        /\ \/ /\ Head(msgList).ok
              /\ fwkCalls' = fwkCalls \ {e}
              /\ msgList' = Tail(msgList)
              /\ UNCHANGED <<phase, simMap, registry, state, invocationQ, svcResponseQ>>
           \/ /\ ~Head(msgList).ok
              /\ TerminateAll("aborted")
              /\ UNCHANGED fwkCalls
  /\ UNCHANGED <<inQueue, blockedMessages, simCalls, simEnd, callVars, taskVars, clientVars>>

(* The first round of invocations, one for every line. *)
StartLines ==
  /\ phase = "init" /\ fwkCalls = {} /\ msgList = <<>>
  /\ phase' = "loop"
  /\ simCalls' = {Entry(InitialLines[i], nextCallId + i - 1) : i \in DOMAIN InitialLines}
  /\ invocationQ' = [c \in Components |->
       LET mine == {i \in DOMAIN InitialLines : Head(Invocations(InitialLines[i])).comp = c}
       IN IF mine = {} THEN invocationQ[c]
          ELSE LET i == CHOOSE i \in mine : TRUE
               IN Append(invocationQ[c],
                         [call |-> nextCallId + i - 1,
                          method |-> Head(Invocations(InitialLines[i])).method])]
  /\ nextCallId' = nextCallId + Len(InitialLines)
  /\ UNCHANGED <<inQueue, msgList, blockedMessages, fwkCalls, simVars, outstandingCalls,
                 finishedCalls, taskVars, state, svcResponseQ, clientVars>>

(* TaskManager.return_call: the result of a call between components. *)
FinishedIfOk(i, c, ok) == IF ok THEN {[call |-> i, caller |-> c, ok |-> TRUE]} ELSE {}
Finished(i, c, ok) == {[call |-> i, caller |-> c, ok |-> ok]}

HandleReturnCall ==
  /\ phase = "loop" /\ Working("result")
  /\ LET m == Head(msgList) IN
     /\ \A e \in simCalls : e.call # m.call
     /\ \E o \in outstandingCalls :
          /\ o.call = m.call
          /\ outstandingCalls' = outstandingCalls \ {o}
          /\ finishedCalls' = finishedCalls \cup Finished(m.call, o.caller, m.ok)
  /\ msgList' = Tail(msgList)
  /\ UNCHANGED <<phase, inQueue, blockedMessages, fwkCalls, simCalls, simVars, nextCallId,
                 taskVars, compVars>>

(* A line goes on to its next invocation. *)
HandleLineResult ==
  /\ phase = "loop" /\ Working("result") /\ Head(msgList).ok
  /\ \E e \in simCalls :
        /\ e.call = Head(msgList).call /\ e.queue # <<>>
        /\ LET next == Pop(e.queue) IN
           /\ simCalls' = (simCalls \ {e}) \cup
                {[call |-> nextCallId, line |-> e.line, inv |-> next.inv, queue |-> next.queue]}
           /\ invocationQ' = [invocationQ EXCEPT ![next.inv.comp] =
                                Append(@, [call |-> nextCallId, method |-> next.inv.method])]
  /\ nextCallId' = nextCallId + 1
  /\ msgList' = Tail(msgList)
  /\ UNCHANGED <<phase, inQueue, blockedMessages, fwkCalls, simVars, outstandingCalls,
                 finishedCalls, taskVars, state, svcResponseQ, clientVars>>

(* A line is over, by its last result or by a failure.  A simulation's     *)
(* components are sent terminate, once more than needed after a failure,   *)
(* IPS_END is published and the simulation is terminated; the entry of a   *)
(* framework component is only dropped.                                    *)
HandleLastResult ==
  /\ phase = "loop" /\ Working("result")
  /\ LET ok == Head(msgList).ok IN
     \E e \in simCalls :
        /\ e.call = Head(msgList).call /\ (e.queue = <<>> \/ ~ok)
        /\ simCalls' = simCalls \ {e}
        /\ \/ /\ e.line \in simMap
              /\ nextCallId' = nextCallId + Cardinality(CompsOf(e.line)) * (IF ok THEN 1 ELSE 2)
              /\ simEnd' = [simEnd EXCEPT ![e.line] = IF ok THEN "ok" ELSE "error"]
              /\ simMap' = simMap \ {e.line}
              /\ Kill(MembersOf(e.line))
           \/ /\ e.line \notin simMap
              /\ UNCHANGED <<nextCallId, simVars, state, invocationQ, svcResponseQ>>
  /\ msgList' = Tail(msgList)
  /\ UNCHANGED <<phase, inQueue, blockedMessages, fwkCalls, outstandingCalls, finishedCalls,
                 taskVars, clientVars>>

(* No invocation is outstanding: everything left is terminated. *)
EndRun ==
  /\ phase = "loop" /\ msgList = <<>> /\ simCalls = {}
  /\ TerminateAll("ended")
  /\ UNCHANGED <<inQueue, blockedMessages, fwkCalls, simCalls, simEnd, callVars, taskVars,
                 clientVars>>

FrameworkStep ==
  \/ InvokeFrameworkComps \/ GetMessage \/ HandleInitResult \/ StartLines
  \/ HandleInitCall \/ HandleWaitCall \/ HandleInitTask \/ HandleFinishTask \/ HandleCreateSim
  \/ HandleReturnCall \/ HandleLineResult \/ HandleLastResult \/ EndRun

-----------------------------------------------------------------------------
(* The components *)

(* Component.__run__: the next invocation is taken from invocation_q. *)
StartMethod(c) ==
  /\ state[c] = "idle" /\ invocationQ[c] # <<>>
  /\ state' = [state EXCEPT ![c] = "running"]
  /\ current' = [current EXCEPT ![c] = Head(invocationQ[c])]
  /\ invocationQ' = [invocationQ EXCEPT ![c] = Tail(@)]
  /\ UNCHANGED <<loopVars, simVars, callVars, taskVars, svcResponseQ, pending, callTargets,
                 taskMap, unstarted, requests>>

(* A call of c whose result the framework has handed out already. *)
Consumed(i) == /\ \A o \in outstandingCalls : o.call # i
               /\ \A f \in finishedCalls : f.call # i

Habitual == {"waits", "no_rewait", "finishes_tasks", "no_hold_and_wait"}
ASSUME HabitAssumption == Habits \subseteq Habitual

(* The habits a run may assume of the programs: "waits", a method does not *)
(* leave calls in flight; "no_rewait", a call whose wait has raised is not *)
(* waited for again; "finishes_tasks", a method waits for its tasks;       *)
(* "no_hold_and_wait", a program that holds a task blocks on nothing else. *)
CanReturn(c) ==
  /\ "waits" \in Habits => \A i \in callTargets[c] : Consumed(i)
  /\ "finishes_tasks" \in Habits => taskMap[c] = {}
MayWait(i) == "no_rewait" \in Habits => ~Consumed(i)
MayBlock(c) == "no_hold_and_wait" \in Habits => taskMap[c] = {}

(* The method returns or raises; either way a result is sent. *)
ReturnMethod(c, ok) ==
  /\ state[c] = "running"
  /\ ok \/ c \in MayFail
  /\ CanReturn(c)
  /\ state' = [state EXCEPT ![c] = "idle"]
  /\ inQueue' = Append(inQueue, Result(c, current[c].call, ok))
  /\ UNCHANGED <<phase, msgList, blockedMessages, fwkCalls, simCalls, simVars, callVars,
                 taskVars, invocationQ, svcResponseQ, clientVars>>

(* ServicesProxy._invoke_service, then _get_service_response until the     *)
(* response is there.  Framework components use none of these services.    *)
InvokeService(c, m) ==
  /\ c \in SimComps
  /\ state[c] = "running" /\ current[c].method \in BusyMethods
  /\ state' = [state EXCEPT ![c] = "waiting"]
  /\ pending' = [pending EXCEPT ![c] = m]
  /\ inQueue' = Append(inQueue, m)
  /\ UNCHANGED <<phase, msgList, blockedMessages, fwkCalls, simCalls, simVars, callVars,
                 taskVars, invocationQ, svcResponseQ, current, callTargets, unstarted>>

Spend(c) == /\ requests[c] < MaxRequests[c]
            /\ requests' = [requests EXCEPT ![c] = @ + 1]

(* A component id is known to programs once its simulation exists; it may  *)
(* outlive the component.                                                  *)
CallNonblocking(c) ==
  /\ \E d \in SimComps : /\ <<c, d>> \in Calls /\ state[d] # "absent"
                         /\ InvokeService(c, InitCall(c, d))
  /\ Spend(c) /\ UNCHANGED taskMap

WaitForCall(c) ==
  /\ \E i \in callTargets[c] : MayWait(i) /\ InvokeService(c, WaitCall(c, i, TRUE))
  /\ TRUE \in BlockModes /\ MayBlock(c)
  /\ UNCHANGED <<taskMap, requests>>

PollCall(c) ==
  /\ \E i \in callTargets[c] : MayWait(i) /\ InvokeService(c, WaitCall(c, i, FALSE))
  /\ FALSE \in BlockModes
  /\ Spend(c) /\ UNCHANGED taskMap

LaunchTask(c) ==
  /\ c \in SimComps
  /\ MayBlock(c)
  /\ \E n \in TaskCores[c], b \in BlockModes : InvokeService(c, InitTask(c, n, b))
  /\ Spend(c) /\ UNCHANGED taskMap

(* wait_task and kill_task: the task leaves task_map before finish_task is *)
(* sent.                                                                   *)
EndTask(c) ==
  \E t \in taskMap[c] :
    /\ InvokeService(c, FinishTask(c, t))
    /\ taskMap' = [taskMap EXCEPT ![c] = @ \ {t}]
    /\ UNCHANGED requests

CreateSimulation(c) ==
  /\ \E s \in Sims, sub \in BOOLEAN :
       <<c, s, sub>> \in Creates /\ InvokeService(c, CreateSim(c, s, sub))
  /\ Spend(c) /\ UNCHANGED taskMap

(* _launch_task: a task enters task_map once Popen has started it.  When   *)
(* Popen raises, the task stays in the framework's table, and its owner    *)
(* does not know its id.                                                   *)
Started(c, i) == taskMap' = [taskMap EXCEPT ![c] = @ \cup {i}] /\ UNCHANGED unstarted
NotStarted(c, i) == c \in BadBinary /\ unstarted' = unstarted \cup {i} /\ UNCHANGED taskMap

(* _get_service_response: a call id is remembered, and forgotten when its  *)
(* wait succeeds; a failure is raised in the program and changes nothing.  *)
ReceiveResponse(c) ==
  /\ state[c] = "waiting" /\ svcResponseQ[c] # <<>>
  /\ LET r == Head(svcResponseQ[c])
         type == pending[c].type
     IN /\ callTargets' = [callTargets EXCEPT ![c] =
             IF r.ok /\ type = "init_call" THEN @ \cup {r.val}
             ELSE IF r.ok /\ type = "wait_call" THEN @ \ {r.val} ELSE @]
        /\ IF r.ok /\ type = "init_task"
           THEN Started(c, r.val) \/ NotStarted(c, r.val)
           ELSE UNCHANGED <<taskMap, unstarted>>
  /\ state' = [state EXCEPT ![c] = "running"]
  /\ pending' = [pending EXCEPT ![c] = NoRequest]
  /\ svcResponseQ' = [svcResponseQ EXCEPT ![c] = Tail(@)]
  /\ UNCHANGED <<loopVars, simVars, callVars, taskVars, invocationQ, current, requests>>

ComponentStep(c) ==
  \/ StartMethod(c) \/ ReceiveResponse(c)
  \/ \E ok \in BOOLEAN : ReturnMethod(c, ok)
  \/ CallNonblocking(c) \/ WaitForCall(c) \/ PollCall(c)
  \/ LaunchTask(c) \/ EndTask(c) \/ CreateSimulation(c)

Stopped == phase \in {"ended", "aborted"} /\ UNCHANGED vars

Next == FrameworkStep \/ (\E c \in Components : ComponentStep(c)) \/ Stopped

Spec == Init /\ [][Next]_vars

(* The framework's loop and every component process keep running. *)
Fairness == WF_vars(FrameworkStep) /\ \A c \in Components : WF_vars(ComponentStep(c))
FairSpec == Spec /\ Fairness

-----------------------------------------------------------------------------
(* Types *)

LoopType ==
  /\ phase \in {"boot", "init", "loop", "ended", "aborted"}
  /\ inQueue \in Seq(Messages) /\ msgList \in Seq(Messages)
  /\ blockedMessages \in Seq(Waits \cup Launches)
  /\ fwkCalls \subseteq [call : Nat, comp : FwkComps]
  /\ simCalls \subseteq SimCall

SimType ==
  /\ simMap \subseteq Sims /\ registry \subseteq Components
  /\ simEnd \in [Sims -> {"none", "ok", "error"}]

ManagerType ==
  /\ nextCallId \in Nat /\ nextTaskId \in Nat /\ availCores \in Nat
  /\ outstandingCalls \subseteq [call : Nat, caller : SimComps]
  /\ finishedCalls \subseteq [call : Nat, caller : SimComps, ok : BOOLEAN]
  /\ currTaskTable \subseteq [task : Nat, owner : SimComps, cores : Nat]
  /\ strayTasks \subseteq [task : Nat, owner : BadCommand, cores : Nat]

QueueType ==
  /\ state \in [Components -> {"absent", "idle", "running", "waiting", "dead"}]
  /\ invocationQ \in [Components -> Seq(Invocation)]
  /\ svcResponseQ \in [Components -> Seq(Response)]

ClientType ==
  /\ current \in [Components -> Invocation]
  /\ pending \in [Components -> Requests \cup {NoRequest}]
  /\ callTargets \in [Components -> SUBSET Nat]
  /\ taskMap \in [Components -> SUBSET Nat] /\ unstarted \subseteq Nat
  /\ requests \in [Components -> Nat]

TypeOK == LoopType /\ SimType /\ ManagerType /\ QueueType /\ ClientType

-----------------------------------------------------------------------------
(* Safety *)

Blockable(m) == m.type \in {"wait_call", "init_task"}

(* A batch is one new message and then retries of blocked ones, and once a *)
(* message of the batch has been blocked again there are only retries left *)
(* in it: a message that could unblock it is never behind it.              *)
RetriesComeLast ==
  \A i \in DOMAIN msgList :
    (i > 1 \/ blockedMessages # <<>>) => Blockable(msgList[i])

CanServe(m) ==
  \/ m.type = "wait_call" /\ \E f \in finishedCalls : f.call = m.call
  \/ m.type = "init_task" /\ m.cores <= availCores

(* No lost wakeup.  A blocked message is only looked at when some other    *)
(* message arrives, and it goes behind that message in the batch.  So a    *)
(* message may stay in blocked_messages only while it cannot be served:    *)
(* a call that finishes or cores that come free after it was put there     *)
(* must find it in a later batch, never behind it.                         *)
NoLostWakeup ==
  \A i \in DOMAIN blockedMessages : ~CanServe(blockedMessages[i])

From(c, q) == {i \in DOMAIN q : q[i].type # "result" /\ q[i].from = c}

(* ServicesProxy waits for one response at a time and run() moves requests *)
(* between three lists.  The request of a waiting component is in exactly  *)
(* one of them, or its only response is on its way; a component that is    *)
(* not waiting has neither, so no response can be taken for another's.     *)
RequestInOnePlace ==
  \A c \in registry :
    Cardinality(From(c, inQueue)) + Cardinality(From(c, msgList))
      + Cardinality(From(c, blockedMessages)) + Len(svcResponseQ[c])
    = IF state[c] = "waiting" THEN 1 ELSE 0

ResultsIn(q, id) == {i \in DOMAIN q : q[i].type = "result" /\ q[i].call = id}

(* Where call id is: in an invocation queue, being executed, or returned. *)
Carriers(id) ==
  SumFunction([c \in Components |->
     Cardinality({i \in DOMAIN invocationQ[c] : invocationQ[c][i].call = id})])
  + Cardinality({c \in registry : state[c] \in {"running", "waiting"} /\ current[c].call = id})
  + Cardinality(ResultsIn(inQueue, id)) + Cardinality(ResultsIn(msgList, id))

(* A line of invocations never stalls and is never driven twice: while it  *)
(* is in outstanding_calls_list its invocation is in exactly one place,    *)
(* whatever other simulations do.  Calls between components are carried at *)
(* most once, and are lost only with a terminated simulation.              *)
CallInOnePlace ==
  /\ phase = "loop" => /\ \A e \in simCalls : Carriers(e.call) = 1
                       /\ \A e, f \in simCalls : e.line = f.line => e = f
  /\ \A o \in outstandingCalls :
        /\ Carriers(o.call) <= 1
        /\ Carriers(o.call) = 0 => \E c \in Components : state[c] = "dead"

(* TaskManager.return_call looks the caller of a result up without a test: *)
(* a result nobody awaits would be a KeyError that ends run().  Each one   *)
(* is awaited by the framework or by one component, never by both.         *)
ResultsAreAwaited ==
  \A q \in {inQueue, msgList} : \A i \in DOMAIN q :
    (q[i].type = "result" /\ phase \in {"init", "loop"}) =>
       Cardinality({e \in fwkCalls : e.call = q[i].call})
         + Cardinality({e \in simCalls : e.call = q[i].call})
         + Cardinality({o \in outstandingCalls : o.call = q[i].call}) = 1

CoresOf(T) == SumFunction([t \in T |-> t.cores])

(* The owner of an entry knows its task, will know it when it reads the    *)
(* response it is waiting for, or has asked for its end.                   *)
InHand(r) ==
  \/ r.task \in taskMap[r.owner]
  \/ /\ state[r.owner] = "waiting"
     /\ \/ /\ pending[r.owner].type = "init_task" /\ svcResponseQ[r.owner] # <<>>
           /\ Head(svcResponseQ[r.owner]) = [ok |-> TRUE, val |-> r.task]
        \/ pending[r.owner] = FinishTask(r.owner, r.task)

(* Cores are neither lost nor lent twice, across blocked launches, retries *)
(* and the deaths of owners.  A component's running tasks are entries of   *)
(* its own; and the entry of a living owner whose task was started is in   *)
(* its hands, so its cores can still come back.  That leaves the cores of  *)
(* launches that failed after get_allocation: their command could not be   *)
(* built, and they have no entry, or Popen could not run it, and they have *)
(* one that nobody can finish.                                             *)
CoresAccounted ==
  /\ availCores + CoresOf(currTaskTable) + CoresOf(strayTasks) = TotalCores
  /\ \A c \in registry : \A t \in taskMap[c] :
        \E r \in currTaskTable : r.task = t /\ r.owner = c
  /\ \A r \in currTaskTable :
        (r.owner \in registry /\ r.task \notin unstarted) => InHand(r)

-----------------------------------------------------------------------------
(* Action properties *)

LineOf(c) == IF c \in FwkComps THEN c ELSE SimOf[c]

(* Framework.run: an exception from a simulation aborts "any pending       *)
(* method invocation for the source simulation".  So when handling a       *)
(* message ends the run, no other simulation has an invocation pending.    *)
AbortIsContained ==
  [][(phase = "loop" /\ phase' = "aborted") =>
       \A e \in simCalls : e.line \in Sims => e.line = LineOf(Head(msgList).from)]_vars

(* The end of a simulation touches no other: components of other           *)
(* simulations stay registered, and keep their invocations and responses.  *)
EndIsContained ==
  [][\A s \in simMap \ simMap' : phase' = "loop" =>
       \A c \in registry : LineOf(c) # s =>
          /\ c \in registry'
          /\ state'[c] = state[c] /\ invocationQ'[c] = invocationQ[c]
          /\ svcResponseQ'[c] = svcResponseQ[c]]_vars

-----------------------------------------------------------------------------
(* Liveness *)

Over == phase \in {"ended", "aborted"}

(* The cores of launches that failed after get_allocation never come back: *)
(* a blocking launch that needs them waits for ever.                       *)
LostCores == CoresOf(strayTasks) + CoresOf({r \in currTaskTable : r.task \in unstarted})
Starved == \E m \in Elements(blockedMessages) :
              m.type = "init_task" /\ m.cores > TotalCores - LostCores

(* run() returns, or a launch waits for cores that failed launches have    *)
(* lost: no other blocked request, and no call, task or line of            *)
(* invocations, is left for which the loop would wait for ever.            *)
RunEnds == <>(Over \/ Starved)

-----------------------------------------------------------------------------
(* Refinement *)

EntryOf(k) == CHOOSE e \in simCalls : e.line = k
InFlight(k) == \E e \in simCalls : e.line = k

LineOfInvocations == [s \in Sims |-> Invocations(s)]
Issued == [s \in Sims |->
  IF InFlight(s) THEN Len(Invocations(s)) - Len(EntryOf(s).queue) ELSE 0]
Flying == [s \in Sims |-> IF InFlight(s) THEN EntryOf(s).inv ELSE NoTarget]
Verdict == [s \in Sims |->
  IF InFlight(s) THEN (IF phase = "aborted" THEN "aborted" ELSE "active")
  ELSE IF simEnd[s] = "none" THEN "new" ELSE simEnd[s]]

Runs == INSTANCE SimulationRuns
          WITH Lines <- Sims, Line <- LineOfInvocations, NoInvocation <- NoTarget,
               issued <- Issued, flying <- Flying, verdict <- Verdict

(* Framework.run drives every simulation as SimulationRuns says. *)
RunsAsPromised == Runs!Spec
=============================================================================
