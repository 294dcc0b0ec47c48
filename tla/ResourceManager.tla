---------------------------- MODULE ResourceManager ----------------------------
(***************************************************************************)
(* The resource manager (resourceManager.py): the nodes of the allocation, *)
(* the lists of nodes it looks for cores in, the verdict on a request and  *)
(* the books it keeps.  The task manager asks for cores when a task is     *)
(* initialised and gives them back when it is finished; no id is in use    *)
(* twice, so the ids in Tasks stand for the tasks that exist at a time.    *)
(*                                                                         *)
(* Of a node only its cores and avail_cores are kept; module Node has the  *)
(* rest of its state.  Requests for no processes and nodes given as lists  *)
(* of core names are left out.                                             *)
(***************************************************************************)
EXTENDS NodeStructure, Filtering, SequencesExt

CONSTANTS
  NodeList,   \* the nodes found by resource detection, in order
  Count,      \* Count[n]: cores of node n
  MaxPpn,     \* processes per node of the batch job
  UserPpn,    \* PROCS_PER_NODE of the platform, 0 when not set
  Gpn,        \* GPUS_PER_NODE
  Exclusive,  \* NODE_ALLOCATION_MODE is EXCLUSIVE
  Requests,   \* the requests that tasks make
  Tasks       \* the task ids in use at a time

Nodes == ToSet(NodeList)
Request == [nproc : Nat \ {0}, ppn : Nat, kind : Kinds, gpp : Nat]

ASSUME ManagerAssumption ==
  /\ NodeList \in Seq(Nodes) /\ NodeList # <<>>
  /\ \A i, j \in DOMAIN NodeList : NodeList[i] = NodeList[j] => i = j
  /\ Count \in [Nodes -> Nat \ {0}]
  /\ MaxPpn \in Nat \ {0} /\ UserPpn \in Nat /\ Gpn \in Nat /\ Exclusive \in BOOLEAN
  /\ Requests \subseteq Request
  /\ IsFiniteSet(Tasks) /\ Nobody \notin Tasks

VARIABLES
  coreTask,     \* coreTask[n][i]: the task on core i of node n
  nodeAvail,    \* nodeAvail[n]: avail_cores of node n
  availNodes,   \* avail_nodes, searched in this order
  allocNodes,   \* alloc_nodes, a set
  availCores,   \* avail_cores, alloc_cores and processes of the manager
  allocCores,
  processes,
  activeTasks   \* activeTasks[t]: what is lent to t

books == <<availCores, allocCores, processes, activeTasks>>
vars == <<coreTask, nodeAvail, availNodes, allocNodes, books>>

-----------------------------------------------------------------------------
(* The platform *)

Ppn == IF UserPpn \in 1..MaxPpn THEN UserPpn ELSE MaxPpn

(* Nodes give no more cores than ppn, unless PROCS_PER_NODE was refused. *)
TotalOf(n) == IF UserPpn <= MaxPpn THEN Min({Count[n], Ppn}) ELSE Count[n]
CoresOn(n) == 1..TotalOf(n)
TotalCores == SumFunction([n \in Nodes |-> TotalOf(n)])

-----------------------------------------------------------------------------
(* The verdict on a request.  A machine m has the nodes to look at, in order, *)
(* with the occupation and avail_cores of each.                               *)

Now  == [order |-> availNodes, on |-> coreTask, avail |-> nodeAvail]
Idle == [order |-> NodeList, on |-> [n \in Nodes |-> [i \in CoresOn(n) |-> Nobody]],
         avail |-> [n \in Nodes |-> TotalOf(n)]]

TaskPpn(r) == Min({r.nproc, IF r.ppn = 0 THEN Ppn ELSE Min({r.ppn, MaxPpn})})
KindOf(r) == IF Exclusive THEN "nodes" ELSE r.kind

(* The processes that the checks count on for node n, with p to a node. *)
RoomInNode(p, m, n) ==
  IF m.avail[n] = TotalOf(n) /\ m.avail[n] >= p THEN p ELSE 0

RoomInSockets(p, m, n) ==
  LET chosen == FirstSockets(m.on[n], p)
  IN SumFunction([s \in {SocketOf(i) : i \in chosen} |->
                    Min({p, Cardinality(CoresOf(chosen, s))})])

RoomIfAnyCore(p, m, n) == IF m.avail[n] > 0 THEN p ELSE 0
RoomInCores(p, m, n) == Min({p, m.avail[n]})

Room(r, m, n) ==
  CASE KindOf(r) = "nodes" -> RoomInNode(TaskPpn(r), m, n)
    [] KindOf(r) = "socks" -> RoomInSockets(TaskPpn(r), m, n)
    [] KindOf(r) = "cores" -> RoomInCores(TaskPpn(r), m, n)

(* The room in the first k nodes, and how many nodes it takes. *)
RoomUpTo(r, m, k) == SumFunction([i \in 1..k |-> Room(r, m, m.order[i])])
Enough(r, m) == {k \in DOMAIN m.order : RoomUpTo(r, m, k) >= r.nproc}

(* The nodes that the checks return: up to the last one needed, those with room. *)
NodesFor(r, m) ==
  {n \in Nodes : Room(r, m, n) > 0 /\ \E i \in 1..Min(Enough(r, m)) : m.order[i] = n}

Uneven(r) == r.nproc > TaskPpn(r) /\ r.nproc % TaskPpn(r) # 0

(* What all nodes could run, used to tell a late request from a hopeless one. *)
PotentialOfAllCores(r) == TotalCores
PotentialOfFreeCores(r) == SumFunction([n \in Nodes |-> Min({TaskPpn(r), nodeAvail[n]})])
Potential(r) == SumFunction([n \in Nodes |-> Min({TaskPpn(r), TotalOf(n)})])

Verdict(r, m) ==
  IF Enough(r, m) = {}
  THEN IF Potential(r) >= r.nproc THEN "insufficient"
       ELSE IF TotalCores < r.nproc THEN "bad" ELSE "mismatch"
  ELSE IF KindOf(r) = "nodes" /\ Uneven(r) THEN "unequal"
       ELSE IF TaskPpn(r) * r.gpp > Gpn THEN "gpus" ELSE "granted"

-----------------------------------------------------------------------------
(* Granting a request *)

(* How many cores node n is asked for, and gives.  For single cores the      *)
(* manager counts down what it has got; for sockets alloc_procs holds what   *)
(* the previous node gave, and not the sum.                                  *)
Part(r, m, n, had) == Min({TaskPpn(r), m.avail[n], r.nproc - had})

AllocProcs(r, m) ==
  LET procs[i \in 0..Len(m.order)] ==
        IF i = 0 THEN 0
        ELSE LET n == m.order[i]
                 taken == FirstSockets(m.on[n], Part(r, m, n, procs[i - 1]))
             IN IF n \in NodesFor(r, m) THEN Min({TaskPpn(r), Cardinality(taken)})
                                        ELSE procs[i - 1]
  IN procs

Asked(r, m, n) ==
  LET before == (CHOOSE i \in DOMAIN m.order : m.order[i] = n) - 1
  IN Part(r, m, n, IF KindOf(r) = "socks" THEN AllocProcs(r, m)[before]
                                          ELSE RoomUpTo(r, m, before))

Taken(r, m, n) == TakenCores(KindOf(r), m.on[n], Asked(r, m, n))

NoTask == [nproc |-> 0, cores |-> 0, kind |-> "cores", ppn |-> 0, nodes |-> {}]

(* Does node n stay in avail_nodes?  Nodes given whole leave it; the test for *)
(* others, avail_cores - total_cores == 0, holds for no node that gave cores. *)
StaysWhileUnused(r, ns, avail, n) == n \notin ns
StaysListed(r, ns, avail, n) ==
  n \in ns => KindOf(r) # "nodes" /\ (n \in allocNodes \/ avail[n] # TotalOf(n))

(* get_allocation, when it finds the nodes.  Module Node checks that a node *)
(* subtracts from avail_cores what it gave.                                 *)
Grant(t, r) ==
  LET ns == NodesFor(r, Now)
      taken(n) == IF n \in ns THEN Taken(r, Now, n) ELSE {}
      total == SumFunction([n \in ns |-> Cardinality(taken(n))])
  IN /\ activeTasks[t] = NoTask
     /\ Verdict(r, Now) = "granted"
     /\ coreTask' = [n \in Nodes |-> Give(coreTask[n], taken(n), t)]
     /\ nodeAvail' = [n \in Nodes |-> nodeAvail[n] - Cardinality(taken(n))]
     /\ availNodes' = Filter(availNodes, {n \in Nodes : StaysListed(r, ns, nodeAvail', n)})
     /\ allocNodes' = allocNodes \cup ns
     /\ availCores' = availCores - total
     /\ allocCores' = allocCores + total
     /\ processes' = processes + r.nproc
     /\ activeTasks' = [activeTasks EXCEPT ![t] =
          [nproc |-> r.nproc, cores |-> total, kind |-> KindOf(r),
           ppn |-> TaskPpn(r), nodes |-> ns]]

(* get_allocation, when it raises an exception: nothing is changed. *)
Refuse(t, r) ==
  /\ activeTasks[t] = NoTask
  /\ Verdict(r, Now) # "granted"
  /\ UNCHANGED vars

(* The nodes of a finished task that are missing in avail_nodes, in the order *)
(* of the node table.                                                        *)
ListedAgain(on, avail) ==
  Filter(NodeList, {n \in on : avail[n] > 0 /\ n \notin ToSet(availNodes)})

ReturnedProcesses(t) == activeTasks[t].nproc
Returned(t) == activeTasks[t].cores

(* release_allocation.  The entry in active_tasks stays in the code, but is *)
(* not read again.                                                          *)
Release(t) ==
  LET on == activeTasks[t].nodes
  IN /\ activeTasks[t] # NoTask
     /\ coreTask' = [n \in Nodes |->
          IF n \in on THEN Give(coreTask[n], HeldBy(coreTask[n], t), Nobody) ELSE coreTask[n]]
     /\ nodeAvail' = [n \in Nodes |->
          IF n \in on THEN Cardinality(Free(coreTask'[n])) ELSE nodeAvail[n]]
     /\ availNodes' = availNodes \o ListedAgain(on, nodeAvail')
     /\ allocNodes' = allocNodes \ {n \in on : nodeAvail'[n] = TotalOf(n)}
     /\ availCores' = availCores + Returned(t)
     /\ allocCores' = allocCores - Returned(t)
     /\ processes' = processes - activeTasks[t].nproc
     /\ activeTasks' = [activeTasks EXCEPT ![t] = NoTask]

Init ==
  /\ coreTask = Idle.on
  /\ nodeAvail = Idle.avail
  /\ availNodes = NodeList
  /\ allocNodes = {}
  /\ availCores = TotalCores
  /\ allocCores = 0
  /\ processes = 0
  /\ activeTasks = [t \in Tasks |-> NoTask]

GetAllocation(t) == \E r \in Requests : Grant(t, r) \/ Refuse(t, r)

Next == \E t \in Tasks : GetAllocation(t) \/ Release(t)

Spec == Init /\ [][Next]_vars

-----------------------------------------------------------------------------
(* Types of the books, the node lists and the nodes. *)
ManagerTypeOK ==
  /\ coreTask \in [Nodes -> UNION {[1..k -> Tasks \cup {Nobody}] : k \in 1..TotalCores}]
  /\ \A n \in Nodes : DOMAIN coreTask[n] = CoresOn(n) /\ nodeAvail[n] \in 0..TotalOf(n)
  /\ availNodes \in Seq(Nodes) /\ allocNodes \subseteq Nodes
  /\ availCores \in 0..TotalCores /\ allocCores \in 0..TotalCores /\ processes \in Nat
  /\ activeTasks \in [Tasks -> [nproc : Nat, cores : Nat, kind : Kinds, ppn : Nat,
                                nodes : SUBSET Nodes]]

CoresHeld(t, n) == Cardinality(HeldBy(coreTask[n], t))

(* Nodes, manager and tasks agree on who has what.  The three keep counts of *)
(* their own that Grant and Release change in different ways: a node adds up *)
(* what is free, the manager returns what it noted when it granted, and a    *)
(* node has to be in alloc_nodes until the last of its tasks ends.           *)
BooksAgree ==
  /\ ManagerTypeOK
  /\ \A n \in Nodes : nodeAvail[n] = Cardinality(Free(coreTask[n]))
  /\ \A n \in Nodes : n \in allocNodes <=> Free(coreTask[n]) # CoresOn(n)
  /\ availCores = SumFunction(nodeAvail)
  /\ allocCores = TotalCores - availCores
  /\ processes = SumFunction([t \in Tasks |-> activeTasks[t].nproc])
  /\ \A t \in Tasks :
       activeTasks[t].cores = SumFunction([n \in Nodes |-> CoresHeld(t, n)])

RoomInAll(r) == SumFunction([n \in Nodes |-> Room(r, Now, n)])

(* A request waits only because cores are in use: when it is told that     *)
(* resources are insufficient, the nodes, listed or not, have not got them. *)
(* For avail_nodes has every node with free cores, whatever came and went,  *)
(* and has none twice.                                                      *)
NothingFreeIsMissed ==
  /\ \A i, j \in DOMAIN availNodes : availNodes[i] = availNodes[j] => i = j
  /\ \A n \in Nodes : Free(coreTask[n]) # {} => n \in ToSet(availNodes)
  /\ \A r \in Requests :
       Verdict(r, Now) = "insufficient" => RoomInAll(r) < r.nproc

(* Whole nodes and whole sockets are not shared with other tasks. *)
WholeMeansWhole ==
  \A t \in Tasks : \A n \in Nodes : \A i \in HeldBy(coreTask[n], t) :
    /\ activeTasks[t].kind = "nodes" => HeldBy(coreTask[n], t) = CoresOn(n)
    /\ activeTasks[t].kind = "socks" =>
         CoresOf(CoresOn(n), SocketOf(i)) \subseteq HeldBy(coreTask[n], t)

(* A task can run: its nodes have cores for its processes when no node runs  *)
(* more than the ppn that it is launched with.                               *)
GrantsFit ==
  \A t \in Tasks :
    LET a == activeTasks[t]
    IN SumFunction([n \in Nodes |-> Min({a.ppn, CoresHeld(t, n)})]) >= a.nproc

(* Requests that only a lack of cores can keep waiting: their GPUs fit on a *)
(* node and their processes share whole nodes evenly, which are looked at   *)
(* only when the cores are there (resourceManager.py:368, 499), and all     *)
(* nodes are large enough when whole nodes are asked for (495, 509).        *)
FitsMachine(r) ==
  /\ TaskPpn(r) * r.gpp <= Gpn
  /\ KindOf(r) = "nodes" => ~Uneven(r) /\ \A n \in Nodes : TotalOf(n) >= TaskPpn(r)

(* The docstrings of the checks, on insufficient resources: it is possible  *)
(* to eventually satisfy the request.                                       *)
WaitingIsWorthwhile ==
  \A r \in Requests :
    (FitsMachine(r) /\ Verdict(r, Now) = "insufficient") => Verdict(r, Idle) = "granted"

(* The docstrings of the checks: an exception is raised if the request can  *)
(* never be fulfilled, so what is refused for good is refused on an idle     *)
(* machine too.                                                             *)
RefusalIsFinal ==
  \A r \in Requests :
    Verdict(r, Now) \notin {"granted", "insufficient"} => Verdict(r, Idle) # "granted"

(* The manager is a keeper of the cores of all nodes: a core is lent to one *)
(* task at a time, and a release returns all that the task had.             *)
AllCores == UNION {{n} \X CoresOn(n) : n \in Nodes}
CoreHolder == [u \in AllCores |-> coreTask[u[1]][u[2]]]
Pool == INSTANCE ResourcePool WITH Units <- AllCores, holder <- CoreHolder
ManagerKeepsPromise == Pool!Spec
=============================================================================
