---------------------------------- MODULE Node ----------------------------------
(***************************************************************************)
(* One node under the resource manager: the classes Node, Socket and Core  *)
(* of node_structure.py.  Each level keeps counts and lists of its own:    *)
(* cores know their task, sockets how many cores each task took from them, *)
(* the node which sockets have cores available and which are allocated.    *)
(* The manager asks for whole nodes only when nothing is in use, for whole *)
(* sockets only when one is free, and for no more cores than are counted   *)
(* as available.                                                           *)
(***************************************************************************)
EXTENDS NodeStructure, Functions

CONSTANTS
  TotalCores,  \* cores of the node that may be used
  Tasks,       \* task ids that may be on the node at once
  MaxListed    \* bound on the entries of a socket in the list allocated

ASSUME NodeAssumption ==
  /\ TotalCores \in Nat \ {0} /\ MaxListed \in Nat
  /\ Nobody \notin Tasks /\ IsFiniteSet(Tasks)

VARIABLES
  coreTask,    \* Core.task_id and is_available
  sockAvail,   \* Socket.avail_cores
  myTasks,     \* Socket.my_tasks: how many cores each task took
  availCores,  \* Node.avail_cores
  available,   \* Node.available, a set
  allocated,   \* Node.allocated: how often each socket is in the list
  taskIds      \* Node.task_ids

vars == <<coreTask, sockAvail, myTasks, availCores, available, allocated, taskIds>>

Cores == 1..TotalCores
Sockets == {SocketOf(i) : i \in Cores}

Init ==
  /\ coreTask = [i \in Cores |-> Nobody]
  /\ sockAvail = [s \in Sockets |-> Cardinality(CoresOf(Cores, s))]
  /\ myTasks = [s \in Sockets |-> [t \in Tasks |-> 0]]
  /\ availCores = TotalCores
  /\ available = Sockets
  /\ allocated = [s \in Sockets |-> 0]
  /\ taskIds = {}

(* What the checks of the resource manager ensure before a call. *)
Asked(kind, k) ==
  CASE kind = "nodes" -> availCores = TotalCores
    [] kind = "socks" -> k <= availCores /\ \E s \in Sockets :
                           sockAvail[s] = Cardinality(CoresOf(Cores, s))
    [] kind = "cores" -> k <= availCores

(* Entry of socket s in allocated: always added for a whole socket, only if *)
(* missing for single cores.                                                *)
Listed(kind, s) ==
  IF kind = "cores" /\ allocated[s] > 0 THEN allocated[s] ELSE allocated[s] + 1

(* Socket s stays in available when left cores of it are free: a whole      *)
(* socket never does, single cores may leave some.                         *)
GoneWhenTouched(kind, s, left) == FALSE
StaysAvailable(kind, s, left) == kind = "cores" /\ left > 0

Allocate(t, kind, k) ==
  LET taken == TakenCores(kind, coreTask, k)
      from(s) == Cardinality(CoresOf(taken, s))
      touched == {SocketOf(i) : i \in taken}
  IN /\ t \notin taskIds
     /\ Asked(kind, k)
     /\ \A s \in touched : Listed(kind, s) <= MaxListed
     /\ taskIds' = taskIds \cup {t}
     /\ coreTask' = Give(coreTask, taken, t)
     /\ sockAvail' = [s \in Sockets |-> sockAvail[s] - from(s)]
     /\ myTasks' = [s \in Sockets |->
                      IF s \in touched THEN [myTasks[s] EXCEPT ![t] = from(s)] ELSE myTasks[s]]
     /\ availCores' = availCores - Counted(kind, coreTask, k)
     /\ available' = {s \in available :
                      s \notin touched \/ StaysAvailable(kind, s, sockAvail'[s])}
     /\ allocated' = [s \in Sockets |->
                        IF s \in touched THEN Listed(kind, s) ELSE allocated[s]]

(* Socket s leaves allocated when all its cores are free, unless none was   *)
(* before the release.                                                     *)
Unlisted(s, left) == s \in available /\ left = Cardinality(CoresOf(Cores, s))

(* The entry of t in my_tasks stays in the code but is not read again once *)
(* t has left the task_ids of the socket.                                  *)
Release(t) ==
  LET on == {s \in Sockets : myTasks[s][t] > 0}
  IN /\ t \in taskIds
     /\ taskIds' = taskIds \ {t}
     /\ coreTask' = Give(coreTask, HeldBy(coreTask, t), Nobody)
     /\ sockAvail' = [s \in Sockets |-> sockAvail[s] + myTasks[s][t]]
     /\ myTasks' = [s \in Sockets |-> [myTasks[s] EXCEPT ![t] = 0]]
     /\ availCores' = SumFunction(sockAvail')
     /\ available' = available \cup on
     /\ allocated' = [s \in Sockets |->
                        IF s \in on /\ Unlisted(s, sockAvail'[s])
                        THEN allocated[s] - 1 ELSE allocated[s]]

Next ==
  \E t \in Tasks :
    \/ Release(t)
    \/ \E kind \in Kinds, k \in Cores : Allocate(t, kind, k)

Spec == Init /\ [][Next]_vars

-----------------------------------------------------------------------------
(* Types of the node's state. *)
NodeTypeOK ==
  /\ coreTask \in [Cores -> Tasks \cup {Nobody}]
  /\ sockAvail \in [Sockets -> 0..CoresPerSocket]
  /\ myTasks \in [Sockets -> [Tasks -> 0..CoresPerSocket]]
  /\ availCores \in 0..TotalCores
  /\ available \subseteq Sockets
  /\ allocated \in [Sockets -> 0..MaxListed]
  /\ taskIds \subseteq Tasks

(* The three levels tell the same story: a socket counts its free cores    *)
(* and the cores of each task, the node the sum over its sockets, and the  *)
(* tasks on the node are those that hold cores.  Node.allocate subtracts   *)
(* what it asked for and Node.release adds up what the sockets count, so   *)
(* any difference between what a socket marked and what it counted stays.  *)
LevelsAgree ==
  /\ NodeTypeOK
  /\ \A s \in Sockets :
       /\ sockAvail[s] = Cardinality(CoresOf(Free(coreTask), s))
       /\ \A t \in Tasks : myTasks[s][t] = Cardinality(CoresOf(HeldBy(coreTask, t), s))
  /\ availCores = Cardinality(Free(coreTask))
  /\ taskIds = {coreTask[i] : i \in Cores} \ {Nobody}

(* Every list.remove(x) of Node.allocate and Node.release finds its x:     *)
(* the sockets with a free core are in available, and a socket is in       *)
(* allocated as long as a task is on it, in whatever order whole and       *)
(* single-core tasks came and went.                                        *)
ListsServeRelease ==
  /\ available = {SocketOf(i) : i \in Free(coreTask)}
  /\ \A i \in Cores \ Free(coreTask) : allocated[SocketOf(i)] > 0

=============================================================================
