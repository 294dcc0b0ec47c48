----------------------------- MODULE NodeStructure -----------------------------
(***************************************************************************)
(* The layout of a node (node_structure.py) and the choice of cores that   *)
(* Node.allocate makes.  The cores of a node are numbered from 1; socket s *)
(* has the next CoresPerSocket of them, the last socket what is left.  A   *)
(* node's occupation is a function h from its cores to the task that uses  *)
(* a core, or Nobody.                                                      *)
(*                                                                         *)
(* A request is for whole nodes, whole sockets or single cores: its kind   *)
(* is "nodes", "socks" or "cores" (whole_nodes wins over whole_sockets).   *)
(***************************************************************************)
EXTENDS Integers, FiniteSets, FiniteSetsExt

CONSTANTS
  CoresPerNode,    \* hardware topology, from the platform configuration
  SocketsPerNode,
  Nobody           \* the task of a core that is available

ASSUME TopologyAssumption ==
  /\ CoresPerNode \in Nat \ {0} /\ SocketsPerNode \in 1..CoresPerNode

Kinds == {"nodes", "socks", "cores"}

(* A number of cores the sockets do not divide counts as one socket. *)
CoresPerSocket ==
  IF CoresPerNode % SocketsPerNode = 0 THEN CoresPerNode \div SocketsPerNode
                                       ELSE CoresPerNode

SocketOf(i) == ((i - 1) \div CoresPerSocket) + 1
CoresOf(C, s) == {i \in C : SocketOf(i) = s}

Free(h) == {i \in DOMAIN h : h[i] = Nobody}
HeldBy(h, t) == {i \in DOMAIN h : h[i] = t}

(* The cores of the sockets that are wholly free. *)
InSocketsWithFree(h) == Free(h)
InFreeSockets(h) ==
  {i \in DOMAIN h : CoresOf(DOMAIN h, SocketOf(i)) \subseteq Free(h)}

(* Free cores in order, until there are k of them. *)
FirstOfAllCores(h, k) == {i \in DOMAIN h : i <= k}
FirstCores(h, k) ==
  {i \in Free(h) : Cardinality({j \in Free(h) : j < i}) < k}

(* Wholly free sockets in order, until they have k cores. *)
FirstSockets(h, k) ==
  {i \in InFreeSockets(h) :
     Cardinality({j \in InFreeSockets(h) : SocketOf(j) < SocketOf(i)}) < k}

TakenCores(kind, h, k) ==
  CASE kind = "nodes" -> DOMAIN h
    [] kind = "socks" -> FirstSockets(h, k)
    [] kind = "cores" -> FirstCores(h, k)

(* What Node.allocate counts as allocated, and subtracts from avail_cores. *)
CountedAsAsked(kind, h, k) == k
Counted(kind, h, k) ==
  IF kind = "cores" THEN k ELSE Cardinality(TakenCores(kind, h, k))

Give(h, C, t) == [i \in DOMAIN h |-> IF i \in C THEN t ELSE h[i]]
=============================================================================
