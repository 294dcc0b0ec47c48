------------------------- MODULE ResourceManagerProofs -------------------------
(***************************************************************************)
(* Proofs about ResourceManager for every machine, every set of requests   *)
(* and any number of tasks.  That a core is lent once rests on which cores *)
(* can be taken at all, that the books agree and that nobody waits for     *)
(* nothing on what the checks add up.                                      *)
(***************************************************************************)
EXTENDS ResourceManager, CollectionTheorems, FiniteSetTheorems, TLAPS

(* Occupations of nodes by tasks. *)
OccupationsOK ==
  /\ \A n \in Nodes : coreTask[n] \in [CoresOn(n) -> Tasks \cup {Nobody}]
  /\ DOMAIN activeTasks = Tasks

(* avail_cores of a node is what is free on it: whole nodes are granted by *)
(* this number alone.                                                      *)
AvailIsFree == \A n \in Nodes : nodeAvail[n] = Cardinality(Free(coreTask[n]))

(* A task holds cores only where release_allocation looks for them. *)
HeldWhereNoted ==
  \A t \in Tasks, n \in Nodes : HeldBy(coreTask[n], t) # {} => n \in activeTasks[t].nodes

LendingInv == OccupationsOK /\ AvailIsFree /\ HeldWhereNoted

-----------------------------------------------------------------------------
LEMMA MinOfPair ==
  ASSUME NEW a \in Int, NEW b \in Int
  PROVE  Min({a, b}) \in {a, b}
<1>1. \E x \in {a, b} : \A y \in {a, b} : x <= y
  OBVIOUS
<1> QED
  BY <1>1 DEF Min

LEMMA MinIsLower ==
  ASSUME NEW a \in Int, NEW b \in Int
  PROVE  Min({a, b}) <= a /\ Min({a, b}) <= b
<1>1. \E x \in {a, b} : \A y \in {a, b} : x <= y
  OBVIOUS
<1> QED
  BY <1>1 DEF Min

LEMMA NodeSizes ==
  ASSUME NEW n \in Nodes
  PROVE  /\ TotalOf(n) \in Nat
         /\ IsFiniteSet(CoresOn(n))
         /\ Cardinality(CoresOn(n)) = TotalOf(n)
<1>1. Count[n] \in Nat /\ Ppn \in Nat
  BY ManagerAssumption DEF Ppn
<1>2. TotalOf(n) \in Nat
  BY <1>1, MinOfPair DEF TotalOf
<1> QED
  BY <1>2, FS_Interval DEF CoresOn

(* Giving away free cores. *)
LEMMA GiveFree ==
  ASSUME NEW C, NEW h \in [C -> Tasks \cup {Nobody}], NEW S \in SUBSET Free(h),
         NEW t \in Tasks
  PROVE  /\ Give(h, S, t) \in [C -> Tasks \cup {Nobody}]
         /\ Free(Give(h, S, t)) = Free(h) \ S
         /\ HeldBy(Give(h, S, t), t) = HeldBy(h, t) \cup S
         /\ \A u \in Tasks \ {t} : HeldBy(Give(h, S, t), u) = HeldBy(h, u)
BY ManagerAssumption DEF Give, Free, HeldBy

(* Taking back all cores of a task. *)
LEMMA GiveBack ==
  ASSUME NEW C, NEW h \in [C -> Tasks \cup {Nobody}], NEW t \in Tasks
  PROVE  LET g == Give(h, HeldBy(h, t), Nobody)
         IN /\ g \in [C -> Tasks \cup {Nobody}]
            /\ HeldBy(g, t) = {}
            /\ \A u \in Tasks \ {t} : HeldBy(g, u) = HeldBy(h, u)
BY ManagerAssumption DEF Give, HeldBy

(* Removing free cores is seen in the number of free cores. *)
LEMMA FreeAfterGrant ==
  ASSUME NEW F, IsFiniteSet(F), NEW S \in SUBSET F
  PROVE  Cardinality(F \ S) = Cardinality(F) - Cardinality(S)
<1>1. IsFiniteSet(S) /\ IsFiniteSet(F \ S)
  BY FS_Subset
<1>2. S \cup (F \ S) = F /\ S \cap (F \ S) = {}
  OBVIOUS
<1>3. Cardinality(F) = Cardinality(S) + Cardinality(F \ S) - Cardinality(S \cap (F \ S))
  BY <1>1, <1>2, FS_Union
<1>4. Cardinality(S) \in Nat /\ Cardinality(F \ S) \in Nat
  BY <1>1, FS_CardinalityType
<1> QED
  BY <1>2, <1>3, <1>4, FS_EmptySet

-----------------------------------------------------------------------------
(* Only free cores are taken, of whatever kind the request is. *)
LEMMA TakenIsFree ==
  ASSUME LendingInv, NEW r \in Requests, NEW n \in NodesFor(r, Now)
  PROVE  Taken(r, Now, n) \subseteq Free(coreTask[n])
<1> DEFINE h == coreTask[n]
<1>0. n \in Nodes /\ Room(r, Now, n) > 0
  BY DEF NodesFor
<1>1. Now.on[n] = h /\ Now.avail[n] = nodeAvail[n]
  BY DEF Now
<1>2. KindOf(r) \in Kinds
  BY ManagerAssumption DEF KindOf, Request, Kinds
<1>3. CASE KindOf(r) = "nodes"
  <2>1. Room(r, Now, n) = RoomInNode(TaskPpn(r), Now, n)
    BY <1>3 DEF Room
  <2>2. nodeAvail[n] = TotalOf(n)
    BY <1>0, <1>1, <2>1 DEF RoomInNode
  <2>3. Free(h) \subseteq CoresOn(n) /\ DOMAIN h = CoresOn(n)
    BY <1>0 DEF LendingInv, OccupationsOK, Free
  <2>4. Free(h) = CoresOn(n)
    BY <1>0, <2>2, <2>3, NodeSizes, FS_Subset DEF LendingInv, AvailIsFree
  <2> QED
    BY <2>3, <2>4, <1>1, <1>3 DEF Taken, TakenCores
<1>4. CASE KindOf(r) = "cores"
  BY <1>1, <1>4 DEF Taken, TakenCores, FirstCores
<1>5. CASE KindOf(r) = "socks"
  <2>1. InFreeSockets(h) \subseteq Free(h)
    BY DEF InFreeSockets, CoresOf
  <2> QED
    BY <2>1, <1>1, <1>5 DEF Taken, TakenCores, FirstSockets
<1> QED
  BY <1>2, <1>3, <1>4, <1>5 DEF Kinds

LEMMA LendingInit == Init => LendingInv
<1> SUFFICES ASSUME Init PROVE LendingInv
  OBVIOUS
<1>1. \A n \in Nodes : coreTask[n] = [i \in CoresOn(n) |-> Nobody] /\ nodeAvail[n] = TotalOf(n)
  BY DEF Init, Idle
<1>2. OccupationsOK
  BY <1>1 DEF OccupationsOK, Init
<1>3. \A n \in Nodes : Free(coreTask[n]) = CoresOn(n)
  BY <1>1 DEF Free
<1>4. AvailIsFree
  BY <1>1, <1>3, NodeSizes DEF AvailIsFree
<1>5. HeldWhereNoted
  <2>1. \A n \in Nodes, t \in Tasks : HeldBy(coreTask[n], t) = {}
    BY <1>1, ManagerAssumption DEF HeldBy
  <2> QED
    BY <2>1 DEF HeldWhereNoted
<1> QED
  BY <1>2, <1>4, <1>5 DEF LendingInv

(* What Grant does to one node. *)
TakenOf(r, n) == IF n \in NodesFor(r, Now) THEN Taken(r, Now, n) ELSE {}

LEMMA GrantOnNode ==
  ASSUME LendingInv, NEW t \in Tasks, NEW r \in Requests, Grant(t, r), NEW n \in Nodes
  PROVE  /\ TakenOf(r, n) \in SUBSET Free(coreTask[n])
         /\ n \notin NodesFor(r, Now) => TakenOf(r, n) = {}
         /\ nodeAvail'[n] = nodeAvail[n] - Cardinality(TakenOf(r, n))
         /\ coreTask'[n] \in [CoresOn(n) -> Tasks \cup {Nobody}]
         /\ \A c \in CoresOn(n) :
              coreTask'[n][c] = IF c \in TakenOf(r, n) THEN t ELSE coreTask[n][c]
         /\ Free(coreTask'[n]) = Free(coreTask[n]) \ TakenOf(r, n)
         /\ HeldBy(coreTask'[n], t) = HeldBy(coreTask[n], t) \cup TakenOf(r, n)
         /\ \A u \in Tasks \ {t} : HeldBy(coreTask'[n], u) = HeldBy(coreTask[n], u)
<1> DEFINE h == coreTask[n]
           S == TakenOf(r, n)
<1>1. /\ S \in SUBSET Free(h)
      /\ n \notin NodesFor(r, Now) => S = {}
  BY TakenIsFree DEF TakenOf
<1>2. nodeAvail'[n] = nodeAvail[n] - Cardinality(S) /\ coreTask'[n] = Give(h, S, t)
  BY DEF Grant, TakenOf
<1>3. h \in [CoresOn(n) -> Tasks \cup {Nobody}]
  BY DEF LendingInv, OccupationsOK
<1> HIDE DEF h, S
<1>4. /\ Give(h, S, t) \in [CoresOn(n) -> Tasks \cup {Nobody}]
      /\ Free(Give(h, S, t)) = Free(h) \ S
      /\ HeldBy(Give(h, S, t), t) = HeldBy(h, t) \cup S
      /\ \A u \in Tasks \ {t} : HeldBy(Give(h, S, t), u) = HeldBy(h, u)
  BY <1>1, <1>3, GiveFree
<1>5. \A c \in CoresOn(n) : Give(h, S, t)[c] = IF c \in S THEN t ELSE h[c]
  BY <1>3 DEF Give
<1> QED
  BY <1>1, <1>2, <1>4, <1>5 DEF h, S

LEMMA GrantNotes ==
  ASSUME LendingInv, NEW t \in Tasks, NEW r \in Requests, Grant(t, r)
  PROVE  /\ activeTasks[t] = NoTask
         /\ activeTasks'[t].nodes = NodesFor(r, Now)
         /\ activeTasks'[t].kind = KindOf(r)
         /\ \A u \in Tasks \ {t} : activeTasks'[u] = activeTasks[u]
         /\ DOMAIN activeTasks' = Tasks
BY DEF Grant, LendingInv, OccupationsOK

(* What release_allocation does to one node. *)
LEMMA ReleaseOnNode ==
  ASSUME LendingInv, NEW t \in Tasks, Release(t), NEW n \in Nodes
  PROVE  /\ coreTask'[n] \in [CoresOn(n) -> Tasks \cup {Nobody}]
         /\ HeldBy(coreTask'[n], t) = {}
         /\ \A u \in Tasks \ {t} : HeldBy(coreTask'[n], u) = HeldBy(coreTask[n], u)
         /\ \A c \in CoresOn(n) :
              coreTask'[n][c] = IF coreTask[n][c] = t THEN Nobody ELSE coreTask[n][c]
<1>1. coreTask[n] \in [CoresOn(n) -> Tasks \cup {Nobody}]
  BY DEF LendingInv, OccupationsOK
<1>2. coreTask'[n] = Give(coreTask[n], HeldBy(coreTask[n], t), Nobody)
  <2>1. CASE n \in activeTasks[t].nodes
    BY <2>1 DEF Release
  <2>2. CASE n \notin activeTasks[t].nodes
    <3>1. HeldBy(coreTask[n], t) = {}
      BY <2>2 DEF LendingInv, HeldWhereNoted
    <3>2. coreTask'[n] = coreTask[n]
      BY <2>2 DEF Release
    <3> QED
      BY <1>1, <3>1, <3>2 DEF Give
  <2> QED
    BY <2>1, <2>2
<1>3. \A c \in CoresOn(n) :
        coreTask'[n][c] = IF coreTask[n][c] = t THEN Nobody ELSE coreTask[n][c]
  BY <1>1, <1>2 DEF Give, HeldBy
<1> QED
  BY <1>1, <1>2, <1>3, GiveBack

LEMMA LendingStep == LendingInv /\ [Next]_vars => LendingInv'
<1> SUFFICES ASSUME LendingInv, [Next]_vars PROVE LendingInv'
  OBVIOUS
<1>1. ASSUME NEW t \in Tasks, NEW r \in Requests, Grant(t, r)
      PROVE  LendingInv'
  <2>1. \A n \in Nodes : coreTask[n] \in [CoresOn(n) -> Tasks \cup {Nobody}]
    BY DEF LendingInv, OccupationsOK
  <2>2. \A n \in Nodes :
          /\ coreTask'[n] \in [CoresOn(n) -> Tasks \cup {Nobody}]
          /\ Free(coreTask'[n]) = Free(coreTask[n]) \ TakenOf(r, n)
          /\ HeldBy(coreTask'[n], t) = HeldBy(coreTask[n], t) \cup TakenOf(r, n)
          /\ \A u \in Tasks \ {t} : HeldBy(coreTask'[n], u) = HeldBy(coreTask[n], u)
    BY <1>1, GrantOnNode
  <2>3. OccupationsOK'
    BY <1>1, <2>2, GrantNotes DEF OccupationsOK
  <2>4. AvailIsFree'
    <3> SUFFICES ASSUME NEW n \in Nodes
                 PROVE  nodeAvail'[n] = Cardinality(Free(coreTask'[n]))
      BY DEF AvailIsFree
    <3>1. IsFiniteSet(Free(coreTask[n]))
      <4>1. Free(coreTask[n]) \in SUBSET CoresOn(n)
        BY <2>1 DEF Free
      <4> QED
        BY <4>1, NodeSizes, FS_Subset
    <3>2. nodeAvail'[n] = Cardinality(Free(coreTask[n])) - Cardinality(TakenOf(r, n))
      BY <1>1, GrantOnNode DEF LendingInv, AvailIsFree
    <3> QED
      BY <1>1, <2>2, <3>1, <3>2, GrantOnNode, FreeAfterGrant
  <2>5. HeldWhereNoted'
    <3> SUFFICES ASSUME NEW u \in Tasks, NEW n \in Nodes, HeldBy(coreTask'[n], u) # {}
                 PROVE  n \in activeTasks'[u].nodes
      BY DEF HeldWhereNoted
    <3>1. CASE u = t
      <4>1. HeldBy(coreTask[n], t) = {}
        BY <1>1, GrantNotes DEF LendingInv, HeldWhereNoted, NoTask
      <4>2. TakenOf(r, n) # {}
        BY <2>2, <3>1, <4>1
      <4> QED
        BY <1>1, <3>1, <4>2, GrantOnNode, GrantNotes
    <3>2. CASE u # t
      BY <1>1, <2>2, <3>2, GrantNotes DEF LendingInv, HeldWhereNoted
    <3> QED
      BY <3>1, <3>2
  <2> QED
    BY <2>3, <2>4, <2>5 DEF LendingInv
<1>2. ASSUME NEW t \in Tasks, Release(t)
      PROVE  LendingInv'
  <2>1. OccupationsOK'
    BY <1>2, ReleaseOnNode DEF Release, LendingInv, OccupationsOK
  <2>2. AvailIsFree'
    <3> SUFFICES ASSUME NEW n \in Nodes
                 PROVE  nodeAvail'[n] = Cardinality(Free(coreTask'[n]))
      BY DEF AvailIsFree
    <3>1. CASE n \in activeTasks[t].nodes
      BY <1>2, <3>1 DEF Release
    <3>2. CASE n \notin activeTasks[t].nodes
      <4>1. coreTask'[n] = coreTask[n] /\ nodeAvail'[n] = nodeAvail[n]
        BY <1>2, <3>2 DEF Release
      <4> QED
        BY <4>1 DEF LendingInv, AvailIsFree
    <3> QED
      BY <3>1, <3>2
  <2>3. HeldWhereNoted'
    <3> SUFFICES ASSUME NEW u \in Tasks, NEW n \in Nodes, HeldBy(coreTask'[n], u) # {}
                 PROVE  n \in activeTasks'[u].nodes
      BY DEF HeldWhereNoted
    <3>1. u # t /\ HeldBy(coreTask[n], u) # {}
      BY <1>2, ReleaseOnNode
    <3>2. activeTasks'[u] = activeTasks[u]
      BY <1>2, <3>1 DEF Release, LendingInv, OccupationsOK
    <3> QED
      BY <3>1, <3>2 DEF LendingInv, HeldWhereNoted
  <2> QED
    BY <2>1, <2>2, <2>3 DEF LendingInv
<1>3. CASE UNCHANGED vars
  BY <1>3 DEF LendingInv, OccupationsOK, AvailIsFree, HeldWhereNoted, vars, books
<1> QED
  BY <1>1, <1>2, <1>3 DEF Next, GetAllocation, Refuse

LEMMA Lending == Spec => []LendingInv
BY LendingInit, LendingStep, PTL DEF Spec

-----------------------------------------------------------------------------
(* The manager keeps the promise of ResourcePool: whatever requests are     *)
(* granted in whatever order, a core is lent to one task at a time, and     *)
(* release_allocation returns every core the task had, and no other.        *)
LEMMA PromiseInit == Init => Pool!Init
BY DEF Init, Idle, Pool!Init, CoreHolder, AllCores

LEMMA PromiseStep == LendingInv /\ [Next]_vars => [Pool!Next]_CoreHolder
<1> SUFFICES ASSUME LendingInv, [Next]_vars PROVE [Pool!Next]_CoreHolder
  OBVIOUS
<1>0. \A u \in AllCores : u[1] \in Nodes /\ u[2] \in CoresOn(u[1])
  BY DEF AllCores
<1>a. \A n \in Nodes : coreTask[n] \in [CoresOn(n) -> Tasks \cup {Nobody}]
  BY DEF LendingInv, OccupationsOK
<1>1. ASSUME NEW t \in Tasks, NEW r \in Requests, Grant(t, r)
      PROVE  Pool!Next
  <2> DEFINE S == {u \in AllCores : u[2] \in TakenOf(r, u[1])}
  <2>1. \A u \in S : CoreHolder[u] = Nobody
    BY <1>0, <1>1, GrantOnNode DEF CoreHolder, Free
  <2>2. \A u \in AllCores : CoreHolder[u] # t
    <3>1. \A n \in Nodes : HeldBy(coreTask[n], t) = {}
      BY <1>1, GrantNotes DEF LendingInv, HeldWhereNoted, NoTask
    <3> QED
      BY <1>0, <1>a, <3>1 DEF CoreHolder, HeldBy
  <2>3. CoreHolder' = [u \in AllCores |-> IF u \in S THEN t ELSE CoreHolder[u]]
    <3>1. \A u \in AllCores : coreTask'[u[1]][u[2]] =
            IF u[2] \in TakenOf(r, u[1]) THEN t ELSE coreTask[u[1]][u[2]]
      BY <1>0, <1>1, GrantOnNode
    <3> QED
      BY <3>1 DEF CoreHolder
  <2>4. Pool!Lend(t, S)
    BY <2>1, <2>2, <2>3 DEF Pool!Lend
  <2> QED
    BY <2>4 DEF Pool!Next
<1>2. ASSUME NEW t \in Tasks, Release(t)
      PROVE  Pool!Next
  <2>1. \A u \in AllCores : coreTask'[u[1]][u[2]] =
          IF coreTask[u[1]][u[2]] = t THEN Nobody ELSE coreTask[u[1]][u[2]]
    BY <1>0, <1>2, ReleaseOnNode
  <2>2. CoreHolder' = [u \in AllCores |-> IF CoreHolder[u] = t THEN Nobody ELSE CoreHolder[u]]
    BY <2>1 DEF CoreHolder
  <2> QED
    BY <2>2 DEF Pool!Next, Pool!TakeBack
<1>3. CASE UNCHANGED vars
  BY <1>3 DEF vars, CoreHolder
<1> QED
  BY <1>1, <1>2, <1>3 DEF Next, GetAllocation, Refuse

(* For any machine and any requests, the manager implements ResourcePool:   *)
(* get_allocation lends free cores only, release_allocation returns all.    *)
THEOREM CoresAreLentOnce == Spec => ManagerKeepsPromise
<1>1. Spec => Pool!Init
  BY PromiseInit DEF Spec
<1>2. Spec => [][Pool!Next]_CoreHolder
  BY Lending, PromiseStep, PTL DEF Spec
<1> QED
  BY <1>1, <1>2 DEF ManagerKeepsPromise, Pool!Spec

-----------------------------------------------------------------------------
(* A socket is taken whole or not at all. *)
LEMMA SocketsTakenWhole ==
  ASSUME NEW C, NEW h \in [C -> Tasks \cup {Nobody}], NEW k,
         NEW i \in FirstSockets(h, k)
  PROVE  CoresOf(C, SocketOf(i)) \subseteq FirstSockets(h, k)
BY DEF FirstSockets, InFreeSockets, CoresOf

LEMMA WholeInit == Init => WholeMeansWhole
<1> SUFFICES ASSUME Init PROVE WholeMeansWhole
  OBVIOUS
<1>1. \A n \in Nodes, t \in Tasks : HeldBy(coreTask[n], t) = {}
  BY ManagerAssumption DEF Init, Idle, HeldBy
<1> QED
  BY <1>1 DEF WholeMeansWhole

LEMMA WholeStep == LendingInv /\ WholeMeansWhole /\ [Next]_vars => WholeMeansWhole'
<1> SUFFICES ASSUME LendingInv, WholeMeansWhole, [Next]_vars,
                    NEW t \in Tasks, NEW n \in Nodes, NEW i \in HeldBy(coreTask'[n], t)
             PROVE  /\ activeTasks'[t].kind = "nodes" => HeldBy(coreTask'[n], t) = CoresOn(n)
                    /\ activeTasks'[t].kind = "socks" =>
                         CoresOf(CoresOn(n), SocketOf(i)) \subseteq HeldBy(coreTask'[n], t)
  BY DEF WholeMeansWhole
<1>0. coreTask[n] \in [CoresOn(n) -> Tasks \cup {Nobody}]
  BY DEF LendingInv, OccupationsOK
<1>a. ASSUME HeldBy(coreTask'[n], t) = HeldBy(coreTask[n], t), activeTasks'[t] = activeTasks[t]
      PROVE  /\ activeTasks'[t].kind = "nodes" => HeldBy(coreTask'[n], t) = CoresOn(n)
             /\ activeTasks'[t].kind = "socks" =>
                  CoresOf(CoresOn(n), SocketOf(i)) \subseteq HeldBy(coreTask'[n], t)
  BY <1>a DEF WholeMeansWhole
<1>1. ASSUME NEW u \in Tasks, NEW r \in Requests, Grant(u, r)
      PROVE  /\ activeTasks'[t].kind = "nodes" => HeldBy(coreTask'[n], t) = CoresOn(n)
             /\ activeTasks'[t].kind = "socks" =>
                  CoresOf(CoresOn(n), SocketOf(i)) \subseteq HeldBy(coreTask'[n], t)
  <2>1. CASE u # t
    <3>1. HeldBy(coreTask'[n], t) = HeldBy(coreTask[n], t)
      BY <1>1, <2>1, GrantOnNode
    <3> QED
      BY <1>1, <1>a, <2>1, <3>1, GrantNotes
  <2>2. CASE u = t
    <3>1. HeldBy(coreTask[n], t) = {}
      BY <1>1, <2>2, GrantNotes DEF LendingInv, HeldWhereNoted, NoTask
    <3>2. HeldBy(coreTask'[n], t) = TakenOf(r, n)
      <4>1. HeldBy(coreTask'[n], u) = HeldBy(coreTask[n], u) \cup TakenOf(r, n)
        BY <1>1, GrantOnNode
      <4> QED
        BY <2>2, <3>1, <4>1
    <3>3. n \in NodesFor(r, Now) /\ TakenOf(r, n) = Taken(r, Now, n)
      BY <1>1, <3>2, GrantOnNode DEF TakenOf
    <3>4. Now.on[n] = coreTask[n]
      BY DEF Now
    <3>5. CASE KindOf(r) = "nodes"
      BY <1>0, <1>1, <2>2, <3>2, <3>3, <3>4, <3>5, GrantNotes DEF Taken, TakenCores
    <3>6. CASE KindOf(r) = "socks"
      <4>1. TakenOf(r, n) = FirstSockets(coreTask[n], Asked(r, Now, n))
        BY <3>3, <3>4, <3>6 DEF Taken, TakenCores
      <4>2. CoresOf(CoresOn(n), SocketOf(i)) \subseteq HeldBy(coreTask'[n], t)
        BY <1>0, <3>2, <4>1, SocketsTakenWhole
      <4> QED
        BY <1>1, <2>2, <3>6, <4>2, GrantNotes
    <3>7. CASE KindOf(r) \notin {"nodes", "socks"}
      BY <1>1, <2>2, <3>7, GrantNotes
    <3> QED
      BY <3>5, <3>6, <3>7
  <2> QED
    BY <2>1, <2>2
<1>2. ASSUME NEW u \in Tasks, Release(u)
      PROVE  /\ activeTasks'[t].kind = "nodes" => HeldBy(coreTask'[n], t) = CoresOn(n)
             /\ activeTasks'[t].kind = "socks" =>
                  CoresOf(CoresOn(n), SocketOf(i)) \subseteq HeldBy(coreTask'[n], t)
  <2>1. u # t
    BY <1>2, ReleaseOnNode
  <2>2. HeldBy(coreTask'[n], t) = HeldBy(coreTask[n], t)
    BY <1>2, <2>1, ReleaseOnNode
  <2>3. activeTasks'[t] = activeTasks[t]
    BY <1>2, <2>1 DEF Release, LendingInv, OccupationsOK
  <2> QED
    BY <1>a, <2>2, <2>3
<1>3. CASE UNCHANGED vars
  BY <1>3, <1>a DEF vars, books
<1> QED
  BY <1>1, <1>2, <1>3 DEF Next, GetAllocation, Refuse

(* A task that asked for whole nodes, or whole sockets, never finds another *)
(* task on them, on any machine and beside any other requests.              *)
THEOREM WholeIsNeverShared == Spec => []WholeMeansWhole
BY Lending, WholeInit, WholeStep, PTL DEF Spec

-----------------------------------------------------------------------------
(* The room for a request *)

LEMMA NodesFinite == IsFiniteSet(Nodes)
<1>1. IsFiniteSet(1..Len(NodeList)) /\ DOMAIN NodeList = 1..Len(NodeList)
  BY ManagerAssumption, FS_Interval
<1>2. IsFiniteSet({NodeList[i] : i \in 1..Len(NodeList)})
  BY <1>1, ImageFinite
<1> QED
  BY <1>1, <1>2 DEF Nodes, ToSet

LEMMA MinOfThree ==
  ASSUME NEW a \in Int, NEW b \in Int, NEW c \in Int
  PROVE  /\ Min({a, b, c}) \in {a, b, c}
         /\ Min({a, b, c}) <= a /\ Min({a, b, c}) <= b /\ Min({a, b, c}) <= c
<1>1. \E x \in {a, b, c} : \A y \in {a, b, c} : x <= y
  OBVIOUS
<1> QED
  BY <1>1 DEF Min

LEMMA RequestSizes ==
  ASSUME NEW r \in Requests
  PROVE  /\ r.nproc \in Nat \ {0} /\ r.gpp \in Nat /\ KindOf(r) \in Kinds
         /\ TaskPpn(r) \in Nat \ {0} /\ TaskPpn(r) <= r.nproc
<1>1. /\ r.nproc \in Nat \ {0} /\ r.gpp \in Nat /\ r.ppn \in Nat /\ r.kind \in Kinds
      /\ Ppn \in Nat \ {0} /\ MaxPpn \in Nat \ {0}
  BY ManagerAssumption DEF Request, Ppn
<1> DEFINE p == IF r.ppn = 0 THEN Ppn ELSE Min({r.ppn, MaxPpn})
<1>2. p \in Nat \ {0}
  <2>1. Min({r.ppn, MaxPpn}) \in {r.ppn, MaxPpn}
    BY <1>1, MinOfPair
  <2> QED
    BY <1>1, <2>1
<1>3. TaskPpn(r) \in {r.nproc, p} /\ TaskPpn(r) <= r.nproc
  <2>1. TaskPpn(r) = Min({r.nproc, p})
    BY DEF TaskPpn
  <2> HIDE DEF p
  <2> QED
    BY <1>1, <1>2, <2>1, MinOfPair, MinIsLower, r.nproc \in Int, p \in Int
<1>4. KindOf(r) \in Kinds
  BY <1>1 DEF KindOf, Kinds
<1> QED
  BY <1>1, <1>2, <1>3, <1>4

LEMMA SizePositive ==
  ASSUME NEW n \in Nodes
  PROVE  TotalOf(n) \in Nat \ {0} /\ 1 \in CoresOn(n)
<1>1. Count[n] \in Nat \ {0} /\ Ppn \in Nat \ {0}
  BY ManagerAssumption DEF Ppn
<1>2. TotalOf(n) \in Nat \ {0}
  BY <1>1, MinOfPair DEF TotalOf
<1> QED
  BY <1>2 DEF CoresOn

(* The cores of a node, and its avail_cores. *)
LEMMA NodeState ==
  ASSUME LendingInv, NEW n \in Nodes
  PROVE  /\ DOMAIN coreTask[n] = CoresOn(n) /\ IsFiniteSet(CoresOn(n)) /\ CoresOn(n) \subseteq Nat
         /\ Free(coreTask[n]) \subseteq CoresOn(n) /\ IsFiniteSet(Free(coreTask[n]))
         /\ nodeAvail[n] = Cardinality(Free(coreTask[n]))
         /\ nodeAvail[n] \in 0..TotalOf(n)
         /\ nodeAvail[n] = TotalOf(n) <=> Free(coreTask[n]) = CoresOn(n)
         /\ nodeAvail[n] = 0 <=> Free(coreTask[n]) = {}
<1>1. coreTask[n] \in [CoresOn(n) -> Tasks \cup {Nobody}] /\ nodeAvail[n] = Cardinality(Free(coreTask[n]))
  BY DEF LendingInv, OccupationsOK, AvailIsFree
<1>2. IsFiniteSet(CoresOn(n)) /\ Cardinality(CoresOn(n)) = TotalOf(n) /\ TotalOf(n) \in Nat
  BY NodeSizes
<1>3. Free(coreTask[n]) \in SUBSET CoresOn(n)
  BY <1>1 DEF Free
<1>4. /\ IsFiniteSet(Free(coreTask[n])) /\ Cardinality(Free(coreTask[n])) \in Nat
      /\ Cardinality(Free(coreTask[n])) <= Cardinality(CoresOn(n))
      /\ Cardinality(Free(coreTask[n])) = Cardinality(CoresOn(n)) => Free(coreTask[n]) = CoresOn(n)
  BY <1>2, <1>3, FS_Subset, FS_CardinalityType
<1>5. nodeAvail[n] = 0 <=> Free(coreTask[n]) = {}
  BY <1>1, <1>4, FS_EmptySet
<1>6. CoresOn(n) \subseteq Nat
  BY <1>2 DEF CoresOn
<1> QED
  BY <1>1, <1>2, <1>3, <1>4, <1>5, <1>6

LEMMA SocketNumbers ==
  ASSUME NEW i \in Nat \ {0}
  PROVE  SocketOf(i) \in Nat
<1>1. CoresPerSocket \in Nat \ {0}
  BY TopologyAssumption DEF CoresPerSocket
<1>2. \A k \in Nat \ {0} : (i - 1) \div k \in Nat
  OBVIOUS
<1> QED
  BY <1>1, <1>2 DEF SocketOf

(* Whole free sockets hold free cores only, and more are looked at for more. *)
LEMMA SocketsChosen ==
  ASSUME NEW h, IsFiniteSet(DOMAIN h), NEW p \in Int, NEW k \in Int, k <= p
  PROVE  /\ InFreeSockets(h) \subseteq Free(h) /\ FirstSockets(h, p) \subseteq InFreeSockets(h)
         /\ FirstSockets(h, k) \subseteq FirstSockets(h, p)
         /\ IsFiniteSet(FirstSockets(h, p)) /\ IsFiniteSet(FirstSockets(h, k))
         /\ Cardinality(FirstSockets(h, k)) \in Nat
         /\ Cardinality(FirstSockets(h, k)) <= Cardinality(FirstSockets(h, p))
<1>1. InFreeSockets(h) \subseteq Free(h) /\ InFreeSockets(h) \in SUBSET DOMAIN h
  BY DEF InFreeSockets, CoresOf
<1>2. FirstSockets(h, p) \subseteq InFreeSockets(h) /\ FirstSockets(h, k) \subseteq InFreeSockets(h)
  BY DEF FirstSockets
<1>3. IsFiniteSet(InFreeSockets(h))
  BY <1>1, FS_Subset
<1>4. \A i : Cardinality({j \in InFreeSockets(h) : SocketOf(j) < SocketOf(i)}) \in Nat
  <2> TAKE i
  <2>1. {j \in InFreeSockets(h) : SocketOf(j) < SocketOf(i)} \in SUBSET InFreeSockets(h)
    OBVIOUS
  <2> QED
    BY <1>3, <2>1, FS_Subset, FS_CardinalityType
<1>5. FirstSockets(h, k) \in SUBSET FirstSockets(h, p)
  BY <1>4 DEF FirstSockets
<1>6. IsFiniteSet(FirstSockets(h, p)) /\ IsFiniteSet(FirstSockets(h, k))
  BY <1>2, <1>3, FS_Subset
<1> QED
  BY <1>1, <1>2, <1>5, <1>6, FS_Subset, FS_CardinalityType

(* Cores are counted socket by socket. *)
LEMMA CoresBySocket ==
  ASSUME NEW X, IsFiniteSet(X), NEW S, IsFiniteSet(S), \A i \in X : SocketOf(i) \in S,
         NEW c, \A s \in S : c[s] = Cardinality(CoresOf(X, s))
  PROVE  /\ SumFunctionOnSet(c, S) = Cardinality(X)
         /\ \A s \in S : c[s] \in Nat
<1> DEFINE g == [i \in X |-> SocketOf(i)]
<1>1. \A s \in S : c[s] = Cardinality({i \in X : g[i] = s})
  <2> SUFFICES ASSUME NEW s \in S PROVE c[s] = Cardinality({i \in X : g[i] = s})
    OBVIOUS
  <2>1. CoresOf(X, s) = {i \in X : g[i] = s}
    BY DEF CoresOf
  <2> QED
    BY <2>1
<1>2. \A i \in X : g[i] \in S
  OBVIOUS
<1>3. \A s \in S : c[s] \in Nat
  <2> SUFFICES ASSUME NEW s \in S PROVE c[s] \in Nat
    OBVIOUS
  <2>1. CoresOf(X, s) \in SUBSET X
    BY DEF CoresOf
  <2> QED
    BY <2>1, FS_Subset, FS_CardinalityType
<1> HIDE DEF g
<1>4. SumFunctionOnSet(c, S) = Cardinality(X)
  BY <1>1, <1>2, SumOfParts
<1> QED
  BY <1>3, <1>4

LEMMA SocketsFinite ==
  ASSUME NEW X, IsFiniteSet(X)
  PROVE  IsFiniteSet({SocketOf(i) : i \in X})
<1> DEFINE g == [i \in X |-> SocketOf(i)]
           S == {SocketOf(i) : i \in X}
<1>1. S = {g[i] : i \in X}
  OBVIOUS
<1> HIDE DEF g, S
<1>2. IsFiniteSet(S)
  BY <1>1, ImageFinite
<1> QED
  BY <1>2 DEF S

(* The room in whole free sockets, socket by socket. *)
LEMMA RoomOfSockets ==
  ASSUME NEW m, NEW n, IsFiniteSet(DOMAIN m.on[n]), NEW p \in Nat \ {0}
  PROVE  LET chosen == FirstSockets(m.on[n], p)
         IN /\ RoomInSockets(p, m, n) \in Nat
            /\ chosen = {} => RoomInSockets(p, m, n) = 0
            /\ RoomInSockets(p, m, n) >= p \/ RoomInSockets(p, m, n) = Cardinality(chosen)
<1> DEFINE chosen == FirstSockets(m.on[n], p)
           S == {SocketOf(i) : i \in chosen}
           c == [s \in S |-> Cardinality(CoresOf(chosen, s))]
           d == [s \in S |-> Min({p, Cardinality(CoresOf(chosen, s))})]
<1>1. p \in Int
  OBVIOUS
<1>2. IsFiniteSet(chosen)
  BY <1>1, SocketsChosen
<1>3. RoomInSockets(p, m, n) = SumFunctionOnSet(d, S)
  BY DEF RoomInSockets, SumFunction
<1>4. \A s \in S : c[s] = Cardinality(CoresOf(chosen, s)) /\ d[s] = Min({p, c[s]})
  OBVIOUS
<1>5. /\ IsFiniteSet(S) /\ SumFunctionOnSet(c, S) = Cardinality(chosen)
      /\ \A s \in S : c[s] \in Nat
  <2>1. IsFiniteSet(S) /\ \A i \in chosen : SocketOf(i) \in S
    BY <1>2, SocketsFinite
  <2> HIDE DEF chosen, c, S
  <2> QED
    BY <1>2, <1>4, <2>1, CoresBySocket
<1> HIDE DEF c, d, S, chosen
<1>6. \A s \in S : c[s] \in Nat /\ d[s] \in Nat /\ (d[s] = c[s] \/ d[s] >= p)
  <2> SUFFICES ASSUME NEW s \in S PROVE c[s] \in Nat /\ d[s] \in Nat /\ (d[s] = c[s] \/ d[s] >= p)
    OBVIOUS
  <2>1. c[s] \in Nat /\ c[s] \in Int
    BY <1>5
  <2>2. Min({p, c[s]}) \in {p, c[s]}
    BY <1>1, <2>1, MinOfPair, MinIsLower
  <2> QED
    BY <1>1, <1>4, <2>1, <2>2
<1>7. SumFunctionOnSet(d, S) = SumFunctionOnSet(c, S) \/ SumFunctionOnSet(d, S) >= p
  BY <1>5, <1>6, SumCapped
<1>8. SumFunctionOnSet(d, S) \in Nat
  BY <1>5, <1>6, SumOfNats
<1>9. chosen = {} => SumFunctionOnSet(d, S) = 0
  <2>1. chosen = {} => S = {}
    BY DEF S
  <2> QED
    BY <2>1, SumOfNone
<1> QED
  BY <1>3, <1>5, <1>7, <1>8, <1>9 DEF chosen

LEMMA SocketRoom ==
  ASSUME LendingInv, NEW r \in Requests, NEW n \in Nodes
  PROVE  LET p == TaskPpn(r)
             chosen == FirstSockets(coreTask[n], p)
         IN /\ RoomInSockets(p, Now, n) \in Nat
            /\ chosen = {} => RoomInSockets(p, Now, n) = 0
            /\ RoomInSockets(p, Now, n) >= p \/ RoomInSockets(p, Now, n) = Cardinality(chosen)
<1>1. TaskPpn(r) \in Nat \ {0}
  BY RequestSizes
<1>2. Now.on[n] = coreTask[n]
  BY DEF Now
<1>3. IsFiniteSet(DOMAIN Now.on[n])
  BY <1>2, NodeState
<1> QED
  BY <1>1, <1>2, <1>3, RoomOfSockets

LEMMA RoomIsNumber ==
  ASSUME LendingInv, NEW r \in Requests, NEW n \in Nodes
  PROVE  /\ Room(r, Now, n) \in Nat
         /\ Room(r, Now, n) > 0 => Free(coreTask[n]) # {}
<1> DEFINE p == TaskPpn(r)
<1>1. p \in Nat \ {0} /\ KindOf(r) \in Kinds
  BY RequestSizes
<1>2. Now.avail[n] = nodeAvail[n] /\ nodeAvail[n] \in Nat /\ TotalOf(n) \in Nat \ {0}
  BY NodeState, SizePositive, NodeSizes DEF Now
<1>3. nodeAvail[n] = 0 <=> Free(coreTask[n]) = {}
  BY NodeState
<1>4. CASE KindOf(r) = "nodes"
  BY <1>1, <1>2, <1>3, <1>4 DEF Room, RoomInNode
<1>5. CASE KindOf(r) = "cores"
  <2>1. Room(r, Now, n) = Min({p, nodeAvail[n]})
    BY <1>2, <1>5 DEF Room, RoomInCores
  <2>2. Room(r, Now, n) \in {p, nodeAvail[n]} /\ Room(r, Now, n) <= nodeAvail[n]
    BY <1>1, <1>2, <2>1, MinOfPair, MinIsLower
  <2> QED
    BY <1>1, <1>2, <1>3, <2>2
<1>6. CASE KindOf(r) = "socks"
  <2>1. Room(r, Now, n) = RoomInSockets(p, Now, n)
    BY <1>6 DEF Room
  <2>2. FirstSockets(coreTask[n], p) \subseteq Free(coreTask[n])
    BY <1>1, NodeState, SocketsChosen
  <2> QED
    BY <2>1, <2>2, SocketRoom
<1> QED
  BY <1>1, <1>4, <1>5, <1>6 DEF Kinds

(* The room in the first nodes of avail_nodes. *)
LEMMA RoomSoFar ==
  ASSUME LendingInv, availNodes \in Seq(Nodes), NEW r \in Requests, NEW k \in 0..Len(availNodes)
  PROVE  /\ RoomUpTo(r, Now, k) \in Nat
         /\ k = 0 => RoomUpTo(r, Now, k) = 0
         /\ k > 0 => RoomUpTo(r, Now, k) = RoomUpTo(r, Now, k - 1) + Room(r, Now, availNodes[k])
<1> DEFINE f == [i \in 1..k |-> Room(r, Now, availNodes[i])]
           g == [i \in 1..(k - 1) |-> Room(r, Now, availNodes[i])]
<1>1. \A i \in 1..k : f[i] \in Nat
  <2>1. \A i \in 1..k : availNodes[i] \in Nodes
    OBVIOUS
  <2> QED
    BY <2>1, RoomIsNumber
<1>2. IsFiniteSet(1..k)
  BY FS_Interval
<1>3. Now.order = availNodes
  BY DEF Now
<1>4. RoomUpTo(r, Now, k) = SumFunctionOnSet(f, 1..k)
  BY <1>3 DEF RoomUpTo, SumFunction
<1>5. RoomUpTo(r, Now, k - 1) = SumFunctionOnSet(g, 1..(k - 1))
  BY <1>3 DEF RoomUpTo, SumFunction
<1>6. k > 0 => /\ k \in 1..k /\ (1..k) \ {k} = 1..(k - 1)
               /\ f[k] = Room(r, Now, availNodes[k])
  OBVIOUS
<1>7. k > 0 => \A i \in 1..(k - 1) : f[i] = g[i]
  OBVIOUS
<1> HIDE DEF f, g
<1>8. k > 0 => SumFunctionOnSet(f, 1..(k - 1)) = SumFunctionOnSet(g, 1..(k - 1))
  <2>1. IsFiniteSet(1..(k - 1))
    BY FS_Interval
  <2> QED
    BY <1>7, <2>1, SumEqual
<1>9. SumFunctionOnSet(f, 1..k) \in Nat
  BY <1>1, <1>2, SumOfNats
<1>10. k > 0 => SumFunctionOnSet(f, 1..k) = f[k] + SumFunctionOnSet(f, (1..k) \ {k})
  <2>1. \A i \in 1..k : f[i] \in Int
    BY <1>1
  <2> QED
    BY <1>2, <1>6, <2>1, SumRemove
<1>11. ASSUME k > 0 PROVE RoomUpTo(r, Now, k) = RoomUpTo(r, Now, k - 1) + Room(r, Now, availNodes[k])
  <2>1. SumFunctionOnSet(f, 1..k) = Room(r, Now, availNodes[k]) + SumFunctionOnSet(g, 1..(k - 1))
    BY <1>6, <1>8, <1>10, <1>11
  <2>2. k - 1 \in 0..Len(availNodes) /\ availNodes[k] \in Nodes
    BY <1>11
  <2>3. Room(r, Now, availNodes[k]) \in Nat
    BY <2>2, RoomIsNumber
  <2>4. SumFunctionOnSet(g, 1..(k - 1)) \in Nat
    <3>1. \A i \in 1..(k - 1) : g[i] \in Nat
      BY <1>1, <1>7, <1>11
    <3>2. IsFiniteSet(1..(k - 1))
      BY FS_Interval
    <3> QED
      BY <3>1, <3>2, SumOfNats
  <2> QED
    BY <1>4, <1>5, <2>1, <2>3, <2>4
<1>12. k = 0 => 1..k = {}
  OBVIOUS
<1> QED
  BY <1>4, <1>9, <1>11, <1>12, SumOfNone

(* Where the list of nodes ends for a request that is granted. *)
LEMMA LastNeeded ==
  ASSUME LendingInv, availNodes \in Seq(Nodes), NEW r \in Requests, Enough(r, Now) # {}
  PROVE  /\ Min(Enough(r, Now)) \in DOMAIN availNodes
         /\ \A k \in 0..(Min(Enough(r, Now)) - 1) : RoomUpTo(r, Now, k) < r.nproc
<1> DEFINE E == Enough(r, Now)
<1>0. DOMAIN availNodes = 1..Len(availNodes) /\ Len(availNodes) \in Nat
  OBVIOUS
<1>1. E = {k \in DOMAIN availNodes : RoomUpTo(r, Now, k) >= r.nproc}
  BY DEF Enough, Now
<1>2. E \subseteq Nat
  BY <1>0, <1>1
<1>3. Min(E) \in E /\ \A k \in E : Min(E) <= k
  <2> HIDE DEF E
  <2>1. \E x \in E : \A y \in E : x <= y
    BY <1>2, SmallestExists DEF E
  <2> QED
    BY <2>1 DEF Min
<1>4. r.nproc \in Nat \ {0}
  BY RequestSizes
<1> HIDE DEF E
<1>5. ASSUME NEW k \in 0..(Min(E) - 1) PROVE RoomUpTo(r, Now, k) < r.nproc
  <2>1. Min(E) \in 1..Len(availNodes)
    BY <1>0, <1>1, <1>3
  <2>2. k \in 0..Len(availNodes) /\ k < Min(E)
    BY <1>0, <2>1
  <2>3. RoomUpTo(r, Now, k) \in Nat /\ (k = 0 => RoomUpTo(r, Now, k) = 0)
    BY <2>2, RoomSoFar
  <2>4. k \notin E
    <3>1. Min(E) \in Nat
      BY <1>2, <1>3
    <3>2. k < Min(E) /\ ~(Min(E) <= k)
      BY <3>1
    <3> QED
      BY <1>3, <3>2
  <2>5. k = 0 \/ k \in DOMAIN availNodes
    BY <1>0, <2>2
  <2> QED
    BY <1>1, <1>4, <2>3, <2>4, <2>5
<1> QED
  BY <1>1, <1>3, <1>5 DEF E

(* alloc_procs, which the code does not add up for sockets, is never more *)
(* than the room that the checks have found so far.                       *)
LEMMA AllocProcsBound ==
  ASSUME LendingInv, availNodes \in Seq(Nodes), NEW r \in Requests, KindOf(r) = "socks"
  PROVE  \A k \in 0..Len(availNodes) :
           AllocProcs(r, Now)[k] \in Int /\ AllocProcs(r, Now)[k] <= RoomUpTo(r, Now, k)
<1> DEFINE L == Len(availNodes)
           p == TaskPpn(r)
           had(n, x) == Min({p, Cardinality(FirstSockets(coreTask[n], Part(r, Now, n, x)))})
           next(i, x) == IF availNodes[i] \in NodesFor(r, Now) THEN had(availNodes[i], x) ELSE x
           step == [i \in 1..L |-> [x \in Int |-> next(i, x)]]
           A == AllocProcs(r, Now)
<1>1. L \in Nat /\ DOMAIN availNodes = 1..L /\ \A i \in 1..L : availNodes[i] \in Nodes
  OBVIOUS
<1>2. p \in Nat \ {0} /\ r.nproc \in Nat \ {0}
  BY RequestSizes
<1>3. \A n \in Nodes : Now.avail[n] \in Int
  BY NodeState, NodeSizes DEF Now
<1>4. ASSUME NEW n \in Nodes, NEW x \in Int
      PROVE  had(n, x) \in Int /\ (had(n, x) <= Room(r, Now, n))
  <2> DEFINE k == Part(r, Now, n, x)
             taken == FirstSockets(coreTask[n], k)
             chosen == FirstSockets(coreTask[n], p)
  <2>1. k \in Int /\ k <= p
    <3>1. p \in Int /\ Now.avail[n] \in Int /\ r.nproc - x \in Int
      BY <1>2, <1>3
    <3>2. k = Min({p, Now.avail[n], r.nproc - x})
      BY DEF Part
    <3> HIDE DEF p, k
    <3>3. Min({p, Now.avail[n], r.nproc - x}) \in {p, Now.avail[n], r.nproc - x}
          /\ Min({p, Now.avail[n], r.nproc - x}) <= p
      BY <3>1, MinOfThree
    <3> QED
      BY <3>1, <3>2, <3>3
  <2> HIDE DEF k
  <2>2. Cardinality(taken) \in Nat /\ Cardinality(taken) <= Cardinality(chosen)
    BY <1>2, <2>1, NodeState, SocketsChosen
  <2>3. Room(r, Now, n) >= p \/ Room(r, Now, n) = Cardinality(chosen)
    BY SocketRoom DEF Room
  <2>4. Room(r, Now, n) \in Nat
    BY RoomIsNumber
  <2>5. had(n, x) = Min({p, Cardinality(taken)})
    BY DEF k
  <2> HIDE DEF p, taken, chosen, had
  <2>6. p \in Int /\ Cardinality(taken) \in Int
    BY <1>2, <2>2
  <2>7. /\ Min({p, Cardinality(taken)}) \in {p, Cardinality(taken)}
        /\ Min({p, Cardinality(taken)}) <= p /\ Min({p, Cardinality(taken)}) <= Cardinality(taken)
    BY <2>6, MinOfPair, MinIsLower
  <2> QED
    BY <1>2, <2>2, <2>3, <2>4, <2>5, <2>6, <2>7
<1>5. A = CHOOSE f : f = [i \in 0..L |-> IF i = 0 THEN 0 ELSE next(i, f[i - 1])]
  BY DEF AllocProcs, Now
<1> HIDE DEF had
<1>6. step \in [1..L -> [Int -> Int]]
  BY <1>1, <1>4
<1>7. PICK f \in [0..L -> Int] : ByStep(step, 0, f, L)
  <2>1. 0 \in Int
    OBVIOUS
  <2> HIDE DEF step, L
  <2> QED
    BY <1>1, <1>6, <2>1, StepByStep
<1>8. \A i \in 0..L : f[i] = IF i = 0 THEN 0 ELSE next(i, f[i - 1])
  <2> SUFFICES ASSUME NEW i \in 0..L
               PROVE  f[i] = IF i = 0 THEN 0 ELSE next(i, f[i - 1])
    OBVIOUS
  <2> HIDE DEF next, step
  <2>1. f[i] = IF i = 0 THEN 0 ELSE step[i][f[i - 1]]
    BY <1>7 DEF ByStep
  <2>2. CASE i = 0
    BY <2>1, <2>2
  <2>3. CASE i # 0
    <3>1. i \in 1..L /\ i - 1 \in 0..L
      BY <1>1, <2>3
    <3>2. f[i - 1] \in Int
      BY <1>7, <3>1
    <3>3. step[i][f[i - 1]] = next(i, f[i - 1])
      BY <3>1, <3>2 DEF step
    <3> QED
      BY <2>1, <2>3, <3>3
  <2> QED
    BY <2>2, <2>3
<1> HIDE DEF next, A
<1>9. f = [i \in 0..L |-> IF i = 0 THEN 0 ELSE next(i, f[i - 1])]
  BY <1>7, <1>8
<1>10. A = [i \in 0..L |-> IF i = 0 THEN 0 ELSE next(i, A[i - 1])]
  BY <1>5, <1>9
<1> DEFINE G == {k \in 0..L : A[k] \in Int /\ A[k] <= RoomUpTo(r, Now, k)}
<1>11. 0 \in G
  <2>1. 0 \in 0..L
    BY <1>1
  <2>2. RoomUpTo(r, Now, 0) = 0
    BY <2>1, RoomSoFar
  <2>3. A[0] = 0
    BY <1>10, <2>1
  <2> QED
    BY <2>1, <2>2, <2>3
<1>12. ASSUME NEW i \in 1..L, i - 1 \in G PROVE i \in G
  <2>1. i \in 0..L /\ i - 1 \in 0..L /\ i > 0 /\ i # 0 /\ availNodes[i] \in Nodes
    BY <1>1
  <2>2. A[i - 1] \in Int /\ A[i - 1] <= RoomUpTo(r, Now, i - 1)
    BY <1>12
  <2>3. RoomUpTo(r, Now, i - 1) \in Nat
    BY <2>1, RoomSoFar
  <2>4. RoomUpTo(r, Now, i) = RoomUpTo(r, Now, i - 1) + Room(r, Now, availNodes[i])
    BY <2>1, RoomSoFar
  <2>5. Room(r, Now, availNodes[i]) \in Nat
    BY <2>1, RoomIsNumber
  <2>6. A[i] = next(i, A[i - 1])
    BY <1>10, <2>1
  <2>7. CASE availNodes[i] \in NodesFor(r, Now)
    <3>1. A[i] = had(availNodes[i], A[i - 1])
      BY <2>6, <2>7 DEF next
    <3>2. A[i] \in Int /\ A[i] <= Room(r, Now, availNodes[i])
      BY <1>4, <2>1, <2>2, <3>1
    <3> QED
      BY <2>1, <2>3, <2>4, <2>5, <3>2
  <2>8. CASE availNodes[i] \notin NodesFor(r, Now)
    <3>1. A[i] = A[i - 1]
      BY <2>6, <2>8 DEF next
    <3> QED
      BY <2>1, <2>2, <2>3, <2>4, <2>5, <3>1
  <2> QED
    BY <2>7, <2>8
<1> HIDE DEF G
<1>13. \A k \in 0..L : k \in G
  BY <1>1, <1>11, <1>12, CountUp
<1> QED
  BY <1>13 DEF G, A

(* A node that a request is granted on is asked for at least one core. *)
LEMMA SomethingAsked ==
  ASSUME LendingInv, availNodes \in Seq(Nodes), NoneTwice(availNodes),
         NEW r \in Requests, Verdict(r, Now) = "granted", NEW n \in NodesFor(r, Now)
  PROVE  Asked(r, Now, n) \in Nat \ {0} /\ Asked(r, Now, n) <= TaskPpn(r)
<1> DEFINE before == (CHOOSE i \in DOMAIN Now.order : Now.order[i] = n) - 1
           had == IF KindOf(r) = "socks" THEN AllocProcs(r, Now)[before]
                                         ELSE RoomUpTo(r, Now, before)
<1>1. Enough(r, Now) # {}
  BY DEF Verdict
<1>2. DOMAIN availNodes = 1..Len(availNodes) /\ Len(availNodes) \in Nat /\ Now.order = availNodes
  BY DEF Now
<1>3. PICK k : k = Min(Enough(r, Now))
  OBVIOUS
<1>4. k \in DOMAIN availNodes /\ \A j \in 0..(k - 1) : RoomUpTo(r, Now, j) < r.nproc
  BY <1>1, <1>3, LastNeeded
<1>5. n \in Nodes /\ Room(r, Now, n) > 0 /\ \E i \in 1..k : availNodes[i] = n
  BY <1>2, <1>3 DEF NodesFor
<1>6. PICK i \in 1..k : availNodes[i] = n
  BY <1>5
<1>7. i \in DOMAIN availNodes
  BY <1>2, <1>4
<1>8. (CHOOSE j \in DOMAIN availNodes : availNodes[j] = n) = i
  BY <1>6, <1>7 DEF NoneTwice
<1>9. before \in 0..(k - 1) /\ before \in 0..Len(availNodes)
  <2>1. before = i - 1
    BY <1>2, <1>8
  <2> HIDE DEF before
  <2> QED
    BY <1>2, <1>4, <2>1
<1> HIDE DEF before
<1>10. RoomUpTo(r, Now, before) \in Nat /\ RoomUpTo(r, Now, before) < r.nproc
  BY <1>4, <1>9, RoomSoFar
<1>11. r.nproc \in Nat \ {0} /\ TaskPpn(r) \in Nat \ {0}
  BY RequestSizes
<1>12. had \in Int /\ had < r.nproc
  <2>1. CASE KindOf(r) = "socks"
    <3>1. /\ AllocProcs(r, Now)[before] \in Int
          /\ AllocProcs(r, Now)[before] <= RoomUpTo(r, Now, before)
      BY <1>9, <2>1, AllocProcsBound
    <3> QED
      BY <1>10, <1>11, <2>1, <3>1
  <2>2. CASE KindOf(r) # "socks"
    BY <1>10, <2>2
  <2> QED
    BY <2>1, <2>2
<1>13. nodeAvail[n] \in Nat \ {0} /\ Now.avail[n] = nodeAvail[n]
  <2>1. Free(coreTask[n]) # {}
    BY <1>5, RoomIsNumber
  <2>2. TotalOf(n) \in Nat /\ nodeAvail[n] \in 0..TotalOf(n) /\ nodeAvail[n] # 0
    BY <1>5, <2>1, NodeState, NodeSizes
  <2>3. Now.avail[n] = nodeAvail[n]
    BY DEF Now
  <2> QED
    BY <2>2, <2>3
<1>14. Asked(r, Now, n) = Min({TaskPpn(r), nodeAvail[n], r.nproc - had})
  BY <1>13 DEF Asked, Part, before
<1> HIDE DEF had
<1>15. TaskPpn(r) \in Int /\ nodeAvail[n] \in Int /\ r.nproc - had \in Nat \ {0}
  BY <1>11, <1>12, <1>13
<1>16. /\ Asked(r, Now, n) \in {TaskPpn(r), nodeAvail[n], r.nproc - had}
       /\ Asked(r, Now, n) <= TaskPpn(r)
  <2> DEFINE a == TaskPpn(r)
             b == nodeAvail[n]
             c == r.nproc - had
  <2>1. a \in Int /\ b \in Int /\ c \in Int
    BY <1>15
  <2>2. Asked(r, Now, n) = Min({a, b, c})
    BY <1>14
  <2> HIDE DEF a, b, c
  <2>3. Min({a, b, c}) \in {a, b, c} /\ Min({a, b, c}) <= a
    BY <2>1, MinOfThree
  <2>4. Asked(r, Now, n) \in {a, b, c} /\ Asked(r, Now, n) <= a
    BY <2>2, <2>3
  <2> QED
    BY <2>4 DEF a, b, c
<1> QED
  BY <1>11, <1>13, <1>15, <1>16

(* And it gives at least one. *)
LEMMA SomethingTaken ==
  ASSUME LendingInv, availNodes \in Seq(Nodes), NoneTwice(availNodes),
         NEW r \in Requests, Verdict(r, Now) = "granted", NEW n \in NodesFor(r, Now)
  PROVE  Taken(r, Now, n) # {}
<1> DEFINE h == coreTask[n]
           k == Asked(r, Now, n)
<1>1. n \in Nodes /\ Room(r, Now, n) > 0
  BY DEF NodesFor
<1>2. k \in Nat \ {0} /\ k <= TaskPpn(r)
  BY SomethingAsked
<1>3. Taken(r, Now, n) = TakenCores(KindOf(r), h, k)
  BY DEF Taken, Now
<1>4. /\ Free(h) # {} /\ DOMAIN h = CoresOn(n) /\ Free(h) \subseteq CoresOn(n)
      /\ CoresOn(n) \subseteq Nat /\ IsFiniteSet(CoresOn(n)) /\ 1 \in CoresOn(n)
  BY <1>1, RoomIsNumber, NodeState, SizePositive
<1>5. KindOf(r) \in Kinds /\ TaskPpn(r) \in Nat \ {0}
  BY RequestSizes
<1> HIDE DEF h, k
<1>6. CASE KindOf(r) = "nodes"
  BY <1>3, <1>4, <1>6 DEF TakenCores
<1>7. CASE KindOf(r) = "cores"
  <2>1. PICK i \in Free(h) : \A j \in Free(h) : i <= j
    <3>1. Free(h) \subseteq Nat
      BY <1>4
    <3> QED
      BY <1>4, <3>1, SmallestExists
  <2>2. {j \in Free(h) : j < i} = {}
    BY <1>4, <2>1
  <2>3. i \in FirstCores(h, k)
    <3>1. Cardinality({j \in Free(h) : j < i}) = 0
      BY <2>2, FS_EmptySet
    <3>2. 0 < k
      BY <1>2
    <3> QED
      BY <3>1, <3>2 DEF FirstCores
  <2> QED
    BY <1>3, <1>7, <2>3 DEF TakenCores
<1>8. CASE KindOf(r) = "socks"
  <2>1. InFreeSockets(h) # {}
    <3>1. FirstSockets(h, TaskPpn(r)) # {}
      BY <1>1, <1>8, SocketRoom DEF Room, h
    <3> QED
      BY <3>1 DEF FirstSockets
  <2>2. InFreeSockets(h) \subseteq CoresOn(n)
    BY <1>4 DEF InFreeSockets
  <2> DEFINE N == {SocketOf(i) : i \in InFreeSockets(h)}
  <2>3. N \subseteq Nat /\ N # {}
    <3>1. \A i \in InFreeSockets(h) : i \in Nat \ {0}
      BY <1>1, <2>2, NodeSizes DEF CoresOn
    <3> QED
      BY <2>1, <3>1, SocketNumbers
  <2>4. PICK s \in N : \A q \in N : s <= q
    <3> HIDE DEF N
    <3> QED
      BY <2>3, SmallestExists
  <2>5. PICK i \in InFreeSockets(h) : SocketOf(i) = s
    OBVIOUS
  <2>6. {j \in InFreeSockets(h) : SocketOf(j) < SocketOf(i)} = {}
    <3>1. \A j \in InFreeSockets(h) : SocketOf(j) \in N
      OBVIOUS
    <3> HIDE DEF N
    <3>2. \A j \in InFreeSockets(h) : SocketOf(j) \in Nat /\ s \in Nat /\ s <= SocketOf(j)
      BY <2>3, <2>4, <3>1
    <3>3. \A j \in InFreeSockets(h) : ~(SocketOf(j) < s)
      BY <3>2
    <3> QED
      BY <2>5, <3>3
  <2>7. i \in FirstSockets(h, k)
    <3>1. Cardinality({j \in InFreeSockets(h) : SocketOf(j) < SocketOf(i)}) = 0
      BY <2>6, FS_EmptySet
    <3>2. 0 < k
      BY <1>2
    <3> QED
      BY <3>1, <3>2 DEF FirstSockets
  <2> QED
    BY <1>3, <1>8, <2>7 DEF TakenCores
<1> QED
  BY <1>5, <1>6, <1>7, <1>8 DEF Kinds

-----------------------------------------------------------------------------
(* The lists of nodes *)

(* avail_nodes has every node with a free core, once. *)
ListsInv ==
  /\ availNodes \in Seq(Nodes)
  /\ NoneTwice(availNodes)
  /\ \A n \in Nodes : Free(coreTask[n]) # {} => Has(availNodes, n)

(* alloc_nodes are the nodes that are in use. *)
InUseInv ==
  /\ allocNodes \subseteq Nodes
  /\ \A n \in Nodes : n \in allocNodes <=> Free(coreTask[n]) # CoresOn(n)

LEMMA ListsInit == Init => ListsInv /\ InUseInv
<1> SUFFICES ASSUME Init PROVE ListsInv /\ InUseInv
  OBVIOUS
<1>1. availNodes = NodeList /\ allocNodes = {}
  BY DEF Init
<1>2. ListsInv
  BY <1>1, ManagerAssumption DEF ListsInv, NoneTwice, Has, Nodes, ToSet
<1>3. \A n \in Nodes : Free(coreTask[n]) = CoresOn(n)
  BY DEF Init, Idle, Free
<1>4. InUseInv
  BY <1>1, <1>3 DEF InUseInv
<1> QED
  BY <1>2, <1>4

LEMMA GrantLists ==
  ASSUME LendingInv, ListsInv, InUseInv, NEW t \in Tasks, NEW r \in Requests, Grant(t, r)
  PROVE  ListsInv' /\ InUseInv'
<1> DEFINE ns == NodesFor(r, Now)
           Stays == {n \in Nodes : StaysListed(r, ns, nodeAvail', n)}
<1>1. /\ availNodes' = Filter(availNodes, Stays) /\ allocNodes' = allocNodes \cup ns
      /\ Verdict(r, Now) = "granted"
  BY DEF Grant
<1>2. ns \subseteq Nodes
  BY DEF NodesFor
<1>3. \A n \in ns : TakenOf(r, n) # {}
  BY <1>1, SomethingTaken DEF ListsInv, TakenOf
<1>4. \A n \in Nodes :
        /\ Free(coreTask[n]) \subseteq CoresOn(n)
        /\ Free(coreTask'[n]) = Free(coreTask[n]) \ TakenOf(r, n)
        /\ TakenOf(r, n) \subseteq Free(coreTask[n])
        /\ n \notin ns => TakenOf(r, n) = {}
  BY GrantOnNode, NodeState
<1>5. InUseInv'
  BY <1>1, <1>2, <1>3, <1>4 DEF InUseInv
<1>6. ASSUME NEW n \in Nodes, Free(coreTask'[n]) # {}
      PROVE  n \in Stays
  <2>1. CASE n \notin ns
    BY <2>1 DEF StaysListed
  <2>2. CASE n \in ns
    <3>1. KindOf(r) # "nodes"
      <4>1. KindOf(r) = "nodes" => TakenOf(r, n) = CoresOn(n)
        BY <2>2, NodeState DEF TakenOf, Taken, TakenCores, Now
      <4> QED
        BY <1>4, <1>6, <4>1
    <3>2. nodeAvail'[n] # TotalOf(n)
      <4>1. /\ nodeAvail'[n] = nodeAvail[n] - Cardinality(TakenOf(r, n))
            /\ nodeAvail[n] \in 0..TotalOf(n) /\ TotalOf(n) \in Nat
        BY GrantOnNode, NodeState, NodeSizes
      <4>2. IsFiniteSet(TakenOf(r, n))
        BY <1>4, NodeState, FS_Subset
      <4>3. Cardinality(TakenOf(r, n)) \in Nat \ {0}
        BY <1>3, <2>2, <4>2, FS_CardinalityType, FS_EmptySet
      <4> QED
        BY <4>1, <4>3
    <3> QED
      BY <3>1, <3>2 DEF StaysListed
  <2> QED
    BY <2>1, <2>2
<1> HIDE DEF Stays
<1>7. /\ availNodes' \in Seq(Nodes) /\ NoneTwice(availNodes')
      /\ \A x : Has(availNodes', x) <=> Has(availNodes, x) /\ x \in Stays
  <2>1. availNodes \in Seq(Nodes) /\ NoneTwice(availNodes)
    BY DEF ListsInv
  <2>2. /\ Filter(availNodes, Stays) \in Seq(Nodes)
        /\ \A x : Has(Filter(availNodes, Stays), x) <=> Has(availNodes, x) /\ x \in Stays
        /\ NoneTwice(Filter(availNodes, Stays))
    BY <2>1, FilterProperties
  <2> QED
    BY <1>1, <2>2
<1>8. \A n \in Nodes : Free(coreTask'[n]) # {} => Has(availNodes', n)
  <2> SUFFICES ASSUME NEW n \in Nodes, Free(coreTask'[n]) # {} PROVE Has(availNodes', n)
    OBVIOUS
  <2>1. Free(coreTask[n]) # {}
    BY <1>4
  <2> QED
    BY <1>6, <1>7, <2>1 DEF ListsInv
<1>9. NoneTwice(availNodes)'
  BY <1>7 DEF NoneTwice
<1>10. ListsInv'
  BY <1>7, <1>8, <1>9 DEF ListsInv, Has
<1> QED
  BY <1>5, <1>10

(* What release_allocation makes free on a node. *)
LEMMA ReleasedCores ==
  ASSUME LendingInv, LendingInv', NEW t \in Tasks, Release(t), NEW n \in Nodes
  PROVE  /\ Free(coreTask'[n]) = Free(coreTask[n]) \cup HeldBy(coreTask[n], t)
         /\ nodeAvail'[n] = nodeAvail[n] + Cardinality(HeldBy(coreTask[n], t))
         /\ Cardinality(HeldBy(coreTask[n], t)) \in Nat
         /\ n \notin activeTasks[t].nodes => HeldBy(coreTask[n], t) = {}
<1>1. /\ coreTask[n] \in [CoresOn(n) -> Tasks \cup {Nobody}]
      /\ coreTask'[n] \in [CoresOn(n) -> Tasks \cup {Nobody}]
      /\ \A c \in CoresOn(n) :
           coreTask'[n][c] = IF coreTask[n][c] = t THEN Nobody ELSE coreTask[n][c]
  BY ReleaseOnNode DEF LendingInv, OccupationsOK
<1>2. Nobody \notin Tasks
  BY ManagerAssumption
<1>3. Free(coreTask'[n]) = Free(coreTask[n]) \cup HeldBy(coreTask[n], t)
  BY <1>1, <1>2 DEF Free, HeldBy
<1>4. Free(coreTask[n]) \cap HeldBy(coreTask[n], t) = {}
  BY <1>2 DEF Free, HeldBy
<1>5. IsFiniteSet(Free(coreTask[n])) /\ IsFiniteSet(HeldBy(coreTask[n], t))
  <2>1. HeldBy(coreTask[n], t) \in SUBSET CoresOn(n)
    BY <1>1 DEF HeldBy
  <2> QED
    BY <2>1, NodeState, FS_Subset
<1>6. /\ nodeAvail[n] = Cardinality(Free(coreTask[n]))
      /\ nodeAvail'[n] = Cardinality(Free(coreTask'[n]))
  BY DEF LendingInv, AvailIsFree
<1>7. Cardinality(Free(coreTask'[n])) =
        Cardinality(Free(coreTask[n])) + Cardinality(HeldBy(coreTask[n], t))
  <2>1. Cardinality(Free(coreTask[n]) \cup HeldBy(coreTask[n], t)) =
          Cardinality(Free(coreTask[n])) + Cardinality(HeldBy(coreTask[n], t))
            - Cardinality(Free(coreTask[n]) \cap HeldBy(coreTask[n], t))
    BY <1>5, FS_Union
  <2>2. Cardinality(Free(coreTask[n]) \cap HeldBy(coreTask[n], t)) = 0
    BY <1>4, FS_EmptySet
  <2>3. Cardinality(Free(coreTask[n])) \in Nat /\ Cardinality(HeldBy(coreTask[n], t)) \in Nat
    BY <1>5, FS_CardinalityType
  <2> QED
    BY <1>3, <2>1, <2>2, <2>3
<1>8. n \notin activeTasks[t].nodes => HeldBy(coreTask[n], t) = {}
  BY DEF LendingInv, HeldWhereNoted
<1> QED
  BY <1>3, <1>5, <1>6, <1>7, <1>8, FS_CardinalityType

LEMMA ReleaseLists ==
  ASSUME LendingInv, LendingInv', ListsInv, InUseInv, NEW t \in Tasks, Release(t),
         activeTasks[t].nodes \subseteq Nodes
  PROVE  ListsInv' /\ InUseInv'
<1> DEFINE on == activeTasks[t].nodes
           New == {n \in on : nodeAvail'[n] > 0 /\ n \notin ToSet(availNodes)}
<1>1. /\ availNodes' = availNodes \o Filter(NodeList, New)
      /\ allocNodes' = allocNodes \ {n \in on : nodeAvail'[n] = TotalOf(n)}
  BY DEF Release, ListedAgain
<1>2. \A n \in Nodes :
        /\ Free(coreTask'[n]) = Free(coreTask[n]) \cup HeldBy(coreTask[n], t)
        /\ n \notin on => HeldBy(coreTask[n], t) = {}
  BY ReleasedCores
<1>3. \A n \in Nodes :
        /\ nodeAvail'[n] = TotalOf(n) <=> Free(coreTask'[n]) = CoresOn(n)
        /\ nodeAvail'[n] \in Nat
        /\ nodeAvail'[n] = 0 <=> Free(coreTask'[n]) = {}
        /\ Free(coreTask[n]) \subseteq CoresOn(n)
        /\ Free(coreTask'[n]) \subseteq CoresOn(n)
  <2> SUFFICES ASSUME NEW n \in Nodes
               PROVE  /\ nodeAvail'[n] = TotalOf(n) <=> Free(coreTask'[n]) = CoresOn(n)
                      /\ nodeAvail'[n] \in Nat
                      /\ nodeAvail'[n] = 0 <=> Free(coreTask'[n]) = {}
                      /\ Free(coreTask[n]) \subseteq CoresOn(n)
                      /\ Free(coreTask'[n]) \subseteq CoresOn(n)
    OBVIOUS
  <2>1. /\ coreTask'[n] \in [CoresOn(n) -> Tasks \cup {Nobody}]
        /\ nodeAvail'[n] = Cardinality(Free(coreTask'[n]))
    BY DEF LendingInv, OccupationsOK, AvailIsFree
  <2>2. IsFiniteSet(CoresOn(n)) /\ Cardinality(CoresOn(n)) = TotalOf(n)
    BY NodeSizes
  <2>3. Free(coreTask'[n]) \in SUBSET CoresOn(n)
    BY <2>1 DEF Free
  <2>4. /\ IsFiniteSet(Free(coreTask'[n])) /\ Cardinality(Free(coreTask'[n])) \in Nat
        /\ Cardinality(Free(coreTask'[n])) = Cardinality(CoresOn(n))
             => Free(coreTask'[n]) = CoresOn(n)
    BY <2>2, <2>3, FS_Subset, FS_CardinalityType
  <2>5. nodeAvail'[n] = 0 <=> Free(coreTask'[n]) = {}
    BY <2>1, <2>4, FS_EmptySet
  <2>6. Free(coreTask[n]) \subseteq CoresOn(n)
    BY NodeState
  <2> QED
    BY <2>1, <2>2, <2>3, <2>4, <2>5, <2>6
<1>4. InUseInv'
  <2>1. allocNodes' \subseteq Nodes
    BY <1>1 DEF InUseInv
  <2>2. ASSUME NEW n \in Nodes
        PROVE  n \in allocNodes' <=> Free(coreTask'[n]) # CoresOn(n)
    <3>1. n \in allocNodes <=> Free(coreTask[n]) # CoresOn(n)
      BY DEF InUseInv
    <3>2. CASE n \in on
      <4>1. n \in allocNodes' <=> n \in allocNodes /\ nodeAvail'[n] # TotalOf(n)
        BY <1>1, <3>2
      <4> QED
        BY <1>2, <1>3, <3>1, <4>1
    <3>3. CASE n \notin on
      <4>1. n \in allocNodes' <=> n \in allocNodes
        BY <1>1, <3>3
      <4>2. Free(coreTask'[n]) = Free(coreTask[n])
        BY <1>2, <3>3
      <4> QED
        BY <3>1, <4>1, <4>2
    <3> QED
      BY <3>2, <3>3
  <2> QED
    BY <2>1, <2>2 DEF InUseInv
<1>5. /\ NodeList \in Seq(Nodes) /\ NoneTwice(NodeList)
      /\ \A n \in Nodes : Has(NodeList, n)
  BY ManagerAssumption DEF NoneTwice, Has, Nodes, ToSet
<1>6. availNodes \in Seq(Nodes) /\ NoneTwice(availNodes)
  BY DEF ListsInv
<1>7. \A x : x \in ToSet(availNodes) <=> Has(availNodes, x)
  BY DEF ToSet, Has
<1>8. \A x : x \in New <=> x \in on /\ nodeAvail'[x] > 0 /\ ~Has(availNodes, x)
  BY <1>7
<1> HIDE DEF New
<1> DEFINE add == Filter(NodeList, New)
<1>9. /\ add \in Seq(Nodes) /\ NoneTwice(add)
      /\ \A x : Has(add, x) <=> Has(NodeList, x) /\ x \in New
  BY <1>5, FilterProperties
<1> HIDE DEF add
<1>10. /\ availNodes \o add \in Seq(Nodes)
       /\ \A x : Has(availNodes \o add, x) <=> Has(availNodes, x) \/ Has(add, x)
       /\ NoneTwice(availNodes \o add)
  <2>1. \A x : ~(Has(availNodes, x) /\ Has(add, x))
    BY <1>8, <1>9
  <2> QED
    BY <1>6, <1>9, <2>1, ConcatenatedOnce
<1>11. \A n \in Nodes : Free(coreTask'[n]) # {} => Has(availNodes \o add, n)
  <2> SUFFICES ASSUME NEW n \in Nodes, Free(coreTask'[n]) # {}
               PROVE  Has(availNodes \o add, n)
    OBVIOUS
  <2>1. CASE Free(coreTask[n]) # {}
    BY <1>10, <2>1 DEF ListsInv
  <2>2. CASE Free(coreTask[n]) = {}
    <3>1. n \in on
      BY <1>2, <2>2
    <3>2. nodeAvail'[n] > 0
      BY <1>3
    <3> QED
      BY <1>5, <1>8, <1>9, <1>10, <3>1, <3>2
  <2> QED
    BY <2>1, <2>2
<1>12. availNodes' = availNodes \o add
  BY <1>1 DEF add
<1>13. /\ availNodes' \in Seq(Nodes) /\ NoneTwice(availNodes')
       /\ \A n \in Nodes : Free(coreTask'[n]) # {} => Has(availNodes', n)
  BY <1>10, <1>11, <1>12
<1>14. ListsInv'
  BY <1>13 DEF ListsInv, NoneTwice, Has
<1> QED
  BY <1>4, <1>14

-----------------------------------------------------------------------------
(* The books *)

(* The numbers of the manager, and the notes on the tasks. *)
CountsInv ==
  /\ coreTask = [n \in Nodes |-> coreTask[n]] /\ DOMAIN nodeAvail = Nodes
  /\ activeTasks \in [Tasks -> [nproc : Nat, cores : Nat, kind : Kinds, ppn : Nat,
                                nodes : SUBSET Nodes]]
  /\ availCores = SumFunctionOnSet(nodeAvail, Nodes)
  /\ allocCores = TotalCores - availCores
  /\ processes = SumFunctionOnSet([t \in Tasks |-> activeTasks[t].nproc], Tasks)
  /\ \A t \in Tasks :
       activeTasks[t].cores = SumFunctionOnSet([n \in Nodes |-> CoresHeld(t, n)], Nodes)

BooksInv == LendingInv /\ ListsInv /\ InUseInv /\ CountsInv

LEMMA TotalIsSum == TotalCores = SumFunctionOnSet([n \in Nodes |-> TotalOf(n)], Nodes)
BY DEF TotalCores, SumFunction

LEMMA CountsInit == Init => CountsInv
<1> SUFFICES ASSUME Init PROVE CountsInv
  OBVIOUS
<1>1. /\ nodeAvail = [n \in Nodes |-> TotalOf(n)] /\ coreTask = [n \in Nodes |-> coreTask[n]]
      /\ \A n \in Nodes : coreTask[n] = [i \in CoresOn(n) |-> Nobody]
      /\ availCores = TotalCores /\ allocCores = 0 /\ processes = 0
      /\ activeTasks = [t \in Tasks |-> NoTask]
  BY DEF Init, Idle
<1>2. availCores = SumFunctionOnSet(nodeAvail, Nodes) /\ DOMAIN nodeAvail = Nodes
  BY <1>1, TotalIsSum
<1>3. TotalCores \in Int
  <2>1. \A n \in Nodes : [x \in Nodes |-> TotalOf(x)][n] \in Int
    BY NodeSizes
  <2> QED
    BY <2>1, TotalIsSum, NodesFinite, SumRemove
<1>4. activeTasks \in [Tasks -> [nproc : Nat, cores : Nat, kind : Kinds, ppn : Nat,
                                 nodes : SUBSET Nodes]]
  BY <1>1 DEF NoTask, Kinds
<1>5. processes = SumFunctionOnSet([t \in Tasks |-> activeTasks[t].nproc], Tasks)
  <2>1. \A u \in Tasks : [t \in Tasks |-> activeTasks[t].nproc][u] = 0
    BY <1>1 DEF NoTask
  <2>2. IsFiniteSet(Tasks)
    BY ManagerAssumption
  <2> QED
    BY <1>1, <2>1, <2>2, SumOfZeros
<1>6. ASSUME NEW t \in Tasks
      PROVE  activeTasks[t].cores = SumFunctionOnSet([n \in Nodes |-> CoresHeld(t, n)], Nodes)
  <2>1. \A n \in Nodes : HeldBy(coreTask[n], t) = {}
    BY <1>1, ManagerAssumption DEF HeldBy
  <2>2. \A n \in Nodes : [x \in Nodes |-> CoresHeld(t, x)][n] = 0
    BY <2>1, FS_EmptySet DEF CoresHeld
  <2>3. SumFunctionOnSet([n \in Nodes |-> CoresHeld(t, n)], Nodes) = 0
    BY <2>2, NodesFinite, SumOfZeros
  <2> QED
    BY <1>1, <2>3 DEF NoTask
<1>7. allocCores = TotalCores - availCores
  BY <1>1, <1>3
<1> QED
  BY <1>1, <1>2, <1>4, <1>5, <1>6, <1>7 DEF CountsInv

LEMMA SumsAreNumbers ==
  ASSUME LendingInv, DOMAIN nodeAvail = Nodes
  PROVE  SumFunctionOnSet(nodeAvail, Nodes) \in Nat /\ TotalCores \in Nat
<1>1. \A n \in Nodes : nodeAvail[n] \in Nat
  BY NodeState, NodeSizes
<1>2. \A n \in Nodes : [x \in Nodes |-> TotalOf(x)][n] \in Nat
  BY NodeSizes
<1>3. SumFunctionOnSet(nodeAvail, Nodes) \in Nat
  BY <1>1, NodesFinite, SumOfNats
<1>4. SumFunctionOnSet([x \in Nodes |-> TotalOf(x)], Nodes) \in Nat
  BY <1>2, NodesFinite, SumOfNats
<1> QED
  BY <1>3, <1>4, TotalIsSum

LEMMA GrantCounts ==
  ASSUME LendingInv, LendingInv', CountsInv, NEW t \in Tasks, NEW r \in Requests, Grant(t, r)
  PROVE  CountsInv'
<1> DEFINE ns == NodesFor(r, Now)
           w == [n \in Nodes |-> Cardinality(TakenOf(r, n))]
           v == [n \in ns |-> Cardinality(TakenOf(r, n))]
           total == SumFunctionOnSet(w, Nodes)
<1>1. ns \in SUBSET Nodes /\ IsFiniteSet(ns)
  <2>1. ns \in SUBSET Nodes
    BY DEF NodesFor
  <2> QED
    BY <2>1, NodesFinite, FS_Subset
<1>2. ASSUME NEW n \in Nodes
      PROVE  /\ w[n] \in Nat
             /\ n \notin ns => w[n] = 0
             /\ n \in ns => v[n] = w[n]
             /\ nodeAvail'[n] = nodeAvail[n] - w[n]
             /\ nodeAvail[n] \in Nat
             /\ HeldBy(coreTask[n], t) = {}
             /\ HeldBy(coreTask'[n], t) = TakenOf(r, n)
             /\ \A u \in Tasks \ {t} : HeldBy(coreTask'[n], u) = HeldBy(coreTask[n], u)
  <2>1. /\ TakenOf(r, n) \in SUBSET Free(coreTask[n])
        /\ n \notin NodesFor(r, Now) => TakenOf(r, n) = {}
        /\ nodeAvail'[n] = nodeAvail[n] - Cardinality(TakenOf(r, n))
        /\ HeldBy(coreTask'[n], t) = HeldBy(coreTask[n], t) \cup TakenOf(r, n)
        /\ \A u \in Tasks \ {t} : HeldBy(coreTask'[n], u) = HeldBy(coreTask[n], u)
    BY GrantOnNode
  <2>2. IsFiniteSet(TakenOf(r, n)) /\ Cardinality(TakenOf(r, n)) \in Nat
    BY <2>1, NodeState, FS_Subset, FS_CardinalityType
  <2>3. HeldBy(coreTask[n], t) = {}
    BY GrantNotes DEF LendingInv, HeldWhereNoted, NoTask
  <2>4. nodeAvail[n] \in Nat
    BY NodeState, NodeSizes
  <2>5. TakenOf(r, n) = {} => Cardinality(TakenOf(r, n)) = 0
    BY FS_EmptySet
  <2> QED
    BY <2>1, <2>2, <2>3, <2>4, <2>5
<1>3. total \in Nat
  <2> HIDE DEF w
  <2> QED
    BY <1>2, NodesFinite, SumOfNats
<1>4. SumFunctionOnSet(v, ns) = total
  <2> HIDE DEF w, v, ns
  <2>1. (\A n \in Nodes : w[n] \in Int) /\ (\A n \in Nodes \ ns : w[n] = 0)
    BY <1>2
  <2>2. SumFunctionOnSet(w, Nodes) = SumFunctionOnSet(w, ns)
    BY <1>1, <2>1, NodesFinite, SumWithoutZeros
  <2>3. \A n \in ns : v[n] = w[n]
    BY <1>1, <1>2
  <2> QED
    BY <1>1, <2>2, <2>3, SumEqual
<1>5. SumFunction([n \in ns |-> Cardinality(IF n \in ns THEN Taken(r, Now, n) ELSE {})]) = total
  <2>1. [n \in ns |-> Cardinality(IF n \in ns THEN Taken(r, Now, n) ELSE {})] = v
    BY DEF TakenOf
  <2>2. SumFunction(v) = SumFunctionOnSet(v, ns)
    BY DEF SumFunction
  <2> QED
    BY <1>4, <2>1, <2>2
<1>6. /\ availCores' = availCores - total
      /\ allocCores' = allocCores + total
      /\ processes' = processes + r.nproc
      /\ activeTasks' = [activeTasks EXCEPT ![t] =
           [nproc |-> r.nproc, cores |-> total, kind |-> KindOf(r),
            ppn |-> TaskPpn(r), nodes |-> ns]]
      /\ coreTask' = [n \in Nodes |-> coreTask'[n]] /\ DOMAIN nodeAvail' = Nodes
      /\ activeTasks[t] = NoTask
  BY <1>5 DEF Grant
<1>7. r.nproc \in Nat /\ KindOf(r) \in Kinds /\ TaskPpn(r) \in Nat
  BY RequestSizes
<1> HIDE DEF w, v, ns, total
<1>8. activeTasks' \in [Tasks -> [nproc : Nat, cores : Nat, kind : Kinds, ppn : Nat,
                                  nodes : SUBSET Nodes]]
  BY <1>1, <1>3, <1>6, <1>7 DEF CountsInv
<1>9. SumFunctionOnSet(nodeAvail, Nodes) = SumFunctionOnSet(nodeAvail', Nodes) + total
  <2>1. \A n \in Nodes : nodeAvail'[n] \in Int /\ w[n] \in Int /\ nodeAvail[n] = nodeAvail'[n] + w[n]
    BY <1>2
  <2> QED
    BY <2>1, NodesFinite, SumAdd DEF total
<1>10. SumFunctionOnSet(nodeAvail', Nodes) \in Int
  <2>1. \A n \in Nodes : nodeAvail'[n] \in Int
    BY <1>2
  <2> QED
    BY <2>1, NodesFinite, SumRemove
<1>11. availCores' = SumFunctionOnSet(nodeAvail', Nodes)
  BY <1>3, <1>6, <1>9, <1>10 DEF CountsInv
<1>12. allocCores' = TotalCores - availCores'
  <2>1. availCores \in Nat /\ TotalCores \in Nat /\ allocCores = TotalCores - availCores
    BY SumsAreNumbers DEF CountsInv
  <2> QED
    BY <1>3, <1>6, <2>1
<1>13. processes' = SumFunctionOnSet([u \in Tasks |-> activeTasks'[u].nproc], Tasks)
  <2> DEFINE f == [u \in Tasks |-> activeTasks[u].nproc]
             g == [u \in Tasks |-> activeTasks'[u].nproc]
  <2>1. \A u \in Tasks : f[u] \in Int
    BY DEF CountsInv
  <2>2. f[t] = 0 /\ g[t] = r.nproc
    BY <1>6 DEF NoTask, CountsInv
  <2>3. \A u \in Tasks \ {t} : g[u] = f[u]
    BY <1>6
  <2>4. IsFiniteSet(Tasks)
    BY ManagerAssumption
  <2>5. processes = SumFunctionOnSet(f, Tasks)
    BY DEF CountsInv
  <2> HIDE DEF f, g
  <2>6. g[t] \in Int
    BY <1>7, <2>2
  <2>7. SumFunctionOnSet(g, Tasks) = SumFunctionOnSet(f, Tasks) - f[t] + g[t]
    BY <2>1, <2>3, <2>4, <2>6, SumOneChanged
  <2>8. SumFunctionOnSet(f, Tasks) \in Int
    BY <2>1, <2>4, SumRemove
  <2>9. SumFunctionOnSet(g, Tasks) = processes'
    BY <1>6, <1>7, <2>2, <2>5, <2>7, <2>8
  <2> QED
    BY <2>9 DEF g
<1>14. ASSUME NEW u \in Tasks
       PROVE  activeTasks'[u].cores =
                SumFunctionOnSet([n \in Nodes |-> Cardinality(HeldBy(coreTask'[n], u))], Nodes)
  <2>1. CASE u = t
    <3>1. [n \in Nodes |-> Cardinality(HeldBy(coreTask'[n], u))] = w
      BY <1>2, <2>1 DEF w
    <3>2. activeTasks'[u].cores = total
      BY <1>6, <2>1 DEF CountsInv
    <3> QED
      BY <3>1, <3>2 DEF total
  <2>2. CASE u # t
    <3>1. [n \in Nodes |-> Cardinality(HeldBy(coreTask'[n], u))]
            = [n \in Nodes |-> CoresHeld(u, n)]
      BY <1>2, <2>2 DEF CoresHeld
    <3>2. activeTasks'[u] = activeTasks[u]
      BY <1>6, <2>2
    <3> QED
      BY <3>1, <3>2 DEF CountsInv
  <2> QED
    BY <2>1, <2>2
<1> QED
  BY <1>6, <1>8, <1>11, <1>12, <1>13, <1>14 DEF CountsInv, CoresHeld

LEMMA ReleaseCounts ==
  ASSUME LendingInv, LendingInv', CountsInv, NEW t \in Tasks, Release(t)
  PROVE  CountsInv'
<1> DEFINE w == [n \in Nodes |-> CoresHeld(t, n)]
           total == activeTasks[t].cores
<1>1. total = SumFunctionOnSet(w, Nodes) /\ total \in Nat /\ activeTasks[t].nproc \in Nat
  BY DEF CountsInv
<1>2. /\ availCores' = availCores + total
      /\ allocCores' = allocCores - total
      /\ processes' = processes - activeTasks[t].nproc
      /\ activeTasks' = [activeTasks EXCEPT ![t] = NoTask]
      /\ coreTask' = [n \in Nodes |-> coreTask'[n]] /\ DOMAIN nodeAvail' = Nodes
  BY DEF Release, Returned
<1>3. ASSUME NEW n \in Nodes
      PROVE  /\ w[n] \in Nat /\ nodeAvail[n] \in Nat /\ nodeAvail'[n] = nodeAvail[n] + w[n]
             /\ HeldBy(coreTask'[n], t) = {}
             /\ \A u \in Tasks \ {t} : HeldBy(coreTask'[n], u) = HeldBy(coreTask[n], u)
  <2>1. nodeAvail[n] \in Nat
    BY NodeState, NodeSizes
  <2>2. w[n] = Cardinality(HeldBy(coreTask[n], t))
    BY DEF CoresHeld
  <2>3. /\ nodeAvail'[n] = nodeAvail[n] + Cardinality(HeldBy(coreTask[n], t))
        /\ Cardinality(HeldBy(coreTask[n], t)) \in Nat
    BY ReleasedCores
  <2>4. /\ HeldBy(coreTask'[n], t) = {}
        /\ \A u \in Tasks \ {t} : HeldBy(coreTask'[n], u) = HeldBy(coreTask[n], u)
    BY ReleaseOnNode
  <2> QED
    BY <2>1, <2>2, <2>3, <2>4
<1> HIDE DEF w
<1>4. NoTask \in [nproc : Nat, cores : Nat, kind : Kinds, ppn : Nat, nodes : SUBSET Nodes]
  BY DEF NoTask, Kinds
<1>5. activeTasks' \in [Tasks -> [nproc : Nat, cores : Nat, kind : Kinds, ppn : Nat,
                                  nodes : SUBSET Nodes]]
  BY <1>2, <1>4 DEF CountsInv
<1>6. SumFunctionOnSet(nodeAvail', Nodes) = SumFunctionOnSet(nodeAvail, Nodes) + total
  <2>1. \A n \in Nodes : nodeAvail[n] \in Int /\ w[n] \in Int /\ nodeAvail'[n] = nodeAvail[n] + w[n]
    BY <1>3
  <2> QED
    BY <1>1, <2>1, NodesFinite, SumAdd
<1>7. availCores' = SumFunctionOnSet(nodeAvail', Nodes)
  BY <1>2, <1>6 DEF CountsInv
<1>8. allocCores' = TotalCores - availCores'
  <2>1. availCores \in Nat /\ TotalCores \in Nat /\ allocCores = TotalCores - availCores
    BY SumsAreNumbers DEF CountsInv
  <2> HIDE DEF total
  <2> QED
    BY <1>1, <1>2, <2>1
<1>9. processes' = SumFunctionOnSet([u \in Tasks |-> activeTasks'[u].nproc], Tasks)
  <2> DEFINE f == [u \in Tasks |-> activeTasks[u].nproc]
             g == [u \in Tasks |-> activeTasks'[u].nproc]
  <2>1. \A u \in Tasks : f[u] \in Int
    BY DEF CountsInv
  <2>2. f[t] = activeTasks[t].nproc /\ g[t] = 0
    BY <1>2 DEF NoTask, CountsInv
  <2>3. \A u \in Tasks \ {t} : g[u] = f[u]
    BY <1>2
  <2>4. IsFiniteSet(Tasks)
    BY ManagerAssumption
  <2>5. processes = SumFunctionOnSet(f, Tasks)
    BY DEF CountsInv
  <2> HIDE DEF f, g
  <2>6. g[t] \in Int
    BY <2>2
  <2>7. SumFunctionOnSet(g, Tasks) = SumFunctionOnSet(f, Tasks) - f[t] + g[t]
    BY <2>1, <2>3, <2>4, <2>6, SumOneChanged
  <2>8. SumFunctionOnSet(f, Tasks) \in Int
    BY <2>1, <2>4, SumRemove
  <2>9. SumFunctionOnSet(g, Tasks) = processes'
    BY <1>1, <1>2, <2>2, <2>5, <2>7, <2>8
  <2> QED
    BY <2>9 DEF g
<1>10. ASSUME NEW u \in Tasks
       PROVE  activeTasks'[u].cores =
                SumFunctionOnSet([n \in Nodes |-> Cardinality(HeldBy(coreTask'[n], u))], Nodes)
  <2>1. CASE u = t
    <3> DEFINE z == [n \in Nodes |-> Cardinality(HeldBy(coreTask'[n], u))]
    <3>1. \A n \in Nodes : z[n] = 0
      BY <1>3, <2>1, FS_EmptySet
    <3>2. activeTasks'[u].cores = 0
      BY <1>2, <2>1 DEF CountsInv, NoTask
    <3> HIDE DEF z
    <3>3. SumFunctionOnSet(z, Nodes) = 0
      BY <3>1, NodesFinite, SumOfZeros
    <3> QED
      BY <3>2, <3>3 DEF z
  <2>2. CASE u # t
    <3>1. [n \in Nodes |-> Cardinality(HeldBy(coreTask'[n], u))]
            = [n \in Nodes |-> CoresHeld(u, n)]
      BY <1>3, <2>2 DEF CoresHeld
    <3>2. activeTasks'[u] = activeTasks[u]
      BY <1>2, <2>2
    <3> QED
      BY <3>1, <3>2 DEF CountsInv
  <2> QED
    BY <2>1, <2>2
<1> QED
  BY <1>2, <1>5, <1>7, <1>8, <1>9, <1>10 DEF CountsInv, CoresHeld

LEMMA BooksStep == BooksInv /\ [Next]_vars => BooksInv'
<1> SUFFICES ASSUME BooksInv, [Next]_vars PROVE BooksInv'
  OBVIOUS
<1>0. LendingInv /\ ListsInv /\ InUseInv /\ CountsInv /\ LendingInv'
  BY LendingStep DEF BooksInv
<1>1. ASSUME NEW t \in Tasks, NEW r \in Requests, Grant(t, r)
      PROVE  BooksInv'
  BY <1>0, <1>1, GrantLists, GrantCounts DEF BooksInv
<1>2. ASSUME NEW t \in Tasks, Release(t)
      PROVE  BooksInv'
  <2>1. activeTasks[t].nodes \subseteq Nodes
    BY <1>0 DEF CountsInv
  <2> QED
    BY <1>0, <1>2, <2>1, ReleaseLists, ReleaseCounts DEF BooksInv
<1>3. CASE UNCHANGED vars
  <2>1. /\ coreTask' = coreTask /\ nodeAvail' = nodeAvail /\ availNodes' = availNodes
        /\ allocNodes' = allocNodes /\ activeTasks' = activeTasks /\ availCores' = availCores
        /\ allocCores' = allocCores /\ processes' = processes
    BY <1>3 DEF vars, books
  <2>2. ListsInv' /\ InUseInv'
    BY <1>0, <2>1 DEF ListsInv, InUseInv
  <2>3. \A t \in Tasks : \A n \in Nodes : CoresHeld(t, n)' = CoresHeld(t, n)
    BY <2>1 DEF CoresHeld
  <2>4. CountsInv'
    BY <1>0, <2>1, <2>3 DEF CountsInv, CoresHeld
  <2> QED
    BY <1>0, <2>2, <2>4 DEF BooksInv
<1> QED
  BY <1>1, <1>2, <1>3 DEF Next, GetAllocation, Refuse

LEMMA Books == Spec => []BooksInv
<1>1. Init => BooksInv
  BY LendingInit, ListsInit, CountsInit DEF BooksInv
<1> QED
  BY <1>1, BooksStep, PTL DEF Spec

(* The types follow from the books: the numbers are sums. *)
LEMMA ManagerTypes == BooksInv => ManagerTypeOK
<1> SUFFICES ASSUME BooksInv PROVE ManagerTypeOK
  OBVIOUS
<1>0. LendingInv /\ ListsInv /\ InUseInv /\ CountsInv
  BY DEF BooksInv
<1> DEFINE total == [n \in Nodes |-> TotalOf(n)]
<1>1. \A n \in Nodes : nodeAvail[n] \in 0..TotalOf(n) /\ TotalOf(n) \in Nat \ {0}
  BY <1>0, NodeState, SizePositive
<1>2. \A n \in Nodes : TotalOf(n) <= TotalCores
  <2>1. \A n \in Nodes : total[n] \in Nat
    BY <1>1
  <2> HIDE DEF total
  <2>2. \A n \in Nodes : total[n] <= SumFunctionOnSet(total, Nodes)
    BY <2>1, NodesFinite, SumOfNats
  <2> QED
    BY <2>2, TotalIsSum DEF total
<1>3. availCores \in Nat /\ TotalCores \in Nat /\ allocCores = TotalCores - availCores
  BY <1>0, SumsAreNumbers DEF CountsInv
<1>4. availCores <= TotalCores
  <2>1. \A n \in Nodes : nodeAvail[n] \in Int /\ total[n] \in Int /\ nodeAvail[n] <= total[n]
    BY <1>1
  <2> HIDE DEF total
  <2>2. SumFunctionOnSet(nodeAvail, Nodes) <= SumFunctionOnSet(total, Nodes)
    BY <2>1, NodesFinite, SumMonotone
  <2> QED
    BY <1>0, <2>2, TotalIsSum DEF total, CountsInv
<1>5. availCores \in 0..TotalCores /\ allocCores \in 0..TotalCores
  BY <1>3, <1>4
<1>6. \A n \in Nodes : /\ coreTask[n] \in [1..TotalOf(n) -> Tasks \cup {Nobody}]
                       /\ TotalOf(n) \in 1..TotalCores
  BY <1>0, <1>1, <1>2, <1>3 DEF LendingInv, OccupationsOK, CoresOn
<1>7. coreTask \in [Nodes -> UNION {[1..k -> Tasks \cup {Nobody}] : k \in 1..TotalCores}]
  <2>1. coreTask = [n \in Nodes |-> coreTask[n]]
    BY <1>0 DEF CountsInv
  <2>2. \A n \in Nodes :
          coreTask[n] \in UNION {[1..k -> Tasks \cup {Nobody}] : k \in 1..TotalCores}
    BY <1>6
  <2> QED
    BY <2>1, <2>2
<1>8. \A n \in Nodes : DOMAIN coreTask[n] = CoresOn(n)
  BY <1>0, NodeState
<1>9. processes \in Nat
  <2> DEFINE f == [t \in Tasks |-> activeTasks[t].nproc]
  <2>1. \A t \in Tasks : f[t] \in Nat
    BY <1>0 DEF CountsInv
  <2>2. IsFiniteSet(Tasks) /\ processes = SumFunctionOnSet(f, Tasks)
    BY <1>0, ManagerAssumption DEF CountsInv
  <2> HIDE DEF f
  <2> QED
    BY <2>1, <2>2, SumOfNats
<1> QED
  BY <1>0, <1>1, <1>5, <1>7, <1>8, <1>9 DEF ManagerTypeOK, ListsInv, InUseInv, CountsInv

(* Nodes, manager and tasks agree on who has what, on any machine, for any *)
(* requests, granted and released in any order: the counter of a node is   *)
(* what is free on it, the manager's counters are the sums over the nodes  *)
(* and the tasks, and alloc_nodes are the nodes in use.                    *)
THEOREM BooksAlwaysAgree == Spec => []BooksAgree
<1>1. BooksInv => BooksAgree
  <2> SUFFICES ASSUME BooksInv PROVE BooksAgree
    OBVIOUS
  <2>1. LendingInv /\ InUseInv /\ CountsInv /\ ManagerTypeOK
    BY ManagerTypes DEF BooksInv
  <2>2. SumFunction(nodeAvail) = SumFunctionOnSet(nodeAvail, Nodes)
    BY <2>1 DEF SumFunction, CountsInv
  <2>3. SumFunction([t \in Tasks |-> activeTasks[t].nproc])
          = SumFunctionOnSet([t \in Tasks |-> activeTasks[t].nproc], Tasks)
    BY DEF SumFunction
  <2>4. \A t \in Tasks : SumFunction([n \in Nodes |-> CoresHeld(t, n)])
          = SumFunctionOnSet([n \in Nodes |-> CoresHeld(t, n)], Nodes)
    BY DEF SumFunction
  <2> QED
    BY <2>1, <2>2, <2>3, <2>4 DEF BooksAgree, LendingInv, AvailIsFree, InUseInv, CountsInv
<1> QED
  BY <1>1, Books, PTL

-----------------------------------------------------------------------------
(* Waiting *)

LEMMA RoomOfAll ==
  ASSUME BooksInv, NEW r \in Requests
  PROVE  RoomInAll(r) = RoomUpTo(r, Now, Len(availNodes))
<1> DEFINE L == Len(availNodes)
           f == [n \in Nodes |-> Room(r, Now, n)]
           h == [i \in 1..L |-> Room(r, Now, availNodes[i])]
           listed == {availNodes[i] : i \in 1..L}
<1>0. LendingInv /\ ListsInv
  BY DEF BooksInv
<1>1. /\ availNodes \in Seq(Nodes) /\ DOMAIN availNodes = 1..L
      /\ \A i \in 1..L : availNodes[i] \in Nodes
      /\ \A i, j \in 1..L : availNodes[i] = availNodes[j] => i = j
  <2>1. availNodes \in Seq(Nodes)
    BY <1>0 DEF ListsInv
  <2>2. DOMAIN availNodes = 1..L /\ \A i \in 1..L : availNodes[i] \in Nodes
    BY <2>1
  <2> QED
    BY <1>0, <2>1, <2>2 DEF ListsInv, NoneTwice
<1>2. listed \in SUBSET Nodes
  BY <1>1
<1>3. \A n \in Nodes : f[n] \in Nat
  BY <1>0, RoomIsNumber
<1>4. \A n \in Nodes \ listed : f[n] = 0
  <2> SUFFICES ASSUME NEW n \in Nodes, n \notin listed PROVE f[n] = 0
    OBVIOUS
  <2>1. ~Has(availNodes, n)
    BY <1>1 DEF Has
  <2>2. Free(coreTask[n]) = {}
    BY <1>0, <2>1 DEF ListsInv
  <2>3. Room(r, Now, n) \in Nat /\ ~(Room(r, Now, n) > 0)
    BY <1>0, <2>2, RoomIsNumber
  <2> QED
    BY <2>3
<1>5. SumFunctionOnSet(f, Nodes) = SumFunctionOnSet(f, listed)
  <2>1. \A n \in Nodes : f[n] \in Int
    BY <1>3
  <2> HIDE DEF f, listed
  <2> QED
    BY <1>2, <1>4, <2>1, NodesFinite, SumWithoutZeros
<1>6. SumFunctionOnSet(h, 1..L) = SumFunctionOnSet(f, listed)
  <2>0. PICK q : q = availNodes
    OBVIOUS
  <2>1. \A i \in 1..L : h[i] = f[q[i]] /\ h[i] \in Int
    BY <1>1, <1>3, <2>0
  <2>2. PICK I : I = 1..L
    OBVIOUS
  <2>3. IsFiniteSet(I)
    BY <1>1, <2>2, FS_Interval
  <2>4. \A i, j \in I : q[i] = q[j] => i = j
    BY <1>1, <2>0, <2>2
  <2>5. \A i \in I : h[i] = f[q[i]] /\ h[i] \in Int
    BY <2>1, <2>2
  <2> HIDE DEF f, h, L
  <2>6. SumFunctionOnSet(h, I) = SumFunctionOnSet(f, {q[i] : i \in I})
    BY <2>3, <2>4, <2>5, SumOfImages
  <2> QED
    BY <2>0, <2>2, <2>6
<1>7. RoomInAll(r) = SumFunctionOnSet(f, Nodes)
  BY DEF RoomInAll, SumFunction
<1>8. RoomUpTo(r, Now, L) = SumFunctionOnSet(h, 1..L)
  BY DEF RoomUpTo, SumFunction, Now
<1> QED
  BY <1>5, <1>6, <1>7, <1>8

(* A request waits only because cores are in use, on any machine: when the *)
(* checks find too little in avail_nodes, there is too little in all nodes.*)
THEOREM WaitingIsForCores == Spec => []NothingFreeIsMissed
<1>1. BooksInv => NothingFreeIsMissed
  <2> SUFFICES ASSUME BooksInv PROVE NothingFreeIsMissed
    OBVIOUS
  <2>0. LendingInv /\ ListsInv
    BY DEF BooksInv
  <2>1. \A i, j \in DOMAIN availNodes : availNodes[i] = availNodes[j] => i = j
    BY <2>0 DEF ListsInv, NoneTwice
  <2>2. \A n \in Nodes : Free(coreTask[n]) # {} => n \in ToSet(availNodes)
    BY <2>0 DEF ListsInv, Has, ToSet
  <2>3. ASSUME NEW r \in Requests, Verdict(r, Now) = "insufficient"
        PROVE  RoomInAll(r) < r.nproc
    <3> DEFINE L == Len(availNodes)
    <3>1. Enough(r, Now) = {}
      BY <2>3 DEF Verdict
    <3>2. availNodes \in Seq(Nodes)
      BY <2>0 DEF ListsInv
    <3>3. L \in Nat /\ DOMAIN availNodes = 1..L
      BY <3>2
    <3>4. RoomUpTo(r, Now, L) \in Nat /\ (L = 0 => RoomUpTo(r, Now, L) = 0)
      BY <2>0, <3>2, <3>3, RoomSoFar
    <3>5. r.nproc \in Nat \ {0}
      BY RequestSizes
    <3>6. L # 0 => ~(RoomUpTo(r, Now, L) >= r.nproc)
      <4>1. L # 0 => L \in DOMAIN availNodes
        BY <3>3
      <4> QED
        BY <3>1, <4>1 DEF Enough, Now
    <3>7. RoomUpTo(r, Now, L) < r.nproc
      BY <3>4, <3>5, <3>6
    <3> QED
      BY <3>7, RoomOfAll
  <2> QED
    BY <2>1, <2>2, <2>3 DEF NothingFreeIsMissed
<1> QED
  BY <1>1, Books, PTL
-----------------------------------------------------------------------------
(* What a task can run on *)

(* The processes that a task may start on node n. *)
FitOn(t, n) == Min({activeTasks[t].ppn, CoresHeld(t, n)})
Fits(t) == SumFunctionOnSet([n \in Nodes |-> FitOn(t, n)], Nodes) >= activeTasks[t].nproc

(* Tasks that did not ask for whole sockets fit on what they hold. *)
FitInv == \A t \in Tasks : activeTasks[t].kind # "socks" => Fits(t)

(* The nodes are asked in turn, each for what the ones before did not give. *)
LEMMA AskedInTurn ==
  ASSUME LendingInv, availNodes \in Seq(Nodes), NoneTwice(availNodes),
         NEW r \in Requests, Verdict(r, Now) = "granted", KindOf(r) # "socks",
         NEW i \in 1..Min(Enough(r, Now))
  PROVE  /\ i \in DOMAIN availNodes /\ availNodes[i] \in Nodes
         /\ i - 1 \in 0..Len(availNodes)
         /\ RoomUpTo(r, Now, i - 1) \in Nat /\ RoomUpTo(r, Now, i - 1) < r.nproc
         /\ Asked(r, Now, availNodes[i])
              = Min({TaskPpn(r), nodeAvail[availNodes[i]], r.nproc - RoomUpTo(r, Now, i - 1)})
<1>1. Enough(r, Now) # {}
  BY DEF Verdict
<1>2. DOMAIN availNodes = 1..Len(availNodes) /\ Len(availNodes) \in Nat /\ Now.order = availNodes
  BY DEF Now
<1>3. /\ Min(Enough(r, Now)) \in DOMAIN availNodes
      /\ \A j \in 0..(Min(Enough(r, Now)) - 1) : RoomUpTo(r, Now, j) < r.nproc
  BY <1>1, LastNeeded
<1>4. i \in DOMAIN availNodes /\ i - 1 \in 0..Len(availNodes)
      /\ i - 1 \in 0..(Min(Enough(r, Now)) - 1)
  BY <1>2, <1>3
<1>5. availNodes[i] \in Nodes
  BY <1>4
<1>6. RoomUpTo(r, Now, i - 1) \in Nat /\ RoomUpTo(r, Now, i - 1) < r.nproc
  BY <1>3, <1>4, RoomSoFar
<1>7. (CHOOSE j \in DOMAIN availNodes : availNodes[j] = availNodes[i]) = i
  BY <1>4 DEF NoneTwice
<1>8. Now.avail = nodeAvail
  BY DEF Now
<1>9. Asked(r, Now, availNodes[i])
        = Min({TaskPpn(r), nodeAvail[availNodes[i]], r.nproc - RoomUpTo(r, Now, i - 1)})
  BY <1>2, <1>7, <1>8 DEF Asked, Part
<1> QED
  BY <1>4, <1>5, <1>6, <1>9

(* A node gives what it has room for, or all that is missing. *)
LEMMA FitOnNode ==
  ASSUME LendingInv, availNodes \in Seq(Nodes), NoneTwice(availNodes),
         NEW r \in Requests, Verdict(r, Now) = "granted", KindOf(r) # "socks",
         NEW i \in 1..Min(Enough(r, Now))
  PROVE  LET n == availNodes[i]
             fit == Min({TaskPpn(r), Cardinality(TakenOf(r, n))})
         IN /\ fit \in Nat
            /\ fit >= Room(r, Now, n) \/ fit >= r.nproc - RoomUpTo(r, Now, i - 1)
<1> DEFINE n == availNodes[i]
           h == coreTask[n]
           p == TaskPpn(r)
           had == RoomUpTo(r, Now, i - 1)
           fit == Min({p, Cardinality(TakenOf(r, n))})
<1>1. /\ n \in Nodes /\ i \in DOMAIN availNodes
      /\ had \in Nat /\ had < r.nproc
      /\ Asked(r, Now, n) = Min({p, nodeAvail[n], r.nproc - had})
  BY AskedInTurn
<1>2. p \in Nat \ {0} /\ r.nproc \in Nat /\ KindOf(r) \in Kinds
  BY RequestSizes
<1>3. /\ DOMAIN h = CoresOn(n) /\ IsFiniteSet(CoresOn(n)) /\ CoresOn(n) \subseteq Nat
      /\ Free(h) \subseteq CoresOn(n) /\ IsFiniteSet(Free(h))
      /\ nodeAvail[n] = Cardinality(Free(h)) /\ TotalOf(n) \in Nat
      /\ nodeAvail[n] \in 0..TotalOf(n)
      /\ nodeAvail[n] = TotalOf(n) <=> Free(h) = CoresOn(n)
      /\ Cardinality(CoresOn(n)) = TotalOf(n)
  BY <1>1, NodeState, NodeSizes
<1>4. Room(r, Now, n) \in Nat /\ Now.on[n] = h /\ Now.avail[n] = nodeAvail[n]
  BY <1>1, RoomIsNumber DEF Now
<1>5. IsFiniteSet(TakenOf(r, n)) /\ Cardinality(TakenOf(r, n)) \in Nat
  <2>1. TakenOf(r, n) \in SUBSET Free(h)
    BY <1>1, TakenIsFree DEF TakenOf
  <2> QED
    BY <1>3, <2>1, FS_Subset, FS_CardinalityType
<1>6. n \in NodesFor(r, Now) <=> Room(r, Now, n) > 0
  BY <1>1 DEF NodesFor, Now
<1> HIDE DEF n, h, p, had
<1>7. /\ fit \in {p, Cardinality(TakenOf(r, n))} /\ fit \in Nat
      /\ fit <= p /\ fit <= Cardinality(TakenOf(r, n))
  <2>1. p \in Int /\ Cardinality(TakenOf(r, n)) \in Int
    BY <1>2, <1>5
  <2> QED
    BY <1>2, <1>5, <2>1, MinOfPair, MinIsLower
<1> HIDE DEF fit
<1>8. ASSUME Room(r, Now, n) = 0 PROVE fit >= Room(r, Now, n) \/ fit >= r.nproc - had
  BY <1>7, <1>8
<1>9. ASSUME Room(r, Now, n) > 0, KindOf(r) = "nodes"
       PROVE  fit >= Room(r, Now, n) \/ fit >= r.nproc - had
  <2>1. Room(r, Now, n) = RoomInNode(p, Now, n)
    BY <1>9 DEF Room, p
  <2>2. nodeAvail[n] = TotalOf(n) /\ nodeAvail[n] >= p /\ Room(r, Now, n) = p
    BY <1>4, <1>9, <2>1 DEF RoomInNode
  <2>3. TakenOf(r, n) = CoresOn(n)
    BY <1>3, <1>4, <1>6, <1>9 DEF TakenOf, Taken, TakenCores
  <2>4. Cardinality(TakenOf(r, n)) >= p
    BY <1>3, <2>2, <2>3
  <2> QED
    BY <1>2, <1>5, <1>7, <2>2, <2>4
<1>10. ASSUME Room(r, Now, n) > 0, KindOf(r) = "cores"
       PROVE  fit >= Room(r, Now, n) \/ fit >= r.nproc - had
  <2>1. Room(r, Now, n) = Min({p, nodeAvail[n]})
    BY <1>4, <1>10 DEF Room, RoomInCores, p
  <2>2. PICK k : k = Asked(r, Now, n)
    OBVIOUS
  <2>3. k \in {p, nodeAvail[n], r.nproc - had} /\ k <= p /\ k <= nodeAvail[n]
    <3>1. p \in Int /\ nodeAvail[n] \in Int /\ r.nproc - had \in Int
      BY <1>1, <1>2, <1>3
    <3> DEFINE c == r.nproc - had
    <3>2. k = Min({p, nodeAvail[n], c}) /\ c \in Int
      BY <1>1, <2>2, <3>1
    <3> HIDE DEF c
    <3>3. k \in {p, nodeAvail[n], c} /\ k <= p /\ k <= nodeAvail[n]
      BY <3>1, <3>2, MinOfThree
    <3> QED
      BY <3>3 DEF c
  <2>4. k \in 0..Cardinality(Free(h))
    BY <1>1, <1>2, <1>3, <2>3
  <2>5. TakenOf(r, n) = FirstCores(h, k)
    BY <1>4, <1>6, <1>10, <2>2 DEF TakenOf, Taken, TakenCores
  <2>6. Cardinality(FirstCores(h, k)) = k
    <3>1. Free(h) \subseteq Nat
      BY <1>3
    <3>2. Cardinality({j \in Free(h) : Cardinality({q \in Free(h) : q < j}) < k}) = k
      BY <1>3, <2>4, <3>1, LowestCounted
    <3> QED
      BY <3>2 DEF FirstCores
  <2>7. k \in Int /\ fit = k
    <3>1. k \in Int
      BY <1>3, <2>4
    <3>2. fit = Min({p, k})
      BY <2>5, <2>6 DEF fit
    <3>3. Min({p, k}) \in {p, k} /\ Min({p, k}) <= k
      <4>1. p \in Int
        BY <1>2
      <4> QED
        BY <3>1, <4>1, MinOfPair, MinIsLower
    <3>4. k <= p /\ p \in Int
      BY <1>2, <2>3
    <3> QED
      BY <3>1, <3>2, <3>3, <3>4
  <2>8. Room(r, Now, n) <= p /\ Room(r, Now, n) <= nodeAvail[n]
    <3>1. p \in Int /\ nodeAvail[n] \in Int
      BY <1>2, <1>3
    <3> QED
      BY <2>1, <3>1, MinIsLower
  <2> QED
    BY <1>1, <1>2, <1>3, <1>4, <2>3, <2>7, <2>8
<1>11. fit >= Room(r, Now, n) \/ fit >= r.nproc - had
  BY <1>2, <1>4, <1>8, <1>9, <1>10 DEF Kinds
<1> QED
  BY <1>7, <1>11 DEF fit, n, p, had

(* What a task is granted is enough for its processes. *)
LEMMA GrantFits ==
  ASSUME LendingInv, ListsInv, NEW t \in Tasks, NEW r \in Requests, Grant(t, r),
         KindOf(r) # "socks"
  PROVE  Fits(t)'
<1> DEFINE p == TaskPpn(r)
           w == [n \in Nodes |-> Min({p, Cardinality(TakenOf(r, n))})]
<1>1. /\ activeTasks'[t].nproc = r.nproc /\ activeTasks'[t].ppn = p
      /\ Verdict(r, Now) = "granted" /\ activeTasks[t] = NoTask
  BY DEF Grant, LendingInv, OccupationsOK
<1>2. \A n \in Nodes : CoresHeld(t, n)' = Cardinality(TakenOf(r, n))
  <2> SUFFICES ASSUME NEW n \in Nodes PROVE CoresHeld(t, n)' = Cardinality(TakenOf(r, n))
    OBVIOUS
  <2>1. HeldBy(coreTask[n], t) = {}
    BY <1>1 DEF LendingInv, HeldWhereNoted, NoTask
  <2>2. HeldBy(coreTask'[n], t) = TakenOf(r, n)
    <3>1. HeldBy(coreTask'[n], t) = HeldBy(coreTask[n], t) \cup TakenOf(r, n)
      BY GrantOnNode
    <3> QED
      BY <2>1, <3>1
  <2> QED
    BY <2>2 DEF CoresHeld
<1>3. Fits(t)' <=> SumFunctionOnSet(w, Nodes) >= r.nproc
  <2>1. [n \in Nodes |-> FitOn(t, n)]' = w
    BY <1>1, <1>2 DEF FitOn
  <2> QED
    BY <1>1, <2>1 DEF Fits
<1>4. /\ availNodes \in Seq(Nodes) /\ NoneTwice(availNodes)
      /\ DOMAIN availNodes = 1..Len(availNodes) /\ Len(availNodes) \in Nat
  BY DEF ListsInv
<1>5. PICK q : q = availNodes
  OBVIOUS
<1>6. PICK k : k = Min(Enough(r, Now))
  OBVIOUS
<1>7. k \in 1..Len(availNodes) /\ \A j \in 0..(k - 1) : RoomUpTo(r, Now, j) < r.nproc
  <2>1. Enough(r, Now) # {}
    BY <1>1 DEF Verdict
  <2> QED
    BY <1>4, <1>6, <2>1, LastNeeded
<1>8. RoomUpTo(r, Now, k) >= r.nproc
  <2>1. Enough(r, Now) = {j \in 1..Len(availNodes) : RoomUpTo(r, Now, j) >= r.nproc}
    BY <1>4 DEF Enough, Now
  <2>2. Enough(r, Now) # {}
    BY <1>1 DEF Verdict
  <2>3. Enough(r, Now) \subseteq Nat
    BY <2>1
  <2>4. Min(Enough(r, Now)) \in Enough(r, Now)
    <3>1. \E x \in Enough(r, Now) : \A y \in Enough(r, Now) : x <= y
      BY <2>2, <2>3, SmallestExists
    <3> QED
      BY <3>1 DEF Min
  <2> QED
    BY <1>6, <2>1, <2>4
<1>9. PICK I : I = 1..k
  OBVIOUS
<1> DEFINE h == [i \in I |-> w[q[i]]]
           listed == {q[i] : i \in I}
<1>10. \A i \in I : /\ q[i] \in Nodes /\ h[i] \in Nat
                    /\ h[i] >= Room(r, Now, q[i]) \/ h[i] >= r.nproc - RoomUpTo(r, Now, i - 1)
  <2> SUFFICES ASSUME NEW i \in I
               PROVE  /\ q[i] \in Nodes /\ h[i] \in Nat
                      /\ h[i] >= Room(r, Now, q[i]) \/ h[i] >= r.nproc - RoomUpTo(r, Now, i - 1)
    OBVIOUS
  <2>1. i \in 1..Min(Enough(r, Now)) /\ i \in 1..Len(availNodes)
    BY <1>4, <1>6, <1>7, <1>9
  <2>2. q[i] \in Nodes
    BY <1>4, <1>5, <2>1
  <2>3. h[i] = Min({TaskPpn(r), Cardinality(TakenOf(r, availNodes[i]))})
    BY <1>5, <2>2
  <2> HIDE DEF h
  <2> QED
    BY <1>1, <1>4, <1>5, <2>1, <2>2, <2>3, FitOnNode
<1>11. \A n \in Nodes : w[n] \in Nat /\ (n \notin listed => w[n] = 0)
  <2> SUFFICES ASSUME NEW n \in Nodes PROVE w[n] \in Nat /\ (n \notin listed => w[n] = 0)
    OBVIOUS
  <2>1. w[n] = Min({p, Cardinality(TakenOf(r, n))})
    OBVIOUS
  <2>2. TakenOf(r, n) \in SUBSET Free(coreTask[n])
    BY GrantOnNode
  <2>3. IsFiniteSet(TakenOf(r, n)) /\ Cardinality(TakenOf(r, n)) \in Nat
    BY <2>2, NodeState, FS_Subset, FS_CardinalityType
  <2>4. p \in Nat \ {0}
    BY RequestSizes
  <2>5. n \notin listed => Cardinality(TakenOf(r, n)) = 0
    <3>1. n \notin listed => n \notin NodesFor(r, Now)
      BY <1>5, <1>6, <1>9 DEF NodesFor, Now
    <3> QED
      BY <3>1, FS_EmptySet DEF TakenOf
  <2> HIDE DEF w, p, listed
  <2>6. p \in Int /\ Cardinality(TakenOf(r, n)) \in Int
    BY <2>3, <2>4
  <2>7. /\ w[n] \in {p, Cardinality(TakenOf(r, n))}
        /\ w[n] <= Cardinality(TakenOf(r, n))
    BY <2>1, <2>6, MinOfPair, MinIsLower
  <2> QED
    BY <2>3, <2>4, <2>5, <2>7
<1>12. listed \in SUBSET Nodes
  BY <1>10
<1>13. SumFunctionOnSet(w, Nodes) = SumFunctionOnSet(w, listed)
  <2>1. (\A n \in Nodes : w[n] \in Int) /\ \A n \in Nodes \ listed : w[n] = 0
    BY <1>11
  <2> HIDE DEF w, listed
  <2> QED
    BY <1>12, <2>1, NodesFinite, SumWithoutZeros
<1>14. IsFiniteSet(I) /\ IsFiniteSet(1..(k - 1))
  BY <1>7, <1>9, FS_Interval
<1>15. SumFunctionOnSet(h, I) = SumFunctionOnSet(w, listed)
  <2>1. \A i, j \in I : q[i] = q[j] => i = j
    <3>1. I \subseteq DOMAIN availNodes
      BY <1>4, <1>7, <1>9
    <3> QED
      BY <1>4, <1>5, <3>1 DEF NoneTwice
  <2>2. \A i \in I : h[i] = w[q[i]]
    OBVIOUS
  <2> HIDE DEF w, h
  <2>3. \A i \in I : h[i] = w[q[i]] /\ h[i] \in Int
    BY <1>10, <2>2
  <2>4. SumFunctionOnSet(h, I) = SumFunctionOnSet(w, {q[i] : i \in I})
    BY <1>14, <2>1, <2>3, SumOfImages
  <2> QED
    BY <2>4
<1>16. r.nproc \in Nat /\ \A i \in I : /\ RoomUpTo(r, Now, i - 1) \in Nat
                                       /\ RoomUpTo(r, Now, i) \in Nat
                                       /\ Room(r, Now, q[i]) \in Nat
         /\ RoomUpTo(r, Now, i) = RoomUpTo(r, Now, i - 1) + Room(r, Now, q[i])
  <2>1. r.nproc \in Nat
    BY RequestSizes
  <2>2. ASSUME NEW i \in I
        PROVE  /\ RoomUpTo(r, Now, i - 1) \in Nat
               /\ RoomUpTo(r, Now, i) \in Nat
               /\ Room(r, Now, q[i]) \in Nat
               /\ RoomUpTo(r, Now, i) = RoomUpTo(r, Now, i - 1) + Room(r, Now, q[i])
    <3>1. i \in 0..Len(availNodes) /\ i - 1 \in 0..Len(availNodes) /\ i > 0
      BY <1>7, <1>9
    <3>2. Room(r, Now, q[i]) \in Nat
      BY <1>10, RoomIsNumber
    <3>3. RoomUpTo(r, Now, i) = RoomUpTo(r, Now, i - 1) + Room(r, Now, availNodes[i])
      BY <1>4, <3>1, RoomSoFar
    <3>4. RoomUpTo(r, Now, i - 1) \in Nat /\ RoomUpTo(r, Now, i) \in Nat
      BY <1>4, <3>1, RoomSoFar
    <3> QED
      BY <1>5, <3>2, <3>3, <3>4
  <2> QED
    BY <2>1, <2>2
<1> HIDE DEF w, h, listed, p
<1>17. \A i \in 1..(k - 1) : h[i] >= Room(r, Now, q[i])
  <2> SUFFICES ASSUME NEW i \in 1..(k - 1) PROVE h[i] >= Room(r, Now, q[i])
    OBVIOUS
  <2>1. i \in I /\ i \in 0..(k - 1)
    BY <1>7, <1>9
  <2>2. RoomUpTo(r, Now, i) < r.nproc
    BY <1>7, <2>1
  <2> QED
    BY <1>10, <1>16, <2>1, <2>2
<1>18. k \in I /\ h[k] >= r.nproc - RoomUpTo(r, Now, k - 1)
  <2>1. k \in I
    BY <1>7, <1>9
  <2> QED
    BY <1>8, <1>10, <1>16, <2>1
<1>19. SumFunctionOnSet(h, 1..(k - 1)) >= RoomUpTo(r, Now, k - 1)
  <2> DEFINE g == [i \in 1..(k - 1) |-> Room(r, Now, q[i])]
  <2>1. RoomUpTo(r, Now, k - 1) = SumFunctionOnSet(g, 1..(k - 1))
    BY <1>5 DEF RoomUpTo, SumFunction, Now
  <2>2. \A i \in 1..(k - 1) : g[i] \in Int /\ h[i] \in Int /\ g[i] <= h[i]
    <3>1. \A i \in 1..(k - 1) : i \in I
      BY <1>7, <1>9
    <3> QED
      BY <1>10, <1>16, <1>17, <3>1
  <2>3. (\A i \in 1..(k - 1) : g[i] \in Int) /\ \A i \in 1..(k - 1) : h[i] \in Int
    BY <2>2
  <2> HIDE DEF g
  <2>4. PICK J : J = 1..(k - 1)
    OBVIOUS
  <2>5. SumFunctionOnSet(g, J) <= SumFunctionOnSet(h, J)
    BY <1>14, <2>2, <2>4, SumMonotone
  <2>6. SumFunctionOnSet(g, J) \in Int /\ SumFunctionOnSet(h, J) \in Int
    BY <1>14, <2>3, <2>4, SumRemove
  <2> QED
    BY <2>1, <2>4, <2>5, <2>6
<1>20. /\ SumFunctionOnSet(h, I) = h[k] + SumFunctionOnSet(h, 1..(k - 1))
       /\ SumFunctionOnSet(h, 1..(k - 1)) \in Int
  <2>1. I \ {k} = 1..(k - 1)
    BY <1>7, <1>9
  <2>2. \A i \in I : h[i] \in Int
    BY <1>10
  <2>3. /\ SumFunctionOnSet(h, I) = h[k] + SumFunctionOnSet(h, I \ {k})
        /\ SumFunctionOnSet(h, I \ {k}) \in Int
    BY <1>14, <1>18, <2>2, SumRemove
  <2> QED
    BY <2>1, <2>3
<1>21. SumFunctionOnSet(h, I) >= r.nproc
  BY <1>10, <1>16, <1>18, <1>19, <1>20
<1> QED
  BY <1>3, <1>13, <1>15, <1>21

(* A task whose cores and note stay as they were. *)
LEMMA SameFit ==
  ASSUME NEW t \in Tasks, activeTasks'[t] = activeTasks[t],
         \A n \in Nodes : HeldBy(coreTask'[n], t) = HeldBy(coreTask[n], t)
  PROVE  Fits(t)' <=> Fits(t)
<1>1. \A n \in Nodes : CoresHeld(t, n)' = CoresHeld(t, n)
  BY DEF CoresHeld
<1>2. [n \in Nodes |-> FitOn(t, n)]' = [n \in Nodes |-> FitOn(t, n)]
  BY <1>1 DEF FitOn
<1> QED
  BY <1>2 DEF Fits

(* Nothing is enough for nothing. *)
LEMMA NoneFits ==
  SumFunctionOnSet([n \in Nodes |-> Min({0, 0})], Nodes) = 0
<1>1. Min({0, 0}) = 0
  BY MinOfPair
<1>2. PICK f : f = [n \in Nodes |-> Min({0, 0})]
  OBVIOUS
<1>3. \A n \in Nodes : f[n] = 0
  BY <1>1, <1>2
<1> QED
  BY <1>2, <1>3, NodesFinite, SumOfZeros

LEMMA FitInit == Init => FitInv
<1> SUFFICES ASSUME Init, NEW t \in Tasks PROVE Fits(t)
  BY DEF FitInv
<1>1. activeTasks[t].ppn = 0 /\ activeTasks[t].nproc = 0
  BY DEF Init, NoTask
<1>2. \A n \in Nodes : CoresHeld(t, n) = 0
  <2>1. \A n \in Nodes : HeldBy(coreTask[n], t) = {}
    BY ManagerAssumption DEF Init, Idle, HeldBy
  <2> QED
    BY <2>1, FS_EmptySet DEF CoresHeld
<1>3. [n \in Nodes |-> FitOn(t, n)] = [n \in Nodes |-> Min({0, 0})]
  BY <1>1, <1>2 DEF FitOn
<1> QED
  BY <1>1, <1>3, NoneFits DEF Fits

LEMMA FitStep == BooksInv /\ FitInv /\ [Next]_vars => FitInv'
<1> SUFFICES ASSUME BooksInv, FitInv, [Next]_vars,
                    NEW t \in Tasks, activeTasks'[t].kind # "socks"
             PROVE  Fits(t)'
  BY DEF FitInv
<1>0. LendingInv /\ ListsInv
  BY DEF BooksInv
<1>a. ASSUME activeTasks'[t] = activeTasks[t],
             \A n \in Nodes : HeldBy(coreTask'[n], t) = HeldBy(coreTask[n], t)
      PROVE  Fits(t)'
  <2>1. Fits(t)
    BY <1>a DEF FitInv
  <2> QED
    BY <1>a, <2>1, SameFit
<1>1. ASSUME NEW u \in Tasks, NEW r \in Requests, Grant(u, r)
      PROVE  Fits(t)'
  <2>1. CASE u = t
    <3>1. KindOf(r) # "socks"
      BY <1>0, <1>1, <2>1, GrantNotes
    <3> QED
      BY <1>0, <1>1, <2>1, <3>1, GrantFits
  <2>2. CASE u # t
    <3>1. activeTasks'[t] = activeTasks[t]
      BY <1>0, <1>1, <2>2, GrantNotes
    <3>2. \A n \in Nodes : HeldBy(coreTask'[n], t) = HeldBy(coreTask[n], t)
      BY <1>0, <1>1, <2>2, GrantOnNode
    <3> QED
      BY <1>a, <3>1, <3>2
  <2> QED
    BY <2>1, <2>2
<1>2. ASSUME NEW u \in Tasks, Release(u)
      PROVE  Fits(t)'
  <2>1. CASE u = t
    <3>1. activeTasks'[t].ppn = 0 /\ activeTasks'[t].nproc = 0
      BY <1>0, <1>2, <2>1 DEF Release, NoTask, LendingInv, OccupationsOK
    <3>2. \A n \in Nodes : CoresHeld(t, n)' = 0
      <4>1. \A n \in Nodes : HeldBy(coreTask'[n], t) = {}
        BY <1>0, <1>2, <2>1, ReleaseOnNode
      <4> QED
        BY <4>1, FS_EmptySet DEF CoresHeld
    <3>3. [n \in Nodes |-> FitOn(t, n)]' = [n \in Nodes |-> Min({0, 0})]
      BY <3>1, <3>2 DEF FitOn
    <3> QED
      BY <3>1, <3>3, NoneFits DEF Fits
  <2>2. CASE u # t
    <3>1. activeTasks'[t] = activeTasks[t]
      BY <1>0, <1>2, <2>2 DEF Release, LendingInv, OccupationsOK
    <3>2. \A n \in Nodes : HeldBy(coreTask'[n], t) = HeldBy(coreTask[n], t)
      BY <1>0, <1>2, <2>2, ReleaseOnNode
    <3> QED
      BY <1>a, <3>1, <3>2
  <2> QED
    BY <2>1, <2>2
<1>3. CASE UNCHANGED vars
  <2>1. activeTasks' = activeTasks /\ coreTask' = coreTask
    BY <1>3 DEF vars, books
  <2> QED
    BY <1>a, <2>1
<1> QED
  BY <1>1, <1>2, <1>3 DEF Next, GetAllocation, Refuse

(* The cores that a task holds are enough for its processes, node by node, *)
(* whatever else runs and however the nodes differ, for tasks that did not *)
(* ask for whole sockets.                                                  *)
LEMMA TasksFit == Spec => []FitInv
<1> QED
  BY Books, FitInit, FitStep, PTL DEF Spec

(* Requests that do not ask for whole sockets, which the checks add up     *)
(* beyond what a node is to run (resourceManager.py:541).                  *)
NoWholeSockets == \A r \in Requests : KindOf(r) # "socks"

(* No task is noted that asked for whole sockets. *)
LEMMA NotedKinds == NoWholeSockets => (Spec => [](\A t \in Tasks : activeTasks[t].kind # "socks"))
<1> SUFFICES ASSUME NoWholeSockets
             PROVE  Spec => [](\A t \in Tasks : activeTasks[t].kind # "socks")
  OBVIOUS
<1> DEFINE K == \A t \in Tasks : activeTasks[t].kind # "socks"
<1>1. Init => K
  BY DEF Init, NoTask
<1>2. LendingInv /\ K /\ [Next]_vars => K'
  <2> SUFFICES ASSUME LendingInv, K, [Next]_vars, NEW t \in Tasks
               PROVE  activeTasks'[t].kind # "socks"
    OBVIOUS
  <2>1. ASSUME NEW u \in Tasks, NEW r \in Requests, Grant(u, r)
        PROVE  activeTasks'[t].kind # "socks"
    <3>1. KindOf(r) # "socks"
      BY DEF NoWholeSockets
    <3>2. activeTasks'[u].kind = KindOf(r) /\ \A v \in Tasks \ {u} : activeTasks'[v] = activeTasks[v]
      BY <2>1, GrantNotes
    <3> QED
      BY <3>1, <3>2
  <2>2. ASSUME NEW u \in Tasks, Release(u)
        PROVE  activeTasks'[t].kind # "socks"
    BY <2>2 DEF Release, NoTask, LendingInv, OccupationsOK
  <2>3. CASE UNCHANGED vars
    BY <2>3 DEF vars, books
  <2> QED
    BY <2>1, <2>2, <2>3 DEF Next, GetAllocation, Refuse
<1> HIDE DEF K
<1>3. Spec => []K
  BY <1>1, <1>2, Lending, PTL DEF Spec
<1> QED
  BY <1>3 DEF K

(* A task can run on what it was granted: the nodes it is told have cores   *)
(* for all its processes when none runs more than the ppn of the task, for  *)
(* every machine and any requests but those for whole sockets.              *)
THEOREM GrantedTasksFit == NoWholeSockets => (Spec => []GrantsFit)
<1> SUFFICES ASSUME NoWholeSockets PROVE Spec => []GrantsFit
  OBVIOUS
<1> DEFINE K == \A t \in Tasks : activeTasks[t].kind # "socks"
<1>1. FitInv /\ K => GrantsFit
  BY DEF FitInv, Fits, FitOn, GrantsFit, SumFunction
<1>2. Spec => []K
  BY NotedKinds
<1> HIDE DEF K
<1> QED
  BY <1>1, <1>2, TasksFit, PTL

-----------------------------------------------------------------------------
(* Refusing *)

(* On an idle node whole sockets are found up to the ppn that is asked for. *)
LEMMA IdleSockets ==
  ASSUME NEW n \in Nodes, NEW p \in Nat \ {0}
  PROVE  /\ RoomInSockets(p, Idle, n) \in Nat
         /\ RoomInSockets(p, Idle, n) >= Min({p, TotalOf(n)})
<1> DEFINE C == CoresOn(n)
           h == [i \in C |-> Nobody]
           chosen == FirstSockets(h, p)
           Lower(s) == {j \in C : SocketOf(j) < s}
           N == {SocketOf(i) : i \in {i \in C : Cardinality(Lower(SocketOf(i))) >= p}}
<1>1. IsFiniteSet(C) /\ Cardinality(C) = TotalOf(n) /\ TotalOf(n) \in Nat /\ C \subseteq Nat \ {0}
  BY NodeSizes DEF CoresOn
<1>2. Idle.on[n] = h /\ DOMAIN h = C /\ Free(h) = C
  BY DEF Idle, Free
<1>3. InFreeSockets(h) = C
  BY <1>2 DEF InFreeSockets, CoresOf
<1>4. chosen = {i \in C : Cardinality(Lower(SocketOf(i))) < p}
  BY <1>3 DEF FirstSockets
<1>5. \A s : IsFiniteSet(Lower(s)) /\ Cardinality(Lower(s)) \in Nat
  <2>1. \A s : Lower(s) \in SUBSET C
    OBVIOUS
  <2> QED
    BY <1>1, <2>1, FS_Subset, FS_CardinalityType
<1>6. \A i \in C : SocketOf(i) \in Nat
  BY <1>1, SocketNumbers
<1>7. IsFiniteSet(chosen) /\ Cardinality(chosen) \in Nat
  <2>1. chosen \in SUBSET C
    BY <1>4
  <2> QED
    BY <1>1, <2>1, FS_Subset, FS_CardinalityType
<1> HIDE DEF C, h, chosen
<1>8. Cardinality(chosen) >= p \/ Cardinality(chosen) >= TotalOf(n)
  <2>1. CASE N = {}
    <3>1. \A i \in C : Cardinality(Lower(SocketOf(i))) < p
      <4> SUFFICES ASSUME NEW i \in C PROVE Cardinality(Lower(SocketOf(i))) < p
        OBVIOUS
      <4>1. ~(Cardinality(Lower(SocketOf(i))) >= p)
        BY <2>1
      <4>2. Cardinality(Lower(SocketOf(i))) \in Nat
        BY <1>5
      <4> QED
        BY <4>1, <4>2
    <3>2. chosen = C
      BY <1>4, <3>1
    <3> QED
      BY <1>1, <3>2
  <2>2. CASE N # {}
    <3>1. N \subseteq Nat
      BY <1>6
    <3>2. PICK s \in N : \A q \in N : s <= q
      <4> HIDE DEF N
      <4> QED
        BY <2>2, <3>1, SmallestExists
    <3>3. Cardinality(Lower(s)) >= p /\ s \in Nat
      BY <3>1, <3>2
    <3>4. ASSUME NEW j \in Lower(s) PROVE j \in chosen
      <4>1. j \in C /\ SocketOf(j) < s
        OBVIOUS
      <4>2. SocketOf(j) \in Nat
        BY <1>6, <4>1
      <4>3. SocketOf(j) \notin N
        <5> HIDE DEF N
        <5> QED
          BY <3>2, <3>3, <4>1, <4>2
      <4>4. ~(Cardinality(Lower(SocketOf(j))) >= p)
        BY <4>1, <4>3
      <4> QED
        BY <1>4, <1>5, <4>1, <4>4
    <3>5. Lower(s) \in SUBSET chosen
      BY <3>4
    <3>6. Cardinality(Lower(s)) <= Cardinality(chosen)
      BY <1>7, <3>5, FS_Subset
    <3> QED
      BY <1>5, <1>7, <3>3, <3>6
  <2> QED
    BY <2>1, <2>2
<1>9. p \in Int /\ TotalOf(n) \in Int
  BY <1>1
<1>10. Min({p, TotalOf(n)}) <= p /\ Min({p, TotalOf(n)}) <= TotalOf(n)
       /\ Min({p, TotalOf(n)}) \in {p, TotalOf(n)}
  BY <1>9, MinOfPair, MinIsLower
<1>11. IsFiniteSet(DOMAIN Idle.on[n])
  BY <1>1, <1>2
<1>12. /\ RoomInSockets(p, Idle, n) \in Nat
       /\ RoomInSockets(p, Idle, n) >= p \/ RoomInSockets(p, Idle, n) = Cardinality(chosen)
  <2>1. /\ RoomInSockets(p, Idle, n) \in Nat
        /\ \/ RoomInSockets(p, Idle, n) >= p
           \/ RoomInSockets(p, Idle, n) = Cardinality(FirstSockets(Idle.on[n], p))
    BY <1>11, RoomOfSockets
  <2> QED
    BY <1>2, <2>1 DEF chosen
<1> QED
  BY <1>7, <1>8, <1>9, <1>10, <1>12

(* What an idle node has room for, beside what the checks count on.        *)
CountedOn(r, n) == Min({TaskPpn(r), TotalOf(n)})

LEMMA IdleRoom ==
  ASSUME NEW r \in Requests, NEW n \in Nodes
  PROVE  /\ Room(r, Idle, n) \in Nat /\ CountedOn(r, n) \in Nat
         /\ KindOf(r) # "socks" => Room(r, Idle, n) <= CountedOn(r, n)
         /\ (KindOf(r) = "nodes" => TotalOf(n) >= TaskPpn(r)) => Room(r, Idle, n) >= CountedOn(r, n)
<1> DEFINE p == TaskPpn(r)
           T == TotalOf(n)
           c == CountedOn(r, n)
<1>1. p \in Nat \ {0} /\ T \in Nat \ {0} /\ KindOf(r) \in Kinds
  BY RequestSizes, SizePositive
<1>2. p \in Int /\ T \in Int /\ c = Min({p, T})
  BY <1>1 DEF CountedOn
<1>3. c \in {p, T} /\ c <= p /\ c <= T
  <2> HIDE DEF p, T, c
  <2> QED
    BY <1>2, MinOfPair, MinIsLower
<1>4. Idle.avail[n] = T
  BY DEF Idle
<1>5. CASE KindOf(r) = "nodes"
  <2>1. Room(r, Idle, n) = IF T >= p THEN p ELSE 0
    BY <1>4, <1>5 DEF Room, RoomInNode
  <2> HIDE DEF p, T, c
  <2>2. /\ Room(r, Idle, n) \in Nat /\ c \in Nat /\ Room(r, Idle, n) <= c
        /\ T >= p => Room(r, Idle, n) >= c
    BY <1>1, <1>3, <2>1
  <2> QED
    BY <1>5, <2>2 DEF p, T, c
<1>6. CASE KindOf(r) = "cores"
  <2>1. Room(r, Idle, n) = c
    BY <1>2, <1>4, <1>6 DEF Room, RoomInCores
  <2>2. c \in Nat
    BY <1>1, <1>3
  <2> HIDE DEF c
  <2>3. Room(r, Idle, n) <= c /\ Room(r, Idle, n) >= c
    BY <2>1, <2>2
  <2> QED
    BY <2>1, <2>2, <2>3 DEF c
<1>7. CASE KindOf(r) = "socks"
  <2>1. Room(r, Idle, n) = RoomInSockets(p, Idle, n)
    BY <1>7 DEF Room
  <2>2. Room(r, Idle, n) \in Nat /\ Room(r, Idle, n) >= c
    BY <1>1, <1>2, <2>1, IdleSockets
  <2>3. c \in Nat
    BY <1>1, <1>3
  <2> QED
    BY <1>7, <2>2, <2>3
<1> QED
  BY <1>1, <1>5, <1>6, <1>7 DEF Kinds

(* The nodes of an idle machine are searched in the order of the node table. *)
LEMMA IdleOrder ==
  ASSUME NEW f
  PROVE  /\ Len(NodeList) \in Nat \ {0} /\ DOMAIN NodeList = 1..Len(NodeList)
         /\ \A i \in 1..Len(NodeList) : NodeList[i] \in Nodes
         /\ (\A n \in Nodes : f[n] \in Int) =>
              SumFunctionOnSet(f, Nodes)
                = SumFunctionOnSet([i \in 1..Len(NodeList) |-> f[NodeList[i]]], 1..Len(NodeList))
<1>1. NodeList \in Seq(Nodes) /\ NodeList # <<>>
  BY ManagerAssumption
<1>2. Len(NodeList) \in Nat \ {0} /\ DOMAIN NodeList = 1..Len(NodeList)
  BY <1>1
<1>3. \A i \in 1..Len(NodeList) : NodeList[i] \in Nodes
  BY <1>1
<1>4. ASSUME \A n \in Nodes : f[n] \in Int
      PROVE  SumFunctionOnSet(f, Nodes)
               = SumFunctionOnSet([i \in 1..Len(NodeList) |-> f[NodeList[i]]], 1..Len(NodeList))
  <2>1. PICK q : q = NodeList
    OBVIOUS
  <2>2. PICK I : I = 1..Len(NodeList)
    OBVIOUS
  <2> DEFINE h == [i \in I |-> f[q[i]]]
  <2>3. IsFiniteSet(I)
    BY <1>2, <2>2, FS_Interval
  <2>4. \A i, j \in I : q[i] = q[j] => i = j
    BY <1>2, <2>1, <2>2, ManagerAssumption
  <2>5. \A i \in I : h[i] = f[q[i]]
    OBVIOUS
  <2>6. \A i \in I : f[q[i]] \in Int
    BY <1>3, <1>4, <2>1, <2>2
  <2>7. {q[i] : i \in I} = Nodes
    BY <1>2, <2>1, <2>2 DEF Nodes, ToSet
  <2> HIDE DEF h
  <2>8. \A i \in I : h[i] = f[q[i]] /\ h[i] \in Int
    BY <2>5, <2>6
  <2>9. SumFunctionOnSet(h, I) = SumFunctionOnSet(f, {q[i] : i \in I})
    BY <2>3, <2>4, <2>8, SumOfImages
  <2> QED
    BY <2>1, <2>2, <2>7, <2>9 DEF h
<1> QED
  BY <1>2, <1>3, <1>4

(* Too little is counted on: no list of idle nodes has enough. *)
LEMMA IdleIsTooSmall ==
  ASSUME NEW r \in Requests, KindOf(r) # "socks", ~(Potential(r) >= r.nproc)
  PROVE  Enough(r, Idle) = {}
<1> DEFINE L == Len(NodeList)
           f == [n \in Nodes |-> CountedOn(r, n)]
           h == [i \in 1..L |-> f[NodeList[i]]]
<1>1. \A n \in Nodes : f[n] \in Nat
  BY IdleRoom
<1>2. L \in Nat /\ DOMAIN NodeList = 1..L /\ \A i \in 1..L : NodeList[i] \in Nodes
  BY IdleOrder
<1>3. Potential(r) = SumFunctionOnSet(h, 1..L)
  <2>1. Potential(r) = SumFunctionOnSet(f, Nodes)
    BY DEF Potential, SumFunction, CountedOn
  <2>2. \A n \in Nodes : f[n] \in Int
    BY <1>1
  <2> HIDE DEF f
  <2> QED
    BY <2>1, <2>2, IdleOrder
<1>4. IsFiniteSet(1..L)
  BY <1>2, FS_Interval
<1>5. \A i \in 1..L : h[i] \in Nat
  BY <1>1, <1>2
<1>6. ASSUME NEW k \in 1..L
      PROVE  RoomUpTo(r, Idle, k) <= SumFunctionOnSet(h, 1..L) /\ RoomUpTo(r, Idle, k) \in Int
             /\ SumFunctionOnSet(h, 1..L) \in Int
  <2> DEFINE w == [i \in 1..k |-> Room(r, Idle, NodeList[i])]
             g == [i \in 1..L |-> IF i \in 1..k THEN w[i] ELSE 0]
  <2>1. RoomUpTo(r, Idle, k) = SumFunctionOnSet(w, 1..k)
    BY DEF RoomUpTo, SumFunction, Idle
  <2>2. \A i \in 1..k : i \in 1..L /\ w[i] \in Nat /\ w[i] <= h[i]
    <3> SUFFICES ASSUME NEW i \in 1..k PROVE i \in 1..L /\ w[i] \in Nat /\ w[i] <= h[i]
      OBVIOUS
    <3>1. i \in 1..L
      BY <1>2
    <3>2. NodeList[i] \in Nodes
      BY <1>2, <3>1
    <3>3. /\ Room(r, Idle, NodeList[i]) \in Nat
          /\ Room(r, Idle, NodeList[i]) <= CountedOn(r, NodeList[i])
      BY <3>2, IdleRoom
    <3>4. h[i] = CountedOn(r, NodeList[i])
      BY <3>1, <3>2
    <3> QED
      BY <3>1, <3>3, <3>4
  <2>3. \A i \in 1..k : w[i] = g[i]
    BY <2>2
  <2>4. \A i \in (1..L) \ (1..k) : g[i] = 0
    OBVIOUS
  <2>5. \A i \in 1..L : i \in 1..k \/ g[i] = 0
    OBVIOUS
  <2>6. PICK I : I = 1..L
    OBVIOUS
  <2>7. PICK J : J = 1..k
    OBVIOUS
  <2>8. IsFiniteSet(I) /\ IsFiniteSet(J) /\ J \in SUBSET I
    BY <1>2, <1>4, <2>2, <2>6, <2>7, FS_Interval
  <2> HIDE DEF w, g, h
  <2>9. \A i \in I : g[i] \in Int /\ h[i] \in Int /\ g[i] <= h[i]
    BY <1>5, <2>2, <2>3, <2>5, <2>6
  <2>10. SumFunctionOnSet(w, J) = SumFunctionOnSet(g, J)
    BY <2>3, <2>7, <2>8, SumEqual
  <2>11. SumFunctionOnSet(g, I) = SumFunctionOnSet(g, J)
    <3>1. (\A i \in I : g[i] \in Int) /\ \A i \in I \ J : g[i] = 0
      BY <2>4, <2>6, <2>7, <2>9
    <3> QED
      BY <2>8, <3>1, SumWithoutZeros
  <2>12. SumFunctionOnSet(g, I) <= SumFunctionOnSet(h, I)
    BY <2>8, <2>9, SumMonotone
  <2>13. SumFunctionOnSet(g, I) \in Int /\ SumFunctionOnSet(h, I) \in Int
    <3>1. (\A i \in I : g[i] \in Int) /\ \A i \in I : h[i] \in Int
      BY <2>9
    <3> QED
      BY <2>8, <3>1, SumRemove
  <2> QED
    BY <2>1, <2>6, <2>7, <2>10, <2>11, <2>12, <2>13
<1>7. r.nproc \in Nat
  BY RequestSizes
<1> HIDE DEF h
<1>8. \A k \in 1..L : ~(RoomUpTo(r, Idle, k) >= r.nproc)
  BY <1>3, <1>6, <1>7
<1>9. Idle.order = NodeList
  BY DEF Idle
<1> QED
  BY <1>2, <1>8, <1>9 DEF Enough

(* What can never be fulfilled is refused on the idle machine as well, for *)
(* every machine in any state, and requests that do not ask for whole      *)
(* sockets: a refusal does not depend on what is in use.                   *)
THEOREM RefusalsAreFinal == NoWholeSockets => (Spec => []RefusalIsFinal)
<1> SUFFICES ASSUME NoWholeSockets PROVE Spec => []RefusalIsFinal
  OBVIOUS
<1>1. RefusalIsFinal
  <2> SUFFICES ASSUME NEW r \in Requests, Verdict(r, Now) \notin {"granted", "insufficient"},
                      Verdict(r, Idle) = "granted"
               PROVE  FALSE
    BY DEF RefusalIsFinal
  <2>1. Enough(r, Idle) # {}
    BY DEF Verdict
  <2>2. KindOf(r) # "socks"
    BY DEF NoWholeSockets
  <2>3. Potential(r) >= r.nproc
    BY <2>1, <2>2, IdleIsTooSmall
  <2>4. Enough(r, Now) # {}
    BY <2>3 DEF Verdict
  <2> QED
    BY <2>1, <2>4 DEF Verdict
<1> QED
  BY <1>1, PTL

-----------------------------------------------------------------------------
(* Waiting for others to end *)

(* What is counted on is there when the machine is idle. *)
LEMMA IdleIsEnough ==
  ASSUME NEW r \in Requests, Potential(r) >= r.nproc,
         KindOf(r) = "nodes" => \A n \in Nodes : TotalOf(n) >= TaskPpn(r)
  PROVE  Enough(r, Idle) # {}
<1> DEFINE L == Len(NodeList)
           f == [n \in Nodes |-> CountedOn(r, n)]
           w == [n \in Nodes |-> Room(r, Idle, n)]
<1>1. \A n \in Nodes : f[n] \in Int /\ w[n] \in Int /\ f[n] <= w[n]
  BY IdleRoom
<1>2. Potential(r) = SumFunctionOnSet(f, Nodes)
  BY DEF Potential, SumFunction, CountedOn
<1>3. L \in 1..L /\ DOMAIN NodeList = 1..L /\ \A i \in 1..L : NodeList[i] \in Nodes
  <2>1. L \in Nat \ {0} /\ DOMAIN NodeList = 1..L /\ \A i \in 1..L : NodeList[i] \in Nodes
    BY IdleOrder
  <2> HIDE DEF L
  <2> QED
    BY <2>1
<1>4. RoomUpTo(r, Idle, L) = SumFunctionOnSet([i \in 1..L |-> w[NodeList[i]]], 1..L)
  <2>1. [i \in 1..L |-> w[NodeList[i]]] = [i \in 1..L |-> Room(r, Idle, NodeList[i])]
    BY <1>3
  <2> QED
    BY <2>1 DEF RoomUpTo, SumFunction, Idle
<1>5. (\A n \in Nodes : f[n] \in Int) /\ \A n \in Nodes : w[n] \in Int
  BY <1>1
<1> HIDE DEF f, w
<1>6. SumFunctionOnSet(w, Nodes) = RoomUpTo(r, Idle, L)
  BY <1>4, <1>5, IdleOrder
<1>7. SumFunctionOnSet(f, Nodes) <= SumFunctionOnSet(w, Nodes)
  BY <1>1, NodesFinite, SumMonotone
<1>8. SumFunctionOnSet(f, Nodes) \in Int /\ SumFunctionOnSet(w, Nodes) \in Int
  BY <1>5, NodesFinite, SumRemove
<1>9. r.nproc \in Nat
  BY RequestSizes
<1>10. RoomUpTo(r, Idle, L) >= r.nproc
  BY <1>2, <1>6, <1>7, <1>8, <1>9
<1>11. Idle.order = NodeList
  BY DEF Idle
<1> QED
  BY <1>3, <1>10, <1>11 DEF Enough

(* Waiting is worthwhile, on every machine and in any state, for requests  *)
(* of all kinds that fit the machine: what is told that resources are      *)
(* insufficient is granted once the others have ended.                     *)
THEOREM WaitingEnds == Spec => []WaitingIsWorthwhile
<1>1. WaitingIsWorthwhile
  <2> SUFFICES ASSUME NEW r \in Requests, FitsMachine(r), Verdict(r, Now) = "insufficient"
               PROVE  Verdict(r, Idle) = "granted"
    BY DEF WaitingIsWorthwhile
  <2>1. Potential(r) >= r.nproc
    BY DEF Verdict
  <2>2. TaskPpn(r) \in Nat /\ r.gpp \in Nat /\ Gpn \in Nat
    BY RequestSizes, ManagerAssumption
  <2>3. /\ ~(TaskPpn(r) * r.gpp > Gpn)
        /\ KindOf(r) = "nodes" => ~Uneven(r) /\ \A n \in Nodes : TotalOf(n) >= TaskPpn(r)
    BY <2>2 DEF FitsMachine
  <2>4. Enough(r, Idle) # {}
    BY <2>1, <2>3, IdleIsEnough
  <2> QED
    BY <2>3, <2>4 DEF Verdict
<1> QED
  BY <1>1, PTL
=============================================================================
