------------------------------- MODULE NodeProofs -------------------------------
(***************************************************************************)
(* Proofs about Node for every layout of a node and any set of tasks.      *)
(* Neither property is inductive alone: release takes a socket from the    *)
(* list allocated, which must hold it, and allocate keeps a socket in the  *)
(* list available by what the socket counts.  Together they are.           *)
(***************************************************************************)
EXTENDS Node, CollectionTheorems

NodeInv == LevelsAgree /\ ListsServeRelease

-----------------------------------------------------------------------------
(* The layout *)

LEMMA NodeLayout ==
  /\ IsFiniteSet(Cores) /\ Cardinality(Cores) = TotalCores
  /\ TotalCores \in Nat \ {0} /\ Cores # {}
  /\ IsFiniteSet(Sockets)
  /\ \A i \in Cores : SocketOf(i) \in Sockets
<1>1. TotalCores \in Nat \ {0}
  BY NodeAssumption
<1>2. IsFiniteSet(Cores) /\ Cardinality(Cores) = TotalCores /\ Cores # {}
  <2>1. IsFiniteSet(1..TotalCores) /\ Cardinality(1..TotalCores) = TotalCores
    BY <1>1, FS_Interval
  <2>2. 1 \in 1..TotalCores
    BY <1>1
  <2> QED
    BY <2>1, <2>2 DEF Cores
<1>3. IsFiniteSet(Sockets)
  <2> DEFINE g == [i \in Cores |-> SocketOf(i)]
  <2>1. Sockets = {g[i] : i \in Cores}
    BY DEF Sockets
  <2> HIDE DEF g
  <2> QED
    BY <1>2, <2>1, ImageFinite
<1> QED
  BY <1>1, <1>2, <1>3 DEF Sockets

(* No socket has more cores than CoresPerSocket. *)
LEMMA SocketSize ==
  ASSUME NEW C \in SUBSET Cores, NEW s \in Sockets
  PROVE  /\ CoresOf(C, s) \in SUBSET Cores /\ IsFiniteSet(CoresOf(C, s))
         /\ Cardinality(CoresOf(C, s)) \in 0..CoresPerSocket
<1> DEFINE c == CoresPerSocket
<1>1. c \in Nat \ {0}
  BY TopologyAssumption DEF CoresPerSocket
<1>2. CoresOf(C, s) \in SUBSET Cores /\ IsFiniteSet(CoresOf(C, s))
  <2>1. CoresOf(C, s) \in SUBSET Cores
    BY DEF CoresOf
  <2> QED
    BY <2>1, NodeLayout, FS_Subset
<1>3. PICK j \in Cores : s = SocketOf(j)
  BY DEF Sockets
<1>4. s \in Int /\ s - 1 \in Nat
  <2>1. j - 1 \in Nat
    BY NodeLayout DEF Cores
  <2>2. (j - 1) \div c \in Nat
    BY <1>1, <2>1
  <2> QED
    BY <1>3, <2>2 DEF SocketOf
<1> DEFINE low == (s - 1) * c + 1
           high == (s - 1) * c + c
<1>5. low \in Int /\ high \in Int /\ high - low + 1 = c /\ low <= high
  BY <1>1, <1>4
<1>6. ASSUME NEW i \in CoresOf(C, s) PROVE i \in low..high
  <2>1. i \in Nat /\ i - 1 \in Nat /\ (i - 1) \div c = s - 1
    <3>1. i \in Cores /\ SocketOf(i) = s
      BY DEF CoresOf
    <3>2. i \in Nat /\ i - 1 \in Nat
      BY <3>1, NodeLayout DEF Cores
    <3>3. (i - 1) \div c \in Nat
      BY <1>1, <3>2
    <3> QED
      BY <1>4, <3>1, <3>2, <3>3 DEF SocketOf
  <2> HIDE DEF c
  <2>2. i - 1 = c * ((i - 1) \div c) + ((i - 1) % c) /\ (i - 1) % c \in 0..c-1
    BY <1>1, <2>1
  <2>3. c * (s - 1) = (s - 1) * c
    BY <1>1, <1>4
  <2>4. i - 1 = (s - 1) * c + ((i - 1) % c)
    BY <2>1, <2>2, <2>3
  <2> QED
    BY <1>1, <1>4, <2>1, <2>2, <2>4
<1> HIDE DEF low, high, c
<1>7. IsFiniteSet(low..high) /\ Cardinality(low..high) = c
  BY <1>5, FS_Interval
<1>8. Cardinality(CoresOf(C, s)) <= c
  <2>1. CoresOf(C, s) \in SUBSET (low..high)
    BY <1>6
  <2> QED
    BY <1>7, <2>1, FS_Subset
<1>9. Cardinality(CoresOf(C, s)) \in Nat
  BY <1>2, FS_CardinalityType
<1> QED
  BY <1>1, <1>2, <1>8, <1>9 DEF c

(* Cores are counted socket by socket. *)
LEMMA CoresBySocket ==
  ASSUME NEW X, IsFiniteSet(X), NEW S, IsFiniteSet(S), \A i \in X : SocketOf(i) \in S,
         NEW c, \A s \in S : c[s] = Cardinality(CoresOf(X, s))
  PROVE  SumFunctionOnSet(c, S) = Cardinality(X)
<1> DEFINE g == [i \in X |-> SocketOf(i)]
<1>1. \A s \in S : c[s] = Cardinality({i \in X : g[i] = s})
  <2> SUFFICES ASSUME NEW s \in S PROVE c[s] = Cardinality({i \in X : g[i] = s})
    OBVIOUS
  <2>1. CoresOf(X, s) = {i \in X : g[i] = s}
    BY DEF CoresOf
  <2> QED
    BY <2>1
<1>2. \A i \in X : g[i] \in S
  OBVIOUS
<1> HIDE DEF g
<1> QED
  BY <1>1, <1>2, SumOfParts

(* Two disjoint sets of cores are counted together. *)
LEMMA CountedTogether ==
  ASSUME NEW A \in SUBSET Cores, NEW B \in SUBSET Cores, A \cap B = {}
  PROVE  /\ Cardinality(A \cup B) = Cardinality(A) + Cardinality(B)
         /\ Cardinality(A) \in Nat /\ Cardinality(B) \in Nat
<1>1. IsFiniteSet(A) /\ IsFiniteSet(B)
  BY NodeLayout, FS_Subset
<1>2. Cardinality(A) \in Nat /\ Cardinality(B) \in Nat
  BY <1>1, FS_CardinalityType
<1>3. Cardinality(A \cup B) = Cardinality(A) + Cardinality(B) - Cardinality(A \cap B)
  BY <1>1, FS_Union
<1>4. Cardinality(A \cap B) = 0
  BY FS_EmptySet
<1> QED
  BY <1>2, <1>3, <1>4

LEMMA CountedOnSocket ==
  ASSUME NEW A \in SUBSET Cores, NEW B \in SUBSET Cores, A \cap B = {}, NEW s \in Sockets
  PROVE  /\ Cardinality(CoresOf(A \cup B, s)) = Cardinality(CoresOf(A, s)) + Cardinality(CoresOf(B, s))
         /\ Cardinality(CoresOf(A, s)) \in Nat /\ Cardinality(CoresOf(B, s)) \in Nat
<1>1. CoresOf(A, s) \in SUBSET Cores /\ CoresOf(B, s) \in SUBSET Cores
      /\ CoresOf(A, s) \cap CoresOf(B, s) = {}
      /\ CoresOf(A \cup B, s) = CoresOf(A, s) \cup CoresOf(B, s)
  BY DEF CoresOf
<1> QED
  BY <1>1, CountedTogether

(* A socket counts something exactly when it has a core of the set. *)
LEMMA CountedIfAny ==
  ASSUME NEW A \in SUBSET Cores, NEW s \in Sockets
  PROVE  Cardinality(CoresOf(A, s)) > 0 <=> s \in {SocketOf(i) : i \in A}
<1>1. IsFiniteSet(CoresOf(A, s)) /\ Cardinality(CoresOf(A, s)) \in Nat
  BY SocketSize
<1>2. Cardinality(CoresOf(A, s)) = 0 <=> CoresOf(A, s) = {}
  BY <1>1, FS_EmptySet
<1>3. CoresOf(A, s) # {} <=> s \in {SocketOf(i) : i \in A}
  BY DEF CoresOf
<1> QED
  BY <1>1, <1>2, <1>3

(* A part that counts as much as the whole is the whole. *)
LEMMA CountedWhole ==
  ASSUME NEW A \in SUBSET Cores, NEW B \in SUBSET A, Cardinality(B) = Cardinality(A)
  PROVE  B = A
<1>1. IsFiniteSet(A)
  BY NodeLayout, FS_Subset
<1> QED
  BY <1>1, FS_Subset

-----------------------------------------------------------------------------
(* What is taken and what is given back *)

LEMMA Occupation ==
  ASSUME NodeTypeOK
  PROVE  /\ coreTask \in [Cores -> Tasks \cup {Nobody}] /\ Nobody \notin Tasks
         /\ DOMAIN coreTask = Cores
         /\ Free(coreTask) \in SUBSET Cores /\ IsFiniteSet(Free(coreTask))
         /\ \A t \in Tasks : HeldBy(coreTask, t) \in SUBSET Cores
<1>1. coreTask \in [Cores -> Tasks \cup {Nobody}] /\ Nobody \notin Tasks
  BY NodeAssumption DEF NodeTypeOK
<1>2. Free(coreTask) \in SUBSET Cores
  BY <1>1 DEF Free
<1>3. \A t \in Tasks : HeldBy(coreTask, t) \in SUBSET Cores
  BY <1>1 DEF HeldBy
<1> QED
  BY <1>1, <1>2, <1>3, NodeLayout, FS_Subset

LEMMA GiveFree ==
  ASSUME NEW h \in [Cores -> Tasks \cup {Nobody}], NEW S \in SUBSET Free(h), NEW t \in Tasks
  PROVE  /\ Give(h, S, t) \in [Cores -> Tasks \cup {Nobody}]
         /\ Free(Give(h, S, t)) = Free(h) \ S
         /\ HeldBy(Give(h, S, t), t) = HeldBy(h, t) \cup S
         /\ \A u \in Tasks \ {t} : HeldBy(Give(h, S, t), u) = HeldBy(h, u)
BY NodeAssumption DEF Give, Free, HeldBy

LEMMA GiveBack ==
  ASSUME NEW h \in [Cores -> Tasks \cup {Nobody}], NEW t \in Tasks
  PROVE  LET g == Give(h, HeldBy(h, t), Nobody)
         IN /\ g \in [Cores -> Tasks \cup {Nobody}]
            /\ Free(g) = Free(h) \cup HeldBy(h, t)
            /\ Free(h) \cap HeldBy(h, t) = {}
            /\ HeldBy(g, t) = {}
            /\ \A u \in Tasks \ {t} : HeldBy(g, u) = HeldBy(h, u)
BY NodeAssumption DEF Give, Free, HeldBy

(* A request for whole nodes finds every core free. *)
LEMMA AllFree ==
  ASSUME LevelsAgree, Asked("nodes", 0)
  PROVE  Free(coreTask) = Cores
<1>1. availCores = TotalCores /\ availCores = Cardinality(Free(coreTask))
  BY DEF LevelsAgree, Asked
<1>2. Free(coreTask) \in SUBSET Cores
  BY Occupation DEF LevelsAgree
<1> QED
  BY <1>1, <1>2, NodeLayout, CountedWhole

(* A request for whole sockets finds one, and the lowest is taken. *)
LEMMA SocketFound ==
  ASSUME LevelsAgree, NEW k \in Cores, Asked("socks", k)
  PROVE  FirstSockets(coreTask, k) # {}
<1>1. PICK s \in Sockets : sockAvail[s] = Cardinality(CoresOf(Cores, s))
  BY DEF Asked
<1>2. Free(coreTask) \in SUBSET Cores /\ DOMAIN coreTask = Cores
  BY Occupation DEF LevelsAgree
<1>3. CoresOf(Cores, s) \subseteq Free(coreTask)
  <2>1. CoresOf(Free(coreTask), s) \in SUBSET CoresOf(Cores, s)
    BY <1>2 DEF CoresOf
  <2>2. Cardinality(CoresOf(Free(coreTask), s)) = Cardinality(CoresOf(Cores, s))
    BY <1>1 DEF LevelsAgree
  <2>3. CoresOf(Cores, s) \in SUBSET Cores
    BY DEF CoresOf
  <2>4. CoresOf(Free(coreTask), s) = CoresOf(Cores, s)
    BY <2>1, <2>2, <2>3, CountedWhole
  <2> QED
    BY <2>4 DEF CoresOf
<1>4. PICK any \in InFreeSockets(coreTask) : TRUE
  <2>1. PICK j \in Cores : s = SocketOf(j)
    BY DEF Sockets
  <2> QED
    BY <1>2, <1>3, <2>1 DEF InFreeSockets
<1> DEFINE T == InFreeSockets(coreTask)
           N == {SocketOf(i) : i \in T}
<1>5. T \in SUBSET Cores
  BY <1>2 DEF InFreeSockets
<1>6. N \subseteq Nat /\ N # {}
  <2>1. CoresPerSocket \in Nat \ {0}
    BY TopologyAssumption DEF CoresPerSocket
  <2>2. \A i \in Cores : SocketOf(i) \in Nat
    <3> SUFFICES ASSUME NEW i \in Cores PROVE SocketOf(i) \in Nat
      OBVIOUS
    <3>1. i - 1 \in Nat
      BY NodeLayout DEF Cores
    <3>2. (i - 1) \div CoresPerSocket \in Nat
      BY <2>1, <3>1
    <3> QED
      BY <3>2 DEF SocketOf
  <2> QED
    BY <1>4, <1>5, <2>2
<1>7. PICK i \in T : \A j \in T : SocketOf(i) <= SocketOf(j)
  <2> HIDE DEF T
  <2>1. PICK m \in N : \A x \in N : m <= x
    <3> HIDE DEF N
    <3> QED
      BY <1>6, SmallestExists
  <2> QED
    BY <2>1
<1>8. {j \in T : SocketOf(j) < SocketOf(i)} = {}
  <2>1. \A j \in T : SocketOf(j) \in Nat
    BY <1>6
  <2> HIDE DEF T
  <2> QED
    BY <1>7, <2>1
<1>9. Cardinality({j \in T : SocketOf(j) < SocketOf(i)}) < k
  <2>1. k \in Nat /\ k > 0
    BY NodeLayout DEF Cores
  <2> QED
    BY <1>8, <2>1, FS_EmptySet
<1> QED
  BY <1>7, <1>9 DEF FirstSockets

(* What is taken was free, is not nothing, is counted as it is, and is of  *)
(* whole sockets if whole nodes or sockets were asked for.                 *)
LEMMA TakenCounted ==
  ASSUME LevelsAgree, NEW kind \in Kinds, NEW k \in Cores, Asked(kind, k)
  PROVE  LET S == TakenCores(kind, coreTask, k)
         IN /\ S \in SUBSET Free(coreTask) /\ S # {}
            /\ Cardinality(S) = Counted(kind, coreTask, k)
            /\ kind # "cores" => \A i \in S : CoresOf(Cores, SocketOf(i)) \subseteq S
<1> DEFINE S == TakenCores(kind, coreTask, k)
<1>0. DOMAIN coreTask = Cores /\ Free(coreTask) \in SUBSET Cores /\ IsFiniteSet(Free(coreTask))
  BY Occupation DEF LevelsAgree
<1>1. CASE kind = "nodes"
  <2>1. S = Cores
    BY <1>0, <1>1 DEF TakenCores
  <2>2. Free(coreTask) = Cores
    <3>1. Asked("nodes", 0)
      BY <1>1 DEF Asked
    <3> QED
      BY <3>1, AllFree
  <2>3. \A s : CoresOf(Cores, s) \subseteq Cores
    BY DEF CoresOf
  <2>4. Cardinality(S) = Counted(kind, coreTask, k)
    BY <1>1 DEF Counted
  <2> QED
    BY <2>1, <2>2, <2>3, <2>4, NodeLayout
<1>2. CASE kind = "socks"
  <2>1. S = FirstSockets(coreTask, k)
    BY <1>2 DEF TakenCores
  <2>2. S # {}
    BY <1>2, <2>1, SocketFound
  <2>3. S \subseteq InFreeSockets(coreTask) /\ InFreeSockets(coreTask) \subseteq Free(coreTask)
    BY <2>1 DEF FirstSockets, InFreeSockets, CoresOf
  <2>4. \A i \in S : CoresOf(Cores, SocketOf(i)) \subseteq S
    BY <1>0, <2>1 DEF FirstSockets, InFreeSockets, CoresOf
  <2>5. Cardinality(S) = Counted(kind, coreTask, k)
    BY <1>2 DEF Counted
  <2> QED
    BY <2>2, <2>3, <2>4, <2>5
<1>3. CASE kind = "cores"
  <2>1. S = FirstCores(coreTask, k)
    BY <1>3 DEF TakenCores
  <2>2. k <= availCores /\ availCores = Cardinality(Free(coreTask)) /\ k \in Nat /\ k > 0
    BY <1>3, NodeLayout DEF Asked, LevelsAgree, Cores
  <2>3. S \subseteq Free(coreTask)
    BY <2>1 DEF FirstCores
  <2>4. Cardinality(S) = k
    <3>1. PICK F : F = Free(coreTask)
      OBVIOUS
    <3>2. Cores \subseteq Nat
      BY NodeLayout DEF Cores
    <3>3. F \subseteq Nat /\ IsFiniteSet(F) /\ Cardinality(F) \in Nat
      BY <1>0, <3>1, <3>2, FS_CardinalityType
    <3>4. k \in 0..Cardinality(F)
      BY <2>2, <3>1, <3>3
    <3>5. Cardinality({i \in F : Cardinality({j \in F : j < i}) < k}) = k
      BY <3>3, <3>4, LowestCounted
    <3> QED
      BY <2>1, <3>1, <3>5 DEF FirstCores
  <2>5. S # {}
    BY <2>2, <2>4, FS_EmptySet
  <2>6. Counted(kind, coreTask, k) = k
    BY <1>3 DEF Counted
  <2> QED
    BY <1>3, <2>3, <2>4, <2>5, <2>6
<1> QED
  BY <1>1, <1>2, <1>3 DEF Kinds

-----------------------------------------------------------------------------
(* The steps *)

LEMMA NodeInit == Init => NodeInv
<1> SUFFICES ASSUME Init PROVE NodeInv
  OBVIOUS
<1>1. coreTask \in [Cores -> Tasks \cup {Nobody}] /\ Free(coreTask) = Cores
  BY DEF Init, Free
<1>2. \A t \in Tasks : HeldBy(coreTask, t) = {}
  BY NodeAssumption DEF Init, HeldBy
<1>3. \A s \in Sockets : /\ sockAvail[s] = Cardinality(CoresOf(Free(coreTask), s))
                         /\ sockAvail[s] \in 0..CoresPerSocket
  <2> SUFFICES ASSUME NEW s \in Sockets
               PROVE  /\ sockAvail[s] = Cardinality(CoresOf(Free(coreTask), s))
                      /\ sockAvail[s] \in 0..CoresPerSocket
    OBVIOUS
  <2>1. sockAvail[s] = Cardinality(CoresOf(Cores, s))
    BY DEF Init
  <2> QED
    BY <1>1, <2>1, SocketSize
<1>4. CoresPerSocket \in Nat
  BY TopologyAssumption DEF CoresPerSocket
<1>5. \A s \in Sockets, t \in Tasks : myTasks[s][t] = Cardinality(CoresOf(HeldBy(coreTask, t), s))
  <2> SUFFICES ASSUME NEW s \in Sockets, NEW t \in Tasks
               PROVE  myTasks[s][t] = Cardinality(CoresOf(HeldBy(coreTask, t), s))
    OBVIOUS
  <2>1. CoresOf(HeldBy(coreTask, t), s) = {}
    BY <1>2 DEF CoresOf
  <2>2. myTasks[s][t] = 0
    BY DEF Init
  <2> QED
    BY <2>1, <2>2, FS_EmptySet
<1>6. NodeTypeOK
  <2>1. sockAvail \in [Sockets -> 0..CoresPerSocket]
    BY <1>3 DEF Init
  <2>2. myTasks \in [Sockets -> [Tasks -> 0..CoresPerSocket]]
    BY <1>4 DEF Init
  <2>3. availCores \in 0..TotalCores
    BY NodeLayout DEF Init
  <2>4. allocated \in [Sockets -> 0..MaxListed]
    BY NodeAssumption DEF Init
  <2>5. available \subseteq Sockets /\ taskIds \subseteq Tasks
    BY DEF Init
  <2> QED
    BY <1>1, <2>1, <2>2, <2>3, <2>4, <2>5 DEF NodeTypeOK
<1>7. availCores = Cardinality(Free(coreTask))
  BY <1>1, NodeLayout DEF Init
<1>8. taskIds = {coreTask[i] : i \in Cores} \ {Nobody}
  BY DEF Init
<1>9. ListsServeRelease
  BY <1>1 DEF Init, ListsServeRelease, Sockets
<1> QED
  BY <1>3, <1>5, <1>6, <1>7, <1>8, <1>9 DEF NodeInv, LevelsAgree

(* What a request does to the cores: each conjunct of the invariant is     *)
(* about the cores, and follows from these facts.                          *)
LEMMA AllocateOnCores ==
  ASSUME NodeInv, NEW t \in Tasks, NEW kind \in Kinds, NEW k \in Cores, Allocate(t, kind, k)
  PROVE  LET S == TakenCores(kind, coreTask, k)
         IN /\ S \in SUBSET Free(coreTask) /\ S \in SUBSET Cores /\ S # {}
            /\ coreTask' \in [Cores -> Tasks \cup {Nobody}]
            /\ \A i \in Cores : coreTask'[i] = IF i \in S THEN t ELSE coreTask[i]
            /\ Free(coreTask') = Free(coreTask) \ S
            /\ HeldBy(coreTask, t) = {} /\ HeldBy(coreTask', t) = S
            /\ \A u \in Tasks \ {t} : HeldBy(coreTask', u) = HeldBy(coreTask, u)
<1> DEFINE S == TakenCores(kind, coreTask, k)
<1>1. LevelsAgree /\ NodeTypeOK /\ Asked(kind, k) /\ t \notin taskIds
  BY DEF NodeInv, LevelsAgree, Allocate
<1>2. S \in SUBSET Free(coreTask) /\ S # {}
  BY <1>1, TakenCounted
<1>3. coreTask' = Give(coreTask, S, t)
  BY DEF Allocate
<1>4. coreTask \in [Cores -> Tasks \cup {Nobody}] /\ Free(coreTask) \in SUBSET Cores
  BY <1>1, Occupation
<1>5. HeldBy(coreTask, t) = {}
  BY <1>1, NodeAssumption DEF LevelsAgree, NodeTypeOK, HeldBy
<1> HIDE DEF S
<1>6. /\ Give(coreTask, S, t) \in [Cores -> Tasks \cup {Nobody}]
      /\ Free(Give(coreTask, S, t)) = Free(coreTask) \ S
      /\ HeldBy(Give(coreTask, S, t), t) = HeldBy(coreTask, t) \cup S
      /\ \A u \in Tasks \ {t} : HeldBy(Give(coreTask, S, t), u) = HeldBy(coreTask, u)
  <2>1. PICK h : h = coreTask
    OBVIOUS
  <2>2. h \in [Cores -> Tasks \cup {Nobody}] /\ S \in SUBSET Free(h)
    BY <1>2, <1>4, <2>1
  <2> QED
    BY <2>1, <2>2, GiveFree
<1>7. \A i \in Cores : coreTask'[i] = IF i \in S THEN t ELSE coreTask[i]
  BY <1>3, <1>4 DEF Give
<1> QED
  BY <1>2, <1>3, <1>4, <1>5, <1>6, <1>7 DEF S

LEMMA AllocateLevels ==
  ASSUME NodeInv, NEW t \in Tasks, NEW kind \in Kinds, NEW k \in Cores, Allocate(t, kind, k)
  PROVE  /\ \A s \in Sockets :
              /\ sockAvail'[s] = Cardinality(CoresOf(Free(coreTask'), s))
              /\ \A u \in Tasks : myTasks'[s][u] = Cardinality(CoresOf(HeldBy(coreTask', u), s))
         /\ availCores' = Cardinality(Free(coreTask'))
         /\ taskIds' = {coreTask'[i] : i \in Cores} \ {Nobody}
<1> DEFINE S == TakenCores(kind, coreTask, k)
<1>1. /\ S \in SUBSET Free(coreTask) /\ S \in SUBSET Cores /\ S # {}
      /\ coreTask' \in [Cores -> Tasks \cup {Nobody}]
      /\ \A i \in Cores : coreTask'[i] = IF i \in S THEN t ELSE coreTask[i]
      /\ Free(coreTask') = Free(coreTask) \ S
      /\ HeldBy(coreTask, t) = {} /\ HeldBy(coreTask', t) = S
      /\ \A u \in Tasks \ {t} : HeldBy(coreTask', u) = HeldBy(coreTask, u)
  BY AllocateOnCores
<1>2. LevelsAgree /\ NodeTypeOK /\ Asked(kind, k)
  BY DEF NodeInv, LevelsAgree, Allocate
<1>3. Cardinality(S) = Counted(kind, coreTask, k)
  BY <1>2, TakenCounted
<1>4. Free(coreTask) \in SUBSET Cores /\ Free(coreTask') \in SUBSET Cores
  BY <1>1, <1>2, Occupation
<1>5. /\ sockAvail' = [s \in Sockets |-> sockAvail[s] - Cardinality(CoresOf(S, s))]
      /\ myTasks' = [s \in Sockets |->
                        IF s \in {SocketOf(i) : i \in S}
                        THEN [myTasks[s] EXCEPT ![t] = Cardinality(CoresOf(S, s))] ELSE myTasks[s]]
      /\ availCores' = availCores - Counted(kind, coreTask, k)
      /\ taskIds' = taskIds \cup {t}
  BY DEF Allocate
<1> HIDE DEF S
<1>6. Free(coreTask') \cup S = Free(coreTask) /\ Free(coreTask') \cap S = {}
  BY <1>1
<1>7. ASSUME NEW s \in Sockets PROVE sockAvail'[s] = Cardinality(CoresOf(Free(coreTask'), s))
  <2>1. sockAvail'[s] = sockAvail[s] - Cardinality(CoresOf(S, s))
        /\ sockAvail[s] = Cardinality(CoresOf(Free(coreTask), s))
    BY <1>2, <1>5 DEF LevelsAgree
  <2>2. PICK F, T : F = Free(coreTask') /\ T = S
    OBVIOUS
  <2>3. F \in SUBSET Cores /\ T \in SUBSET Cores /\ F \cap T = {} /\ F \cup T = Free(coreTask)
    BY <1>1, <1>4, <1>6, <2>2
  <2>4. /\ Cardinality(CoresOf(F \cup T, s)) = Cardinality(CoresOf(F, s)) + Cardinality(CoresOf(T, s))
        /\ Cardinality(CoresOf(F, s)) \in Nat /\ Cardinality(CoresOf(T, s)) \in Nat
    BY <2>3, CountedOnSocket
  <2>5. /\ sockAvail[s] = Cardinality(CoresOf(F, s)) + Cardinality(CoresOf(T, s))
        /\ sockAvail'[s] = sockAvail[s] - Cardinality(CoresOf(T, s))
    BY <2>1, <2>2, <2>3, <2>4, Zenon
  <2>6. sockAvail'[s] = Cardinality(CoresOf(F, s))
    BY <2>4, <2>5
  <2> QED
    BY <2>2, <2>6
<1>8. ASSUME NEW s \in Sockets, NEW u \in Tasks
      PROVE  myTasks'[s][u] = Cardinality(CoresOf(HeldBy(coreTask', u), s))
  <2>1. myTasks[s][u] = Cardinality(CoresOf(HeldBy(coreTask, u), s))
        /\ myTasks[s] \in [Tasks -> 0..CoresPerSocket]
    BY <1>2 DEF LevelsAgree, NodeTypeOK
  <2>2. CASE u # t
    <3>1. myTasks'[s][u] = myTasks[s][u]
      BY <1>5, <2>1, <2>2
    <3> QED
      BY <1>1, <2>1, <2>2, <3>1
  <2>3. CASE u = t
    <3>1. CASE s \in {SocketOf(i) : i \in S}
      <4>1. myTasks'[s][t] = Cardinality(CoresOf(S, s))
        BY <1>5, <2>1, <3>1
      <4> QED
        BY <1>1, <2>3, <4>1
    <3>2. CASE s \notin {SocketOf(i) : i \in S}
      <4>1. myTasks'[s][t] = myTasks[s][t]
        BY <1>5, <3>2
      <4>2. CoresOf(S, s) = {} /\ CoresOf({}, s) = {}
        BY <3>2 DEF CoresOf
      <4> QED
        BY <1>1, <2>1, <2>3, <4>1, <4>2
    <3> QED
      BY <3>1, <3>2
  <2> QED
    BY <2>2, <2>3
<1>9. availCores' = Cardinality(Free(coreTask'))
  <2>1. availCores = Cardinality(Free(coreTask))
    BY <1>2 DEF LevelsAgree
  <2>2. PICK F, T : F = Free(coreTask') /\ T = S
    OBVIOUS
  <2>3. F \in SUBSET Cores /\ T \in SUBSET Cores /\ F \cap T = {} /\ F \cup T = Free(coreTask)
    BY <1>1, <1>4, <1>6, <2>2
  <2>4. /\ Cardinality(F \cup T) = Cardinality(F) + Cardinality(T)
        /\ Cardinality(F) \in Nat /\ Cardinality(T) \in Nat
    BY <2>3, CountedTogether
  <2>5. /\ availCores = Cardinality(F) + Cardinality(T)
        /\ availCores' = availCores - Cardinality(T)
    BY <1>3, <1>5, <2>1, <2>2, <2>3, <2>4, Zenon
  <2>6. availCores' = Cardinality(F)
    BY <2>4, <2>5
  <2> QED
    BY <2>2, <2>6
<1>10. taskIds' = {coreTask'[i] : i \in Cores} \ {Nobody}
  <2>1. taskIds = {coreTask[i] : i \in Cores} \ {Nobody}
    BY <1>2 DEF LevelsAgree
  <2>2. \A i \in S : coreTask[i] = Nobody
    BY <1>1 DEF Free
  <2>3. ASSUME NEW x \in taskIds' PROVE x \in {coreTask'[i] : i \in Cores} \ {Nobody}
    <3>1. CASE x = t
      BY <1>1, <3>1, NodeAssumption
    <3>2. CASE x \in taskIds
      <4>1. PICK i \in Cores : x = coreTask[i] /\ x # Nobody
        BY <2>1, <3>2
      <4> QED
        BY <1>1, <2>2, <4>1
    <3> QED
      BY <1>5, <2>3, <3>1, <3>2
  <2>4. ASSUME NEW i \in Cores, coreTask'[i] # Nobody PROVE coreTask'[i] \in taskIds'
    BY <1>1, <1>5, <2>1, <2>4
  <2> QED
    BY <2>3, <2>4
<1> QED
  BY <1>7, <1>8, <1>9, <1>10

LEMMA AllocateLists ==
  ASSUME NodeInv, NEW t \in Tasks, NEW kind \in Kinds, NEW k \in Cores, Allocate(t, kind, k)
  PROVE  ListsServeRelease' /\ allocated' \in [Sockets -> 0..MaxListed]
<1> DEFINE S == TakenCores(kind, coreTask, k)
           touched == {SocketOf(i) : i \in S}
<1>1. /\ S \in SUBSET Free(coreTask) /\ S \in SUBSET Cores /\ S # {}
      /\ coreTask' \in [Cores -> Tasks \cup {Nobody}]
      /\ Free(coreTask') = Free(coreTask) \ S
  BY AllocateOnCores
<1>2. LevelsAgree /\ NodeTypeOK /\ Asked(kind, k) /\ ListsServeRelease
  BY DEF NodeInv, LevelsAgree, Allocate
<1>3. kind # "cores" => \A i \in S : CoresOf(Cores, SocketOf(i)) \subseteq S
  BY <1>2, TakenCounted
<1>4. Free(coreTask) \in SUBSET Cores /\ Free(coreTask') \in SUBSET Cores
  BY <1>1, <1>2, Occupation
<1>5. /\ \A s \in touched : Listed(kind, s) <= MaxListed
      /\ available' = {s \in available :
                         s \notin touched \/ StaysAvailable(kind, s, sockAvail'[s])}
      /\ allocated' = [s \in Sockets |-> IF s \in touched THEN Listed(kind, s) ELSE allocated[s]]
  BY DEF Allocate
<1>6. touched \subseteq Sockets
  BY <1>1, NodeLayout
<1>7. \A s \in Sockets : sockAvail'[s] > 0 <=> s \in {SocketOf(i) : i \in Free(coreTask')}
  <2> SUFFICES ASSUME NEW s \in Sockets
               PROVE  sockAvail'[s] > 0 <=> s \in {SocketOf(i) : i \in Free(coreTask')}
    OBVIOUS
  <2>1. sockAvail'[s] = Cardinality(CoresOf(Free(coreTask'), s))
    BY AllocateLevels
  <2> QED
    BY <1>4, <2>1, CountedIfAny
<1> HIDE DEF S
<1>8. available' = {SocketOf(i) : i \in Free(coreTask')}
  <2>1. available = {SocketOf(i) : i \in Free(coreTask)}
    BY <1>2 DEF ListsServeRelease
  <2>2. ASSUME NEW s \in available' PROVE s \in {SocketOf(i) : i \in Free(coreTask')}
    <3>1. s \in available
      BY <1>5, <2>2
    <3>2. CASE s \notin touched
      <4>1. PICK i \in Free(coreTask) : s = SocketOf(i)
        BY <2>1, <3>1
      <4> QED
        BY <1>1, <3>2, <4>1
    <3>3. CASE s \in touched
      <4>1. sockAvail'[s] > 0
        BY <1>5, <2>2, <3>3 DEF StaysAvailable
      <4> QED
        BY <1>6, <1>7, <3>3, <4>1
    <3> QED
      BY <3>2, <3>3
  <2>3. ASSUME NEW i \in Free(coreTask') PROVE SocketOf(i) \in available'
    <3>1. SocketOf(i) \in available /\ i \in Cores /\ SocketOf(i) \in Sockets
      BY <1>1, <1>4, <2>1, NodeLayout
    <3>2. SocketOf(i) \in touched => kind = "cores"
      <4> SUFFICES ASSUME NEW j \in S, SocketOf(j) = SocketOf(i), kind # "cores" PROVE FALSE
        OBVIOUS
      <4>1. i \in CoresOf(Cores, SocketOf(j))
        BY <3>1 DEF CoresOf
      <4> QED
        BY <1>1, <1>3, <4>1
    <3>3. sockAvail'[SocketOf(i)] > 0
      BY <1>7, <3>1
    <3> QED
      BY <1>5, <3>1, <3>2, <3>3 DEF StaysAvailable
  <2> QED
    BY <2>2, <2>3
<1>9. \A s \in Sockets : /\ Listed(kind, s) \in Nat /\ Listed(kind, s) > 0
                         /\ allocated[s] \in 0..MaxListed
  BY <1>2 DEF NodeTypeOK, Listed
<1>10. allocated' \in [Sockets -> 0..MaxListed]
  BY <1>5, <1>9, NodeAssumption
<1>11. ASSUME NEW i \in Cores \ Free(coreTask') PROVE allocated'[SocketOf(i)] > 0
  <2>1. SocketOf(i) \in Sockets
    BY NodeLayout
  <2>2. CASE SocketOf(i) \in touched
    BY <1>5, <1>9, <2>1, <2>2
  <2>3. CASE SocketOf(i) \notin touched
    <3>1. i \notin Free(coreTask)
      BY <1>1, <2>3
    <3>2. allocated[SocketOf(i)] > 0
      BY <1>2, <3>1 DEF ListsServeRelease
    <3> QED
      BY <1>5, <2>1, <2>3, <3>2
  <2> QED
    BY <2>2, <2>3
<1> QED
  BY <1>8, <1>10, <1>11 DEF ListsServeRelease

(* What a release does to the cores. *)
LEMMA ReleaseOnCores ==
  ASSUME NodeInv, NEW t \in Tasks, Release(t)
  PROVE  /\ coreTask' \in [Cores -> Tasks \cup {Nobody}]
         /\ \A i \in Cores : coreTask'[i] = IF coreTask[i] = t THEN Nobody ELSE coreTask[i]
         /\ Free(coreTask') = Free(coreTask) \cup HeldBy(coreTask, t)
         /\ Free(coreTask) \cap HeldBy(coreTask, t) = {}
         /\ Free(coreTask) \in SUBSET Cores /\ HeldBy(coreTask, t) \in SUBSET Cores
         /\ HeldBy(coreTask', t) = {}
         /\ \A u \in Tasks \ {t} : HeldBy(coreTask', u) = HeldBy(coreTask, u)
<1>1. /\ coreTask \in [Cores -> Tasks \cup {Nobody}]
      /\ Free(coreTask) \in SUBSET Cores /\ HeldBy(coreTask, t) \in SUBSET Cores
  BY Occupation DEF NodeInv, LevelsAgree
<1>2. coreTask' = Give(coreTask, HeldBy(coreTask, t), Nobody)
  BY DEF Release
<1>3. PICK h : h = coreTask
  OBVIOUS
<1>4. LET g == Give(h, HeldBy(h, t), Nobody)
      IN /\ g \in [Cores -> Tasks \cup {Nobody}]
         /\ Free(g) = Free(h) \cup HeldBy(h, t)
         /\ Free(h) \cap HeldBy(h, t) = {}
         /\ HeldBy(g, t) = {}
         /\ \A u \in Tasks \ {t} : HeldBy(g, u) = HeldBy(h, u)
  BY <1>1, <1>3, GiveBack
<1>5. \A i \in Cores : coreTask'[i] = IF coreTask[i] = t THEN Nobody ELSE coreTask[i]
  BY <1>1, <1>2 DEF Give, HeldBy
<1> QED
  BY <1>1, <1>2, <1>3, <1>4, <1>5

LEMMA ReleaseLevels ==
  ASSUME NodeInv, NEW t \in Tasks, Release(t)
  PROVE  /\ \A s \in Sockets :
              /\ sockAvail'[s] = Cardinality(CoresOf(Free(coreTask'), s))
              /\ \A u \in Tasks : myTasks'[s][u] = Cardinality(CoresOf(HeldBy(coreTask', u), s))
         /\ availCores' = Cardinality(Free(coreTask'))
         /\ taskIds' = {coreTask'[i] : i \in Cores} \ {Nobody}
<1>1. /\ coreTask' \in [Cores -> Tasks \cup {Nobody}]
      /\ \A i \in Cores : coreTask'[i] = IF coreTask[i] = t THEN Nobody ELSE coreTask[i]
      /\ Free(coreTask') = Free(coreTask) \cup HeldBy(coreTask, t)
      /\ Free(coreTask) \cap HeldBy(coreTask, t) = {}
      /\ Free(coreTask) \in SUBSET Cores /\ HeldBy(coreTask, t) \in SUBSET Cores
      /\ HeldBy(coreTask', t) = {}
      /\ \A u \in Tasks \ {t} : HeldBy(coreTask', u) = HeldBy(coreTask, u)
  BY ReleaseOnCores
<1>2. LevelsAgree /\ NodeTypeOK
  BY DEF NodeInv, LevelsAgree
<1>3. /\ sockAvail' = [s \in Sockets |-> sockAvail[s] + myTasks[s][t]]
      /\ myTasks' = [s \in Sockets |-> [myTasks[s] EXCEPT ![t] = 0]]
      /\ availCores' = SumFunction(sockAvail')
      /\ taskIds' = taskIds \ {t}
  BY DEF Release
<1>4. Free(coreTask') \in SUBSET Cores
  BY <1>1
<1>5. ASSUME NEW s \in Sockets PROVE sockAvail'[s] = Cardinality(CoresOf(Free(coreTask'), s))
  <2>1. /\ sockAvail'[s] = sockAvail[s] + myTasks[s][t]
        /\ sockAvail[s] = Cardinality(CoresOf(Free(coreTask), s))
        /\ myTasks[s][t] = Cardinality(CoresOf(HeldBy(coreTask, t), s))
    BY <1>2, <1>3 DEF LevelsAgree
  <2>2. PICK F, T : F = Free(coreTask) /\ T = HeldBy(coreTask, t)
    OBVIOUS
  <2>3. F \in SUBSET Cores /\ T \in SUBSET Cores /\ F \cap T = {} /\ F \cup T = Free(coreTask')
    BY <1>1, <2>2
  <2>4. Cardinality(CoresOf(F \cup T, s)) = Cardinality(CoresOf(F, s)) + Cardinality(CoresOf(T, s))
    BY <2>3, CountedOnSocket
  <2> QED
    BY <2>1, <2>2, <2>3, <2>4, Zenon
<1>6. ASSUME NEW s \in Sockets, NEW u \in Tasks
      PROVE  myTasks'[s][u] = Cardinality(CoresOf(HeldBy(coreTask', u), s))
  <2>1. myTasks[s][u] = Cardinality(CoresOf(HeldBy(coreTask, u), s))
        /\ myTasks[s] \in [Tasks -> 0..CoresPerSocket]
    BY <1>2 DEF LevelsAgree, NodeTypeOK
  <2>2. CASE u # t
    <3>1. myTasks'[s][u] = myTasks[s][u]
      BY <1>3, <2>1, <2>2
    <3> QED
      BY <1>1, <2>1, <2>2, <3>1
  <2>3. CASE u = t
    <3>1. myTasks'[s][t] = 0
      BY <1>3, <2>1
    <3>2. CoresOf(HeldBy(coreTask', t), s) = {}
      BY <1>1 DEF CoresOf
    <3> QED
      BY <2>3, <3>1, <3>2, FS_EmptySet
  <2> QED
    BY <2>2, <2>3
<1>7. availCores' = Cardinality(Free(coreTask'))
  <2>1. DOMAIN sockAvail' = Sockets
    BY <1>3
  <2>2. availCores' = SumFunctionOnSet(sockAvail', Sockets)
    BY <1>3, <2>1 DEF SumFunction
  <2>3. PICK X, c : X = Free(coreTask') /\ c = sockAvail'
    OBVIOUS
  <2>4. /\ IsFiniteSet(X) /\ \A i \in X : SocketOf(i) \in Sockets
        /\ \A s \in Sockets : c[s] = Cardinality(CoresOf(X, s))
    BY <1>4, <1>5, <2>3, NodeLayout, FS_Subset
  <2>5. SumFunctionOnSet(c, Sockets) = Cardinality(X)
    BY <2>4, NodeLayout, CoresBySocket
  <2> QED
    BY <2>2, <2>3, <2>5
<1>8. taskIds' = {coreTask'[i] : i \in Cores} \ {Nobody}
  <2>1. taskIds = {coreTask[i] : i \in Cores} \ {Nobody}
    BY <1>2 DEF LevelsAgree
  <2>2. ASSUME NEW x \in taskIds' PROVE x \in {coreTask'[i] : i \in Cores} \ {Nobody}
    <3>1. x \in taskIds /\ x # t
      BY <1>3, <2>2
    <3>2. PICK i \in Cores : x = coreTask[i] /\ x # Nobody
      BY <2>1, <3>1
    <3> QED
      BY <1>1, <3>1, <3>2
  <2>3. ASSUME NEW i \in Cores, coreTask'[i] # Nobody PROVE coreTask'[i] \in taskIds'
    <3>1. coreTask'[i] = coreTask[i] /\ coreTask[i] # t
      BY <1>1, <2>3
    <3> QED
      BY <1>3, <2>1, <2>3, <3>1
  <2> QED
    BY <2>2, <2>3
<1> QED
  BY <1>5, <1>6, <1>7, <1>8

LEMMA ReleaseLists ==
  ASSUME NodeInv, NEW t \in Tasks, Release(t)
  PROVE  ListsServeRelease' /\ allocated' \in [Sockets -> 0..MaxListed]
<1> DEFINE on == {s \in Sockets : myTasks[s][t] > 0}
<1>1. /\ coreTask' \in [Cores -> Tasks \cup {Nobody}]
      /\ \A i \in Cores : coreTask'[i] = IF coreTask[i] = t THEN Nobody ELSE coreTask[i]
      /\ Free(coreTask') = Free(coreTask) \cup HeldBy(coreTask, t)
      /\ Free(coreTask) \in SUBSET Cores /\ HeldBy(coreTask, t) \in SUBSET Cores
  BY ReleaseOnCores
<1>2. LevelsAgree /\ NodeTypeOK /\ ListsServeRelease
  BY DEF NodeInv, LevelsAgree
<1>3. /\ available' = available \cup on
      /\ allocated' = [s \in Sockets |-> IF s \in on /\ Unlisted(s, sockAvail'[s])
                                        THEN allocated[s] - 1 ELSE allocated[s]]
  BY DEF Release
<1>4. Free(coreTask') \in SUBSET Cores /\ DOMAIN coreTask = Cores
  BY <1>1, <1>2, Occupation
<1>5. on = {SocketOf(i) : i \in HeldBy(coreTask, t)}
  <2>1. ASSUME NEW s \in Sockets
        PROVE  myTasks[s][t] > 0 <=> s \in {SocketOf(i) : i \in HeldBy(coreTask, t)}
    <3>1. myTasks[s][t] = Cardinality(CoresOf(HeldBy(coreTask, t), s))
      BY <1>2 DEF LevelsAgree
    <3> QED
      BY <1>1, <3>1, CountedIfAny
  <2>2. {SocketOf(i) : i \in HeldBy(coreTask, t)} \subseteq Sockets
    BY <1>1, NodeLayout
  <2> QED
    BY <2>1, <2>2
<1> HIDE DEF on
<1>6. available' = {SocketOf(i) : i \in Free(coreTask')}
  <2>1. available = {SocketOf(i) : i \in Free(coreTask)}
    BY <1>2 DEF ListsServeRelease
  <2> QED
    BY <1>1, <1>3, <1>5, <2>1
<1>7. ASSUME NEW s \in on PROVE allocated[s] > 0
  <2>1. PICK i \in HeldBy(coreTask, t) : s = SocketOf(i)
    BY <1>5
  <2>2. i \in Cores \ Free(coreTask)
    BY <1>1, NodeAssumption DEF HeldBy, Free
  <2> QED
    BY <1>2, <2>1, <2>2 DEF ListsServeRelease
<1>8. \A s \in Sockets : allocated[s] \in 0..MaxListed /\ MaxListed \in Nat
  BY <1>2, NodeAssumption DEF NodeTypeOK
<1>9. allocated' \in [Sockets -> 0..MaxListed]
  <2>1. \A s \in on : allocated[s] > 0
    BY <1>7
  <2> QED
    BY <1>3, <1>8, <2>1
<1>10. ASSUME NEW i \in Cores \ Free(coreTask') PROVE allocated'[SocketOf(i)] > 0
  <2> DEFINE s == SocketOf(i)
  <2>1. s \in Sockets /\ i \in Cores \ Free(coreTask)
    BY <1>1, NodeLayout
  <2>2. allocated[s] > 0
    BY <1>2, <2>1 DEF ListsServeRelease
  <2>3. sockAvail'[s] # Cardinality(CoresOf(Cores, s))
    <3>1. sockAvail'[s] = Cardinality(CoresOf(Free(coreTask'), s))
      BY <2>1, ReleaseLevels
    <3>2. CoresOf(Free(coreTask'), s) \in SUBSET CoresOf(Cores, s) /\ CoresOf(Cores, s) \in SUBSET Cores
      BY <1>4 DEF CoresOf
    <3>3. i \in CoresOf(Cores, s) /\ i \notin CoresOf(Free(coreTask'), s)
      BY DEF CoresOf
    <3> QED
      BY <3>1, <3>2, <3>3, CountedWhole
  <2>4. allocated'[s] = allocated[s]
    BY <1>3, <2>1, <2>3 DEF Unlisted
  <2> QED
    BY <2>2, <2>4
<1> QED
  BY <1>6, <1>9, <1>10 DEF ListsServeRelease

(* The types follow from the counts. *)
LEMMA TypesFromCounts ==
  ASSUME NEW h \in [Cores -> Tasks \cup {Nobody}],
         NEW sa, DOMAIN sa = Sockets, sa = [s \in Sockets |-> sa[s]],
         \A s \in Sockets : sa[s] = Cardinality(CoresOf(Free(h), s)),
         NEW n, n = Cardinality(Free(h))
  PROVE  /\ sa \in [Sockets -> 0..CoresPerSocket]
         /\ n \in 0..TotalCores
<1>1. Free(h) \in SUBSET Cores
  BY DEF Free
<1>2. \A s \in Sockets : sa[s] \in 0..CoresPerSocket
  BY <1>1, SocketSize
<1>3. IsFiniteSet(Free(h)) /\ Cardinality(Free(h)) <= Cardinality(Cores)
  BY <1>1, NodeLayout, FS_Subset
<1>4. Cardinality(Free(h)) \in Nat
  BY <1>3, FS_CardinalityType
<1> QED
  BY <1>2, <1>3, <1>4, NodeLayout

LEMMA NodeTypes ==
  ASSUME NodeInv, NEW t \in Tasks,
         \/ Release(t)
         \/ \E kind \in Kinds, k \in Cores : Allocate(t, kind, k),
         coreTask' \in [Cores -> Tasks \cup {Nobody}],
         \A s \in Sockets :
            /\ sockAvail'[s] = Cardinality(CoresOf(Free(coreTask'), s))
            /\ \A u \in Tasks : myTasks'[s][u] = Cardinality(CoresOf(HeldBy(coreTask', u), s)),
         availCores' = Cardinality(Free(coreTask')),
         allocated' \in [Sockets -> 0..MaxListed]
  PROVE  NodeTypeOK'
<1>0. NodeTypeOK
  BY DEF NodeInv, LevelsAgree
<1>1. /\ sockAvail' = [s \in Sockets |-> sockAvail'[s]]
      /\ DOMAIN myTasks' = Sockets /\ myTasks' = [s \in Sockets |-> myTasks'[s]]
      /\ \A s \in Sockets : myTasks'[s] = [u \in Tasks |-> myTasks'[s][u]]
      /\ available' \subseteq Sockets /\ taskIds' \subseteq Tasks
  <2>1. CASE Release(t)
    BY <1>0, <2>1 DEF Release, NodeTypeOK
  <2>2. CASE \E kind \in Kinds, k \in Cores : Allocate(t, kind, k)
    <3>1. PICK kind \in Kinds, k \in Cores : Allocate(t, kind, k)
      BY <2>2
    <3> QED
      BY <1>0, <3>1 DEF Allocate, NodeTypeOK
  <2> QED
    BY <2>1, <2>2
<1>2. sockAvail' \in [Sockets -> 0..CoresPerSocket] /\ availCores' \in 0..TotalCores
  <2>1. PICK h, sa, n : h = coreTask' /\ sa = sockAvail' /\ n = availCores'
    OBVIOUS
  <2>2. /\ h \in [Cores -> Tasks \cup {Nobody}] /\ DOMAIN sa = Sockets /\ sa = [s \in Sockets |-> sa[s]]
        /\ \A s \in Sockets : sa[s] = Cardinality(CoresOf(Free(h), s))
        /\ n = Cardinality(Free(h))
    BY <1>1, <2>1
  <2>3. sa \in [Sockets -> 0..CoresPerSocket] /\ n \in 0..TotalCores
    BY <2>2, TypesFromCounts
  <2> QED
    BY <2>1, <2>3
<1>3. ASSUME NEW s \in Sockets, NEW u \in Tasks PROVE myTasks'[s][u] \in 0..CoresPerSocket
  <2>1. PICK C : C = HeldBy(coreTask', u)
    OBVIOUS
  <2>2. C \in SUBSET Cores
    BY <2>1 DEF HeldBy
  <2>3. Cardinality(CoresOf(C, s)) \in 0..CoresPerSocket
    BY <2>2, SocketSize
  <2> QED
    BY <2>1, <2>3
<1>4. myTasks' \in [Sockets -> [Tasks -> 0..CoresPerSocket]]
  <2>1. \A s \in Sockets : myTasks'[s] \in [Tasks -> 0..CoresPerSocket]
    BY <1>1, <1>3
  <2> QED
    BY <1>1, <2>1
<1> QED
  BY <1>1, <1>2, <1>4 DEF NodeTypeOK

LEMMA NodeStep == NodeInv /\ [Next]_vars => NodeInv'
<1> SUFFICES ASSUME NodeInv, [Next]_vars PROVE NodeInv'
  OBVIOUS
<1>1. ASSUME NEW t \in Tasks, Release(t) PROVE NodeInv'
  <2>1. coreTask' \in [Cores -> Tasks \cup {Nobody}]
    BY <1>1, ReleaseOnCores
  <2>2. /\ \A s \in Sockets :
              /\ sockAvail'[s] = Cardinality(CoresOf(Free(coreTask'), s))
              /\ \A u \in Tasks : myTasks'[s][u] = Cardinality(CoresOf(HeldBy(coreTask', u), s))
        /\ availCores' = Cardinality(Free(coreTask'))
        /\ taskIds' = {coreTask'[i] : i \in Cores} \ {Nobody}
    BY <1>1, ReleaseLevels
  <2>3. ListsServeRelease' /\ allocated' \in [Sockets -> 0..MaxListed]
    BY <1>1, ReleaseLists
  <2>4. NodeTypeOK'
    BY <1>1, <2>1, <2>2, <2>3, NodeTypes
  <2> QED
    BY <2>2, <2>3, <2>4 DEF NodeInv, LevelsAgree
<1>2. ASSUME NEW t \in Tasks, NEW kind \in Kinds, NEW k \in Cores, Allocate(t, kind, k)
      PROVE  NodeInv'
  <2>1. coreTask' \in [Cores -> Tasks \cup {Nobody}]
    BY <1>2, AllocateOnCores
  <2>2. /\ \A s \in Sockets :
              /\ sockAvail'[s] = Cardinality(CoresOf(Free(coreTask'), s))
              /\ \A u \in Tasks : myTasks'[s][u] = Cardinality(CoresOf(HeldBy(coreTask', u), s))
        /\ availCores' = Cardinality(Free(coreTask'))
        /\ taskIds' = {coreTask'[i] : i \in Cores} \ {Nobody}
    BY <1>2, AllocateLevels
  <2>3. ListsServeRelease' /\ allocated' \in [Sockets -> 0..MaxListed]
    BY <1>2, AllocateLists
  <2>4. NodeTypeOK'
    BY <1>2, <2>1, <2>2, <2>3, NodeTypes
  <2> QED
    BY <2>2, <2>3, <2>4 DEF NodeInv, LevelsAgree
<1>3. CASE UNCHANGED vars
  BY <1>3 DEF vars, NodeInv, LevelsAgree, NodeTypeOK, ListsServeRelease
<1> QED
  BY <1>1, <1>2, <1>3 DEF Next

LEMMA NodeAlways == Spec => []NodeInv
<1> QED
  BY NodeInit, NodeStep, PTL DEF Spec

(* Cores, sockets and node tell the same story in whatever order tasks of  *)
(* any kind come and go: a socket counts its free cores and the cores of   *)
(* each task, and what Node.allocate subtracts is what its sockets marked  *)
(* (node_structure.py).                                                    *)
THEOREM LevelsAlwaysAgree == Spec => []LevelsAgree
<1>1. NodeInv => LevelsAgree
  BY DEF NodeInv
<1> QED
  BY <1>1, NodeAlways, PTL

(* Every list.remove of Node.allocate and Node.release finds its socket,   *)
(* in whatever order whole and single-core tasks come and go               *)
(* (node_structure.py).                                                    *)
THEOREM RemovesSucceed == Spec => []ListsServeRelease
<1>1. NodeInv => ListsServeRelease
  BY DEF NodeInv
<1> QED
  BY <1>1, NodeAlways, PTL
=============================================================================
