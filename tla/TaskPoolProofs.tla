-------------------------------- MODULE TaskPoolProofs --------------------------------
(***************************************************************************)
(* Proofs about TaskPool for any tasks, machine and number of attempts:    *)
(* the tables of the manager, the proxy and the pool name the same tasks,  *)
(* and the pool implements TaskRuns.                                       *)
(*                                                                         *)
(* The invariant of the first says TasksAreTracked id by id, and adds what *)
(* the steps rest on: a task has one id everywhere (IdsDiffer), tasks are  *)
(* between the tables only while processes are started (LaunchInv), and    *)
(* while the dask workers hold their cores nothing else is active          *)
(* (WorkerInv).  What init_task_pool hands out is followed attempt by      *)
(* attempt (Sound, GivenOf).  The second adds where each task is           *)
(* (PlaceInv), and shows each step to be one of TaskRuns or none (Stepped).*)
(***************************************************************************)
EXTENDS TaskPool, CollectionTheorems

-----------------------------------------------------------------------------
(* Types *)

Stops == {"idle", "before", "drain", "launch", "popen", "wait", "get"}
Ids == Nat \ {0}
Allocation == [id : Ids, cores : Nat]
Grant == [id : Ids, task : Tasks]
Process == [id : Ids, task : Tasks, state : {"running", "ended", "signalled"}]

TypeInv ==
  /\ allocated \subseteq Allocation /\ IsFiniteSet(allocated) /\ others \in 0..TotalCores
  /\ process \subseteq Process
  /\ IsFiniteSet(process)
  /\ queued \in Seq(Tasks) /\ worker \in Nat
  /\ active \subseteq [id : Nat, task : Tasks] /\ launched \subseteq Grant
  /\ granted \in Seq(Grant)
  /\ at \in Stops
  /\ adds \in [Names -> Nat] /\ \A n \in Names : adds[n] <= MaxAdds[n]

-----------------------------------------------------------------------------
(* The inductive invariant *)

IdsDiffer ==
  /\ \A a, b \in allocated : a.id = b.id => a = b
  /\ \A i, j \in DOMAIN granted : granted[i].id = granted[j].id => i = j
  /\ \A i \in DOMAIN granted : granted[i].id \notin taskMap
  /\ \A a, b \in active \cup launched : (a.id = b.id /\ a.id # 0) => a = b

LaunchInv == at # "popen" => granted = <<>> /\ launched = {}

WorkerInv ==
  IF worker = 0 THEN \A a \in active : a.id # 0
  ELSE /\ at = "idle" /\ active # {} /\ \A a \in active : a.id = 0
       /\ \A p \in process : p.id # worker

(* TasksAreTracked, id by id. *)
IsGranted(i) == \E k \in DOMAIN granted : granted[k].id = i
IsKnown(i) == i # 0 /\ (i = worker \/ \E a \in active \cup launched : a.id = i)
Tracked ==
  /\ AvailCores >= 0
  /\ \A i : (\E a \in allocated : a.id = i) <=> i \in currTaskTable
  /\ \A i : i \in currTaskTable <=> i \in taskMap \/ IsGranted(i)
  /\ \A i : i \in taskMap <=> IsKnown(i)
  /\ \A p \in process : p.id \in taskMap \/ p.state = "signalled"

TrackInv == TypeInv /\ Tracked /\ IdsDiffer /\ LaunchInv /\ WorkerInv

(* What is assumed: no launch fails half way (each that does keeps its     *)
(* cores for ever), and the program collects what it has started before it *)
(* uses dask or removes the pool.                                          *)
Careful == BadCommand = {} /\ BadBinary = {} /\ "collects" \in Habits

-----------------------------------------------------------------------------
(* Cores and ids *)

LEMMA CoresOfNone == CoresIn({}) = 0
<1>. DEFINE f == [a \in {} |-> a.cores]
<1>1. CoresIn({}) = SumFunctionOnSet(f, {})
  BY DEF CoresIn, SumFunction
<1>. HIDE DEF f
<1>. QED BY <1>1, SumOfNone

LEMMA CoresOfOneMore ==
  ASSUME NEW S, IsFiniteSet(S), \A a \in S : a.cores \in Nat, NEW r, r \notin S, r.cores \in Nat
  PROVE  CoresIn(S \cup {r}) = CoresIn(S) + r.cores
<1>. DEFINE U == S \cup {r}
            f == [a \in U |-> a.cores]
            g == [a \in S |-> a.cores]
<1>1. IsFiniteSet(U) /\ U \ {r} = S /\ r \in U
  BY FS_AddElement
<1>2. (\A a \in U : f[a] \in Int) /\ f[r] = r.cores
  OBVIOUS
<1>3. \A a \in S : f[a] = g[a]
  OBVIOUS
<1>4. CoresIn(U) = SumFunctionOnSet(f, U) /\ CoresIn(S) = SumFunctionOnSet(g, S)
  BY DEF CoresIn, SumFunction
<1>. HIDE DEF f, g, U
<1>5. SumFunctionOnSet(f, U) = f[r] + SumFunctionOnSet(f, S) /\ SumFunctionOnSet(f, S) \in Int
  BY <1>1, <1>2, SumRemove
<1>6. SumFunctionOnSet(f, S) = SumFunctionOnSet(g, S)
  BY <1>3, SumEqual
<1>7. CoresIn(U) = CoresIn(S) + r.cores
  BY <1>2, <1>4, <1>5, <1>6
<1>. QED BY <1>7 DEF U

LEMMA CoresOfPart ==
  ASSUME NEW S, IsFiniteSet(S), \A a \in S : a.cores \in Nat, NEW T \in SUBSET S
  PROVE  CoresIn(S) \in Nat /\ CoresIn(T) \in Nat /\ CoresIn(T) <= CoresIn(S)
<1>. DEFINE f == [a \in S |-> a.cores]
            g == [a \in T |-> a.cores]
            h == [a \in S |-> IF a \in T THEN a.cores ELSE 0]
<1>1. IsFiniteSet(T)
  BY FS_Subset
<1>2. /\ \A a \in S : f[a] \in Nat /\ h[a] \in Nat /\ h[a] <= f[a]
      /\ \A a \in S \ T : h[a] = 0
      /\ \A a \in T : h[a] = g[a]
  OBVIOUS
<1>3. CoresIn(S) = SumFunctionOnSet(f, S) /\ CoresIn(T) = SumFunctionOnSet(g, T)
  BY DEF CoresIn, SumFunction
<1>. HIDE DEF f, g, h
<1>4. SumFunctionOnSet(h, S) <= SumFunctionOnSet(f, S)
  BY <1>2, SumMonotone
<1>5. SumFunctionOnSet(h, S) = SumFunctionOnSet(h, T)
  BY <1>2, SumWithoutZeros
<1>6. SumFunctionOnSet(h, T) = SumFunctionOnSet(g, T)
  BY <1>1, <1>2, SumEqual
<1>7. SumFunctionOnSet(h, S) \in Nat /\ SumFunctionOnSet(f, S) \in Nat
  BY <1>2, SumOfNats
<1>. QED BY <1>3, <1>4, <1>5, <1>6, <1>7

(* There is always an id that is not in use. *)
LEMMA NewIdIsNew ==
  ASSUME NEW used, IsFiniteSet(used)
  PROVE  NewId(used) \in Ids /\ NewId(used) \notin used
<1>. DEFINE n == Cardinality(used)
<1>1. n \in Nat
  BY FS_CardinalityType
<1>2. IsFiniteSet(1..(n + 1)) /\ Cardinality(1..(n + 1)) = n + 1
  BY <1>1, FS_Interval
<1>3. ~ (1..(n + 1) \subseteq used)
  <2>. SUFFICES ASSUME 1..(n + 1) \subseteq used PROVE FALSE
    OBVIOUS
  <2>1. Cardinality(1..(n + 1)) <= n
    BY FS_Subset
  <2>. QED BY <1>1, <1>2, <2>1
<1>4. \E i \in 1..(n + 1) : i \notin used
  BY <1>3
<1>5. NewId(used) \in 1..(n + 1) /\ NewId(used) \notin used
  BY <1>4 DEF NewId
<1>. QED BY <1>1, <1>5 DEF Ids

LEMMA UsedFinite ==
  ASSUME TypeInv, NEW S, IsFiniteSet(S)
  PROVE  IsFiniteSet(UsedIds \cup {a.id : a \in S})
<1>. DEFINE q == [a \in allocated |-> a.id]
            p == [a \in process |-> a.id]
            r == [a \in S |-> a.id]
<1>1. IsFiniteSet(allocated) /\ IsFiniteSet(process)
  BY DEF TypeInv
<1>2. IsFiniteSet({q[a] : a \in allocated}) /\ IsFiniteSet({p[a] : a \in process})
      /\ IsFiniteSet({r[a] : a \in S})
  <2>. HIDE DEF q, p, r
  <2>. QED BY <1>1, ImageFinite
<1>3. /\ {q[a] : a \in allocated} = {a.id : a \in allocated}
      /\ {p[a] : a \in process} = {a.id : a \in process}
      /\ {r[a] : a \in S} = {a.id : a \in S}
  OBVIOUS
<1>. QED BY <1>2, <1>3, FS_Union DEF UsedIds

-----------------------------------------------------------------------------
(* init_task_pool *)

Outcomes == [allocated : SUBSET Allocation, given : Seq(Grant), error : {"none", "refused"}]

(* What is given out so far fits, has ids of its own, and is given once.   *)
Sound(r) ==
  /\ IsFiniteSet(r.allocated)
  /\ CoresIn(allocated \cup r.allocated) = CoresIn(allocated) + CoresIn(r.allocated)
  /\ CoresIn(r.allocated) <= AvailCores
  /\ \A a \in r.allocated : a.id \notin UsedIds
  /\ \A a, b \in r.allocated : a.id = b.id => a = b
  /\ \A a \in r.allocated : \E i \in DOMAIN r.given : r.given[i].id = a.id
  /\ \A i \in DOMAIN r.given : \E a \in r.allocated : a.id = r.given[i].id
  /\ \A i, j \in DOMAIN r.given : r.given[i].id = r.given[j].id => i = j
  /\ r.error # "none" => r.allocated = {} /\ r.given = <<>>

BooksInv == TypeInv /\ AvailCores >= 0

LEMMA AvailIsNumber ==
  ASSUME TypeInv
  PROVE  AvailCores \in Int /\ CoresIn(allocated) \in Nat
<1>1. \A a \in allocated : a.cores \in Nat
  BY DEF TypeInv, Allocation
<1>2. CoresIn(allocated) \in Nat
  BY <1>1, CoresOfPart DEF TypeInv
<1>. QED BY <1>2, PoolAssumption DEF AvailCores, TypeInv

LEMMA NothingIsSound ==
  ASSUME BooksInv, NEW r \in {Nothing, Released(Nothing)}
  PROVE  r \in Outcomes /\ Sound(r)
<1>1. r.allocated = {} /\ r.given = <<>> /\ r.error \in {"none", "refused"} /\ r \in Outcomes
  <2>1. <<>> \in Seq(Grant)
    OBVIOUS
  <2>2. PICK e \in {"none", "refused"} : r = [allocated |-> {}, given |-> <<>>, error |-> e]
    BY DEF Nothing, Released
  <2>. QED BY <2>1, <2>2 DEF Outcomes
<1>2. IsFiniteSet({}) /\ CoresIn({}) = 0 /\ allocated \cup {} = allocated
  BY FS_EmptySet, CoresOfNone
<1>3. CoresIn(allocated) \in Nat /\ AvailCores \in Int
  BY AvailIsNumber DEF BooksInv
<1>. QED BY <1>1, <1>2, <1>3 DEF Sound, BooksInv

LEMMA TaskCoresType ==
  ASSUME NEW t \in Tasks
  PROVE  t.name \in Names /\ CoresOf(t) \in Nat \ {0}
BY PoolAssumption DEF Tasks, CoresOf

(* An attempt skips the task, gives everything back, or hands it out. *)
IdFor(r) == NewId(UsedIds \cup {a.id : a \in r.allocated})
HandedOut(r, t) ==
  [r EXCEPT !.allocated = r.allocated \cup {[id |-> IdFor(r), cores |-> CoresOf(t)]},
            !.given = Append(@, [id |-> IdFor(r), task |-> t])]

LEMMA AttemptCases ==
  ASSUME BooksInv, BadCommand = {}, NEW r \in Outcomes, Sound(r), NEW t \in Tasks
  PROVE  \/ Attempt(r, t) = r
         \/ Attempt(r, t) = Released(Nothing)
         \/ /\ r.error = "none" /\ Fits(CoresOf(t), AvailCores - CoresIn(r.allocated))
            /\ Attempt(r, t) = HandedOut(r, t)
<1>. DEFINE left == AvailCores - CoresIn(r.allocated)
            n == CoresOf(t)
<1>0. n \in Nat /\ t.name \notin BadCommand /\ TotalCores \in Nat
  BY TaskCoresType, PoolAssumption
<1>1. CoresIn(r.allocated) \in Nat
  <2>1. \A a \in r.allocated : a.cores \in Nat
    BY DEF Outcomes, Allocation
  <2>2. r.allocated \in SUBSET r.allocated /\ IsFiniteSet(r.allocated)
    BY DEF Sound
  <2>. QED BY <2>1, <2>2, CoresOfPart
<1>2. CASE r.error # "none"
  BY <1>2 DEF Attempt
<1>3. CASE r.error = "none" /\ n > TotalCores
  <2>1. ~Fits(n, left)
    BY <1>0, <1>1, <1>3, AvailIsNumber, PoolAssumption DEF Fits, BooksInv, TypeInv, AvailCores
  <2>2. Attempt(r, t) = Released(r)
    BY <1>0, <1>3, <2>1 DEF Attempt
  <2>. QED BY <2>2 DEF Released
<1>4. CASE r.error = "none" /\ ~(n > TotalCores) /\ ~Fits(n, left)
  BY <1>0, <1>4 DEF Attempt
<1>5. CASE r.error = "none" /\ ~(n > TotalCores) /\ Fits(n, left)
  <2>1. Attempt(r, t) = HandedOut(r, t)
    BY <1>0, <1>5 DEF Attempt, HandedOut, IdFor
  <2>. QED BY <1>5, <2>1
<1>. QED BY <1>2, <1>3, <1>4, <1>5

LEMMA AttemptIsSound ==
  ASSUME BooksInv, BadCommand = {}, NEW r \in Outcomes, Sound(r), NEW t \in Tasks
  PROVE  Attempt(r, t) \in Outcomes /\ Sound(Attempt(r, t))
<1>. DEFINE left == AvailCores - CoresIn(r.allocated)
            i == IdFor(r)
            n == CoresOf(t)
            x == [id |-> i, cores |-> n]
            g == [id |-> i, task |-> t]
            R == Attempt(r, t)
<1>0. n \in Nat
  BY TaskCoresType
<1>1. r.error \in {"none", "refused"} /\ IsFiniteSet(r.allocated)
      /\ r.allocated \subseteq Allocation /\ r.given \in Seq(Grant)
  BY DEF Outcomes, Sound
<1>2. CASE R = r \/ R = Released(Nothing)
  BY <1>2, NothingIsSound
<1>2a. CoresIn(r.allocated) \in Nat
  <2>1. \A a \in r.allocated : a.cores \in Nat
    BY <1>1 DEF Allocation
  <2>. QED BY <1>1, <2>1, CoresOfPart
<1>5. CASE r.error = "none" /\ Fits(n, left) /\ R = HandedOut(r, t)
  <2>1. R = [r EXCEPT !.allocated = r.allocated \cup {x}, !.given = Append(@, g)]
    BY <1>5 DEF HandedOut
  <2>2. i \in Ids /\ i \notin UsedIds /\ \A a \in r.allocated : a.id # i
    <3>1. IsFiniteSet(UsedIds \cup {a.id : a \in r.allocated})
      BY <1>1, UsedFinite DEF BooksInv
    <3>2. i \in Ids /\ i \notin UsedIds \cup {a.id : a \in r.allocated}
      BY <3>1, NewIdIsNew DEF IdFor
    <3>. QED BY <3>2
  <2>. HIDE DEF i
  <2>3. x \in Allocation /\ g \in Grant /\ x.id = i /\ x.cores = n /\ g.id = i
    BY <1>0, <2>2 DEF Allocation, Grant
  <2>4. x \notin r.allocated /\ x \notin allocated
    BY <2>2, <2>3 DEF UsedIds
  <2>5. PICK A : A = r.allocated \cup {x}
    OBVIOUS
  <2>6. PICK G : G = Append(r.given, g)
    OBVIOUS
  <2>7. /\ R.allocated = A /\ R.given = G /\ R.error = "none"
        /\ R = [allocated |-> A, given |-> G, error |-> "none"]
    BY <1>5, <2>1, <2>5, <2>6 DEF Outcomes
  <2>. HIDE DEF R, x, g, n
  <2>8. A \subseteq Allocation /\ IsFiniteSet(A) /\ G \in Seq(Grant)
    BY <1>1, <2>3, <2>5, <2>6, FS_AddElement
  <2>9. R \in Outcomes
    BY <2>7, <2>8 DEF Outcomes
  <2>10. /\ CoresIn(A) = CoresIn(r.allocated) + n
         /\ CoresIn(allocated \cup A) = CoresIn(allocated \cup r.allocated) + n
    <3>1. CoresIn(r.allocated \cup {x}) = CoresIn(r.allocated) + x.cores
      <4>1. \A a \in r.allocated : a.cores \in Nat
        BY <1>1 DEF Allocation
      <4>2. x.cores \in Nat
        BY <1>0, <2>3
      <4>. QED BY <1>1, <2>4, <4>1, <4>2, CoresOfOneMore
    <3>2. PICK B : B = allocated \cup r.allocated
      OBVIOUS
    <3>3. IsFiniteSet(B) /\ x \notin B /\ \A a \in B : a.cores \in Nat
      <4>1. IsFiniteSet(B)
        BY <1>1, <3>2, FS_Union DEF BooksInv, TypeInv
      <4>. QED BY <1>1, <2>4, <3>2, <4>1 DEF Allocation, BooksInv, TypeInv
    <3>4. CoresIn(B \cup {x}) = CoresIn(B) + x.cores
      BY <1>0, <2>3, <3>3, CoresOfOneMore
    <3>5. allocated \cup A = B \cup {x}
      BY <2>5, <3>2
    <3>. QED BY <2>3, <2>5, <3>1, <3>2, <3>4, <3>5
  <2>11. CoresIn(r.allocated) \in Nat /\ CoresIn(allocated) \in Nat /\ AvailCores \in Int
    BY <1>2a, AvailIsNumber DEF BooksInv
  <2>12. /\ CoresIn(allocated \cup A) = CoresIn(allocated) + CoresIn(A)
         /\ CoresIn(A) <= AvailCores
    <3>1. CoresIn(allocated \cup r.allocated) = CoresIn(allocated) + CoresIn(r.allocated)
      BY DEF Sound
    <3>2. n <= AvailCores - CoresIn(r.allocated)
      BY <1>5 DEF Fits
    <3>. QED BY <1>0, <2>10, <2>11, <3>1, <3>2
  <2>13. /\ \A a \in A : a.id \notin UsedIds
         /\ \A a, b \in A : a.id = b.id => a = b
    BY <2>2, <2>3, <2>5 DEF Sound
  <2>14. /\ DOMAIN G = DOMAIN r.given \cup {Len(r.given) + 1}
         /\ G[Len(r.given) + 1] = g /\ \A j \in DOMAIN r.given : G[j] = r.given[j]
    BY <1>1, <2>3, <2>6
  <2>15. \A a \in A : \E j \in DOMAIN G : G[j].id = a.id
    BY <2>3, <2>5, <2>14 DEF Sound
  <2>16. \A j \in DOMAIN G : \E a \in A : a.id = G[j].id
    BY <2>3, <2>5, <2>14 DEF Sound
  <2>17. \A j \in DOMAIN r.given : r.given[j].id # i
    BY <2>2 DEF Sound
  <2>18. \A j, k \in DOMAIN G : G[j].id = G[k].id => j = k
    BY <2>3, <2>14, <2>17 DEF Sound
  <2>19. Sound(R)
    BY <2>7, <2>8, <2>12, <2>13, <2>15, <2>16, <2>18 DEF Sound
  <2>. QED BY <2>9, <2>19 DEF R
<1>. QED BY <1>2, <1>5, AttemptCases

(* It is what the attempts come to, one queued task after the other. *)
ByAttempts(f) ==
  /\ f[0] = Nothing /\ InitTaskPool = f[Len(queued)]
  /\ \A k \in 1..Len(queued) : f[k] = Attempt(f[k - 1], queued[k])
  /\ \A k \in 0..Len(queued) : f[k] \in Outcomes /\ Sound(f[k])

LEMMA OutcomeByAttempts ==
  ASSUME BooksInv, BadCommand = {}
  PROVE  \E f : ByAttempts(f)
<1>. DEFINE n == Len(queued)
            X == {r \in Outcomes : Sound(r)}
            step == [k \in 1..n |-> [r \in X |-> Attempt(r, queued[k])]]
            It == CHOOSE f : f = [k \in 0..n |->
                    IF k = 0 THEN Nothing ELSE Attempt(f[k - 1], queued[k])]
<1>1. n \in Nat /\ \A k \in 1..n : queued[k] \in Tasks
  BY DEF BooksInv, TypeInv
<1>2. Nothing \in X
  BY NothingIsSound
<1>3. \A r \in X, t \in Tasks : Attempt(r, t) \in X
  BY AttemptIsSound
<1>4. step \in [1..n -> [X -> X]]
  <2>. HIDE DEF X
  <2>. QED BY <1>1, <1>3
<1>5. PICK f \in [0..n -> X] : ByStep(step, Nothing, f, n)
  <2>. HIDE DEF X, step
  <2>. QED BY <1>1, <1>2, <1>4, StepByStep
<1>6. \A k \in 0..n : f[k] = IF k = 0 THEN Nothing ELSE step[k][f[k - 1]]
  BY <1>5 DEF ByStep
<1>7. ASSUME NEW k \in 0..n
      PROVE  f[k] = IF k = 0 THEN Nothing ELSE Attempt(f[k - 1], queued[k])
  <2>1. CASE k = 0
    BY <1>6, <2>1
  <2>2. CASE k # 0
    <3>1. k \in 1..n /\ k - 1 \in 0..n
      BY <1>1, <2>2
    <3>2. f[k] = step[k][f[k - 1]]
      <4>. HIDE DEF step
      <4>. QED BY <1>6, <2>2
    <3>3. f[k - 1] \in X
      BY <1>5, <3>1
    <3>4. step[k][f[k - 1]] = Attempt(f[k - 1], queued[k])
      <4>. HIDE DEF X
      <4>. QED BY <3>1, <3>3
    <3>. QED BY <2>2, <3>2, <3>4
  <2>. QED BY <2>1, <2>2
<1>8. f = [k \in 0..n |-> IF k = 0 THEN Nothing ELSE Attempt(f[k - 1], queued[k])]
  BY <1>5, <1>7
<1>9. It = [k \in 0..n |-> IF k = 0 THEN Nothing ELSE Attempt(It[k - 1], queued[k])]
  BY <1>8
<1>10. InitTaskPool = It[n]
  BY DEF InitTaskPool
<1>. HIDE DEF It
<1>11. \A k \in 0..n : It[k] = IF k = 0 THEN Nothing ELSE Attempt(It[k - 1], queued[k])
  BY <1>9
<1>. DEFINE Y == {k \in 0..n : It[k] \in X}
<1>12. 0 \in Y
  BY <1>1, <1>2, <1>11
<1>13. ASSUME NEW k \in 1..n, k - 1 \in Y PROVE k \in Y
  <2>1. It[k] = Attempt(It[k - 1], queued[k])
    BY <1>1, <1>11
  <2>. QED BY <1>1, <1>3, <1>13, <2>1
<1>14. \A k \in 0..n : k \in Y
  <2>. HIDE DEF Y
  <2>. QED BY <1>1, <1>12, <1>13, CountUp
<1>15. \A k \in 0..n : It[k] \in Outcomes /\ Sound(It[k])
  BY <1>14
<1>16. It[0] = Nothing /\ \A k \in 1..n : It[k] = Attempt(It[k - 1], queued[k])
  BY <1>1, <1>11
<1>17. ByAttempts(It)
  BY <1>10, <1>15, <1>16 DEF ByAttempts
<1>. QED BY <1>17

LEMMA OutcomeIsSound ==
  ASSUME BooksInv, BadCommand = {}
  PROVE  InitTaskPool \in Outcomes /\ Sound(InitTaskPool)
<1>1. PICK f : ByAttempts(f)
  BY OutcomeByAttempts
<1>2. Len(queued) \in 0..Len(queued)
  BY DEF BooksInv, TypeInv
<1>. QED BY <1>1, <1>2 DEF ByAttempts

-----------------------------------------------------------------------------
(* The invariant and the property; steps and the books *)

LEMMA TrackedIsTracked == Tracked => TasksAreTracked
<1>. SUFFICES ASSUME Tracked PROVE TasksAreTracked
  OBVIOUS
<1>1. {a.id : a \in allocated} = currTaskTable
  BY DEF Tracked
<1>2. currTaskTable = taskMap \cup {g.id : g \in Elements(granted)}
  BY DEF Tracked, IsGranted, Elements
<1>3. taskMap = ({a.id : a \in active \cup launched} \cup {worker}) \ {0}
  BY DEF Tracked, IsKnown
<1>. QED BY <1>1, <1>2, <1>3 DEF Tracked, TasksAreTracked

(* A step that leaves the books alone. *)
LEMMA BooksUntouched ==
  ASSUME TrackInv, TypeInv',
         UNCHANGED <<allocated, currTaskTable, taskMap, process, active, granted, launched,
                     worker>>,
         others' <= others,
         UNCHANGED at \/ (at # "popen" /\ at' # "popen" /\ (worker = 0 \/ at' = "idle"))
  PROVE  TrackInv'
<1>1. Tracked'
  <2>1. others \in Int /\ others' \in Int /\ CoresIn(allocated) \in Nat /\ TotalCores \in Nat
    BY AvailIsNumber, PoolAssumption DEF TrackInv, TypeInv
  <2>2. AvailCores' >= 0
    BY <2>1 DEF TrackInv, Tracked, AvailCores
  <2>. QED BY <2>2 DEF TrackInv, Tracked, IsGranted, IsKnown
<1>2. IdsDiffer' /\ LaunchInv' /\ WorkerInv'
  BY DEF TrackInv, IdsDiffer, LaunchInv, WorkerInv
<1>. QED BY <1>1, <1>2 DEF TrackInv

(* Giving back the cores of some tasks. *)
LEMMA FinishFrees ==
  ASSUME TrackInv, NEW ids, Finish(ids), UNCHANGED others
  PROVE  /\ AvailCores' >= 0
         /\ allocated' \subseteq allocated /\ IsFiniteSet(allocated')
         /\ \A i : (\E a \in allocated' : a.id = i) <=> i \in currTaskTable'
         /\ \A i : i \in currTaskTable' <=> i \in currTaskTable /\ i \notin ids
         /\ \A i : i \in taskMap' <=> i \in taskMap /\ i \notin ids
<1>1. /\ allocated' = {a \in allocated : a.id \notin ids}
      /\ currTaskTable' = currTaskTable \ ids /\ taskMap' = taskMap \ ids
  BY DEF Finish
<1>2. PICK A : A = allocated'
  OBVIOUS
<1>3. A \in SUBSET allocated /\ IsFiniteSet(allocated) /\ \A a \in allocated : a.cores \in Nat
  BY <1>1, <1>2 DEF TrackInv, TypeInv, Allocation
<1>4. CoresIn(allocated) \in Nat /\ CoresIn(A) \in Nat /\ CoresIn(A) <= CoresIn(allocated)
  BY <1>3, CoresOfPart
<1>5. IsFiniteSet(A)
  BY <1>3, FS_Subset
<1>6. AvailCores' >= 0
  BY <1>2, <1>4, PoolAssumption DEF TrackInv, Tracked, AvailCores, TypeInv
<1>. QED BY <1>1, <1>2, <1>3, <1>5, <1>6 DEF TrackInv, Tracked

(* The first of a list, and the others with their new places. *)
LEMMA HeadAndTail ==
  ASSUME NEW A, NEW s \in Seq(A), s # <<>>, NEW g, g = Head(s), NEW t, t = Tail(s)
  PROVE  /\ g \in A /\ t \in Seq(A) /\ 1 \in DOMAIN s /\ s[1] = g
         /\ \A k \in DOMAIN t : k + 1 \in DOMAIN s /\ t[k] = s[k + 1] /\ k + 1 # 1
         /\ \A k \in DOMAIN s : k = 1 \/ (k - 1 \in DOMAIN t /\ t[k - 1] = s[k])
         /\ \A j, k \in DOMAIN t : j + 1 = k + 1 => j = k
<1>1. Len(s) \in Nat /\ Len(s) >= 1 /\ DOMAIN s = 1..Len(s)
  OBVIOUS
<1>2. t \in Seq(A) /\ Len(t) = Len(s) - 1 /\ DOMAIN t = 1..Len(t)
      /\ \A k \in 1..Len(t) : t[k] = s[k + 1]
  BY <1>1
<1>. QED BY <1>1, <1>2

LEMMA NamesOfTasks ==
  ASSUME NEW n \in Names, NEW k \in 1..MaxAdds[n]
  PROVE  [name |-> n, n |-> k] \in Tasks
<1>1. [name |-> n, n |-> k] \in [name : {n}, n : 1..MaxAdds[n]]
  OBVIOUS
<1>. QED BY <1>1 DEF Tasks

-----------------------------------------------------------------------------
(* One lemma for each step that touches the books *)

LEMMA CollectTaskTracked ==
  ASSUME TrackInv, NEW a \in active, CollectTask(a)
  PROVE  TrackInv'
<1>0. /\ at \in {"before", "wait", "drain", "get"} /\ Finish({a.id})
      /\ active' = active \ {a}
      /\ UNCHANGED <<others, queued, worker, at, granted, launched, adds>>
  BY DEF CollectTask
<1>1. /\ granted = <<>> /\ launched = {} /\ worker = 0
      /\ \A b \in active : b.id # 0
  BY <1>0 DEF TrackInv, LaunchInv, WorkerInv
<1>2. /\ AvailCores' >= 0
      /\ allocated' \subseteq allocated /\ IsFiniteSet(allocated')
      /\ \A i : (\E b \in allocated' : b.id = i) <=> i \in currTaskTable'
      /\ \A i : i \in currTaskTable' <=> i \in currTaskTable /\ i # a.id
      /\ \A i : i \in taskMap' <=> i \in taskMap /\ i # a.id
  <2>1. PICK ids : ids = {a.id}
    OBVIOUS
  <2>. QED BY <1>0, <2>1, FinishFrees
<1>3. /\ \A p \in process' : \E q \in process : p.id = q.id /\ p.task = q.task
      /\ \A p \in process' : \/ p \in process /\ p.id # a.id
                             \/ p.state = "signalled"
      /\ IsFiniteSet(process')
      /\ process' \subseteq Process
  <2>0. /\ process \subseteq Process
        /\ IsFiniteSet(process)
    BY DEF TrackInv, TypeInv
  <2>1. CASE process' = {p \in process : p.id # a.id}
    <3>1. process' \subseteq process
      BY <2>1
    <3>2. IsFiniteSet(process')
      BY <2>0, <3>1, FS_Subset
    <3>. QED BY <2>0, <2>1, <3>1, <3>2
  <2>2. CASE process' = Become(a.id, "signalled")
    <3>. DEFINE q == [p \in process |-> IF p.id = a.id THEN [p EXCEPT !.state = "signalled"] ELSE p]
    <3>1. process' = {q[p] : p \in process}
      BY <2>2 DEF Become
    <3>2. \A p \in process : /\ q[p].id = p.id /\ q[p].task = p.task
                             /\ (p.id = a.id => q[p].state = "signalled")
                             /\ (p.id # a.id => q[p] = p)
                             /\ q[p] \in Process
      BY <2>0 DEF Process
    <3>. HIDE DEF q
    <3>3. IsFiniteSet(process')
      BY <2>0, <3>1, ImageFinite
    <3>. QED BY <3>1, <3>2, <3>3
  <2>. QED BY <2>1, <2>2 DEF CollectTask
<1>4. TypeInv'
  BY <1>0, <1>2, <1>3 DEF TrackInv, TypeInv
<1>5. \A i : IsKnown(i)' <=> IsKnown(i) /\ i # a.id
  <2>1. \A b \in active : b.id = a.id => b = a
    BY <1>1 DEF TrackInv, IdsDiffer
  <2>. QED BY <1>0, <1>1, <2>1 DEF IsKnown
<1>6. Tracked'
  <2>1. \A i : ~IsGranted(i) /\ ~IsGranted(i)'
    BY <1>0, <1>1 DEF IsGranted
  <2>2. \A i : i \in currTaskTable' <=> i \in taskMap' \/ IsGranted(i)'
    BY <1>2, <2>1 DEF TrackInv, Tracked
  <2>3. \A i : i \in taskMap' <=> IsKnown(i)'
    BY <1>2, <1>5 DEF TrackInv, Tracked
  <2>4. \A p \in process' : p.id \in taskMap' \/ p.state = "signalled"
    BY <1>2, <1>3 DEF TrackInv, Tracked
  <2>. QED BY <1>2, <2>2, <2>3, <2>4 DEF Tracked
<1>7. IdsDiffer' /\ LaunchInv' /\ WorkerInv'
  BY <1>0, <1>1, <1>2 DEF TrackInv, IdsDiffer, LaunchInv, WorkerInv
<1>. QED BY <1>4, <1>6, <1>7 DEF TrackInv

LEMMA LaunchTaskPoolTracked ==
  ASSUME TrackInv, Careful, LaunchTaskPool
  PROVE  TrackInv'
<1>1. PICK r : r = InitTaskPool
  OBVIOUS
<1>2. r \in Outcomes /\ Sound(r)
  BY <1>1, OutcomeIsSound DEF BooksInv, TrackInv, Tracked, Careful
<1>3. /\ at = "launch" /\ allocated' = allocated \cup r.allocated
      /\ currTaskTable' = currTaskTable \cup {g.id : g \in Elements(r.given)}
      /\ UNCHANGED <<others, taskMap, process, queued, active, worker, launched, adds>>
      /\ granted' = r.given
      /\ at' \in {"popen", "idle"} /\ (at' # "popen" => r.given = <<>>)
  BY <1>1, <1>2 DEF LaunchTaskPool, Sound, Go, Return, poolVars
<1>4. granted = <<>> /\ launched = {} /\ worker = 0
  BY <1>3 DEF TrackInv, LaunchInv, WorkerInv
<1>5. r.allocated \subseteq Allocation /\ r.given \in Seq(Grant)
  BY <1>2 DEF Outcomes
<1>6. TypeInv'
  <2>1. IsFiniteSet(allocated')
    BY <1>2, <1>3, FS_Union DEF TrackInv, TypeInv, Sound
  <2>2. allocated' \subseteq Allocation /\ granted' \in Seq(Grant) /\ at' \in Stops
    BY <1>3, <1>5 DEF TrackInv, TypeInv, Stops
  <2>. QED BY <1>3, <2>1, <2>2 DEF TrackInv, TypeInv
<1>7. AvailCores' >= 0
  <2>1. PICK A : A = allocated \cup r.allocated
    OBVIOUS
  <2>2. CoresIn(A) = CoresIn(allocated) + CoresIn(r.allocated) /\ CoresIn(r.allocated) <= AvailCores
    BY <1>2, <2>1 DEF Sound
  <2>3. CoresIn(allocated) \in Nat
    BY AvailIsNumber DEF TrackInv
  <2>4. CoresIn(r.allocated) \in Nat
    <3>1. \A a \in r.allocated : a.cores \in Nat
      BY <1>5 DEF Allocation
    <3>2. r.allocated \in SUBSET r.allocated /\ IsFiniteSet(r.allocated)
      BY <1>2 DEF Sound
    <3>. QED BY <3>1, <3>2, CoresOfPart
  <2>. QED BY <1>3, <2>1, <2>2, <2>3, <2>4, PoolAssumption DEF AvailCores, TrackInv, TypeInv
<1>8. \A i : IsGranted(i)' <=> \E a \in r.allocated : a.id = i
  BY <1>2, <1>3 DEF IsGranted, Sound
<1>9. \A i : i \in currTaskTable' <=> i \in currTaskTable \/ IsGranted(i)'
  BY <1>3 DEF IsGranted, Elements
<1>10. Tracked'
  <2>1. \A i : (\E a \in allocated' : a.id = i) <=> i \in currTaskTable'
    BY <1>3, <1>8, <1>9 DEF TrackInv, Tracked
  <2>2. \A i : i \in currTaskTable' <=> i \in taskMap' \/ IsGranted(i)'
    BY <1>3, <1>4, <1>9 DEF TrackInv, Tracked, IsGranted
  <2>3. \A i : i \in taskMap' <=> IsKnown(i)'
    BY <1>3 DEF TrackInv, Tracked, IsKnown
  <2>. QED BY <1>3, <1>7, <2>1, <2>2, <2>3 DEF TrackInv, Tracked
<1>11. IdsDiffer'
  <2>1. \A a \in r.allocated : \A b \in allocated : a.id # b.id
    BY <1>2 DEF Sound, UsedIds
  <2>2. \A a, b \in allocated' : a.id = b.id => a = b
    BY <1>2, <1>3, <2>1 DEF Sound, TrackInv, IdsDiffer
  <2>3. \A i, j \in DOMAIN granted' : granted'[i].id = granted'[j].id => i = j
    BY <1>2, <1>3 DEF Sound
  <2>4. \A i \in DOMAIN granted' : granted'[i].id \notin taskMap'
    <3>. SUFFICES ASSUME NEW i \in DOMAIN granted', granted'[i].id \in taskMap' PROVE FALSE
      OBVIOUS
    <3>1. PICK a \in r.allocated : a.id = granted'[i].id
      BY <1>2, <1>3 DEF Sound
    <3>2. \E b \in allocated : b.id = a.id
      BY <1>3, <3>1 DEF TrackInv, Tracked
    <3>. QED BY <2>1, <3>2
  <2>. QED BY <1>3, <2>2, <2>3, <2>4 DEF TrackInv, IdsDiffer
<1>12. LaunchInv' /\ WorkerInv'
  BY <1>3, <1>4 DEF TrackInv, LaunchInv, WorkerInv
<1>. QED BY <1>6, <1>10, <1>11, <1>12 DEF TrackInv

LEMMA StartProcessTracked ==
  ASSUME TrackInv, Careful, StartProcess
  PROVE  TrackInv'
<1>1. PICK g : g = Head(granted)
  OBVIOUS
<1>2. PICK t : t = Tail(granted)
  OBVIOUS
<1>3. PICK p : p = [id |-> g.id, task |-> g.task, state |-> "running"]
  OBVIOUS
<1>4. /\ at = "popen" /\ granted # <<>>
      /\ process' = process \cup {p} /\ taskMap' = taskMap \cup {g.id}
      /\ launched' = launched \cup {g} /\ granted' = t
      /\ UNCHANGED <<at, allocated, currTaskTable, others, queued, active, worker, adds>>
  BY <1>1, <1>2, <1>3 DEF StartProcess, Careful, managerVars, poolVars
<1>5. granted \in Seq(Grant) /\ worker = 0
  BY <1>4 DEF TrackInv, TypeInv, WorkerInv
<1>6. /\ g \in Grant /\ t \in Seq(Grant) /\ 1 \in DOMAIN granted /\ granted[1] = g
      /\ \A k \in DOMAIN t : k + 1 \in DOMAIN granted /\ t[k] = granted[k + 1] /\ k + 1 # 1
      /\ \A k \in DOMAIN granted : k = 1 \/ (k - 1 \in DOMAIN t /\ t[k - 1] = granted[k])
      /\ \A j, k \in DOMAIN t : j + 1 = k + 1 => j = k
  BY <1>1, <1>2, <1>4, <1>5, HeadAndTail
<1>7. TypeInv'
  <2>1. IsFiniteSet(process')
    BY <1>4, FS_AddElement DEF TrackInv, TypeInv
  <2>2. p \in Process
    BY <1>3, <1>6 DEF Grant, Process
  <2>. QED BY <1>4, <1>6, <2>1, <2>2 DEF TrackInv, TypeInv
<1>8. \A i : IsGranted(i) <=> IsGranted(i)' \/ i = g.id
  <2>. SUFFICES ASSUME NEW i PROVE IsGranted(i) <=> IsGranted(i)' \/ i = g.id
    OBVIOUS
  <2>1. IsGranted(i)' <=> \E k \in DOMAIN t : t[k].id = i
    BY <1>4 DEF IsGranted
  <2>2. ASSUME NEW k \in DOMAIN granted, granted[k].id = i
        PROVE  i = g.id \/ \E j \in DOMAIN t : t[j].id = i
    <3>1. CASE k = 1
      BY <1>6, <2>2, <3>1
    <3>2. CASE k # 1
      <4>1. k - 1 \in DOMAIN t /\ t[k - 1] = granted[k]
        BY <1>6, <3>2
      <4>. QED BY <2>2, <4>1
    <3>. QED BY <3>1, <3>2
  <2>3. ASSUME NEW j \in DOMAIN t, t[j].id = i PROVE \E k \in DOMAIN granted : granted[k].id = i
    <3>1. j + 1 \in DOMAIN granted /\ t[j] = granted[j + 1]
      BY <1>6
    <3>. QED BY <2>3, <3>1
  <2>4. \E k \in DOMAIN granted : granted[k].id = g.id
    BY <1>6
  <2>. QED BY <2>1, <2>2, <2>3, <2>4 DEF IsGranted
<1>9. \A i : IsKnown(i)' <=> IsKnown(i) \/ i = g.id
  <2>1. g.id # 0
    BY <1>6 DEF Grant, Ids
  <2>. QED BY <1>4, <2>1 DEF IsKnown
<1>10. Tracked'
  <2>1. \A i : i \in currTaskTable' <=> i \in taskMap' \/ IsGranted(i)'
    BY <1>4, <1>8 DEF TrackInv, Tracked
  <2>2. \A i : i \in taskMap' <=> IsKnown(i)'
    BY <1>4, <1>9 DEF TrackInv, Tracked
  <2>3. AvailCores' >= 0
    BY <1>4 DEF TrackInv, Tracked, AvailCores
  <2>. QED BY <1>3, <1>4, <2>1, <2>2, <2>3 DEF TrackInv, Tracked
<1>11. g.id \notin taskMap
  BY <1>6 DEF TrackInv, IdsDiffer
<1>12. IdsDiffer'
  <2>1. \A j, k \in DOMAIN t : t[j].id = t[k].id => j = k
    BY <1>6 DEF TrackInv, IdsDiffer
  <2>2. \A k \in DOMAIN t : t[k].id \notin taskMap'
    BY <1>4, <1>6 DEF TrackInv, IdsDiffer
  <2>3. \A a \in active \cup launched : a.id # g.id
    <3>1. g.id # 0
      BY <1>6 DEF Grant, Ids
    <3>. QED BY <1>11, <3>1 DEF TrackInv, Tracked, IsKnown
  <2>4. \A a, b \in active' \cup launched' : (a.id = b.id /\ a.id # 0) => a = b
    BY <1>4, <2>3 DEF TrackInv, IdsDiffer
  <2>. QED BY <1>4, <2>1, <2>2, <2>4 DEF TrackInv, IdsDiffer
<1>13. LaunchInv' /\ WorkerInv'
  BY <1>4, <1>5 DEF TrackInv, LaunchInv, WorkerInv
<1>. QED BY <1>7, <1>10, <1>12, <1>13 DEF TrackInv

LEMMA ActivateTracked ==
  ASSUME TrackInv, Activate
  PROVE  TrackInv'
<1>1. /\ at = "popen" /\ granted = <<>> /\ active' = active \cup launched /\ launched' = {}
      /\ queued' = Filter(queued, Tasks \ {g.task : g \in launched})
      /\ at' \in {"wait", "idle"}
      /\ UNCHANGED <<allocated, currTaskTable, others, taskMap, process, worker, granted, adds>>
  BY DEF Activate, StillQueued, WaitAny, Return, managerVars
<1>2. worker = 0 /\ \A a \in active : a.id # 0
  BY <1>1 DEF TrackInv, WorkerInv
<1>3. launched \subseteq Grant /\ active \subseteq [id : Nat, task : Tasks]
  BY DEF TrackInv, TypeInv
<1>4. TypeInv'
  <2>1. queued' \in Seq(Tasks)
    BY <1>1, FilterProperties DEF TrackInv, TypeInv
  <2>2. launched \subseteq [id : Nat, task : Tasks]
    BY <1>3 DEF Grant, Ids
  <2>. QED BY <1>1, <2>1, <2>2 DEF TrackInv, TypeInv, Stops
<1>5. Tracked'
  <2>1. \A i : IsGranted(i)' <=> IsGranted(i)
    BY <1>1 DEF IsGranted
  <2>2. \A i : IsKnown(i)' <=> IsKnown(i)
    BY <1>1 DEF IsKnown
  <2>3. AvailCores' >= 0
    BY <1>1 DEF TrackInv, Tracked, AvailCores
  <2>. QED BY <1>1, <2>1, <2>2, <2>3 DEF TrackInv, Tracked
<1>6. \A a \in launched : a.id # 0
  BY <1>3 DEF Grant, Ids
<1>7. IdsDiffer' /\ LaunchInv' /\ WorkerInv'
  BY <1>1, <1>2, <1>6 DEF TrackInv, IdsDiffer, LaunchInv, WorkerInv
<1>. QED BY <1>4, <1>5, <1>7 DEF TrackInv

LEMMA RemoveTaskPoolTracked ==
  ASSUME TrackInv, Careful, RemoveTaskPool
  PROVE  TrackInv'
<1>1. /\ at = "idle" /\ worker = 0 /\ Finish(KilledIds)
      /\ process' = {IF p.id \in KilledIds THEN [p EXCEPT !.state = "signalled"] ELSE p : p \in process}
      /\ queued' = <<>> /\ active' = {} /\ worker' = 0
      /\ UNCHANGED <<others, at, granted, launched, adds>>
  BY DEF RemoveTaskPool, Careful, opVars
<1>2. granted = <<>> /\ launched = {}
  BY <1>1 DEF TrackInv, LaunchInv
<1>3. /\ AvailCores' >= 0
      /\ allocated' \subseteq allocated /\ IsFiniteSet(allocated')
      /\ \A i : (\E b \in allocated' : b.id = i) <=> i \in currTaskTable'
      /\ \A i : i \in currTaskTable' <=> i \in currTaskTable /\ i \notin KilledIds
      /\ \A i : i \in taskMap' <=> i \in taskMap /\ i \notin KilledIds
  BY <1>1, FinishFrees
<1>4. \A i : i \in taskMap => i \in KilledIds
  BY <1>1, <1>2 DEF TrackInv, Tracked, IsKnown, KilledIds
<1>5. /\ \A p \in process' : p.state = "signalled"
      /\ IsFiniteSet(process')
      /\ process' \subseteq Process
  <2>. DEFINE q == [p \in process |->
                      IF p.id \in KilledIds THEN [p EXCEPT !.state = "signalled"] ELSE p]
  <2>0. /\ process \subseteq Process
        /\ IsFiniteSet(process)
    BY DEF TrackInv, TypeInv
  <2>1. process' = {q[p] : p \in process}
    BY <1>1
  <2>2. \A p \in process : p.id \in KilledIds \/ p.state = "signalled"
    BY <1>4 DEF TrackInv, Tracked
  <2>3. \A p \in process : q[p].state = "signalled"
          /\ q[p] \in Process
    BY <2>0, <2>2 DEF Process
  <2>. HIDE DEF q
  <2>4. IsFiniteSet(process')
    BY <2>0, <2>1, ImageFinite
  <2>. QED BY <2>1, <2>3, <2>4
<1>6. TypeInv'
  <2>1. <<>> \in Seq(Tasks)
    OBVIOUS
  <2>. QED BY <1>1, <1>3, <1>5, <2>1 DEF TrackInv, TypeInv
<1>7. Tracked'
  <2>1. \A i : ~IsGranted(i) /\ ~IsGranted(i)' /\ ~IsKnown(i)'
    BY <1>1, <1>2 DEF IsGranted, IsKnown
  <2>2. \A i : i \notin taskMap' /\ i \notin currTaskTable'
    BY <1>3, <1>4, <2>1 DEF TrackInv, Tracked
  <2>. QED BY <1>3, <1>5, <2>1, <2>2 DEF Tracked
<1>8. IdsDiffer' /\ LaunchInv' /\ WorkerInv'
  BY <1>1, <1>2, <1>3 DEF TrackInv, IdsDiffer, LaunchInv, WorkerInv
<1>. QED BY <1>6, <1>7, <1>8 DEF TrackInv

LEMMA SubmitDaskTracked ==
  ASSUME TrackInv, Careful, SubmitDask
  PROVE  TrackInv'
<1>1. PICK i : i = NewId(UsedIds)
  OBVIOUS
<1>2. PICK x : x = [id |-> i, cores |-> DaskCores]
  OBVIOUS
<1>3. /\ at = "idle" /\ active = {} /\ worker = 0 /\ queued # <<>> /\ Fits(DaskCores, AvailCores)
      /\ allocated' = allocated \cup {x} /\ currTaskTable' = currTaskTable \cup {i}
      /\ taskMap' = taskMap \cup {i} /\ worker' = i
      /\ active' = {[id |-> 0, task |-> t] : t \in Elements(queued)} /\ queued' = <<>>
      /\ UNCHANGED <<others, process, at, granted, launched, adds>>
  BY <1>1, <1>2 DEF SubmitDask, Careful, opVars
<1>4. granted = <<>> /\ launched = {} /\ DaskCores \in Nat
  BY <1>3, PoolAssumption DEF TrackInv, LaunchInv
<1>5. i \in Ids /\ i \notin UsedIds
  <2>1. IsFiniteSet({}) /\ UsedIds \cup {a.id : a \in {}} = UsedIds
    BY FS_EmptySet
  <2>2. IsFiniteSet(UsedIds)
    BY <2>1, UsedFinite DEF TrackInv
  <2>. QED BY <1>1, <2>2, NewIdIsNew
<1>6. /\ \A a \in allocated : a.id # i
      /\ \A p \in process : p.id # i
      /\ x.id = i /\ x.cores = DaskCores /\ x \in Allocation /\ i # 0 /\ x \notin allocated
  BY <1>2, <1>4, <1>5 DEF UsedIds, Allocation, Ids
<1>7. TypeInv'
  <2>1. <<>> \in Seq(Tasks)
    OBVIOUS
  <2>2. i \in Nat
    BY <1>5 DEF Ids
  <2>3. IsFiniteSet(allocated')
    <3>1. IsFiniteSet(allocated)
      BY DEF TrackInv, TypeInv
    <3>2. IsFiniteSet(allocated \cup {x})
      BY <3>1, FS_AddElement
    <3>. QED BY <1>3, <3>2
  <2>4. active' \subseteq [id : Nat, task : Tasks]
    BY <1>3 DEF TrackInv, TypeInv, Elements
  <2>. QED BY <1>3, <1>6, <2>1, <2>2, <2>3, <2>4 DEF TrackInv, TypeInv
<1>8. AvailCores' >= 0
  <2>1. PICK A : A = allocated \cup {x}
    OBVIOUS
  <2>2. CoresIn(A) = CoresIn(allocated) + DaskCores
    <3>1. IsFiniteSet(allocated) /\ \A a \in allocated : a.cores \in Nat
      BY DEF TrackInv, TypeInv, Allocation
    <3>2. x \notin allocated /\ x.cores \in Nat
      BY <1>4, <1>6
    <3>3. CoresIn(allocated \cup {x}) = CoresIn(allocated) + x.cores
      BY <3>1, <3>2, CoresOfOneMore
    <3>. QED BY <1>6, <2>1, <3>3
  <2>3. CoresIn(allocated) \in Nat
    BY AvailIsNumber DEF TrackInv
  <2>. QED BY <1>3, <1>4, <2>1, <2>2, <2>3, PoolAssumption DEF AvailCores, Fits, TrackInv, TypeInv
<1>9. Tracked'
  <2>1. \A j : ~IsGranted(j) /\ ~IsGranted(j)'
    BY <1>3, <1>4 DEF IsGranted
  <2>2. \A j : IsKnown(j)' <=> j = i
    BY <1>3, <1>4, <1>6 DEF IsKnown
  <2>3. \A j : ~IsKnown(j)
    BY <1>3, <1>4 DEF IsKnown
  <2>4. \A j : j \in taskMap' <=> IsKnown(j)'
    BY <1>3, <2>2, <2>3 DEF TrackInv, Tracked
  <2>5. \A j : j \in currTaskTable' <=> j \in taskMap' \/ IsGranted(j)'
    BY <1>3, <2>1 DEF TrackInv, Tracked
  <2>6. \A j : (\E a \in allocated' : a.id = j) <=> j \in currTaskTable'
    BY <1>3, <1>6 DEF TrackInv, Tracked
  <2>. QED BY <1>3, <1>8, <2>4, <2>5, <2>6 DEF TrackInv, Tracked
<1>10. /\ active' # {} /\ \A a \in active' : a.id = 0
  <2>1. \E t : t \in Elements(queued)
    <3>1. queued \in Seq(Tasks) /\ queued # <<>>
      BY <1>3 DEF TrackInv, TypeInv
    <3>2. 1 \in DOMAIN queued
      BY <3>1
    <3>. QED BY <3>2 DEF Elements
  <2>2. \A a \in active' : a.id = 0
    BY <1>3
  <2>3. PICK t : t \in Elements(queued)
    BY <2>1
  <2>4. [id |-> 0, task |-> t] \in active'
    BY <1>3, <2>3
  <2>. QED BY <2>2, <2>4
<1>11. IdsDiffer' /\ LaunchInv' /\ WorkerInv'
  BY <1>3, <1>4, <1>6, <1>10 DEF TrackInv, IdsDiffer, LaunchInv, WorkerInv
<1>. QED BY <1>7, <1>9, <1>11 DEF TrackInv

LEMMA GetDaskFinishedTracked ==
  ASSUME TrackInv, GetDaskFinished
  PROVE  TrackInv'
<1>1. /\ at = "idle" /\ worker # 0 /\ active' = {} /\ worker' = 0 /\ Finish({worker})
      /\ UNCHANGED <<others, process, queued, at, granted, launched, adds>>
  BY DEF GetDaskFinished, opVars
<1>2. /\ granted = <<>> /\ launched = {}
      /\ (\A a \in active : a.id = 0) /\ \A p \in process : p.id # worker
  BY <1>1 DEF TrackInv, LaunchInv, WorkerInv
<1>3. /\ AvailCores' >= 0
      /\ allocated' \subseteq allocated /\ IsFiniteSet(allocated')
      /\ \A i : (\E b \in allocated' : b.id = i) <=> i \in currTaskTable'
      /\ \A i : i \in currTaskTable' <=> i \in currTaskTable /\ i # worker
      /\ \A i : i \in taskMap' <=> i \in taskMap /\ i # worker
  <2>1. PICK ids : ids = {worker}
    OBVIOUS
  <2>. QED BY <1>1, <2>1, FinishFrees
<1>4. TypeInv'
  BY <1>1, <1>3 DEF TrackInv, TypeInv
<1>5. \A i : i \in taskMap <=> i = worker
  BY <1>1, <1>2 DEF TrackInv, Tracked, IsKnown
<1>6. Tracked'
  <2>1. \A i : ~IsGranted(i) /\ ~IsGranted(i)' /\ ~IsKnown(i)'
    BY <1>1, <1>2 DEF IsGranted, IsKnown
  <2>2. \A i : i \notin taskMap' /\ i \notin currTaskTable'
    BY <1>3, <1>5, <2>1 DEF TrackInv, Tracked
  <2>3. \A p \in process' : p.state = "signalled"
    BY <1>1, <1>2, <1>5 DEF TrackInv, Tracked
  <2>. QED BY <1>3, <2>1, <2>2, <2>3 DEF Tracked
<1>7. IdsDiffer' /\ LaunchInv' /\ WorkerInv'
  BY <1>1, <1>2, <1>3 DEF TrackInv, IdsDiffer, LaunchInv, WorkerInv
<1>. QED BY <1>4, <1>6, <1>7 DEF TrackInv

LEMMA ProcessEndsTracked ==
  ASSUME TrackInv, NEW p \in process, ProcessEnds(p)
  PROVE  TrackInv'
<1>1. UNCHANGED <<allocated, currTaskTable, others, taskMap, queued, active, worker, at,
                  granted, launched, adds>>
  BY DEF ProcessEnds, managerVars, poolVars, opVars
<1>2. /\ \A r \in process' : \E s \in process : r.id = s.id
      /\ \A r \in process' : r \in process \/ r.id \in taskMap
      /\ IsFiniteSet(process')
      /\ process' \subseteq Process
  <2>0. /\ process \subseteq Process
        /\ IsFiniteSet(process)
    BY DEF TrackInv, TypeInv
  <2>1. CASE process' = process \ {p}
    <3>1. process' \subseteq process
      BY <2>1
    <3>2. IsFiniteSet(process')
      BY <2>0, <3>1, FS_Subset
    <3>. QED BY <2>0, <3>1, <3>2
  <2>2. CASE p.state = "running" /\ process' = Become(p.id, "ended")
    <3>. DEFINE q == [r \in process |-> IF r.id = p.id THEN [r EXCEPT !.state = "ended"] ELSE r]
    <3>1. process' = {q[r] : r \in process}
      BY <2>2 DEF Become
    <3>2. \A r \in process : /\ q[r].id = r.id
                             /\ (r.id # p.id => q[r] = r)
                             /\ q[r] \in Process
      BY <2>0 DEF Process
    <3>. HIDE DEF q
    <3>3. IsFiniteSet(process')
      BY <2>0, <3>1, ImageFinite
    <3>4. p.id \in taskMap
      BY <2>2 DEF TrackInv, Tracked
    <3>. QED BY <3>1, <3>2, <3>3, <3>4
  <2>. QED BY <2>1, <2>2 DEF ProcessEnds
<1>3. TypeInv'
  BY <1>1, <1>2 DEF TrackInv, TypeInv
<1>4. Tracked'
  <2>1. /\ \A i : IsGranted(i)' <=> IsGranted(i)
        /\ \A i : IsKnown(i)' <=> IsKnown(i)
    BY <1>1 DEF IsGranted, IsKnown
  <2>2. AvailCores' >= 0
    BY <1>1 DEF TrackInv, Tracked, AvailCores
  <2>. QED BY <1>1, <1>2, <2>1, <2>2 DEF TrackInv, Tracked
<1>5. IdsDiffer' /\ LaunchInv' /\ WorkerInv'
  BY <1>1, <1>2 DEF TrackInv, IdsDiffer, LaunchInv, WorkerInv
<1>. QED BY <1>3, <1>4, <1>5 DEF TrackInv

(* The steps that leave the books alone. *)
LEMMA OtherStepsTracked ==
  ASSUME TrackInv,
         \/ \E n \in Names : AddTask(n)
         \/ \E b \in BOOLEAN : SubmitTasks(b)
         \/ AfterWait \/ EndDrain \/ GetFinishedTasks \/ Report
         \/ \E t \in Tasks : DaskTaskEnds(t)
         \/ OtherFinishes
         \/ UNCHANGED vars
  PROVE  TrackInv'
<1>0. others \in 0..TotalCores /\ TotalCores \in Nat /\ at \in Stops
  BY PoolAssumption DEF TrackInv, TypeInv
<1>1. ASSUME NEW n \in Names, AddTask(n) PROVE TrackInv'
  <2>1. /\ adds[n] < MaxAdds[n] /\ adds' = [adds EXCEPT ![n] = @ + 1]
        /\ queued' = Append(queued, [name |-> n, n |-> adds[n] + 1])
        /\ UNCHANGED <<managerVars, taskMap, process, active, worker, opVars>>
    BY <1>1 DEF AddTask
  <2>2. adds \in [Names -> Nat] /\ (\A m \in Names : adds[m] <= MaxAdds[m])
        /\ MaxAdds[n] \in Nat /\ adds[n] \in Nat
    BY PoolAssumption DEF TrackInv, TypeInv
  <2>3. adds[n] + 1 \in 1..MaxAdds[n]
    BY <2>1, <2>2
  <2>4. queued' \in Seq(Tasks)
    BY <2>1, <2>3, NamesOfTasks DEF TrackInv, TypeInv
  <2>5. adds' \in [Names -> Nat] /\ \A m \in Names : adds'[m] <= MaxAdds[m]
    BY <2>1, <2>2, <2>3
  <2>6. TypeInv'
    BY <2>1, <2>4, <2>5 DEF TrackInv, TypeInv, managerVars, opVars
  <2>. QED BY <1>0, <2>1, <2>6, BooksUntouched DEF managerVars, opVars
<1>2. ASSUME NEW b \in BOOLEAN, SubmitTasks(b) PROVE TrackInv'
  <2>1. /\ at = "idle" /\ at' = "before" /\ \A a \in active : a.id # 0
        /\ UNCHANGED <<managerVars, taskMap, process, poolVars, granted, launched, adds>>
    BY <1>2 DEF SubmitTasks, WaitAny
  <2>2. worker = 0
    BY <2>1 DEF TrackInv, WorkerInv
  <2>3. TypeInv'
    BY <2>1 DEF TrackInv, TypeInv, managerVars, poolVars, Stops
  <2>. QED BY <1>0, <2>1, <2>2, <2>3, BooksUntouched DEF managerVars, poolVars
<1>3. CASE AfterWait
  <2>1. /\ at \in {"before", "wait"} /\ at' \in {"launch", "drain", "idle"}
        /\ UNCHANGED <<managerVars, taskMap, process, poolVars, granted, launched, adds>>
    BY <1>3 DEF AfterWait, Loop, Go, WaitAny, Return
  <2>2. worker = 0
    BY <2>1 DEF TrackInv, WorkerInv
  <2>3. TypeInv'
    BY <2>1 DEF TrackInv, TypeInv, managerVars, poolVars, Stops
  <2>. QED BY <1>0, <2>1, <2>2, <2>3, BooksUntouched DEF managerVars, poolVars
<1>4. CASE EndDrain \/ Report \/ GetFinishedTasks
  <2>1. /\ at \in {"drain", "get", "idle"} /\ at' \in {"idle", "get"}
        /\ (at' = "idle" \/ worker = 0)
        /\ UNCHANGED <<managerVars, taskMap, process, queued, active, worker, granted, launched, adds>>
    BY <1>4 DEF EndDrain, Report, GetFinishedTasks, Return, WaitAny, poolVars
  <2>2. TypeInv'
    BY <2>1 DEF TrackInv, TypeInv, managerVars, Stops
  <2>. QED BY <1>0, <2>1, <2>2, BooksUntouched DEF managerVars
<1>5. CASE (\E t \in Tasks : DaskTaskEnds(t)) \/ UNCHANGED vars
  <2>1. UNCHANGED <<managerVars, taskMap, process, queued, active, worker, at, granted, launched, adds>>
    BY <1>5 DEF DaskTaskEnds, opVars, vars, poolVars
  <2>2. TypeInv'
    BY <2>1 DEF TrackInv, TypeInv, managerVars
  <2>. QED BY <1>0, <2>1, <2>2, BooksUntouched DEF managerVars
<1>6. CASE OtherFinishes
  <2>1. /\ others > 0 /\ others' = 0
        /\ UNCHANGED <<allocated, currTaskTable, taskMap, process, queued, active, worker, at,
                       granted, launched, adds>>
    BY <1>6 DEF OtherFinishes, opVars, poolVars
  <2>2. TypeInv'
    BY <1>0, <2>1 DEF TrackInv, TypeInv
  <2>. QED BY <1>0, <2>1, <2>2, BooksUntouched
<1>. QED BY <1>1, <1>2, <1>3, <1>4, <1>5, <1>6

-----------------------------------------------------------------------------
(* The theorem *)

LEMMA InitTracked == Init => TrackInv
<1>. SUFFICES ASSUME Init PROVE TrackInv
  OBVIOUS
<1>1. TypeInv
  <2>1. IsFiniteSet({}) /\ <<>> \in Seq(Tasks) /\ <<>> \in Seq(Grant)
    BY FS_EmptySet
  <2>. QED BY <2>1, PoolAssumption DEF Init, TypeInv, Stops
<1>2. AvailCores >= 0
  BY CoresOfNone, PoolAssumption DEF Init, AvailCores
<1>3. Tracked
  BY <1>2 DEF Init, Tracked, IsGranted, IsKnown
<1>. QED BY <1>1, <1>3 DEF Init, TrackInv, IdsDiffer, LaunchInv, WorkerInv

LEMMA TrackedStays ==
  ASSUME Careful
  PROVE  Spec => []TrackInv
<1>1. TrackInv /\ [Next]_vars => TrackInv'
  <2>. SUFFICES ASSUME TrackInv, [Next]_vars PROVE TrackInv'
    OBVIOUS
  <2>. QED BY CollectTaskTracked, LaunchTaskPoolTracked, StartProcessTracked, ActivateTracked,
       RemoveTaskPoolTracked, SubmitDaskTracked, GetDaskFinishedTracked, ProcessEndsTracked,
       OtherStepsTracked DEF Next, Operation, Program, World
<1>. QED BY <1>1, InitTracked, PTL DEF Spec

(* Cores are neither lost nor lent twice, and what the manager has lent to *)
(* the component is in task_map or about to be started, and known to the   *)
(* pool, for any tasks, and whether or not names are used again.  Without  *)
(* Careful it is false: a Popen or a launch command that fails leaves the  *)
(* task allocated for ever, and a pool that is removed while dask has the  *)
(* tasks forgets its workers.                                              *)
THEOREM PoolTracksTasks ==
  ASSUME Careful
  PROVE  Spec => []TasksAreTracked
<1>1. TrackInv => TasksAreTracked
  BY TrackedIsTracked DEF TrackInv
<1>. QED BY <1>1, TrackedStays, PTL

-----------------------------------------------------------------------------
(* Where the tasks are.                                                    *)
(*                                                                         *)
(* A task that has been added is in one part of the pool at a time         *)
(* (OnceInv), except that it stays in the queue until all processes of its *)
(* launch have started.  A process that may still run is that of one       *)
(* active task or of one just launched, and conversely (ProcessInv).  That *)
(* no status is lost when finished_tasks keeps one for each name needs     *)
(* that names are not used again too early (NamesInv).                     *)

Records == [task : Tasks, status : {"ended", "timeout"}]
Up(t) == \E p \in process : p.task = t /\ p.state # "signalled"
EndedUp(t) == \E p \in process : p.task = t /\ p.state = "ended"
IsOut(t) == Up(t) \/ In(t, finished) \/ In(t, results) \/ t \in futures \/ t \in daskDone
IsLate(t) == t.n > adds[t.name]

PlaceTypes ==
  /\ finished \subseteq Records /\ results \subseteq Records
  /\ futures \subseteq Tasks /\ daskDone \subseteq Tasks

AddedInv == \A t \in Tasks : Has(queued, t) \/ IsOut(t) => ~IsLate(t)

OnceInv ==
  \A t \in Tasks :
    /\ Up(t) => ~In(t, finished) /\ ~In(t, results)
    /\ In(t, results) => ~In(t, finished) /\ t \notin futures /\ t \notin daskDone
    /\ ~(t \in futures /\ t \in daskDone)
    /\ Has(queued, t) => ~In(t, finished) /\ ~In(t, results) /\ t \notin futures /\ t \notin daskDone
    /\ Has(queued, t) /\ Up(t) => In(t, launched)

ProcessInv ==
  /\ \A p, q \in process : p.id = q.id => p = q
  /\ \A p, q \in process :
       p.task = q.task /\ p.state # "signalled" /\ q.state # "signalled" => p = q
  /\ \A a \in active \cup launched : a.id # 0 =>
       \E p \in process : p.id = a.id /\ p.task = a.task /\ p.state # "signalled"
  /\ \A p \in process : p.state # "signalled" =>
       \E a \in active \cup launched : a.id = p.id /\ a.task = p.task

GrantedInv ==
  /\ \A a \in launched : Has(queued, a.task)
  /\ \A k \in DOMAIN granted : /\ Has(queued, granted[k].task)
                               /\ ~In(granted[k].task, launched)
                               /\ \A p \in process : p.id # granted[k].id
  /\ \A j, k \in DOMAIN granted : granted[j].task = granted[k].task => j = k

NamesInv ==
  /\ NoneTwice(queued)
  /\ \A t, u \in Tasks : Has(queued, t) /\ Has(queued, u) /\ t.name = u.name => t = u
  /\ \A a, b \in active : a.task.name = b.task.name => a = b
  /\ \A a \in active, t \in Tasks : Has(queued, t) => t.name # a.task.name
  /\ \A f \in finished, t \in Tasks : Has(queued, t) => t.name # f.task.name
  /\ \A f \in finished, a \in active : f.task.name # a.task.name

DaskInv == IF worker = 0 THEN futures = {} /\ daskDone = {} ELSE finished = {}

PlaceInv ==
  PlaceTypes /\ AddedInv /\ OnceInv /\ ProcessInv /\ GrantedInv /\ NamesInv /\ DaskInv

UniqueNames == "unique_names" \in Habits

(* The stage of a task, when it is started once. *)
StageOf(t) ==
  IF IsLate(t) THEN "none"
  ELSE IF In(t, results) THEN "reported"
  ELSE IF In(t, finished) \/ t \in daskDone \/ EndedUp(t) THEN "ended"
  ELSE IF t \in futures \/ Up(t) THEN "running"
  ELSE IF Has(queued, t) THEN "queued" ELSE "dropped"

StagesKnown == Stage = [t \in Tasks |-> StageOf(t)]

LEMMA StageIs == TrackInv /\ PlaceInv => StagesKnown
<1>. SUFFICES ASSUME TrackInv, PlaceInv PROVE StagesKnown
  OBVIOUS
<1>1. ASSUME NEW t \in Tasks
      PROVE  ~(Attempts(t) > 1)
  <2>. DEFINE P == {p \in Alive : p.task = t}
              recorded == In(t, finished \cup results)
  <2>1. recorded <=> In(t, finished) \/ In(t, results)
    BY DEF In
  <2>2. CASE Up(t)
    <3>1. PICK p \in process : p.task = t /\ p.state # "signalled"
      BY <2>2 DEF Up
    <3>2. P = {p}
      BY <3>1 DEF PlaceInv, ProcessInv, Alive
    <3>3. Cardinality(P) = 1
      BY <3>2, FS_Singleton
    <3>4. ~recorded
      BY <2>1, <2>2 DEF PlaceInv, OnceInv
    <3>5. Attempts(t) = 1 + 0
      BY <3>3, <3>4 DEF Attempts
    <3>. QED BY <3>5
  <2>3. CASE ~Up(t)
    <3>1. P = {}
      BY <2>3 DEF Up, Alive
    <3>2. Cardinality(P) = 0
      BY <3>1, FS_EmptySet
    <3>3. Attempts(t) = 0 + (IF recorded THEN 1 ELSE 0)
      BY <3>2 DEF Attempts
    <3>. HIDE DEF recorded
    <3>. QED BY <3>3
  <2>. QED BY <2>2, <2>3
<1>2. ASSUME NEW t \in Tasks
      PROVE  /\ In(t, {p \in Alive : p.state = "ended"}) <=> EndedUp(t)
             /\ In(t, Alive) <=> Up(t)
             /\ t \in Elements(queued) <=> Has(queued, t)
  BY DEF In, Alive, EndedUp, Up, Elements, Has
<1>3. ASSUME NEW t \in Tasks
      PROVE  StageOf(t) = IF t.n > adds[t.name] THEN "none"
               ELSE IF Attempts(t) > 1 THEN "twice"
               ELSE IF In(t, results) THEN "reported"
               ELSE IF In(t, finished) \/ t \in daskDone \/ In(t, {p \in Alive : p.state = "ended"})
                    THEN "ended"
               ELSE IF t \in futures \/ In(t, Alive) THEN "running"
               ELSE IF t \in Elements(queued) THEN "queued" ELSE "dropped"
  BY <1>1, <1>2, Zenon DEF StageOf, IsLate
<1>. QED BY <1>3, Zenon DEF StagesKnown, Stage

(* A step of the pool as a step of TaskRuns. *)
StagesStay == \A t \in Tasks : StageOf(t)' = StageOf(t)
Moved(S, from, to) ==
  /\ \A t \in S : StageOf(t) = from
  /\ \A t \in Tasks : StageOf(t)' = IF t \in S THEN to ELSE StageOf(t)
Dropped ==
  \A t \in Tasks :
    StageOf(t)' = IF StageOf(t) \in {"none", "reported"} THEN StageOf(t) ELSE "dropped"
Stepped ==
  \/ StagesStay \/ Dropped
  \/ \E S \in SUBSET Tasks :
        \/ Moved(S, "none", "queued") \/ Moved(S, "queued", "running")
        \/ Moved(S, "running", "ended") \/ Moved(S, "ended", "reported")

LEMMA SteppedIsStep ==
  ASSUME StagesKnown, StagesKnown', Stepped
  PROVE  [Runs!Next]_Stage
<1>1. /\ Stage = [t \in Tasks |-> StageOf(t)]
      /\ Stage' = [t \in Tasks |-> StageOf(t)']
  BY DEF StagesKnown
<1>2. \A t \in Tasks : Stage[t] = StageOf(t)
  BY <1>1
<1>3. CASE StagesStay
  <2>1. Stage' = Stage
    BY <1>1, <1>3 DEF StagesStay
  <2>. QED BY <2>1
<1>4. CASE Dropped
  <2>1. Runs!DropAll
    BY <1>1, <1>2, <1>4 DEF Dropped, Runs!DropAll
  <2>. QED BY <2>1 DEF Runs!Next
<1>5. ASSUME NEW S \in SUBSET Tasks, NEW from, NEW to, Moved(S, from, to)
      PROVE  Runs!Move(S, from, to)
  <2>1. \A t \in S : Stage[t] = from
    BY <1>2, <1>5 DEF Moved
  <2>2. Stage' = [t \in Tasks |-> IF t \in S THEN to ELSE Stage[t]]
    BY <1>1, <1>2, <1>5 DEF Moved
  <2>. QED BY <2>1, <2>2 DEF Runs!Move
<1>. QED BY <1>3, <1>4, <1>5 DEF Stepped, Runs!Next

-----------------------------------------------------------------------------
(* Facts that several steps need *)

LEMMA TaskParts ==
  ASSUME NEW t \in Tasks
  PROVE  /\ t.name \in Names /\ MaxAdds[t.name] \in Nat /\ t.n \in 1..MaxAdds[t.name]
         /\ t = [name |-> t.name, n |-> t.n]
BY PoolAssumption DEF Tasks

LEMMA SameProcess ==
  ASSUME NEW p \in Process, NEW q \in Process, p.id = q.id, p.task = q.task, p.state = q.state
  PROVE  p = q
BY DEF Process

(* The active task of a process that may still run. *)
LEMMA ProcessHasTask ==
  ASSUME TrackInv, PlaceInv, NEW p \in process, p.state # "signalled"
  PROVE  /\ p.id \in Ids /\ p.task \in Tasks /\ p.state \in {"running", "ended"}
         /\ \E a \in active \cup launched : a.id = p.id /\ a.task = p.task
         /\ Up(p.task)
<1>1. p \in Process
  BY DEF TrackInv, TypeInv
<1>2. p.id \in Ids /\ p.task \in Tasks /\ p.state \in {"running", "ended"}
  BY <1>1 DEF Process
<1>. QED BY <1>2 DEF PlaceInv, ProcessInv, Up

(* Dask and processes of the pool are not at work together. *)
LEMMA NoneUp ==
  ASSUME TrackInv, PlaceInv, worker # 0 \/ active = {}, launched = {}
  PROVE  \A t : ~Up(t) /\ ~EndedUp(t)
<1>1. \A p \in process : p.state = "signalled"
  <2>. SUFFICES ASSUME NEW p \in process, p.state # "signalled" PROVE FALSE
    OBVIOUS
  <2>1. PICK a \in active \cup launched : a.id = p.id
    BY ProcessHasTask
  <2>2. p.id # 0
    BY ProcessHasTask DEF Ids
  <2>. QED BY <2>1, <2>2 DEF TrackInv, WorkerInv
<1>. QED BY <1>1 DEF Up, EndedUp

(* A step that moves no task. *)
LEMMA PlacesUntouched ==
  ASSUME PlaceInv,
         UNCHANGED <<process, queued, active, finished, futures, daskDone, worker, launched,
                     granted, results, adds>>
  PROVE  PlaceInv' /\ StagesStay
<1>1. \A t : /\ Up(t)' <=> Up(t)
             /\ EndedUp(t)' <=> EndedUp(t)
             /\ IsOut(t)' <=> IsOut(t)
             /\ IsLate(t)' <=> IsLate(t)
             /\ In(t, results)' <=> In(t, results)
             /\ In(t, finished)' <=> In(t, finished)
             /\ In(t, launched)' <=> In(t, launched)
             /\ Has(queued, t)' <=> Has(queued, t)
  BY DEF Up, EndedUp, IsOut, IsLate, In, Has
<1>2. StagesStay
  BY <1>1 DEF StagesStay, StageOf
<1>3. PlaceTypes' /\ DaskInv'
  BY DEF PlaceInv, PlaceTypes, DaskInv
<1>4. AddedInv' /\ OnceInv'
  BY <1>1 DEF PlaceInv, AddedInv, OnceInv
<1>5. ProcessInv'
  BY DEF PlaceInv, ProcessInv
<1>6. GrantedInv'
  BY <1>1 DEF PlaceInv, GrantedInv
<1>7. NamesInv'
  BY <1>1 DEF PlaceInv, NamesInv, NoneTwice
<1>. QED BY <1>2, <1>3, <1>4, <1>5, <1>6, <1>7 DEF PlaceInv

LEMMA OtherStepsMoveNothing ==
  ASSUME PlaceInv,
         \/ \E b \in BOOLEAN : SubmitTasks(b)
         \/ AfterWait \/ EndDrain \/ GetFinishedTasks \/ OtherFinishes
         \/ UNCHANGED vars
  PROVE  PlaceInv' /\ Stepped
<1>1. UNCHANGED <<process, queued, active, finished, futures, daskDone, worker, launched,
                  granted, results, adds>>
  BY DEF SubmitTasks, AfterWait, EndDrain, GetFinishedTasks, OtherFinishes, vars, poolVars, opVars
<1>. QED BY <1>1, PlacesUntouched DEF Stepped

LEMMA AddTaskMoves ==
  ASSUME TrackInv, PlaceInv, UniqueNames, NEW n \in Names, AddTask(n)
  PROVE  PlaceInv' /\ Stepped
<1>1. PICK t : t = [name |-> n, n |-> adds[n] + 1]
  OBVIOUS
<1>2. /\ adds[n] < MaxAdds[n] /\ adds' = [adds EXCEPT ![n] = @ + 1]
      /\ queued' = Append(queued, t)
      /\ \A u \in Elements(queued) : u.name # n
      /\ (\A a \in active : a.task.name # n) /\ (\A f \in finished : f.task.name # n)
      /\ UNCHANGED <<process, active, finished, futures, daskDone, worker, launched, granted, results>>
  BY <1>1 DEF AddTask, UniqueNames, opVars
<1>3. /\ adds \in [Names -> Nat] /\ MaxAdds[n] \in Nat /\ queued \in Seq(Tasks)
  BY PoolAssumption DEF TrackInv, TypeInv
<1>4. t \in Tasks
  BY <1>1, <1>2, <1>3, NamesOfTasks
<1>5. t.name = n /\ t.n = adds[n] + 1
  BY <1>1
<1>6. \A u : Has(queued', u) <=> Has(queued, u) \/ u = t
  BY <1>2, <1>3, <1>4, AppendedOnce
<1>7. \A u \in Tasks : Has(queued, u) => u.name # n
  BY <1>2 DEF Has, Elements
<1>8. IsLate(t)
  BY <1>3, <1>5 DEF IsLate
<1>9. ~Has(queued, t) /\ ~IsOut(t)
  BY <1>4, <1>8 DEF PlaceInv, AddedInv
<1>10. \A u : /\ Up(u)' <=> Up(u)
              /\ EndedUp(u)' <=> EndedUp(u)
              /\ IsOut(u)' <=> IsOut(u)
              /\ In(u, results') <=> In(u, results)
              /\ In(u, finished') <=> In(u, finished)
              /\ In(u, launched') <=> In(u, launched)
  BY <1>2 DEF Up, EndedUp, IsOut, In
<1>11. \A u \in Tasks : IsLate(u)' <=> IsLate(u) /\ u # t
  <2>. SUFFICES ASSUME NEW u \in Tasks PROVE IsLate(u)' <=> IsLate(u) /\ u # t
    OBVIOUS
  <2>1. u.name \in Names /\ u.n \in Int /\ u = [name |-> u.name, n |-> u.n]
    BY TaskParts
  <2>2. CASE u.name # n
    BY <1>2, <1>3, <1>5, <2>1, <2>2 DEF IsLate
  <2>3. CASE u.name = n
    <3>1. adds[n] \in Nat /\ adds'[n] = adds[n] + 1
      BY <1>2, <1>3
    <3>2. u = t <=> u.n = adds[n] + 1
      BY <1>1, <2>1, <2>3
    <3>. QED BY <2>1, <2>3, <3>1, <3>2 DEF IsLate
  <2>. QED BY <2>2, <2>3
<1>12. Moved({t}, "none", "queued")
  <2>1. StageOf(t) = "none"
    BY <1>8 DEF StageOf
  <2>2. StageOf(t)' = "queued"
    <3>1. ~In(t, results') /\ ~In(t, finished') /\ t \notin daskDone' /\ t \notin futures'
          /\ ~Up(t)' /\ Has(queued', t) /\ ~IsLate(t)'
      BY <1>2, <1>4, <1>6, <1>9, <1>10, <1>11 DEF IsOut
    <3>2. ~EndedUp(t)'
      BY <3>1 DEF Up, EndedUp
    <3>. QED BY <3>1, <3>2 DEF StageOf
  <2>3. ASSUME NEW u \in Tasks, u # t
        PROVE  StageOf(u)' = StageOf(u)
    BY <1>2, <1>6, <1>10, <1>11, <2>3 DEF StageOf
  <2>. QED BY <2>1, <2>2, <2>3 DEF Moved
<1>13. PlaceTypes' /\ DaskInv'
  BY <1>2 DEF PlaceInv, PlaceTypes, DaskInv
<1>14. AddedInv'
  BY <1>6, <1>10, <1>11, <1>9 DEF PlaceInv, AddedInv
<1>15. OnceInv'
  <2>1. ~Up(t) /\ ~In(t, finished) /\ ~In(t, results) /\ t \notin futures /\ t \notin daskDone
    BY <1>9 DEF IsOut
  <2>. QED BY <1>2, <1>6, <1>10, <2>1 DEF PlaceInv, OnceInv
<1>16. ProcessInv'
  BY <1>2 DEF PlaceInv, ProcessInv
<1>17. GrantedInv'
  BY <1>2, <1>6 DEF PlaceInv, GrantedInv
<1>18. NamesInv'
  <2>1. NoneTwice(queued')
    BY <1>2, <1>3, <1>4, <1>9, AppendedOnce DEF PlaceInv, NamesInv
  <2>2. \A x, u \in Tasks : Has(queued', x) /\ Has(queued', u) /\ x.name = u.name => x = u
    BY <1>5, <1>6, <1>7 DEF PlaceInv, NamesInv
  <2>3. /\ \A a \in active, u \in Tasks : Has(queued', u) => u.name # a.task.name
        /\ \A f \in finished, u \in Tasks : Has(queued', u) => u.name # f.task.name
    BY <1>2, <1>5, <1>6 DEF PlaceInv, NamesInv
  <2>. QED BY <1>2, <2>1, <2>2, <2>3 DEF PlaceInv, NamesInv
<1>. QED BY <1>4, <1>12, <1>13, <1>14, <1>15, <1>16, <1>17, <1>18 DEF PlaceInv, Stepped

(* What is handed out is queued, and no task is given twice. *)
GivenOf(r, k) ==
  /\ \A i \in DOMAIN r.given : \E j \in 1..k : queued[j] = r.given[i].task
  /\ \A i, j \in DOMAIN r.given : r.given[i].task = r.given[j].task => i = j

LEMMA AttemptGives ==
  ASSUME BooksInv, BadCommand = {}, NoneTwice(queued), NEW k \in 1..Len(queued),
         NEW r \in Outcomes, Sound(r), GivenOf(r, k - 1)
  PROVE  GivenOf(Attempt(r, queued[k]), k)
<1>. DEFINE R == Attempt(r, queued[k])
            t == queued[k]
            g == [id |-> IdFor(r), task |-> t]
<1>0. t \in Tasks /\ k \in DOMAIN queued /\ Len(queued) \in Nat /\ DOMAIN queued = 1..Len(queued)
  BY DEF BooksInv, TypeInv
<1>1. \A i \in DOMAIN r.given : \E j \in 1..(k - 1) : queued[j] = r.given[i].task
  BY DEF GivenOf
<1>2. \A j \in 1..(k - 1) : j \in 1..k /\ j \in DOMAIN queued /\ j # k
  BY <1>0
<1>3. CASE R = r
  BY <1>2, <1>3 DEF GivenOf
<1>4. CASE R = Released(Nothing)
  BY <1>4 DEF GivenOf, Released, Nothing
<1>5. CASE R = HandedOut(r, t)
  <2>1. R.given = Append(r.given, g) /\ r.given \in Seq(Grant)
    BY <1>5 DEF HandedOut, Outcomes
  <2>2. g.task = t
    OBVIOUS
  <2>. HIDE DEF g, R
  <2>3. PICK G : G = Append(r.given, g)
    OBVIOUS
  <2>4. /\ DOMAIN G = DOMAIN r.given \cup {Len(r.given) + 1}
        /\ G[Len(r.given) + 1] = g /\ \A j \in DOMAIN r.given : G[j] = r.given[j]
    BY <2>1, <2>3
  <2>5. \A i \in DOMAIN r.given : r.given[i].task # t
    BY <1>0, <1>1, <1>2 DEF NoneTwice
  <2>6. \A i \in DOMAIN G : \E j \in 1..k : queued[j] = G[i].task
    BY <1>0, <1>1, <1>2, <2>2, <2>4
  <2>7. \A i, j \in DOMAIN G : G[i].task = G[j].task => i = j
    BY <2>2, <2>4, <2>5 DEF GivenOf
  <2>8. R.given = G
    BY <2>1, <2>3
  <2>9. /\ \A i \in DOMAIN R.given : \E j \in 1..k : queued[j] = R.given[i].task
        /\ \A i, j \in DOMAIN R.given : R.given[i].task = R.given[j].task => i = j
    BY <2>6, <2>7, <2>8, Zenon
  <2>10. GivenOf(R, k)
    BY <2>9, Zenon DEF GivenOf
  <2>. QED BY <2>10 DEF R
<1>. QED BY <1>0, <1>3, <1>4, <1>5, AttemptCases

LEMMA OutcomeGivenOnce ==
  ASSUME BooksInv, BadCommand = {}, NoneTwice(queued)
  PROVE  GivenOf(InitTaskPool, Len(queued))
<1>1. PICK f : ByAttempts(f)
  BY OutcomeByAttempts
<1>. DEFINE n == Len(queued)
            Y == {k \in 0..n : GivenOf(f[k], k)}
<1>2. n \in Nat
  BY DEF BooksInv, TypeInv
<1>3. 0 \in Y
  BY <1>1, <1>2 DEF ByAttempts, Nothing, GivenOf
<1>4. ASSUME NEW k \in 1..n, k - 1 \in Y PROVE k \in Y
  <2>1. f[k] = Attempt(f[k - 1], queued[k])
    BY <1>1 DEF ByAttempts
  <2>2. k - 1 \in 0..n /\ k \in 0..n /\ GivenOf(f[k - 1], k - 1)
    BY <1>2, <1>4
  <2>3. f[k - 1] \in Outcomes /\ Sound(f[k - 1])
    BY <1>1, <2>2 DEF ByAttempts
  <2>4. GivenOf(Attempt(f[k - 1], queued[k]), k)
    BY <2>2, <2>3, AttemptGives
  <2>. QED BY <2>1, <2>2, <2>4
<1>5. \A k \in 0..n : k \in Y
  <2>. HIDE DEF Y
  <2>. QED BY <1>2, <1>3, <1>4, CountUp
<1>6. n \in 0..n
  BY <1>2
<1>. QED BY <1>1, <1>5, <1>6 DEF ByAttempts

-----------------------------------------------------------------------------
(* Processes: one is started, some are told to end or have ended *)

LEMMA LaunchTaskPoolMoves ==
  ASSUME TrackInv, PlaceInv, Careful, LaunchTaskPool
  PROVE  PlaceInv' /\ Stepped
<1>1. PICK r : r = InitTaskPool
  OBVIOUS
<1>2. r \in Outcomes /\ Sound(r)
  BY <1>1, OutcomeIsSound DEF BooksInv, TrackInv, Tracked, Careful
<1>3. /\ at = "launch" /\ (granted' = r.given \/ granted' = <<>>)
      /\ UNCHANGED <<process, queued, active, finished, futures, daskDone, worker, launched,
                     results, adds>>
  BY <1>1 DEF LaunchTaskPool, poolVars
<1>4. launched = {} /\ granted = <<>>
  BY <1>3 DEF TrackInv, LaunchInv
<1>5. \A t : /\ Up(t)' <=> Up(t)
             /\ EndedUp(t)' <=> EndedUp(t)
             /\ IsOut(t)' <=> IsOut(t)
             /\ IsLate(t)' <=> IsLate(t)
             /\ In(t, results') <=> In(t, results)
             /\ In(t, finished') <=> In(t, finished)
             /\ In(t, launched') <=> In(t, launched)
             /\ Has(queued', t) <=> Has(queued, t)
  BY <1>3 DEF Up, EndedUp, IsOut, IsLate, In, Has
<1>6. StagesStay
  BY <1>3, <1>5 DEF StagesStay, StageOf
<1>7. PlaceTypes' /\ DaskInv' /\ ProcessInv' /\ NamesInv'
  BY <1>3 DEF PlaceInv, PlaceTypes, DaskInv, ProcessInv, NamesInv
<1>8. AddedInv' /\ OnceInv'
  BY <1>3, <1>5 DEF PlaceInv, AddedInv, OnceInv
<1>9. GrantedInv'
  <2>1. CASE granted' = <<>>
    BY <1>3, <1>4, <2>1 DEF GrantedInv
  <2>2. CASE granted' = r.given
    <3>1. /\ \A k \in DOMAIN r.given : Has(queued, r.given[k].task)
          /\ \A j, k \in DOMAIN r.given : r.given[j].task = r.given[k].task => j = k
      <4>1. GivenOf(r, Len(queued))
        BY <1>1, OutcomeGivenOnce DEF BooksInv, TrackInv, Tracked, Careful, PlaceInv, NamesInv
      <4>2. DOMAIN queued = 1..Len(queued)
        BY DEF TrackInv, TypeInv
      <4>. QED BY <4>1, <4>2 DEF GivenOf, Has
    <3>2. \A k \in DOMAIN r.given : \A p \in process : p.id # r.given[k].id
      <4>. SUFFICES ASSUME NEW k \in DOMAIN r.given, NEW p \in process, p.id = r.given[k].id
                    PROVE  FALSE
        OBVIOUS
      <4>1. PICK a \in r.allocated : a.id = p.id
        BY <1>2 DEF Sound
      <4>2. a.id \notin UsedIds
        BY <1>2 DEF Sound
      <4>. QED BY <4>1, <4>2 DEF UsedIds
    <3>. QED BY <1>3, <1>4, <2>2, <3>1, <3>2 DEF GrantedInv, In
  <2>. QED BY <1>3, <2>1, <2>2
<1>. QED BY <1>6, <1>7, <1>8, <1>9 DEF PlaceInv, Stepped

LEMMA StartProcessMoves ==
  ASSUME TrackInv, PlaceInv, Careful, StartProcess
  PROVE  PlaceInv' /\ Stepped
<1>1. PICK g : g = Head(granted)
  OBVIOUS
<1>2. PICK s : s = Tail(granted)
  OBVIOUS
<1>3. PICK p : p = [id |-> g.id, task |-> g.task, state |-> "running"]
  OBVIOUS
<1>4. /\ at = "popen" /\ granted # <<>> /\ process' = process \cup {p}
      /\ launched' = launched \cup {g} /\ granted' = s
      /\ UNCHANGED <<queued, active, finished, futures, daskDone, worker, results, adds>>
  BY <1>1, <1>2, <1>3 DEF StartProcess, Careful, poolVars
<1>5. granted \in Seq(Grant) /\ worker = 0
  BY <1>4 DEF TrackInv, TypeInv, WorkerInv
<1>6. /\ g \in Grant /\ 1 \in DOMAIN granted /\ granted[1] = g
      /\ \A k \in DOMAIN s : k + 1 \in DOMAIN granted /\ s[k] = granted[k + 1] /\ k + 1 # 1
      /\ \A j, k \in DOMAIN s : j + 1 = k + 1 => j = k
  BY <1>1, <1>2, <1>4, <1>5, HeadAndTail
<1>7. PICK t : t = g.task
  OBVIOUS
<1>8. t \in Tasks /\ g.id # 0 /\ p.id = g.id /\ p.task = t /\ p.state = "running"
  BY <1>3, <1>6, <1>7 DEF Grant, Ids
<1>9. /\ Has(queued, t) /\ ~In(t, launched)
      /\ \A q \in process : q.id # p.id
  BY <1>6, <1>7, <1>8 DEF PlaceInv, GrantedInv
<1>10. ~IsLate(t) /\ ~Up(t) /\ ~In(t, finished) /\ ~In(t, results) /\ t \notin futures
       /\ t \notin daskDone
  BY <1>8, <1>9 DEF PlaceInv, OnceInv, AddedInv
<1>11. \A u : /\ Up(u)' <=> Up(u) \/ u = t
              /\ EndedUp(u)' <=> EndedUp(u)
              /\ IsLate(u)' <=> IsLate(u)
              /\ IsOut(u)' <=> IsOut(u) \/ u = t
              /\ In(u, results') <=> In(u, results)
              /\ In(u, finished') <=> In(u, finished)
              /\ In(u, launched') <=> In(u, launched) \/ u = t
              /\ Has(queued', u) <=> Has(queued, u)
  BY <1>4, <1>7, <1>8 DEF Up, EndedUp, IsOut, IsLate, In, Has
<1>12. ~EndedUp(t)
  BY <1>10 DEF Up, EndedUp
<1>13. Moved({t}, "queued", "running")
  <2>1. StageOf(t) = "queued" /\ StageOf(t)' = "running"
    BY <1>4, <1>9, <1>10, <1>11, <1>12 DEF StageOf
  <2>2. \A u \in Tasks : u # t => StageOf(u)' = StageOf(u)
    BY <1>4, <1>11 DEF StageOf
  <2>. QED BY <2>1, <2>2 DEF Moved
<1>14. PlaceTypes' /\ DaskInv' /\ NamesInv'
  BY <1>4 DEF PlaceInv, PlaceTypes, DaskInv, NamesInv
<1>15. AddedInv'
  BY <1>10, <1>11 DEF PlaceInv, AddedInv
<1>16. OnceInv'
  BY <1>4, <1>10, <1>11 DEF PlaceInv, OnceInv
<1>17. ProcessInv'
  <2>1. \A q, r \in process' : q.id = r.id => q = r
    BY <1>4, <1>9 DEF PlaceInv, ProcessInv
  <2>2. \A q \in process : q.state # "signalled" => q.task # t
    BY <1>10 DEF Up
  <2>3. \A q, r \in process' :
          q.task = r.task /\ q.state # "signalled" /\ r.state # "signalled" => q = r
    BY <1>4, <1>8, <2>2 DEF PlaceInv, ProcessInv
  <2>4. \A a \in active' \cup launched' : a.id # 0 =>
          \E q \in process' : q.id = a.id /\ q.task = a.task /\ q.state # "signalled"
    <3>1. p \in process' /\ p.id = g.id /\ p.task = g.task /\ p.state # "signalled"
      BY <1>4, <1>7, <1>8
    <3>2. \A a \in active \cup launched : a.id # 0 =>
            \E q \in process' : q.id = a.id /\ q.task = a.task /\ q.state # "signalled"
      BY <1>4 DEF PlaceInv, ProcessInv
    <3>. QED BY <1>4, <3>1, <3>2
  <2>5. \A q \in process' : q.state # "signalled" =>
          \E a \in active' \cup launched' : a.id = q.id /\ a.task = q.task
    BY <1>4, <1>7, <1>8 DEF PlaceInv, ProcessInv
  <2>. QED BY <2>1, <2>3, <2>4, <2>5 DEF ProcessInv
<1>18. GrantedInv'
  <2>1. \A a \in launched' : Has(queued', a.task)
    BY <1>4, <1>7, <1>9, <1>11 DEF PlaceInv, GrantedInv
  <2>2. \A k \in DOMAIN s : s[k].task # t /\ s[k].id # p.id
    BY <1>6, <1>7, <1>8 DEF PlaceInv, GrantedInv, TrackInv, IdsDiffer
  <2>3. \A k \in DOMAIN s : /\ Has(queued', s[k].task)
                            /\ ~In(s[k].task, launched')
                            /\ \A q \in process' : q.id # s[k].id
    <3>. SUFFICES ASSUME NEW k \in DOMAIN s
                  PROVE  /\ Has(queued', s[k].task)
                         /\ ~In(s[k].task, launched')
                         /\ \A q \in process' : q.id # s[k].id
      OBVIOUS
    <3>1. PICK j \in DOMAIN granted : s[k] = granted[j]
      BY <1>6
    <3>2. /\ Has(queued, s[k].task) /\ ~In(s[k].task, launched)
          /\ \A q \in process : q.id # s[k].id
      BY <3>1 DEF PlaceInv, GrantedInv
    <3>. QED BY <1>4, <1>11, <2>2, <3>2
  <2>4. \A j, k \in DOMAIN s : s[j].task = s[k].task => j = k
    BY <1>6 DEF PlaceInv, GrantedInv
  <2>. QED BY <1>4, <2>1, <2>3, <2>4 DEF GrantedInv
<1>. QED BY <1>8, <1>13, <1>14, <1>15, <1>16, <1>17, <1>18 DEF PlaceInv, Stepped

LEMMA ActivateMoves ==
  ASSUME TrackInv, PlaceInv, Activate
  PROVE  PlaceInv' /\ Stepped
<1>1. PICK S : S = {g.task : g \in launched}
  OBVIOUS
<1>2. /\ at = "popen" /\ granted = <<>> /\ active' = active \cup launched /\ launched' = {}
      /\ queued' = Filter(queued, Tasks \ S)
      /\ UNCHANGED <<process, finished, futures, daskDone, worker, granted, results, adds>>
  BY <1>1 DEF Activate, StillQueued
<1>3. worker = 0 /\ (\A a \in active : a.id # 0) /\ launched \subseteq Grant
      /\ queued \in Seq(Tasks) /\ active \subseteq [id : Nat, task : Tasks]
  BY <1>2 DEF TrackInv, WorkerInv, TypeInv
<1>4. \A t : t \in S <=> In(t, launched)
  BY <1>1 DEF In
<1>5. /\ \A t \in Tasks : Has(queued', t) <=> Has(queued, t) /\ ~In(t, launched)
      /\ NoneTwice(queued')
  BY <1>2, <1>3, <1>4, FilterProperties DEF PlaceInv, NamesInv
<1>6. ASSUME NEW a \in launched
      PROVE  a.id # 0 /\ a.task \in Tasks /\ Has(queued, a.task) /\ Up(a.task)
  <2>1. a.id # 0 /\ a.task \in Tasks
    BY <1>3 DEF Grant, Ids
  <2>2. Up(a.task)
    BY <2>1 DEF PlaceInv, ProcessInv, Up
  <2>. QED BY <2>1, <2>2 DEF PlaceInv, GrantedInv
<1>7. \A t : /\ Up(t)' <=> Up(t)
             /\ EndedUp(t)' <=> EndedUp(t)
             /\ IsLate(t)' <=> IsLate(t)
             /\ IsOut(t)' <=> IsOut(t)
             /\ In(t, results') <=> In(t, results)
             /\ In(t, finished') <=> In(t, finished)
  BY <1>2 DEF Up, EndedUp, IsLate, IsOut, In
<1>8. \A t : In(t, launched) => Up(t)
  BY <1>6 DEF In
<1>9. StagesStay
  BY <1>2, <1>5, <1>7, <1>8 DEF StagesStay, StageOf
<1>10. PlaceTypes' /\ DaskInv'
  BY <1>2 DEF PlaceInv, PlaceTypes, DaskInv
<1>11. AddedInv'
  BY <1>5, <1>7 DEF PlaceInv, AddedInv
<1>12. OnceInv'
  BY <1>2, <1>5, <1>7 DEF PlaceInv, OnceInv
<1>13. ProcessInv'
  <2>1. active' \cup launched' = active \cup launched
    BY <1>2
  <2>. QED BY <1>2, <2>1 DEF PlaceInv, ProcessInv
<1>14. GrantedInv'
  BY <1>2 DEF GrantedInv
<1>15. NamesInv'
  <2>1. \A t, u \in Tasks : Has(queued', t) /\ Has(queued', u) /\ t.name = u.name => t = u
    BY <1>5 DEF PlaceInv, NamesInv
  <2>2. ASSUME NEW a \in launched, NEW b \in launched, a.task.name = b.task.name
        PROVE  a = b
    <3>1. a.task = b.task
      BY <1>6, <2>2 DEF PlaceInv, NamesInv
    <3>2. PICK p \in process : p.id = a.id /\ p.task = a.task /\ p.state # "signalled"
      BY <1>6 DEF PlaceInv, ProcessInv
    <3>3. PICK q \in process : q.id = b.id /\ q.task = b.task /\ q.state # "signalled"
      BY <1>6 DEF PlaceInv, ProcessInv
    <3>4. p = q
      BY <3>1, <3>2, <3>3 DEF PlaceInv, ProcessInv
    <3>. QED BY <1>6, <3>2, <3>3, <3>4 DEF TrackInv, IdsDiffer
  <2>3. \A a \in launched, b \in active : a.task.name # b.task.name
    BY <1>6 DEF PlaceInv, NamesInv
  <2>4. \A a, b \in active' : a.task.name = b.task.name => a = b
    BY <1>2, <2>2, <2>3 DEF PlaceInv, NamesInv
  <2>5. ASSUME NEW a \in launched, NEW t \in Tasks, Has(queued', t), t.name = a.task.name
        PROVE  FALSE
    <3>1. Has(queued, t) /\ ~In(t, launched)
      BY <1>5, <2>5
    <3>2. t = a.task
      BY <1>6, <2>5, <3>1 DEF PlaceInv, NamesInv
    <3>. QED BY <3>1, <3>2 DEF In
  <2>6. \A a \in active', t \in Tasks : Has(queued', t) => t.name # a.task.name
    BY <1>2, <1>5, <2>5 DEF PlaceInv, NamesInv
  <2>7. \A f \in finished', t \in Tasks : Has(queued', t) => t.name # f.task.name
    BY <1>2, <1>5 DEF PlaceInv, NamesInv
  <2>8. \A f \in finished', a \in active' : f.task.name # a.task.name
    BY <1>2, <1>6 DEF PlaceInv, NamesInv
  <2>. QED BY <1>5, <2>1, <2>4, <2>6, <2>7, <2>8 DEF NamesInv
<1>. QED BY <1>9, <1>10, <1>11, <1>12, <1>13, <1>14, <1>15 DEF PlaceInv, Stepped

LEMMA ChangedProcesses ==
  ASSUME TrackInv, PlaceInv, NEW I, NEW st \in {"ended", "signalled"},
         process' = {IF p.id \in I THEN [p EXCEPT !.state = st] ELSE p : p \in process}
  PROVE  /\ \A r \in process' : \E p \in process :
              /\ r.id = p.id /\ r.task = p.task
              /\ IF p.id \in I THEN r.state = st ELSE r.state = p.state
         /\ \A p \in process : \E r \in process' :
              /\ r.id = p.id /\ r.task = p.task
              /\ IF p.id \in I THEN r.state = st ELSE r.state = p.state
         /\ \A q, r \in process' : q.id = r.id => q = r
<1>. DEFINE c == [p \in process |-> IF p.id \in I THEN [p EXCEPT !.state = st] ELSE p]
<1>1. process \subseteq Process
  BY DEF TrackInv, TypeInv
<1>2. process' = {c[p] : p \in process}
  OBVIOUS
<1>3. \A p \in process : /\ c[p].id = p.id /\ c[p].task = p.task
                         /\ IF p.id \in I THEN c[p].state = st ELSE c[p].state = p.state
  BY <1>1 DEF Process
<1>. HIDE DEF c
<1>4. \A q, r \in process' : q.id = r.id => q = r
  BY <1>2, <1>3 DEF PlaceInv, ProcessInv
<1>. QED BY <1>2, <1>3, <1>4

LEMMA CollectTaskMoves ==
  ASSUME TrackInv, PlaceInv, NEW a \in active, CollectTask(a)
  PROVE  PlaceInv' /\ Stepped
<1>1. PICK t : t = a.task
  OBVIOUS
<1>2. /\ at \in {"before", "wait", "drain", "get"} /\ active' = active \ {a}
      /\ UNCHANGED <<queued, futures, daskDone, worker, granted, launched, results, adds>>
  BY DEF CollectTask
<1>3. /\ granted = <<>> /\ launched = {} /\ worker = 0 /\ futures = {} /\ daskDone = {}
      /\ a.id # 0 /\ t \in Tasks
  BY <1>1, <1>2 DEF TrackInv, LaunchInv, WorkerInv, PlaceInv, DaskInv, TypeInv
<1>4. PICK p \in process : p.id = a.id /\ p.task = t /\ p.state # "signalled"
  BY <1>1, <1>3 DEF PlaceInv, ProcessInv
<1>5. /\ \A q \in process : q.id = a.id => q = p
      /\ \A q \in process : q.task = t /\ q.state # "signalled" => q = p
  BY <1>4 DEF PlaceInv, ProcessInv
<1>6. Up(t)
  BY <1>4 DEF Up
<1>7. /\ ~In(t, finished) /\ ~In(t, results) /\ ~IsLate(t) /\ ~Has(queued, t)
  BY <1>3, <1>6 DEF PlaceInv, OnceInv, AddedInv, IsOut, In
(* Both ways of collecting it: what happens to the processes. *)
<1>8. /\ \A q, r \in process' : q.id = r.id => q = r
      /\ \A r \in process' : r.state # "signalled" => r \in process /\ r.id # a.id
      /\ \A q \in process : q.id # a.id /\ q.state # "signalled" =>
           \E r \in process' : r.id = q.id /\ r.task = q.task /\ r.state = q.state
  <2>1. CASE process' = {q \in process : q.id # a.id}
    BY <2>1 DEF PlaceInv, ProcessInv
  <2>2. CASE process' = Become(a.id, "signalled")
    <3>1. PICK I : I = {a.id}
      OBVIOUS
    <3>2. process' = {IF q.id \in I THEN [q EXCEPT !.state = "signalled"] ELSE q : q \in process}
      BY <2>2, <3>1 DEF Become
    <3>3. /\ \A r \in process' : \E q \in process :
               /\ r.id = q.id /\ r.task = q.task
               /\ IF q.id \in I THEN r.state = "signalled" ELSE r.state = q.state
          /\ \A q \in process : \E r \in process' :
               /\ r.id = q.id /\ r.task = q.task
               /\ IF q.id \in I THEN r.state = "signalled" ELSE r.state = q.state
          /\ \A q, r \in process' : q.id = r.id => q = r
      BY <3>2, ChangedProcesses
    <3>4. process' \subseteq Process /\ process \subseteq Process
      <4>1. process \subseteq Process
        BY DEF TrackInv, TypeInv
      <4>2. \A q \in Process : [q EXCEPT !.state = "signalled"] \in Process
        BY DEF Process
      <4>. QED BY <3>2, <4>1, <4>2
    <3>5. ASSUME NEW r \in process', r.state # "signalled"
          PROVE  r \in process /\ r.id # a.id
      <4>1. PICK q \in process : /\ r.id = q.id /\ r.task = q.task
                                 /\ IF q.id \in I THEN r.state = "signalled" ELSE r.state = q.state
        BY <3>3
      <4>2. q.id \notin I /\ r.state = q.state
        BY <3>5, <4>1
      <4>3. r = q
        BY <3>4, <4>1, <4>2, SameProcess
      <4>. QED BY <3>1, <4>1, <4>2, <4>3
    <3>. QED BY <3>1, <3>3, <3>5
  <2>. QED BY <2>1, <2>2 DEF CollectTask
<1>9. \A u : /\ Up(u)' <=> Up(u) /\ u # t
             /\ EndedUp(u)' <=> EndedUp(u) /\ u # t
  <2>1. \A r \in process' : r.state # "signalled" => r.task # t
    BY <1>4, <1>5, <1>8
  <2>2. \A q \in process : q.state # "signalled" /\ q.task # t => q.id # a.id
    BY <1>4, <1>5
  <2>. QED BY <1>8, <2>1, <2>2 DEF Up, EndedUp
<1>10. PICK f \in Records : f.task = t /\ finished' = finished \cup {f}
  <2>1. {g \in finished : g.task.name # a.task.name} = finished
    BY DEF PlaceInv, NamesInv
  <2>2. PICK st \in {"ended", "timeout"} : finished' = Recorded(a, st)
    BY DEF CollectTask
  <2>3. PICK f : f = [task |-> t, status |-> st]
    OBVIOUS
  <2>4. f \in Records /\ f.task = t
    BY <1>3, <2>3 DEF Records
  <2>. QED BY <1>1, <2>1, <2>2, <2>3, <2>4 DEF Recorded
<1>11. \A u : /\ IsLate(u)' <=> IsLate(u)
              /\ In(u, results') <=> In(u, results)
              /\ In(u, finished') <=> In(u, finished) \/ u = t
              /\ In(u, launched') <=> In(u, launched)
              /\ Has(queued', u) <=> Has(queued, u)
  BY <1>2, <1>10 DEF IsLate, In, Has
<1>12. Stepped
  <2>1. \A u \in Tasks : u # t => StageOf(u)' = StageOf(u)
    BY <1>2, <1>9, <1>11 DEF StageOf
  <2>2. StageOf(t)' = "ended"
    BY <1>7, <1>11 DEF StageOf
  <2>3. CASE EndedUp(t)
    <3>1. StageOf(t) = "ended"
      BY <1>7, <2>3 DEF StageOf
    <3>. QED BY <2>1, <2>2, <3>1 DEF Stepped, StagesStay
  <2>4. CASE ~EndedUp(t)
    <3>1. StageOf(t) = "running"
      BY <1>3, <1>6, <1>7, <2>4 DEF StageOf
    <3>2. Moved({t}, "running", "ended")
      BY <2>1, <2>2, <3>1 DEF Moved
    <3>. QED BY <1>3, <3>2 DEF Stepped
  <2>. QED BY <2>3, <2>4
<1>13. PlaceTypes' /\ DaskInv'
  BY <1>2, <1>3, <1>10 DEF PlaceInv, PlaceTypes, DaskInv
<1>14. AddedInv'
  BY <1>2, <1>3, <1>7, <1>9, <1>11 DEF PlaceInv, AddedInv, IsOut
<1>15. OnceInv'
  BY <1>2, <1>3, <1>7, <1>9, <1>11 DEF PlaceInv, OnceInv
<1>16. ProcessInv'
  <2>1. \A q, r \in process' :
          q.task = r.task /\ q.state # "signalled" /\ r.state # "signalled" => q = r
    BY <1>8 DEF PlaceInv, ProcessInv
  <2>2. ASSUME NEW b \in active' \cup launched', b.id # 0
        PROVE  \E q \in process' : q.id = b.id /\ q.task = b.task /\ q.state # "signalled"
    <3>1. b \in active /\ b.id # a.id
      BY <1>2, <1>3, <2>2 DEF TrackInv, IdsDiffer
    <3>2. PICK q \in process : q.id = b.id /\ q.task = b.task /\ q.state # "signalled"
      BY <2>2, <3>1 DEF PlaceInv, ProcessInv
    <3>3. PICK r \in process' : r.id = q.id /\ r.task = q.task /\ r.state = q.state
      BY <1>8, <3>1, <3>2
    <3>. QED BY <3>2, <3>3
  <2>3. ASSUME NEW r \in process', r.state # "signalled"
        PROVE  \E b \in active' \cup launched' : b.id = r.id /\ b.task = r.task
    <3>1. r \in process /\ r.id # a.id
      BY <1>8, <2>3
    <3>2. PICK b \in active \cup launched : b.id = r.id /\ b.task = r.task
      BY <2>3, <3>1 DEF PlaceInv, ProcessInv
    <3>. QED BY <1>2, <1>3, <3>1, <3>2
  <2>. QED BY <1>8, <2>1, <2>2, <2>3 DEF ProcessInv
<1>17. GrantedInv'
  BY <1>2, <1>3 DEF GrantedInv
<1>18. NamesInv'
  <2>1. \A u \in Tasks : Has(queued, u) => u.name # f.task.name
    BY <1>1, <1>10 DEF PlaceInv, NamesInv
  <2>2. \A b \in active' : f.task.name # b.task.name
    BY <1>1, <1>2, <1>10 DEF PlaceInv, NamesInv
  <2>3. /\ \A g \in finished', u \in Tasks : Has(queued, u) => u.name # g.task.name
        /\ \A g \in finished', b \in active' : g.task.name # b.task.name
    BY <1>2, <1>10, <2>1, <2>2 DEF PlaceInv, NamesInv
  <2>. QED BY <1>2, <1>11, <2>3 DEF PlaceInv, NamesInv
<1>. QED BY <1>12, <1>13, <1>14, <1>15, <1>16, <1>17, <1>18 DEF PlaceInv

LEMMA ProcessEndsMoves ==
  ASSUME TrackInv, PlaceInv, NEW p \in process, ProcessEnds(p)
  PROVE  PlaceInv' /\ Stepped
<1>1. UNCHANGED <<queued, active, finished, futures, daskDone, worker, granted, launched,
                  results, adds>>
  BY DEF ProcessEnds, poolVars, opVars
<1>2. \A u : /\ IsLate(u)' <=> IsLate(u)
             /\ In(u, results') <=> In(u, results)
             /\ In(u, finished') <=> In(u, finished)
             /\ In(u, launched') <=> In(u, launched)
             /\ Has(queued', u) <=> Has(queued, u)
  BY <1>1 DEF IsLate, In, Has
(* The processes stay what they are, except that one may have ended. *)
<1>3. /\ \A q, r \in process' : q.id = r.id => q = r
      /\ \A r \in process' : \E q \in process :
           /\ r.id = q.id /\ r.task = q.task /\ (r.state = "signalled" <=> q.state = "signalled")
           /\ r.state = q.state \/ (q = p /\ r.state = "ended")
      /\ \A q \in process : q.state # "signalled" => \E r \in process' :
           /\ r.id = q.id /\ r.task = q.task /\ r.state # "signalled"
           /\ IF q = p THEN r.state = "ended" ELSE r.state = q.state
  <2>1. CASE p.state = "signalled" /\ process' = process \ {p}
    BY <2>1 DEF PlaceInv, ProcessInv
  <2>2. CASE p.state = "running" /\ process' = Become(p.id, "ended")
    <3>1. PICK I : I = {p.id}
      OBVIOUS
    <3>2. process' = {IF q.id \in I THEN [q EXCEPT !.state = "ended"] ELSE q : q \in process}
      BY <2>2, <3>1 DEF Become
    <3>3. /\ \A r \in process' : \E q \in process :
               /\ r.id = q.id /\ r.task = q.task
               /\ IF q.id \in I THEN r.state = "ended" ELSE r.state = q.state
          /\ \A q \in process : \E r \in process' :
               /\ r.id = q.id /\ r.task = q.task
               /\ IF q.id \in I THEN r.state = "ended" ELSE r.state = q.state
          /\ \A q, r \in process' : q.id = r.id => q = r
      BY <3>2, ChangedProcesses
    <3>4. \A q \in process : q.id \in I <=> q = p
      BY <3>1 DEF PlaceInv, ProcessInv
    <3>. QED BY <2>2, <3>3, <3>4
  <2>. QED BY <2>1, <2>2 DEF ProcessEnds
<1>4. \A u : Up(u)' <=> Up(u)
  BY <1>3 DEF Up
<1>5. \A u : IsOut(u)' <=> IsOut(u)
  BY <1>1, <1>2, <1>4 DEF IsOut
<1>6. Stepped
  <2>1. CASE p.state = "signalled"
    <3>1. \A u : EndedUp(u)' <=> EndedUp(u)
      <4>1. \A r \in process' : \E q \in process : r.task = q.task /\ r.state = q.state
        BY <1>3, <2>1
      <4>2. \A q \in process : q.state = "ended" => \E r \in process' :
              r.task = q.task /\ r.state = q.state
        BY <1>3, <2>1
      <4>. QED BY <4>1, <4>2 DEF EndedUp
    <3>2. StagesStay
      BY <1>1, <1>2, <1>4, <3>1 DEF StagesStay, StageOf
    <3>. QED BY <3>2 DEF Stepped
  <2>2. CASE p.state # "signalled"
    <3>1. PICK t : t = p.task
      OBVIOUS
    <3>2. t \in Tasks /\ Up(t)
      BY <2>2, <3>1, ProcessHasTask
    <3>3. worker = 0 /\ futures = {} /\ daskDone = {}
      <4>1. PICK a \in active \cup launched : a.id = p.id
        BY <2>2, ProcessHasTask
      <4>2. p.id # 0
        BY <2>2, ProcessHasTask DEF Ids
      <4>3. worker = 0
        BY <4>1, <4>2 DEF TrackInv, WorkerInv, LaunchInv
      <4>. QED BY <4>3 DEF PlaceInv, DaskInv
    <3>4. ~In(t, results) /\ ~In(t, finished) /\ ~IsLate(t)
      BY <3>2 DEF PlaceInv, OnceInv, AddedInv, IsOut
    <3>5. p.state = "running"
      BY <2>2 DEF ProcessEnds
    <3>6. \A q \in process : q.task = t /\ q.state # "signalled" => q = p
      BY <2>2, <3>1 DEF PlaceInv, ProcessInv
    <3>7. ~EndedUp(t)
      BY <3>5, <3>6 DEF EndedUp
    <3>8. EndedUp(t)'
      BY <1>3, <2>2, <3>1 DEF EndedUp
    <3>9. \A u : u # t => (EndedUp(u)' <=> EndedUp(u))
      BY <1>3, <3>1 DEF EndedUp
    <3>10. StageOf(t) = "running" /\ StageOf(t)' = "ended"
      BY <1>2, <3>2, <3>3, <3>4, <3>7, <3>8 DEF StageOf
    <3>11. \A u \in Tasks : u # t => StageOf(u)' = StageOf(u)
      BY <1>1, <1>2, <1>4, <3>9 DEF StageOf
    <3>12. Moved({t}, "running", "ended")
      BY <3>10, <3>11 DEF Moved
    <3>. QED BY <3>2, <3>12 DEF Stepped
  <2>. QED BY <2>1, <2>2
<1>7. PlaceTypes' /\ DaskInv' /\ NamesInv'
  BY <1>1 DEF PlaceInv, PlaceTypes, DaskInv, NamesInv
<1>8. AddedInv'
  BY <1>2, <1>5 DEF PlaceInv, AddedInv
<1>9. OnceInv'
  BY <1>1, <1>2, <1>4 DEF PlaceInv, OnceInv
<1>10. ProcessInv'
  <2>1. \A q, r \in process' :
          q.task = r.task /\ q.state # "signalled" /\ r.state # "signalled" => q = r
    <3>. SUFFICES ASSUME NEW q \in process', NEW r \in process', q.task = r.task,
                         q.state # "signalled", r.state # "signalled"
                  PROVE  q = r
      OBVIOUS
    <3>1. PICK q0 \in process : q.id = q0.id /\ q.task = q0.task /\ q0.state # "signalled"
      BY <1>3
    <3>2. PICK r0 \in process : r.id = r0.id /\ r.task = r0.task /\ r0.state # "signalled"
      BY <1>3
    <3>3. \A x, y \in process :
            x.task = y.task /\ x.state # "signalled" /\ y.state # "signalled" => x = y
      BY DEF PlaceInv, ProcessInv
    <3>4. q0.task = r0.task
      BY <3>1, <3>2
    <3>5. q0 = r0
      BY <3>1, <3>2, <3>3, <3>4
    <3>. QED BY <1>3, <3>1, <3>2, <3>5
  <2>2. \A a \in active' \cup launched' : a.id # 0 =>
          \E q \in process' : q.id = a.id /\ q.task = a.task /\ q.state # "signalled"
    <3>. SUFFICES ASSUME NEW a \in active \cup launched, a.id # 0
                  PROVE  \E q \in process' : q.id = a.id /\ q.task = a.task /\ q.state # "signalled"
      BY <1>1
    <3>1. PICK q \in process : q.id = a.id /\ q.task = a.task /\ q.state # "signalled"
      BY DEF PlaceInv, ProcessInv
    <3>. QED BY <1>3, <3>1
  <2>3. \A r \in process' : r.state # "signalled" =>
          \E a \in active' \cup launched' : a.id = r.id /\ a.task = r.task
    <3>. SUFFICES ASSUME NEW r \in process', r.state # "signalled"
                  PROVE  \E a \in active \cup launched : a.id = r.id /\ a.task = r.task
      BY <1>1
    <3>1. PICK q \in process : r.id = q.id /\ r.task = q.task /\ q.state # "signalled"
      BY <1>3
    <3>. QED BY <3>1 DEF PlaceInv, ProcessInv
  <2>. QED BY <1>3, <2>1, <2>2, <2>3 DEF ProcessInv
<1>11. GrantedInv'
  <2>1. \A r \in process' : \E q \in process : r.id = q.id
    BY <1>3
  <2>. QED BY <1>1, <1>2, <2>1 DEF PlaceInv, GrantedInv
<1>. QED BY <1>6, <1>7, <1>8, <1>9, <1>10, <1>11 DEF PlaceInv

LEMMA RemoveTaskPoolMoves ==
  ASSUME TrackInv, PlaceInv, Careful, RemoveTaskPool
  PROVE  PlaceInv' /\ Stepped
<1>1. PICK I : I = KilledIds
  OBVIOUS
<1>2. /\ at = "idle" /\ worker = 0
      /\ process' = {IF p.id \in I THEN [p EXCEPT !.state = "signalled"] ELSE p : p \in process}
      /\ queued' = <<>> /\ active' = {} /\ finished' = {} /\ futures' = {} /\ daskDone' = {}
      /\ worker' = 0
      /\ UNCHANGED <<granted, launched, results, adds>>
  BY <1>1 DEF RemoveTaskPool, Careful, opVars
<1>3. granted = <<>> /\ launched = {}
  BY <1>2 DEF TrackInv, LaunchInv
<1>4. \A p \in process : p.id \in I \/ p.state = "signalled"
  <2>. SUFFICES ASSUME NEW p \in process, p.state # "signalled" PROVE p.id \in I
    OBVIOUS
  <2>1. PICK a \in active : a.id = p.id
    BY <1>3, ProcessHasTask
  <2>2. p.id # 0
    BY ProcessHasTask DEF Ids
  <2>. QED BY <1>1, <2>1, <2>2 DEF KilledIds
<1>5. /\ \A r \in process' : \E p \in process :
           /\ r.id = p.id /\ r.task = p.task
           /\ IF p.id \in I THEN r.state = "signalled" ELSE r.state = p.state
      /\ \A q, r \in process' : q.id = r.id => q = r
  BY <1>2, ChangedProcesses
<1>6. \A r \in process' : r.state = "signalled"
  BY <1>4, <1>5
<1>7. \A u : /\ ~Up(u)' /\ ~EndedUp(u)'
             /\ IsLate(u)' <=> IsLate(u)
             /\ In(u, results') <=> In(u, results)
             /\ ~In(u, finished') /\ ~Has(queued', u)
  BY <1>2, <1>6 DEF Up, EndedUp, IsLate, In, Has
<1>8. Dropped
  BY <1>2, <1>7 DEF Dropped, StageOf
<1>9. PlaceTypes' /\ DaskInv'
  BY <1>2 DEF PlaceInv, PlaceTypes, DaskInv
<1>10. AddedInv' /\ OnceInv'
  BY <1>2, <1>7 DEF PlaceInv, AddedInv, OnceInv, IsOut
<1>11. ProcessInv' /\ GrantedInv'
  BY <1>2, <1>3, <1>5, <1>6 DEF ProcessInv, GrantedInv
<1>12. NamesInv'
  BY <1>2, <1>7 DEF NamesInv, NoneTwice
<1>. QED BY <1>8, <1>9, <1>10, <1>11, <1>12 DEF PlaceInv, Stepped

-----------------------------------------------------------------------------
(* dask, and the report of what has finished *)

LEMMA SubmitDaskMoves ==
  ASSUME TrackInv, PlaceInv, Careful, SubmitDask
  PROVE  PlaceInv' /\ Stepped
<1>1. PICK S : S = Elements(queued)
  OBVIOUS
<1>2. /\ at = "idle" /\ active = {} /\ finished = {} /\ worker = 0
      /\ worker' = NewId(UsedIds) /\ futures' = S /\ daskDone' = {}
      /\ active' = {[id |-> 0, task |-> t] : t \in S} /\ queued' = <<>>
      /\ UNCHANGED <<process, finished, granted, launched, results, adds>>
  BY <1>1 DEF SubmitDask, Careful, opVars
<1>3. granted = <<>> /\ launched = {} /\ futures = {} /\ daskDone = {}
  BY <1>2 DEF TrackInv, LaunchInv, PlaceInv, DaskInv
<1>4. worker' # 0
  <2>1. IsFiniteSet({}) /\ UsedIds \cup {a.id : a \in {}} = UsedIds
    BY FS_EmptySet
  <2>2. IsFiniteSet(UsedIds)
    BY <2>1, UsedFinite DEF TrackInv
  <2>. QED BY <1>2, <2>2, NewIdIsNew DEF Ids
<1>5. S \subseteq Tasks /\ \A u : u \in S <=> Has(queued, u)
  BY <1>1 DEF Elements, Has, TrackInv, TypeInv
<1>6. \A u : /\ ~Up(u) /\ ~EndedUp(u) /\ ~Up(u)' /\ ~EndedUp(u)'
             /\ IsLate(u)' <=> IsLate(u)
             /\ In(u, results') <=> In(u, results)
             /\ ~In(u, finished) /\ ~In(u, finished') /\ ~Has(queued', u)
  <2>1. \A u : ~Up(u) /\ ~EndedUp(u)
    BY <1>2, <1>3, NoneUp
  <2>. QED BY <1>2, <2>1 DEF Up, EndedUp, IsLate, In, Has
<1>7. Moved(S, "queued", "running")
  <2>1. ASSUME NEW u \in S
        PROVE  StageOf(u) = "queued" /\ StageOf(u)' = "running"
    <3>1. ~IsLate(u) /\ ~In(u, results)
      BY <1>5 DEF PlaceInv, AddedInv, OnceInv
    <3>. QED BY <1>2, <1>3, <1>5, <1>6, <3>1 DEF StageOf
  <2>2. \A u \in Tasks : u \notin S => StageOf(u)' = StageOf(u)
    BY <1>2, <1>3, <1>5, <1>6 DEF StageOf
  <2>. QED BY <2>1, <2>2 DEF Moved
<1>8. PlaceTypes' /\ DaskInv'
  BY <1>2, <1>4, <1>5 DEF PlaceInv, PlaceTypes, DaskInv
<1>9. AddedInv'
  BY <1>2, <1>5, <1>6 DEF PlaceInv, AddedInv, IsOut
<1>10. OnceInv'
  BY <1>2, <1>5, <1>6 DEF PlaceInv, OnceInv
<1>11. \A a \in active' : a.id = 0 /\ a.task \in S /\ a = [id |-> 0, task |-> a.task]
  BY <1>2
<1>12. ProcessInv'
  <2>1. \A p \in process : p.state = "signalled"
    BY <1>6 DEF Up
  <2>. QED BY <1>2, <1>3, <1>11, <2>1 DEF PlaceInv, ProcessInv
<1>13. GrantedInv'
  BY <1>2, <1>3 DEF GrantedInv
<1>14. NamesInv'
  <2>1. ASSUME NEW a \in active', NEW b \in active', a.task.name = b.task.name
        PROVE  a = b
    <3>1. a.task = b.task
      BY <1>5, <1>11, <2>1 DEF PlaceInv, NamesInv
    <3>. QED BY <1>11, <3>1
  <2>2. \A u : ~Has(queued', u)
    BY <1>6
  <2>. QED BY <1>2, <2>1, <2>2 DEF NamesInv, NoneTwice
<1>. QED BY <1>5, <1>7, <1>8, <1>9, <1>10, <1>12, <1>13, <1>14 DEF PlaceInv, Stepped

LEMMA DaskTaskEndsMoves ==
  ASSUME TrackInv, PlaceInv, NEW t \in Tasks, DaskTaskEnds(t)
  PROVE  PlaceInv' /\ Stepped
<1>1. /\ t \in futures /\ futures' = futures \ {t} /\ daskDone' = daskDone \cup {t}
      /\ UNCHANGED <<process, queued, active, finished, worker, granted, launched, results, adds>>
  BY DEF DaskTaskEnds, opVars
<1>2. worker # 0 /\ finished = {} /\ launched = {}
  BY <1>1 DEF PlaceInv, DaskInv, TrackInv, WorkerInv, LaunchInv
<1>3. \A u : ~Up(u) /\ ~EndedUp(u)
  BY <1>2, NoneUp
<1>4. \A u : /\ ~Up(u)' /\ ~EndedUp(u)'
             /\ IsLate(u)' <=> IsLate(u)
             /\ In(u, results') <=> In(u, results)
             /\ In(u, finished') <=> In(u, finished)
             /\ In(u, launched') <=> In(u, launched)
             /\ Has(queued', u) <=> Has(queued, u)
  BY <1>1, <1>3 DEF Up, EndedUp, IsLate, In, Has
<1>5. ~IsLate(t) /\ ~In(t, results) /\ ~In(t, finished) /\ t \notin daskDone /\ ~Has(queued, t)
  BY <1>1, <1>2 DEF PlaceInv, AddedInv, OnceInv, IsOut, In
<1>6. Moved({t}, "running", "ended")
  <2>1. StageOf(t) = "running" /\ StageOf(t)' = "ended"
    BY <1>1, <1>3, <1>4, <1>5 DEF StageOf
  <2>2. \A u \in Tasks : u # t => StageOf(u)' = StageOf(u)
    BY <1>1, <1>3, <1>4 DEF StageOf
  <2>. QED BY <2>1, <2>2 DEF Moved
<1>7. PlaceTypes' /\ DaskInv' /\ NamesInv'
  BY <1>1, <1>2 DEF PlaceInv, PlaceTypes, DaskInv, NamesInv
<1>8. AddedInv'
  BY <1>1, <1>4, <1>5 DEF PlaceInv, AddedInv, IsOut
<1>9. OnceInv'
  BY <1>1, <1>4, <1>5 DEF PlaceInv, OnceInv
<1>10. ProcessInv'
  BY <1>1 DEF PlaceInv, ProcessInv
<1>11. GrantedInv'
  BY <1>1, <1>4 DEF PlaceInv, GrantedInv
<1>. QED BY <1>6, <1>7, <1>8, <1>9, <1>10, <1>11 DEF PlaceInv, Stepped

LEMMA GetDaskFinishedMoves ==
  ASSUME TrackInv, PlaceInv, GetDaskFinished
  PROVE  PlaceInv' /\ Stepped
<1>1. PICK S : S = daskDone
  OBVIOUS
<1>2. /\ at = "idle" /\ worker # 0 /\ futures = {}
      /\ results' = results \cup {[task |-> t, status |-> "ended"] : t \in S}
      /\ finished' = {} /\ active' = {} /\ daskDone' = {} /\ worker' = 0
      /\ UNCHANGED <<process, queued, futures, granted, launched, adds>>
  BY <1>1 DEF GetDaskFinished, opVars
<1>3. finished = {} /\ launched = {} /\ granted = <<>> /\ S \subseteq Tasks
  BY <1>1, <1>2 DEF PlaceInv, DaskInv, PlaceTypes, TrackInv, LaunchInv
<1>4. \A u : ~Up(u) /\ ~EndedUp(u)
  BY <1>2, <1>3, NoneUp
<1>5. \A u : In(u, results') <=> In(u, results) \/ u \in S
  <2>1. PICK R : R = {[task |-> t, status |-> "ended"] : t \in S}
    OBVIOUS
  <2>2. /\ \A e \in R : e.task \in S
        /\ \A t \in S : \E e \in R : e.task = t
    <3>1. ASSUME NEW t \in S PROVE \E e \in R : e.task = t
      <4>1. PICK e : e = [task |-> t, status |-> "ended"]
        OBVIOUS
      <4>2. e \in R
        BY <2>1, <4>1
      <4>. QED BY <4>1, <4>2
    <3>. QED BY <2>1, <3>1
  <2>3. results' = results \cup R
    BY <1>2, <2>1
  <2>. HIDE <1>2
  <2>. QED BY <2>2, <2>3 DEF In
<1>6. \A u : /\ ~Up(u)' /\ ~EndedUp(u)'
             /\ IsLate(u)' <=> IsLate(u)
             /\ ~In(u, finished) /\ ~In(u, finished')
             /\ Has(queued', u) <=> Has(queued, u)
  BY <1>2, <1>3, <1>4 DEF Up, EndedUp, IsLate, In, Has
<1>7. \A u \in S : ~IsLate(u) /\ ~In(u, results) /\ ~Has(queued, u)
  BY <1>1, <1>3 DEF PlaceInv, AddedInv, OnceInv, IsOut
<1>8. Moved(S, "ended", "reported")
  <2>1. \A u \in S : StageOf(u) = "ended" /\ StageOf(u)' = "reported"
    BY <1>1, <1>5, <1>6, <1>7 DEF StageOf
  <2>2. \A u \in Tasks : u \notin S => StageOf(u)' = StageOf(u)
    BY <1>1, <1>2, <1>4, <1>5, <1>6 DEF StageOf
  <2>. QED BY <2>1, <2>2 DEF Moved
<1>9. PlaceTypes' /\ DaskInv'
  <2>1. \A t \in S : [task |-> t, status |-> "ended"] \in Records
    BY <1>3 DEF Records
  <2>. QED BY <1>2, <2>1 DEF PlaceInv, PlaceTypes, DaskInv
<1>10. AddedInv'
  BY <1>2, <1>5, <1>6, <1>7 DEF PlaceInv, AddedInv, IsOut
<1>11. OnceInv'
  BY <1>2, <1>5, <1>6, <1>7 DEF PlaceInv, OnceInv
<1>12. ProcessInv'
  <2>1. \A p \in process : p.state = "signalled"
    BY <1>4 DEF Up
  <2>. QED BY <1>2, <1>3, <2>1 DEF PlaceInv, ProcessInv
<1>13. GrantedInv'
  BY <1>2, <1>3 DEF GrantedInv
<1>14. NamesInv'
  BY <1>2, <1>6 DEF PlaceInv, NamesInv, NoneTwice
<1>. QED BY <1>3, <1>8, <1>9, <1>10, <1>11, <1>12, <1>13, <1>14 DEF PlaceInv, Stepped

LEMMA ReportMoves ==
  ASSUME TrackInv, PlaceInv, Report
  PROVE  PlaceInv' /\ Stepped
<1>1. PICK S : S = {t \in Tasks : In(t, finished)}
  OBVIOUS
<1>2. /\ at = "get" /\ results' = results \cup finished /\ finished' = {}
      /\ UNCHANGED <<process, queued, active, futures, daskDone, worker, granted, launched, adds>>
  BY DEF Report
<1>3. \A u \in Tasks :
        /\ Up(u)' <=> Up(u)
        /\ EndedUp(u)' <=> EndedUp(u)
        /\ IsLate(u)' <=> IsLate(u)
        /\ In(u, finished) <=> u \in S
        /\ ~In(u, finished')
        /\ In(u, results') <=> In(u, results) \/ u \in S
        /\ In(u, launched') <=> In(u, launched)
        /\ Has(queued', u) <=> Has(queued, u)
  BY <1>1, <1>2 DEF Up, EndedUp, IsLate, In, Has
<1>4. worker = 0 /\ futures = {} /\ daskDone = {}
  BY <1>2 DEF TrackInv, WorkerInv, PlaceInv, DaskInv
<1>5. S \subseteq Tasks /\ \A u \in S : ~IsLate(u) /\ ~In(u, results) /\ ~Up(u) /\ ~Has(queued, u)
  BY <1>1 DEF PlaceInv, AddedInv, OnceInv, IsOut
<1>6. Moved(S, "ended", "reported")
  <2>1. \A u \in S : StageOf(u) = "ended" /\ StageOf(u)' = "reported"
    BY <1>3, <1>5 DEF StageOf
  <2>2. \A u \in Tasks : u \notin S => StageOf(u)' = StageOf(u)
    BY <1>2, <1>3 DEF StageOf
  <2>. QED BY <1>5, <2>1, <2>2 DEF Moved
<1>7. PlaceTypes' /\ DaskInv'
  BY <1>2, <1>4 DEF PlaceInv, PlaceTypes, DaskInv
<1>8. AddedInv'
  BY <1>2, <1>3, <1>5 DEF PlaceInv, AddedInv, IsOut
<1>9. OnceInv'
  BY <1>2, <1>3, <1>4, <1>5 DEF PlaceInv, OnceInv
<1>10. ProcessInv'
  BY <1>2 DEF PlaceInv, ProcessInv
<1>11. GrantedInv'
  <2>1. launched = {} /\ granted = <<>>
    BY <1>2 DEF TrackInv, LaunchInv
  <2>. QED BY <1>2, <2>1 DEF GrantedInv
<1>12. NamesInv'
  BY <1>2 DEF PlaceInv, NamesInv
<1>. QED BY <1>5, <1>6, <1>7, <1>8, <1>9, <1>10, <1>11, <1>12 DEF PlaceInv, Stepped

-----------------------------------------------------------------------------
(* The pool implements TaskRuns *)

LEMMA InitPlaced == Init => PlaceInv /\ Runs!Init
<1>. SUFFICES ASSUME Init PROVE PlaceInv /\ Runs!Init
  OBVIOUS
<1>1. \A u : ~Up(u) /\ ~In(u, finished) /\ ~In(u, results) /\ ~Has(queued, u) /\ ~IsOut(u)
  BY DEF Init, Up, In, Has, IsOut
<1>2. PlaceTypes /\ DaskInv /\ AddedInv /\ OnceInv
  BY <1>1 DEF Init, PlaceTypes, DaskInv, AddedInv, OnceInv
<1>3. ProcessInv /\ GrantedInv /\ NamesInv
  BY <1>1 DEF Init, ProcessInv, GrantedInv, NamesInv, NoneTwice
<1>4. PlaceInv
  BY <1>2, <1>3 DEF PlaceInv
<1>5. StagesKnown
  BY <1>4, InitTracked, StageIs
<1>6. \A t \in Tasks : StageOf(t) = "none"
  <2>. SUFFICES ASSUME NEW t \in Tasks PROVE IsLate(t)
    BY DEF StageOf
  <2>. QED BY TaskParts DEF Init, IsLate
<1>7. Runs!Init
  BY <1>5, <1>6 DEF StagesKnown, Runs!Init
<1>. QED BY <1>4, <1>7

(* Every task of the pool goes from the queue to a process or to dask, and *)
(* from there to the results, once: none is started again by the retries   *)
(* of submit_tasks, and no status is lost or reported twice, for any tasks *)
(* and any machine.  Assumed are Careful and that a name is used again     *)
(* only after its status has been reported; otherwise finished_tasks and   *)
(* active_tasks, which go by names, lose a task.                           *)
THEOREM PoolImplementsTaskRuns ==
  ASSUME Careful, UniqueNames
  PROVE  Spec => TasksRunAsPromised
<1>1. TrackInv /\ PlaceInv /\ [Next]_vars => PlaceInv' /\ Stepped
  <2>. SUFFICES ASSUME TrackInv, PlaceInv, [Next]_vars PROVE PlaceInv' /\ Stepped
    OBVIOUS
  <2>. QED BY CollectTaskMoves, LaunchTaskPoolMoves, StartProcessMoves, ActivateMoves,
       RemoveTaskPoolMoves, SubmitDaskMoves, GetDaskFinishedMoves, ProcessEndsMoves,
       AddTaskMoves, DaskTaskEndsMoves, ReportMoves, OtherStepsMoveNothing
       DEF Next, Operation, Program, World
<1>2. Spec => []TrackInv
  BY TrackedStays
<1>3. StagesKnown /\ StagesKnown' /\ Stepped => [Runs!Next]_Stage
  BY SteppedIsStep
<1>4. TrackInv /\ PlaceInv => StagesKnown
  BY StageIs
<1>. QED BY <1>1, <1>2, <1>3, <1>4, InitPlaced, PTL DEF Spec, TasksRunAsPromised, Runs!Spec
=============================================================================
