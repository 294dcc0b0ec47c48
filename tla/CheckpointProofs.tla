---------------------------- MODULE CheckpointProofs ----------------------------
(***************************************************************************)
(* Proofs about Checkpoint for any number of workers, settings, time steps *)
(* and restarts.  The state file is shared in two ways: workers that run   *)
(* one by one copy it as a whole, concurrent ones merge their part.        *)
(***************************************************************************)
EXTENDS Checkpoint, CollectionTheorems

StateType ==
  /\ master \in [Workers -> Nat]
  /\ copy \in [Workers -> [Workers -> Nat]]
  /\ step \in Nat

(* The master copy has the values of this step of all who are done. *)
DoneIsIn == \A w \in done : master[w] = step

(* Whole files are copied by one worker at a time, who has the latest. *)
CopiedByOne ==
  ~conf.merge => /\ \A v, w \in staged : v = w
                 /\ \A w \in staged : copy[w] = master

StateInv == StateType /\ DoneIsIn /\ CopiedByOne

LEMMA StateInitially == Init => StateInv
BY DEF Init, StateInit, StateInv, StateType, DoneIsIn, CopiedByOne

(* A worker that writes back changes its own value and nobody else's. *)
LEMMA WritesOwnValue ==
  ASSUME StateInv, NEW w \in Workers, FinishStep(w)
  PROVE  /\ master' = [master EXCEPT ![w] = step]
         /\ copy' = [copy EXCEPT ![w] = master']
<1>1. CASE conf.merge
  BY <1>1 DEF FinishStep, MergeState, Merged
<1>2. CASE ~conf.merge
  BY <1>2 DEF FinishStep, UpdateState, StateInv, CopiedByOne
<1>. QED BY <1>1, <1>2

LEMMA StateStep == StateInv /\ [Next]_vars => StateInv'
<1>. SUFFICES ASSUME StateInv, [Next]_vars PROVE StateInv'
  OBVIOUS
<1>. USE DEF StateInv, StateType, DoneIsIn, CopiedByOne
<1>1. ASSUME NEW w \in Workers, Stage(w) PROVE StateInv'
  BY <1>1 DEF Stage, StageState, simVars
<1>2. ASSUME NEW w \in Workers, FinishStep(w) PROVE StateInv'
  <2>1. master' = [master EXCEPT ![w] = step] /\ copy' = [copy EXCEPT ![w] = master']
    BY <1>2, WritesOwnValue
  <2>2. done' = done \cup {w} /\ step' = step /\ conf' = conf
    BY <1>2 DEF FinishStep
  <2>3. staged' = staged \ {w} /\ w \in staged
    BY <1>2 DEF FinishStep, MergeState, UpdateState
  <2>4. StateType' /\ DoneIsIn'
    BY <2>1, <2>2
  <2>5. CopiedByOne'
    BY <2>2, <2>3
  <2>. QED BY <2>4, <2>5
<1>3. ASSUME NextStep PROVE StateInv'
  BY <1>3 DEF NextStep, stateVars
<1>4. ASSUME NEW t \in Times, Restart(t) PROVE StateInv'
  BY <1>4 DEF Restart, stateVars, Times
<1>5. ASSUME Crash PROVE StateInv'
  BY <1>5 DEF Crash, simVars
<1>6. ASSUME UNCHANGED <<stateVars, simVars>> PROVE StateInv'
  BY <1>6 DEF stateVars, simVars
<1>7. CASE UNCHANGED vars
  BY <1>7, <1>6 DEF vars
<1>8. CASE Next
  BY <1>1, <1>2, <1>3, <1>4, <1>5, <1>6, <1>8
     DEF Next, SaveRestartFiles, CheckpointComponents, CollectCalls, RemoveObsolete, EndPurge
<1>. QED BY <1>7, <1>8

(* However workers interleave, fail, crash and are restarted: when all have *)
(* finished a step the state in STATE_WORK_DIR has everybody's values of it *)
(* (DataManager.updateState and mergeState).                               *)
THEOREM ContributionsAreKept == Spec => []ContributionsKept
<1>1. StateInv => ContributionsKept
  BY DEF StateInv, StateType, DoneIsIn, ContributionsKept, StepIsDone
<1>. QED BY StateInitially, StateStep, <1>1, PTL DEF Spec

-----------------------------------------------------------------------------
(* Which checkpoints are the most recent, and what is listed for removal.  *)

(* t is one of the n last of the list m that are not in p. *)
RecentOf(m, p, n, t) ==
  LET u == Filter(m, Times \ p) IN \E j \in DOMAIN u : j > Len(u) - n /\ u[j] = t

LEMMA MostRecentIs == \A t : t \in MostRecent <=> RecentOf(made, protected, conf.num, t)
BY DEF MostRecent, RecentOf, Unprotected

LEMMA TimesAreNumbers == Times \subseteq Nat /\ \A t \in Times : t # 0
BY CheckpointAssumption DEF Times

LEMMA NoneRecentAtFirst == \A p, n, t : ~RecentOf(<<>>, p, n, t)
BY FilterEmpty DEF RecentOf

(* One more checkpoint s. *)
LEMMA RecentAfter ==
  ASSUME NEW m \in Seq(Times), NEW p \in SUBSET Times, NEW n \in Nat, n > 0,
         NEW s \in Times, ~Has(m, s), s \notin p
  PROVE  /\ \A t : RecentOf(Append(m, s), p \cup {s}, n, t) => RecentOf(m, p, n, t)
         /\ \A t : RecentOf(Append(m, s), p, n, t) => RecentOf(m, p, n, t) \/ t = s
         /\ RecentOf(Append(m, s), p, n, s)
<1>1. PICK u : u = Filter(m, Times \ p)
  OBVIOUS
<1>2. u \in Seq(Times)
  BY <1>1, FilterProperties
<1>3. Filter(Append(m, s), Times \ (p \cup {s})) = u
  <2>1. PICK T : T = Times \ (p \cup {s})
    OBVIOUS
  <2>2. Filter(Append(m, s), T) = Filter(m, T)
    BY <2>1, FilterAppended
  <2>3. \A x : Has(m, x) => (x \in T <=> x \in Times \ p)
    BY <2>1
  <2>4. Filter(m, T) = Filter(m, Times \ p)
    BY <2>3, FilterSame
  <2>. QED BY <1>1, <2>1, <2>2, <2>4
<1>4. Filter(Append(m, s), Times \ p) = Append(u, s)
  <2>1. PICK T : T = Times \ p
    OBVIOUS
  <2>2. s \in T
    BY <2>1
  <2>3. Filter(Append(m, s), T) = Append(Filter(m, T), s)
    BY <2>2, FilterAppended
  <2>. QED BY <1>1, <2>1, <2>3
<1>5. PICK v : v = Append(u, s)
  OBVIOUS
<1>6. /\ DOMAIN v = 1..(Len(u) + 1) /\ Len(v) = Len(u) + 1 /\ DOMAIN u = 1..Len(u)
      /\ Len(u) \in Nat /\ v[Len(u) + 1] = s /\ \A i \in DOMAIN u : v[i] = u[i]
  BY <1>2, <1>5, AppendProperties
<1>7. \A t : RecentOf(Append(m, s), p \cup {s}, n, t) => RecentOf(m, p, n, t)
  BY <1>1, <1>3 DEF RecentOf
<1>8. \A t : RecentOf(Append(m, s), p, n, t) <=> \E j \in DOMAIN v : j > Len(v) - n /\ v[j] = t
  BY <1>4, <1>5 DEF RecentOf
<1>9. ASSUME NEW j \in DOMAIN v, j > Len(v) - n PROVE RecentOf(m, p, n, v[j]) \/ v[j] = s
  <2>1. CASE j = Len(u) + 1
    BY <1>6, <2>1
  <2>2. CASE j \in DOMAIN u
    <3>1. j > Len(u) - n /\ u[j] = v[j]
      BY <1>6, <1>9, <2>2
    <3>. QED BY <1>1, <2>2, <3>1 DEF RecentOf
  <2>. QED BY <1>6, <2>1, <2>2
<1>10. Len(v) \in DOMAIN v /\ Len(v) > Len(v) - n /\ v[Len(v)] = s
  BY <1>6
<1>. QED BY <1>7, <1>8, <1>9, <1>10

(* After a checkpoint of this run come only later ones of this run. *)
NewerLater(q, m) ==
  \A i, j \in DOMAIN q : i < j /\ Has(m, q[i]) => Has(m, q[j]) /\ q[i] < q[j]

(* The first of more than n candidates is none of the n most recent. *)
LEMMA HeadIsNotRecent ==
  ASSUME NEW m \in Seq(Times), InOrder(m), NEW p \in SUBSET Times, NEW n \in Nat, n > 0,
         NEW q \in Seq(Times), Len(q) > n, NoneTwice(q), NewerLater(q, m),
         \A t : Has(q, t) => t \notin p
  PROVE  ~RecentOf(m, p, n, Head(q))
<1>. SUFFICES ASSUME RecentOf(m, p, n, Head(q)) PROVE FALSE
  OBVIOUS
<1>1. PICK u : u = Filter(m, Times \ p)
  OBVIOUS
<1>2. PICK r : r = Tail(q)
  OBVIOUS
<1>3. /\ q[1] = Head(q) /\ 1 \in DOMAIN q /\ r \in Seq(Times) /\ Len(r) = Len(q) - 1
      /\ DOMAIN r = 1..(Len(q) - 1) /\ DOMAIN q = 1..Len(q) /\ Len(q) \in Nat
      /\ \A j \in DOMAIN r : r[j] = q[j + 1]
  BY <1>2
<1>4. u \in Seq(Times) /\ InOrder(u) /\ \A x : Has(u, x) <=> Has(m, x) /\ x \in Times /\ x \notin p
  <2>1. Times \subseteq Int
    BY TimesAreNumbers
  <2>2. u \in Seq(Times) /\ \A x : Has(u, x) <=> Has(m, x) /\ x \in Times \ p
    BY <1>1, FilterProperties
  <2>3. InOrder(u)
    BY <1>1, <2>1, FilterInOrder
  <2>. QED BY <2>2, <2>3
<1>5. PICK k \in DOMAIN u : k > Len(u) - n /\ u[k] = q[1]
  BY <1>1, <1>3 DEF RecentOf
<1>6. Has(m, q[1])
  BY <1>4, <1>5 DEF Has
<1>7. ASSUME NEW j \in DOMAIN r PROVE r[j] > u[k] /\ Has(u, r[j])
  <2>1. j + 1 \in DOMAIN q /\ 1 < j + 1 /\ r[j] = q[j + 1] /\ r[j] \in Times
    BY <1>3
  <2>2. Has(m, r[j]) /\ q[1] < r[j]
    BY <1>3, <1>6, <2>1 DEF NewerLater
  <2>3. r[j] \notin p
    BY <2>1 DEF Has
  <2>4. q[1] \in Int /\ r[j] \in Int
    <3>1. q[1] \in Times
      BY <1>3
    <3>2. q[1] \in Nat
      BY <3>1, TimesAreNumbers
    <3>3. r[j] \in Nat
      BY <2>1, TimesAreNumbers
    <3>. QED BY <3>2, <3>3
  <2>. QED BY <1>4, <1>5, <2>1, <2>2, <2>3, <2>4
<1>8. NoneTwice(r)
  <2>. SUFFICES ASSUME NEW i \in DOMAIN r, NEW j \in DOMAIN r, r[i] = r[j] PROVE i = j
    BY DEF NoneTwice
  <2>1. i + 1 \in DOMAIN q /\ j + 1 \in DOMAIN q /\ q[i + 1] = q[j + 1]
    BY <1>3
  <2>2. i + 1 = j + 1
    BY <2>1 DEF NoneTwice
  <2>. QED BY <1>3, <2>2
<1>9. Len(r) < n
  <2>1. Times \subseteq Int
    BY TimesAreNumbers
  <2>. QED BY <1>3, <1>4, <1>5, <1>7, <1>8, <2>1, FewAreLater
<1>. QED BY <1>3, <1>9

(* The candidates are what may be removed, each once. *)
LEMMA CandidatesAre ==
  ASSUME NEW m \in Seq(Times), InOrder(m), NEW p \in SUBSET Times, \A t \in p : Has(m, t)
  PROVE  /\ Candidates(m, p) \in Seq(Times)
         /\ NoneTwice(Candidates(m, p)) /\ NewerLater(Candidates(m, p), m)
         /\ \A t : Has(Candidates(m, p), t) <=> t \in Present \ p
<1>. DEFINE all == [t \in Times |-> t]
<1>1. PICK a : a = Filter(all, Present \ Elements(m))
  OBVIOUS
<1>2. PICK b : b = Filter(m, Present \ p)
  OBVIOUS
<1>3. PICK c : c = a \o b
  OBVIOUS
<1>4. Candidates(m, p) = c
  BY <1>1, <1>2, <1>3 DEF Candidates, Prior
<1>5. all \in Seq(Times) /\ DOMAIN all = Times /\ \A t \in Times : all[t] = t
  <2>1. Times = 1..MaxStep /\ MaxStep \in Nat
    BY CheckpointAssumption DEF Times
  <2>. QED BY <2>1
<1>. HIDE DEF all
<1>6. Times \subseteq Int /\ Present \subseteq Times
  BY TimesAreNumbers DEF Present
<1>7. InOrder(all) /\ \A t : Has(all, t) <=> t \in Times
  BY <1>5 DEF InOrder, Has
<1>8. \A t : t \in Elements(m) <=> Has(m, t)
  BY DEF Elements, Has
<1>9. a \in Seq(Times) /\ InOrder(a) /\ \A t : Has(a, t) <=> t \in Present /\ ~Has(m, t)
  <2>1. a \in Seq(Times) /\ \A t : Has(a, t) <=> Has(all, t) /\ t \in Present \ Elements(m)
    BY <1>1, <1>5, FilterProperties
  <2>2. InOrder(a)
    BY <1>1, <1>5, <1>6, <1>7, FilterInOrder
  <2>. QED BY <1>6, <1>7, <1>8, <2>1, <2>2
<1>10. b \in Seq(Times) /\ InOrder(b) /\ \A t : Has(b, t) <=> Has(m, t) /\ t \in Present \ p
  <2>1. b \in Seq(Times) /\ \A t : Has(b, t) <=> Has(m, t) /\ t \in Present \ p
    BY <1>2, FilterProperties
  <2>2. InOrder(b)
    BY <1>2, <1>6, FilterInOrder
  <2>. QED BY <2>1, <2>2
<1>11. /\ c \in Seq(Times) /\ NoneTwice(c)
       /\ \A t : Has(c, t) <=> Has(a, t) \/ Has(b, t)
  <2>1. NoneTwice(a) /\ NoneTwice(b)
    BY <1>6, <1>9, <1>10, InOrderOnce
  <2>2. \A t : ~(Has(a, t) /\ Has(b, t))
    BY <1>9, <1>10
  <2>. QED BY <1>3, <1>9, <1>10, <2>1, <2>2, ConcatenatedOnce
<1>12. \A t : Has(c, t) <=> t \in Present \ p
  BY <1>9, <1>10, <1>11
<1>13. NewerLater(c, m)
  <2>. SUFFICES ASSUME NEW i \in DOMAIN c, NEW j \in DOMAIN c, i < j, Has(m, c[i])
                PROVE  Has(m, c[j]) /\ c[i] < c[j]
    BY DEF NewerLater
  <2>1. /\ Len(a) \in Nat /\ Len(b) \in Nat /\ DOMAIN a = 1..Len(a) /\ DOMAIN b = 1..Len(b)
        /\ DOMAIN c = 1..(Len(a) + Len(b))
        /\ \A k \in 1..(Len(a) + Len(b)) : c[k] = IF k <= Len(a) THEN a[k] ELSE b[k - Len(a)]
    BY <1>3, <1>9, <1>10, ConcatProperties
  <2>2. ~ (i <= Len(a))
    <3>1. ASSUME i <= Len(a) PROVE FALSE
      <4>1. i \in DOMAIN a /\ c[i] = a[i]
        BY <2>1, <3>1
      <4>2. Has(a, c[i])
        BY <4>1 DEF Has
      <4>. QED BY <1>9, <4>2
    <3>. QED BY <3>1
  <2>3. /\ i - Len(a) \in DOMAIN b /\ j - Len(a) \in DOMAIN b /\ i - Len(a) < j - Len(a)
        /\ c[i] = b[i - Len(a)] /\ c[j] = b[j - Len(a)]
    BY <2>1, <2>2
  <2>4. c[i] < c[j]
    BY <1>10, <2>3 DEF InOrder
  <2>5. Has(b, c[j])
    BY <2>3 DEF Has
  <2>. QED BY <1>10, <2>4, <2>5
<1>. QED BY <1>4, <1>11, <1>12, <1>13

(* Without its head a list of candidates is one of the others. *)
LEMMA RestOfCandidates ==
  ASSUME NEW m, NEW q \in Seq(Times), q # <<>>, NoneTwice(q), NewerLater(q, m)
  PROVE  /\ Tail(q) \in Seq(Times) /\ Has(q, Head(q)) /\ Head(q) \in Times
         /\ NoneTwice(Tail(q)) /\ NewerLater(Tail(q), m)
         /\ \A t : Has(Tail(q), t) <=> Has(q, t) /\ t # Head(q)
<1>1. PICK r : r = Tail(q)
  OBVIOUS
<1>2. /\ q[1] = Head(q) /\ 1 \in DOMAIN q /\ r \in Seq(Times) /\ Len(r) = Len(q) - 1
      /\ DOMAIN r = 1..(Len(q) - 1) /\ DOMAIN q = 1..Len(q) /\ Len(q) \in Nat
      /\ \A j \in DOMAIN r : r[j] = q[j + 1]
  BY <1>1
<1>3. \A j \in DOMAIN r : j + 1 \in DOMAIN q /\ j + 1 # 1
  BY <1>2
<1>4. \A i, j \in DOMAIN r : (i + 1 = j + 1 => i = j) /\ (i < j => i + 1 < j + 1)
  BY <1>2
<1>5. NoneTwice(r)
  BY <1>2, <1>3, <1>4 DEF NoneTwice
<1>6. NewerLater(r, m)
  BY <1>2, <1>3, <1>4 DEF NewerLater
<1>7. ASSUME NEW t PROVE Has(r, t) <=> Has(q, t) /\ t # q[1]
  <2>1. ASSUME Has(r, t) PROVE Has(q, t) /\ t # q[1]
    <3>1. PICK j \in DOMAIN r : r[j] = t
      BY <2>1 DEF Has
    <3>2. j + 1 \in DOMAIN q /\ q[j + 1] = t /\ j + 1 # 1
      BY <1>2, <1>3, <3>1
    <3>. QED BY <1>2, <3>2 DEF Has, NoneTwice
  <2>2. ASSUME Has(q, t), t # q[1] PROVE Has(r, t)
    <3>1. PICK j \in DOMAIN q : q[j] = t
      BY <2>2 DEF Has
    <3>2. j - 1 \in DOMAIN r /\ (j - 1) + 1 = j
      BY <1>2, <2>2, <3>1
    <3>3. r[j - 1] = t
      BY <1>2, <3>1, <3>2
    <3>. QED BY <3>2, <3>3 DEF Has
  <2>. QED BY <2>1, <2>2
<1>8. q[1] \in Times /\ Has(q, q[1])
  BY <1>2 DEF Has
<1>. QED BY <1>1, <1>2, <1>5, <1>6, <1>7, <1>8

(* A list has no more elements than places. *)
LEMMA NoMoreThanLength ==
  ASSUME NEW A, NEW q \in Seq(A), NEW S, \A x : x \in S <=> Has(q, x)
  PROVE  IsFiniteSet(S) /\ Cardinality(S) <= Len(q)
<1>1. DOMAIN q = 1..Len(q) /\ Len(q) \in Nat
  OBVIOUS
<1>2. IsFiniteSet(1..Len(q)) /\ Cardinality(1..Len(q)) = Len(q)
  BY <1>1, FS_Interval
<1>3. PICK f : f = [i \in 1..Len(q) |-> q[i]]
  OBVIOUS
<1>4. f \in Surjection(1..Len(q), S)
  BY <1>1, <1>3 DEF Surjection, Has
<1>. QED BY <1>2, <1>4, FS_Surjection

-----------------------------------------------------------------------------
(* The inductive invariant *)

CkptType ==
  /\ conf \in Settings /\ step \in Times
  /\ at \in {"step", "saving", "purge", "down"}
  /\ restart \in [Times -> SUBSET Workers] /\ waiting \subseteq Workers
  /\ made \in Seq(Times) /\ protected \subseteq Times /\ purge \in Seq(Times)
  /\ saved \in BOOLEAN

(* This run's checkpoints, in their order, each step at most once. *)
ListsInv ==
  /\ conf.num > 0 => newChkpts = made
  /\ InOrder(made)
  /\ \A t : Has(made, t) => t <= step
  /\ (at = "saving" \/ (at = "step" /\ outcome = "none")) => ~Has(made, step)
  /\ \A t \in protected : Has(made, t)

SavingInv ==
  at = "saving" =>
    /\ outcome = "none"
    /\ (~failed /\ conf.num # 0) => \A w \in Workers : w \in waiting \/ w \in restart[step]

Recent(t) == RecentOf(made, protected, conf.num, t)

KeptInv ==
  /\ \A t \in protected : Complete(t)
  /\ conf.num > 0 => \A t \in Times : Recent(t) => Complete(t)
  /\ saved => conf.num # 0 /\ \E t \in Times : Complete(t)

(* While old checkpoints are removed the new one is safe. *)
PurgeInv ==
  at = "purge" =>
    /\ conf.num > 0 /\ outcome = "none"
    /\ step \in protected \/ Recent(step)
    /\ NoneTwice(purge) /\ NewerLater(purge, made)
    /\ \A t : Has(purge, t) <=> t \in Present /\ t \notin protected

TidyInv ==
  (outcome = "made" /\ conf.num > 0) =>
     at = "step" /\ Cardinality(Present \ protected) <= conf.num

CkptInv == CkptType /\ ListsInv /\ SavingInv /\ KeptInv /\ PurgeInv /\ TidyInv

LEMMA SettingsType ==
  ASSUME CkptType
  PROVE  /\ conf.num \in Int /\ conf.freq \in Nat /\ conf.mode \in Modes /\ step \in Nat
         /\ \A t : t \in Present <=> t \in Times /\ restart[t] # {}
         /\ \A t : Complete(t) <=> restart[t] = Workers
         /\ \A t \in Times : restart[t] \subseteq Workers
         /\ Workers # {} /\ \A t \in Times : Complete(t) => t \in Present
<1>1. conf.num \in Int /\ conf.freq \in Nat /\ conf.mode \in Modes
  BY CheckpointAssumption DEF CkptType
<1>2. step \in Nat
  BY TimesAreNumbers DEF CkptType
<1>3. Workers # {}
  BY CheckpointAssumption
<1>. QED BY <1>1, <1>2, <1>3 DEF Present, OnDisk, Complete, CkptType

LEMMA CkptInitially == Init => CkptInv
<1>. SUFFICES ASSUME Init PROVE CkptInv
  OBVIOUS
<1>1. CkptType
  <2>1. <<>> \in Seq(Times)
    OBVIOUS
  <2>2. 1 \in Times
    BY CheckpointAssumption DEF Times
  <2>. QED BY <2>1, <2>2 DEF Init, CkptType
<1>2. \A t : ~Has(<<>>, t)
  BY DEF Has
<1>3. ListsInv
  BY <1>2 DEF Init, ListsInv, InOrder
<1>4. KeptInv
  BY NoneRecentAtFirst DEF Init, KeptInv, Recent
<1>. QED BY <1>1, <1>3, <1>4 DEF Init, CkptInv, SavingInv, PurgeInv, TidyInv

-----------------------------------------------------------------------------
(* The steps *)

(* Steps that leave the checkpoints and their lists alone. *)
LEMMA ListsUntouched ==
  ASSUME CkptInv, UNCHANGED <<conf, restart, made, protected, newChkpts, saved>>
  PROVE  /\ \A t : Recent(t)' <=> Recent(t)
         /\ \A t : Complete(t)' <=> Complete(t)
         /\ Present' = Present
         /\ KeptInv'
<1>1. \A t : Recent(t)' <=> Recent(t)
  BY DEF Recent
<1>2. \A t : Complete(t)' <=> Complete(t)
  BY DEF Complete
<1>3. Present' = Present
  BY DEF Present, OnDisk
<1>. QED BY <1>1, <1>2, <1>3 DEF CkptInv, KeptInv

LEMMA NextStepCkpt ==
  ASSUME CkptInv, NextStep
  PROVE  CkptInv'
<1>1. /\ at = "step" /\ step < MaxStep /\ step' = step + 1 /\ outcome' = "none"
      /\ UNCHANGED <<conf, at, restart, made, protected, newChkpts, saved, purge, waiting>>
  BY DEF NextStep, StepIsDone, driverVars, callVars, ghostVars
<1>2. step \in Nat /\ step' \in Times /\ step < step'
  <2>1. step \in 1..MaxStep /\ MaxStep \in Nat
    BY CheckpointAssumption DEF CkptInv, CkptType, Times
  <2>. QED BY <1>1, <2>1 DEF Times
<1>3. CkptType'
  BY <1>1, <1>2 DEF CkptInv, CkptType
<1>4. ListsInv'
  <2>1. \A t : Has(made, t) => t \in Times /\ t <= step
    BY DEF CkptInv, CkptType, ListsInv, Has
  <2>2. \A t : Has(made, t) => t <= step' /\ t # step'
    <3>. SUFFICES ASSUME NEW t, Has(made, t) PROVE t <= step' /\ t # step'
      OBVIOUS
    <3>1. t \in Nat /\ t <= step
      BY <2>1, TimesAreNumbers
    <3>2. step' \in Nat
      BY <1>2, TimesAreNumbers
    <3>. QED BY <1>2, <3>1, <3>2
  <2>. QED BY <1>1, <2>2 DEF CkptInv, ListsInv
<1>5. KeptInv'
  BY <1>1, ListsUntouched
<1>. QED BY <1>1, <1>3, <1>4, <1>5 DEF CkptInv, SavingInv, PurgeInv, TidyInv

LEMMA CheckpointComponentsCkpt ==
  ASSUME CkptInv, "once_per_step" \in Habits,
         NEW force, NEW prot, NEW t, CheckpointComponents(force, prot, t)
  PROVE  CkptInv'
<1>1. /\ at = "step" /\ outcome = "none"
      /\ UNCHANGED <<conf, step, restart, made, protected, newChkpts, saved, purge>>
      /\ \/ at' = "saving" /\ waiting' = Workers /\ outcome' = "none"
         \/ at' = "step" /\ UNCHANGED waiting /\ outcome' \in {"error", "skipped"}
  BY DEF CheckpointComponents, StepIsDone, simVars
<1>2. CkptType'
  BY <1>1 DEF CkptInv, CkptType
<1>3. KeptInv'
  BY <1>1, ListsUntouched
<1>4. ListsInv'
  BY <1>1 DEF CkptInv, ListsInv
<1>. QED BY <1>1, <1>2, <1>3, <1>4 DEF CkptInv, SavingInv, PurgeInv, TidyInv

LEMMA SaveRestartFilesCkpt ==
  ASSUME CkptInv, NEW w \in Workers, SaveRestartFiles(w)
  PROVE  CkptInv'
<1>1. /\ at = "saving" /\ waiting' = waiting \ {w}
      /\ UNCHANGED <<conf, step, at, outcome, made, protected, newChkpts, saved, purge>>
      /\ \/ restart' = (IF conf.num = 0 THEN restart ELSE [restart EXCEPT ![step] = @ \cup {w}])
            /\ UNCHANGED failed
         \/ failed' = TRUE /\ UNCHANGED restart
  BY DEF SaveRestartFiles, simVars, driverVars, ghostVars
<1>2. step \in Times /\ restart \in [Times -> SUBSET Workers] /\ outcome = "none"
  BY <1>1 DEF CkptInv, CkptType, SavingInv
<1>3. /\ restart' \in [Times -> SUBSET Workers]
      /\ \A t \in Times : restart[t] \subseteq restart'[t]
      /\ \A t \in Times : restart'[t] \subseteq Workers
  BY <1>1, <1>2
<1>4. CkptType'
  BY <1>1, <1>3 DEF CkptInv, CkptType
<1>5. \A t \in Times : Complete(t) => Complete(t)'
  BY <1>3 DEF Complete
<1>6. KeptInv'
  <2>1. \A t : Recent(t)' <=> Recent(t)
    BY <1>1 DEF Recent
  <2>2. protected \subseteq Times
    BY DEF CkptInv, CkptType
  <2>. QED BY <1>1, <1>5, <2>1, <2>2 DEF CkptInv, KeptInv
<1>7. SavingInv'
  <2>1. ASSUME ~failed', conf.num # 0, NEW v \in Workers
        PROVE  v \in waiting' \/ v \in restart'[step]
    <3>1. ~failed /\ restart'[step] = restart[step] \cup {w}
      BY <1>1, <1>2, <2>1
    <3>2. v \in waiting \/ v \in restart[step]
      BY <1>1, <2>1, <3>1 DEF CkptInv, SavingInv
    <3>. QED BY <1>1, <3>1, <3>2
  <2>. QED BY <1>1, <1>2, <2>1 DEF SavingInv
<1>8. ListsInv'
  BY <1>1 DEF CkptInv, ListsInv
<1>. QED BY <1>1, <1>2, <1>4, <1>6, <1>7, <1>8 DEF CkptInv, PurgeInv, TidyInv

(* The calls have returned and none has failed. *)
LEMMA NowComplete ==
  ASSUME CkptInv, at = "saving", waiting = {}, ~failed, conf.num # 0
  PROVE  Complete(step)
<1>1. \A w \in Workers : w \in restart[step]
  BY DEF CkptInv, SavingInv
<1>2. restart[step] \subseteq Workers
  BY DEF CkptInv, CkptType
<1>. QED BY <1>1, <1>2 DEF Complete

LEMMA CollectFewCkpt ==
  ASSUME CkptInv, CollectCalls, failed \/ conf.num <= 0
  PROVE  CkptInv'
<1>1. /\ at = "saving" /\ waiting = {} /\ at' = "step" /\ outcome' \in {"error", "made"}
      /\ UNCHANGED <<conf, step, restart, waiting, protected, newChkpts, purge>>
      /\ \/ failed /\ outcome' = "error" /\ UNCHANGED <<made, saved>>
         \/ /\ ~failed /\ conf.num <= 0
            /\ made' = IF conf.num = 0 THEN made ELSE Append(made, step)
            /\ saved' = (saved \/ conf.num # 0)
  BY DEF CollectCalls, Return, simVars
<1>2. conf.num \in Int /\ step \in Times /\ made \in Seq(Times) /\ ~Has(made, step)
      /\ \A t : Has(made, t) => t \in Times /\ t <= step
  BY <1>1, SettingsType DEF CkptInv, CkptType, ListsInv, Has
<1>3. CASE UNCHANGED <<made, saved>>
  <2>1. KeptInv'
    BY <1>1, <1>3, ListsUntouched
  <2>2. CkptType' /\ ListsInv'
    BY <1>1, <1>3 DEF CkptInv, CkptType, ListsInv
  <2>3. SavingInv' /\ PurgeInv'
    BY <1>1 DEF SavingInv, PurgeInv
  <2>4. TidyInv'
    BY <1>1, <1>2 DEF TidyInv
  <2>. QED BY <2>1, <2>2, <2>3, <2>4 DEF CkptInv
<1>4. CASE ~ UNCHANGED <<made, saved>>
  <2>1. /\ ~failed /\ conf.num < 0 /\ made' \in {made, Append(made, step)}
        /\ conf' = conf
    <3>1. ~failed /\ conf.num <= 0 /\ conf' = conf
      BY <1>1, <1>4
    <3>2. /\ made' = IF conf.num = 0 THEN made ELSE Append(made, step)
          /\ saved' = (saved \/ conf.num # 0)
      BY <1>1, <3>1
    <3>3. conf.num # 0
      <4>. SUFFICES ASSUME conf.num = 0 PROVE FALSE
        OBVIOUS
      <4>1. made' = made
        BY <3>2
      <4>2. saved' = saved
        BY <3>2 DEF CkptInv, CkptType
      <4>. QED BY <1>4, <4>1, <4>2
    <3>4. made' = Append(made, step)
      BY <3>2, <3>3
    <3>5. conf.num < 0
      BY <1>2, <3>1, <3>3
    <3>. QED BY <3>1, <3>4, <3>5
  <2>2. Complete(step)
    BY <1>1, <1>2, <2>1, NowComplete
  <2>3. \A t : Complete(t)' <=> Complete(t)
    BY <1>1 DEF Complete
  <2>4. /\ made' \in Seq(Times) /\ InOrder(made')
        /\ \A t : Has(made', t) => t <= step
        /\ \A t \in protected : Has(made', t)
    <3>1. CASE made' = made
      BY <1>2, <3>1 DEF CkptInv, ListsInv
    <3>2. CASE made' = Append(made, step)
      <4>1. PICK s : s = step
        OBVIOUS
      <4>2. \A t : Has(made, t) => t < s
        <5>1. ASSUME NEW t, Has(made, t) PROVE t < s
          <6>1. t \in Nat /\ s \in Nat /\ t <= s /\ t # s
            BY <1>2, <4>1, <5>1, TimesAreNumbers
          <6>. QED BY <6>1
        <5>. QED BY <5>1
      <4>3. Times \subseteq Int /\ s \in Times /\ InOrder(made) /\ s \in Nat
        BY <1>2, <4>1, TimesAreNumbers DEF CkptInv, ListsInv
      <4>4. InOrder(Append(made, s))
        BY <1>2, <4>2, <4>3, AppendedInOrder
      <4>5. Append(made, s) \in Seq(Times) /\ \A t : Has(Append(made, s), t) <=> Has(made, t) \/ t = s
        BY <1>2, <4>3, AppendedOnce
      <4>6. \A t : Has(made', t) => t <= step
        BY <1>2, <3>2, <4>1, <4>3, <4>5
      <4>. QED BY <3>2, <4>1, <4>4, <4>5, <4>6 DEF CkptInv, ListsInv
    <3>. QED BY <2>1, <3>1, <3>2
  <2>5. CkptType'
    BY <1>1, <2>4 DEF CkptInv, CkptType
  <2>6. ListsInv'
    <3>1. ~(conf'.num > 0)
      BY <1>2, <2>1
    <3>2. at' = "step" /\ outcome' # "none" /\ step' = step /\ protected' = protected
      BY <1>1
    <3>. QED BY <2>4, <3>1, <3>2 DEF ListsInv
  <2>7. KeptInv'
    BY <1>1, <1>2, <2>1, <2>2, <2>3 DEF CkptInv, KeptInv
  <2>8. SavingInv' /\ PurgeInv'
    BY <1>1 DEF SavingInv, PurgeInv
  <2>9. TidyInv'
    <3>1. ~(conf'.num > 0)
      BY <1>2, <2>1
    <3>. QED BY <3>1 DEF TidyInv
  <2>. QED BY <2>5, <2>6, <2>7, <2>8, <2>9 DEF CkptInv
<1>. QED BY <1>3, <1>4

LEMMA CollectManyCkpt ==
  ASSUME CkptInv, CollectCalls, ~failed, conf.num > 0
  PROVE  CkptInv'
<1>1. PICK s : s = step
  OBVIOUS
<1>2. PICK n : n = conf.num
  OBVIOUS
<1>3. PICK m : m = Append(made, s)
  OBVIOUS
<1>4. PICK p : p = protected'
  OBVIOUS
<1>5. /\ at = "saving" /\ waiting = {} /\ at' = "purge" /\ outcome' = outcome
      /\ UNCHANGED <<conf, step, restart, waiting>>
      /\ made' = m /\ saved' = TRUE /\ newChkpts' = Append(newChkpts, s)
      /\ p \in {protected, protected \cup {s}}
      /\ purge' = Candidates(newChkpts', p)
  <2>1. conf.num \in Int
    BY SettingsType DEF CkptInv
  <2>2. ~(conf.num <= 0) /\ conf.num # 0
    BY <2>1
  <2>3. /\ at = "saving" /\ waiting = {} /\ at' = "purge" /\ outcome' = outcome
        /\ UNCHANGED <<conf, step, restart, waiting>>
    BY <2>2 DEF CollectCalls, simVars
  <2>4. made' = m /\ newChkpts' = Append(newChkpts, s)
    BY <1>1, <1>3, <2>2 DEF CollectCalls
  <2>5. saved' = TRUE
    BY <2>2 DEF CollectCalls
  <2>6. p \in {protected, protected \cup {s}}
    BY <1>1, <1>4, <2>2 DEF CollectCalls
  <2>7. purge' = Candidates(newChkpts', p)
    BY <1>4, <2>2 DEF CollectCalls
  <2>. QED BY <2>3, <2>4, <2>5, <2>6, <2>7
<1>6. /\ n \in Nat /\ n > 0 /\ s \in Times /\ made \in Seq(Times) /\ protected \subseteq Times
      /\ InOrder(made) /\ ~Has(made, s) /\ newChkpts = made /\ outcome = "none"
      /\ \A t : Has(made, t) => t \in Times /\ t <= s
      /\ \A t \in protected : Has(made, t)
      /\ s \notin protected
  BY <1>1, <1>2, <1>5, SettingsType DEF CkptInv, CkptType, ListsInv, SavingInv, Has
<1>7. /\ m \in Seq(Times) /\ InOrder(m) /\ \A t : Has(m, t) <=> Has(made, t) \/ t = s
  <2>1. Times \subseteq Int
    BY TimesAreNumbers
  <2>2. \A t : Has(made, t) => t < s
    <3>1. ASSUME NEW t, Has(made, t) PROVE t < s
      <4>1. t \in Nat /\ s \in Nat /\ t <= s /\ t # s
        BY <1>6, <3>1, TimesAreNumbers
      <4>. QED BY <4>1
    <3>. QED BY <3>1
  <2>3. InOrder(Append(made, s))
    BY <1>6, <2>1, <2>2, AppendedInOrder
  <2>4. Append(made, s) \in Seq(Times)
        /\ \A t : Has(Append(made, s), t) <=> Has(made, t) \/ t = s
    BY <1>6, AppendedOnce
  <2>. QED BY <1>3, <2>3, <2>4
<1>8. newChkpts' = m
  BY <1>3, <1>5, <1>6
<1>9. p \subseteq Times /\ \A t \in p : Has(m, t)
  BY <1>5, <1>6, <1>7
<1>10. /\ purge' \in Seq(Times) /\ NoneTwice(purge') /\ NewerLater(purge', m)
       /\ \A t : Has(purge', t) <=> t \in Present \ p
  <2>1. purge' = Candidates(m, p)
    BY <1>5, <1>8
  <2>2. /\ Candidates(m, p) \in Seq(Times)
        /\ NoneTwice(Candidates(m, p)) /\ NewerLater(Candidates(m, p), m)
        /\ \A t : Has(Candidates(m, p), t) <=> t \in Present \ p
    BY <1>7, <1>9, CandidatesAre
  <2>. QED BY <2>1, <2>2
<1>11. CkptType'
  BY <1>4, <1>5, <1>7, <1>9, <1>10 DEF CkptInv, CkptType
<1>12. ListsInv'
  <2>1. \A t : Has(m, t) => t <= s
    BY <1>6, <1>7, TimesAreNumbers
  <2>. QED BY <1>1, <1>4, <1>5, <1>7, <1>8, <1>9, <2>1 DEF ListsInv
<1>13. Complete(s) /\ \A t : Complete(t)' <=> Complete(t)
  <2>1. Complete(step)
    BY <1>2, <1>5, <1>6, NowComplete
  <2>. QED BY <1>1, <1>5, <2>1 DEF Complete
<1>14. /\ \A t : RecentOf(m, p, n, t) => RecentOf(made, protected, n, t) \/ t = s
       /\ s \in p \/ RecentOf(m, p, n, s)
  <2>1. PICK q : q = protected
    OBVIOUS
  <2>2. /\ \A t : RecentOf(Append(made, s), q \cup {s}, n, t) => RecentOf(made, q, n, t)
        /\ \A t : RecentOf(Append(made, s), q, n, t) => RecentOf(made, q, n, t) \/ t = s
        /\ RecentOf(Append(made, s), q, n, s)
    BY <1>6, <2>1, RecentAfter
  <2>3. CASE p = q
    BY <1>3, <2>1, <2>2, <2>3
  <2>4. CASE p = q \cup {s}
    BY <1>3, <2>1, <2>2, <2>4
  <2>. QED BY <1>5, <2>1, <2>3, <2>4
<1>15. \A t : Recent(t)' <=> RecentOf(m, p, n, t)
  BY <1>2, <1>4, <1>5 DEF Recent
<1>16. KeptInv'
  <2>1. \A t \in p : Complete(t)
    BY <1>5, <1>13 DEF CkptInv, KeptInv
  <2>2. \A t \in Times : RecentOf(m, p, n, t) => Complete(t)
    BY <1>2, <1>13, <1>14 DEF CkptInv, KeptInv, Recent
  <2>3. conf'.num # 0 /\ \E t \in Times : Complete(t)
    BY <1>2, <1>5, <1>6, <1>13
  <2>. QED BY <1>4, <1>13, <1>15, <2>1, <2>2, <2>3 DEF KeptInv
<1>17. PurgeInv'
  <2>1. Present' = Present
    BY <1>5 DEF Present, OnDisk
  <2>2. s \in p \/ Recent(s)'
    BY <1>14, <1>15
  <2>3. step' \in p \/ Recent(step)'
    BY <1>1, <1>2, <1>4, <1>5, <1>14 DEF Recent
  <2>. QED BY <1>2, <1>4, <1>5, <1>6, <1>10, <2>1, <2>3 DEF PurgeInv
<1>. QED BY <1>5, <1>6, <1>11, <1>12, <1>16, <1>17 DEF CkptInv, SavingInv, TidyInv

LEMMA RemoveObsoleteCkpt ==
  ASSUME CkptInv, RemoveObsolete
  PROVE  CkptInv'
<1>1. PICK h : h = Head(purge)
  OBVIOUS
<1>2. at = "purge" /\ Len(purge) > conf.num /\ restart' = [restart EXCEPT ![h] = {}]
      /\ UNCHANGED <<conf, step, made, protected, newChkpts, saved, waiting>>
  BY <1>1 DEF RemoveObsolete, Surplus, simVars, driverVars, ghostVars
<1>3. /\ conf.num \in Nat /\ conf.num > 0 /\ outcome = "none"
      /\ purge \in Seq(Times) /\ made \in Seq(Times) /\ InOrder(made)
      /\ protected \in SUBSET Times /\ restart \in [Times -> SUBSET Workers]
      /\ NoneTwice(purge) /\ NewerLater(purge, made)
      /\ \A t : Has(purge, t) <=> t \in Present /\ t \notin protected
  BY <1>2, SettingsType DEF CkptInv, CkptType, ListsInv, PurgeInv
<1>4. purge # <<>>
  BY <1>2, <1>3
<1>5. /\ Tail(purge) \in Seq(Times) /\ Has(purge, h) /\ h \in Times
      /\ NoneTwice(Tail(purge)) /\ NewerLater(Tail(purge), made)
      /\ \A t : Has(Tail(purge), t) <=> Has(purge, t) /\ t # h
  BY <1>1, <1>3, <1>4, RestOfCandidates
<1>6. h \in Present /\ h \notin protected /\ OnDisk(h)
  BY <1>3, <1>5 DEF Present
<1>7. purge' = Tail(purge) /\ UNCHANGED <<at, outcome>>
  BY <1>1, <1>6 DEF RemoveObsolete
<1>8. ~Recent(h)
  <2>1. ~RecentOf(made, protected, conf.num, Head(purge))
    BY <1>2, <1>3, HeadIsNotRecent
  <2>. QED BY <1>1, <2>1 DEF Recent
<1>9. /\ \A t \in Times : t # h => (Complete(t)' <=> Complete(t))
      /\ \A t : t \in Present' <=> t \in Present /\ t # h
  BY <1>2, <1>3, <1>5 DEF Complete, Present, OnDisk
<1>10. \A t : Recent(t)' <=> Recent(t)
  BY <1>2 DEF Recent
<1>11. CkptType'
  <2>1. restart' \in [Times -> SUBSET Workers]
    BY <1>2, <1>3
  <2>. QED BY <1>2, <1>5, <1>7, <2>1 DEF CkptInv, CkptType
<1>12. ListsInv'
  BY <1>2, <1>7 DEF CkptInv, ListsInv
<1>13. step \in Times /\ step # h /\ Complete(step)
  <2>1. step \in Times /\ (step \in protected \/ Recent(step))
    BY <1>2 DEF CkptInv, CkptType, PurgeInv
  <2>. QED BY <1>3, <1>6, <1>8, <2>1 DEF CkptInv, KeptInv
<1>14. KeptInv'
  <2>1. \A t \in protected : Complete(t)'
    BY <1>3, <1>6, <1>9 DEF CkptInv, KeptInv
  <2>2. \A t \in Times : Recent(t) => Complete(t)'
    BY <1>3, <1>8, <1>9 DEF CkptInv, KeptInv
  <2>3. \E t \in Times : Complete(t)'
    BY <1>9, <1>13
  <2>. QED BY <1>2, <1>3, <1>10, <2>1, <2>2, <2>3 DEF KeptInv
<1>15. PurgeInv'
  <2>1. step \in protected \/ Recent(step)
    BY <1>2 DEF CkptInv, PurgeInv
  <2>2. step' \in protected' \/ Recent(step)'
    BY <1>2, <2>1 DEF Recent
  <2>3. \A t : Has(purge', t) <=> t \in Present' /\ t \notin protected'
    BY <1>2, <1>3, <1>5, <1>7, <1>9
  <2>. QED BY <1>2, <1>3, <1>5, <1>7, <2>2, <2>3 DEF PurgeInv
<1>. QED BY <1>2, <1>3, <1>7, <1>11, <1>12, <1>14, <1>15 DEF CkptInv, SavingInv, TidyInv

LEMMA EndPurgeCkpt ==
  ASSUME CkptInv, EndPurge
  PROVE  CkptInv'
<1>1. /\ at = "purge" /\ ~(Len(purge) > conf.num) /\ purge' = <<>>
      /\ at' = "step" /\ outcome' = "made"
      /\ UNCHANGED <<conf, step, restart, made, protected, newChkpts, saved, waiting>>
  BY DEF EndPurge, Surplus, Return, simVars, driverVars, ghostVars
<1>2. KeptInv' /\ Present' = Present
  BY <1>1, ListsUntouched
<1>3. CkptType'
  <2>1. <<>> \in Seq(Times)
    OBVIOUS
  <2>. QED BY <1>1, <2>1 DEF CkptInv, CkptType
<1>4. ListsInv'
  BY <1>1 DEF CkptInv, ListsInv
<1>5. Cardinality(Present \ protected) <= conf.num
  <2>1. PICK S : S = Present \ protected
    OBVIOUS
  <2>2. purge \in Seq(Times) /\ conf.num \in Int
    BY SettingsType DEF CkptInv, CkptType
  <2>3. \A t : t \in S <=> Has(purge, t)
    BY <1>1, <2>1 DEF CkptInv, PurgeInv
  <2>4. IsFiniteSet(S) /\ Cardinality(S) <= Len(purge)
    BY <2>2, <2>3, NoMoreThanLength
  <2>5. Cardinality(S) \in Nat /\ Len(purge) \in Nat
    BY <2>2, <2>4, FS_CardinalityType
  <2>. QED BY <1>1, <2>1, <2>2, <2>4, <2>5
<1>6. TidyInv'
  BY <1>1, <1>2, <1>5 DEF TidyInv
<1>. QED BY <1>1, <1>2, <1>3, <1>4, <1>6 DEF CkptInv, SavingInv, PurgeInv

LEMMA CrashAndRestartCkpt ==
  ASSUME CkptInv, Crash \/ \E t \in Times : Restart(t)
  PROVE  CkptInv'
<1>0. <<>> \in Seq(Times) /\ \A t : ~Has(<<>>, t)
  BY DEF Has
<1>1. CASE Crash
  <2>1. /\ at' = "down" /\ outcome' = "none" /\ waiting' = {} /\ purge' = <<>>
        /\ UNCHANGED <<conf, step, restart, made, protected, newChkpts, saved>>
    BY <1>1 DEF Crash, simVars, driverVars, ghostVars
  <2>2. KeptInv'
    BY <2>1, ListsUntouched
  <2>3. CkptType'
    BY <1>0, <2>1 DEF CkptInv, CkptType
  <2>4. ListsInv'
    BY <2>1 DEF CkptInv, ListsInv
  <2>. QED BY <2>1, <2>2, <2>3, <2>4 DEF CkptInv, SavingInv, PurgeInv, TidyInv
<1>2. ASSUME NEW t \in Times, Restart(t) PROVE CkptInv'
  <2>1. /\ at = "down" /\ t < MaxStep /\ step' = t + 1 /\ at' = "step"
        /\ newChkpts' = <<>> /\ protected' = {} /\ made' = <<>>
        /\ UNCHANGED <<conf, restart, outcome, waiting, purge, saved>>
    BY <1>2 DEF Restart, callVars
  <2>2. step' \in Times
    <3>1. t \in 1..MaxStep /\ MaxStep \in Nat
      BY CheckpointAssumption DEF Times
    <3>. QED BY <2>1, <3>1 DEF Times
  <2>3. CkptType'
    BY <1>0, <2>1, <2>2 DEF CkptInv, CkptType
  <2>4. ListsInv'
    BY <1>0, <2>1 DEF ListsInv, InOrder
  <2>5. KeptInv'
    <3>1. \A u : Complete(u)' <=> Complete(u)
      BY <2>1 DEF Complete
    <3>2. \A u : ~Recent(u)'
      BY <2>1, NoneRecentAtFirst DEF Recent
    <3>. QED BY <2>1, <3>1, <3>2 DEF CkptInv, KeptInv
  <2>6. TidyInv'
    BY <2>1 DEF CkptInv, TidyInv
  <2>. QED BY <2>1, <2>3, <2>4, <2>5, <2>6 DEF CkptInv, SavingInv, PurgeInv
<1>. QED BY <1>1, <1>2

(* Steps of the workers between two checkpoints, and no step. *)
LEMMA WorkCkpt ==
  ASSUME CkptInv, (\E w \in Workers : Stage(w) \/ FinishStep(w)) \/ UNCHANGED vars
  PROVE  CkptInv'
<1>1. UNCHANGED <<conf, step, at, outcome, restart, waiting, failed, made, protected, newChkpts,
                  saved, purge>>
  BY DEF Stage, FinishStep, vars, simVars, driverVars, callVars, ghostVars
<1>2. KeptInv' /\ Present' = Present /\ \A t : Recent(t)' <=> Recent(t)
  BY <1>1, ListsUntouched
<1>3. CkptType' /\ ListsInv' /\ SavingInv'
  BY <1>1 DEF CkptInv, CkptType, ListsInv, SavingInv
<1>4. PurgeInv'
  <2>1. Recent(step)' <=> Recent(step)
    BY <1>1 DEF Recent
  <2>. QED BY <1>1, <1>2, <2>1 DEF CkptInv, PurgeInv
<1>5. TidyInv'
  BY <1>1, <1>2 DEF CkptInv, TidyInv
<1>. QED BY <1>2, <1>3, <1>4, <1>5 DEF CkptInv

LEMMA CkptStays ==
  ASSUME "once_per_step" \in Habits
  PROVE  Spec => []CkptInv
<1>1. CkptInv /\ [Next]_vars => CkptInv'
  <2>. SUFFICES ASSUME CkptInv, [Next]_vars PROVE CkptInv'
    OBVIOUS
  <2>1. ASSUME CollectCalls PROVE CkptInv'
    <3>1. conf.num \in Int
      BY SettingsType DEF CkptInv
    <3>2. (failed \/ conf.num <= 0) \/ (~failed /\ conf.num > 0)
      BY <3>1
    <3>. QED BY <2>1, <3>2, CollectFewCkpt, CollectManyCkpt
  <2>. QED BY <2>1, NextStepCkpt, CheckpointComponentsCkpt, SaveRestartFilesCkpt,
       RemoveObsoleteCkpt, EndPurgeCkpt, CrashAndRestartCkpt, WorkCkpt DEF Next
<1>. QED BY <1>1, CkptInitially, PTL DEF Spec

(* The drivers ask at most once in a step, or else the second checkpoint of *)
(* a step could let the purge remove the only complete one.  Then, once a   *)
(* checkpoint has been completed, there is a complete one to restart from   *)
(* at any moment, whatever workers fail and whenever the program crashes.   *)
THEOREM AlwaysRestartable ==
  ASSUME "once_per_step" \in Habits
  PROVE  Spec => []CanRestart
<1>1. CkptInv => CanRestart
  BY DEF CkptInv, KeptInv, CanRestart
<1>. QED BY <1>1, CkptStays, PTL

(* When _dispatch_checkpoint has returned, the NUM_CHECKPOINT most recent   *)
(* checkpoints of this run are there, complete, and nothing else is that    *)
(* is not protected, those of earlier runs included.                        *)
THEOREM RecentAreKept ==
  ASSUME "once_per_step" \in Habits
  PROVE  Spec => []KeepsMostRecent
<1>1. CkptInv => KeepsMostRecent
  <2>. SUFFICES ASSUME CkptInv, conf.num > 0, outcome = "made"
                PROVE  /\ \A t \in MostRecent : Complete(t)
                       /\ Cardinality(Present \ protected) <= conf.num
    BY DEF KeepsMostRecent
  <2>1. Cardinality(Present \ protected) <= conf.num
    BY DEF CkptInv, TidyInv
  <2>2. \A t \in MostRecent : t \in Times /\ Recent(t)
    <3>1. Unprotected \in Seq(Times)
      BY FilterProperties DEF Unprotected, CkptInv, CkptType
    <3>2. \A t \in MostRecent : t \in Times
      BY <3>1 DEF MostRecent
    <3>. QED BY <3>2, MostRecentIs DEF Recent
  <2>. QED BY <2>1, <2>2 DEF CkptInv, KeptInv
<1>. QED BY <1>1, CkptStays, PTL

(* What is promised is listed, where there is a frequency, or never purged. *)
PromisedInv ==
  /\ promised \subseteq Times
  /\ conf.num = 0 => promised = {}
  /\ (conf.num > 0 /\ conf.freq # 0) => promised \subseteq protected
  /\ conf.num < 0 => \A t \in promised : Complete(t)

LEMMA PromisedUntouched ==
  ASSUME PromisedInv, UNCHANGED <<conf, restart, protected, promised>>
  PROVE  PromisedInv'
BY DEF PromisedInv, Complete

LEMMA CollectPromised ==
  ASSUME CkptInv, PromisedInv, CollectCalls
  PROVE  PromisedInv'
<1>1. /\ at = "saving" /\ waiting = {} /\ UNCHANGED <<conf, step, restart>>
      /\ conf.num \in Int /\ conf.freq \in Nat /\ step \in Times
  BY SettingsType DEF CollectCalls, simVars, CkptInv, CkptType
<1>2. CASE UNCHANGED <<protected, promised>>
  BY <1>1, <1>2, PromisedUntouched
<1>3. CASE ~UNCHANGED <<protected, promised>>
  <2>1. /\ ~failed /\ conf.num # 0
        /\ promised' \in {promised, promised \cup {step}}
        /\ protected \subseteq protected'
        /\ (conf.num > 0 /\ conf.freq # 0 /\ step \in promised' \ promised) => step \in protected'
    <3>1. ~failed
      BY <1>3 DEF CollectCalls
    <3>2. /\ promised' = IF conf.num # 0 /\ (protect \/ Designated(counter'))
                         THEN promised \cup {step} ELSE promised
          /\ IF conf.num <= 0
             THEN protected' = protected
             ELSE protected' = IF conf.freq # 0 /\ (protect \/ Designated(counter'))
                               THEN protected \cup {step} ELSE protected
      BY <3>1 DEF CollectCalls
    <3>3. conf.num # 0
      BY <1>1, <1>3, <3>2
    <3>. QED BY <1>1, <3>1, <3>2, <3>3
  <2>2. Complete(step)
    BY <1>1, <2>1, NowComplete
  <2>3. \A t : Complete(t)' <=> Complete(t)
    BY <1>1 DEF Complete
  <2>4. \A t \in promised' : t \in promised \/ t = step
    BY <2>1
  <2>5. promised' \subseteq Times
    BY <1>1, <2>4 DEF PromisedInv
  <2>6. ASSUME conf.num > 0, conf.freq # 0 PROVE promised' \subseteq protected'
    BY <2>1, <2>4, <2>6 DEF PromisedInv
  <2>7. ASSUME conf.num < 0 PROVE \A t \in promised' : Complete(t)'
    BY <2>2, <2>3, <2>4, <2>7 DEF PromisedInv
  <2>. QED BY <1>1, <2>1, <2>5, <2>6, <2>7 DEF PromisedInv
<1>. QED BY <1>2, <1>3

LEMMA PromisedStep == CkptInv /\ PromisedInv /\ [Next]_vars => PromisedInv'
<1>. SUFFICES ASSUME CkptInv, PromisedInv, [Next]_vars PROVE PromisedInv'
  OBVIOUS
<1>1. ASSUME NEW w \in Workers, SaveRestartFiles(w) PROVE PromisedInv'
  <2>1. /\ UNCHANGED <<conf, protected, promised>>
        /\ restart' = restart \/ restart' = [restart EXCEPT ![step] = @ \cup {w}]
    BY <1>1 DEF SaveRestartFiles, simVars, driverVars, ghostVars
  <2>2. \A t \in Times : Complete(t) => Complete(t)'
    BY <2>1 DEF CkptInv, CkptType, Complete
  <2>. QED BY <2>1, <2>2 DEF PromisedInv
<1>2. CASE RemoveObsolete
  <2>1. conf.num > 0 /\ conf.num \in Int /\ UNCHANGED <<conf, protected, promised>>
    BY <1>2, SettingsType DEF RemoveObsolete, simVars, driverVars, ghostVars, CkptInv, PurgeInv
  <2>. QED BY <2>1 DEF PromisedInv
<1>3. ASSUME NEW t \in Times, Restart(t) PROVE PromisedInv'
  BY <1>3 DEF Restart, PromisedInv
<1>4. ASSUME NEW w \in Workers, Stage(w) \/ FinishStep(w) PROVE PromisedInv'
  BY <1>4, PromisedUntouched DEF Stage, FinishStep, simVars, driverVars, ghostVars
<1>5. ASSUME NEW force, NEW prot, NEW t, CheckpointComponents(force, prot, t) PROVE PromisedInv'
  BY <1>5, PromisedUntouched DEF CheckpointComponents, simVars
<1>6. CASE NextStep \/ EndPurge \/ Crash \/ UNCHANGED vars
  BY <1>6, PromisedUntouched DEF NextStep, EndPurge, Crash, vars, simVars, driverVars, ghostVars
<1>. QED BY <1>1, <1>2, <1>3, <1>4, <1>5, <1>6, CollectPromised DEF Next

(* Where PROTECT_FREQUENCY is set, each checkpoint made with Protect=True   *)
(* or designated by the frequency stays complete as long as the run lasts,  *)
(* also while other checkpoints are saved, fail, or are purged.             *)
THEOREM ProtectedAreKept ==
  ASSUME "once_per_step" \in Habits
  PROVE  Spec => []ProtectedRemain
<1>1. Init => PromisedInv
  BY DEF Init, PromisedInv
<1>2. CkptInv /\ PromisedInv => ProtectedRemain
  <2>. SUFFICES ASSUME CkptInv, PromisedInv, conf.freq # 0, NEW t \in promised PROVE Complete(t)
    BY DEF ProtectedRemain, ProtectIsKept
  <2>1. conf.num \in Int
    BY SettingsType DEF CkptInv
  <2>2. CASE conf.num > 0
    BY <2>2 DEF PromisedInv, CkptInv, KeptInv
  <2>3. CASE conf.num = 0
    BY <2>3 DEF PromisedInv
  <2>4. CASE conf.num < 0
    BY <2>4 DEF PromisedInv
  <2>. QED BY <2>1, <2>2, <2>3, <2>4
<1>. QED BY <1>1, <1>2, PromisedStep, CkptStays, PTL DEF Spec

-----------------------------------------------------------------------------
(* When checkpoints are taken.  The driver remembers the last one only,    *)
(* which is the latest of all that this run has begun (LastInv).           *)

DueType ==
  /\ conf \in Settings /\ first \in Nat \ {0} /\ step \in Nat /\ first <= step
  /\ wall \in Nat /\ lastWall \in Nat /\ lastPhys \in Nat
  /\ taken \subseteq [wall : Nat, step : Nat]

LastInv ==
  /\ lastWall <= wall /\ lastPhys <= step
  /\ \A c \in taken : c.wall <= lastWall /\ c.step <= lastPhys /\ c.step >= first
  /\ \/ \E c \in taken : c.wall = lastWall /\ c.step = lastPhys
     \/ /\ taken = {} /\ lastWall = 0
        /\ lastPhys = NoTime \/ (conf.mode = "PHYSTIME_REGULAR" /\ lastPhys = first)

(* A checkpoint is completed that was begun, and the clock has stood still. *)
BegunInv ==
  /\ at = "saving" => [wall |-> wall, step |-> step] \in taken
  /\ completed \subseteq taken
  /\ \A c, d \in taken : c.wall = d.wall => c = d

DueInv == DueType /\ LastInv /\ BegunInv

LEMMA DueInitially == Init => DueInv
BY DEF Init, DueInv, DueType, LastInv, BegunInv, NoTime

LEMMA DueStep == DueInv /\ [Next]_vars => DueInv'
<1>. SUFFICES ASSUME DueInv, [Next]_vars PROVE DueInv'
  OBVIOUS
<1>1. ASSUME UNCHANGED <<conf, first, step, wall, lastWall, lastPhys, taken>>,
             at' = "saving" => at = "saving",
             \/ completed' = completed
             \/ at = "saving" /\ completed' = completed \cup {[wall |-> wall, step |-> step]}
      PROVE  DueInv'
  <2>1. DueType' /\ LastInv'
    BY <1>1 DEF DueInv, DueType, LastInv
  <2>2. BegunInv'
    BY <1>1 DEF DueInv, BegunInv
  <2>. QED BY <2>1, <2>2 DEF DueInv
<1>2. CASE NextStep
  <2>1. step' = step + 1 /\ at' = "step"
        /\ UNCHANGED <<conf, first, wall, lastWall, lastPhys, taken, completed>>
    BY <1>2 DEF NextStep, StepIsDone, driverVars, ghostVars
  <2>2. DueType'
    BY <2>1 DEF DueInv, DueType
  <2>3. LastInv'
    BY <2>1 DEF DueInv, DueType, LastInv
  <2>4. BegunInv'
    BY <2>1 DEF DueInv, BegunInv
  <2>. QED BY <2>2, <2>3, <2>4 DEF DueInv
<1>3. ASSUME NEW force, NEW prot, NEW t \in 1..MaxWall, CheckpointComponents(force, prot, t)
      PROVE  DueInv'
  <2>1. /\ t \in Nat /\ t > wall /\ wall' = t /\ at = "step"
        /\ UNCHANGED <<conf, first, step, completed>>
        /\ \/ /\ lastWall' = t /\ lastPhys' = step
              /\ taken' = taken \cup {[wall |-> t, step |-> step]}
           \/ /\ lastWall' = lastWall /\ lastPhys' \in {lastPhys, LastPhys} /\ taken' = taken
              /\ at' = at
    <3>1. t \in Nat
      BY CheckpointAssumption
    <3>. QED BY <1>3, <3>1 DEF CheckpointComponents, StepIsDone, simVars
  <2>2. CASE lastWall' = t /\ lastPhys' = step /\ taken' = taken \cup {[wall |-> t, step |-> step]}
    <3>1. PICK c : c = [wall |-> t, step |-> step]
      OBVIOUS
    <3>2. c \in [wall : Nat, step : Nat] /\ c.wall = t /\ c.step = step /\ taken' = taken \cup {c}
      BY <2>1, <2>2, <3>1 DEF DueInv, DueType
    <3>3. DueType'
      BY <2>1, <2>2, <3>2 DEF DueInv, DueType
    <3>4. \A d \in taken : d.wall < t /\ d.step <= step /\ d.step >= first
      BY <2>1 DEF DueInv, DueType, LastInv
    <3>5. \A d \in taken' : d.wall <= lastWall' /\ d.step <= lastPhys' /\ d.step >= first'
      BY <2>1, <2>2, <3>2, <3>4 DEF DueInv, DueType
    <3>6. \E d \in taken' : d.wall = lastWall' /\ d.step = lastPhys'
      BY <2>2, <3>2
    <3>7. BegunInv'
      <4>1. \A d \in taken : d.wall # t
        BY <2>1, <3>4 DEF DueInv, DueType
      <4>2. [wall |-> wall', step |-> step'] \in taken'
        BY <2>1, <2>2
      <4>3. \A b, d \in taken' : b.wall = d.wall => b = d
        BY <3>2, <4>1 DEF DueInv, BegunInv
      <4>. QED BY <2>1, <2>2, <4>2, <4>3 DEF DueInv, BegunInv
    <3>. QED BY <2>1, <2>2, <3>3, <3>5, <3>6, <3>7 DEF DueInv, DueType, LastInv
  <2>3. CASE /\ lastWall' = lastWall /\ lastPhys' \in {lastPhys, LastPhys} /\ taken' = taken
             /\ at' = at
    <3>0. BegunInv'
      BY <2>1, <2>3 DEF DueInv, BegunInv
    <3>1. lastPhys' = lastPhys \/ (conf.mode = "PHYSTIME_REGULAR" /\ lastPhys = NoTime /\ lastPhys' = first)
      BY <2>3 DEF LastPhys
    <3>2. CASE lastPhys' = lastPhys
      BY <2>1, <2>3, <3>0, <3>2 DEF DueInv, DueType, LastInv
    <3>3. CASE conf.mode = "PHYSTIME_REGULAR" /\ lastPhys = NoTime /\ lastPhys' = first
      <4>1. taken = {} /\ lastWall = 0
        BY <3>3 DEF DueInv, DueType, LastInv, NoTime
      <4>. QED BY <2>1, <2>3, <3>0, <3>3, <4>1 DEF DueInv, DueType, LastInv
    <3>. QED BY <3>1, <3>2, <3>3
  <2>. QED BY <2>1, <2>2, <2>3
<1>4. ASSUME NEW t \in Times, Restart(t) PROVE DueInv'
  <2>1. /\ t \in Nat /\ first' = t + 1 /\ step' = t + 1 /\ wall' = 0 /\ lastWall' = 0
        /\ lastPhys' = NoTime /\ taken' = {} /\ completed' = {} /\ conf' = conf /\ at' = "step"
    BY <1>4, TimesAreNumbers DEF Restart
  <2>. QED BY <2>1 DEF DueInv, DueType, LastInv, BegunInv, NoTime
<1>5. ASSUME NEW w \in Workers, Stage(w) \/ FinishStep(w) \/ SaveRestartFiles(w) PROVE DueInv'
  BY <1>1, <1>5 DEF Stage, FinishStep, SaveRestartFiles, simVars, driverVars, ghostVars
<1>6. CASE RemoveObsolete \/ EndPurge \/ Crash \/ UNCHANGED vars
  BY <1>1, <1>6 DEF RemoveObsolete, EndPurge, Crash, Return, vars, simVars, driverVars, ghostVars
<1>7. CASE CollectCalls
  <2>1. /\ UNCHANGED <<conf, first, step, wall, lastWall, lastPhys, taken>> /\ at' # "saving"
        /\ \/ completed' = completed
           \/ at = "saving" /\ completed' = completed \cup {[wall |-> wall, step |-> step]}
    BY <1>7 DEF CollectCalls, Return, simVars
  <2>. QED BY <1>1, <2>1
<1>. QED BY <1>2, <1>3, <1>4, <1>5, <1>6, <1>7 DEF Next

(* If the last checkpoint succeeded, it is the one that is remembered. *)
LEMMA LastIsCompleted ==
  ASSUME DueInv, LastSucceeded
  PROVE  \/ \E c \in completed : c.wall = lastWall /\ c.step = lastPhys
         \/ /\ taken = {} /\ lastWall = 0
            /\ lastPhys = NoTime \/ (conf.mode = "PHYSTIME_REGULAR" /\ lastPhys = first)
<1>1. ASSUME NEW c \in taken, c.wall = lastWall, c.step = lastPhys PROVE c \in completed
  <2>1. CASE c \notin completed
    <3>1. PICK d \in completed : d.wall > c.wall
      BY <2>1 DEF LastSucceeded
    <3>2. d \in taken /\ d.wall <= lastWall /\ d.wall \in Nat /\ lastWall \in Nat
      BY <3>1 DEF DueInv, DueType, LastInv, BegunInv
    <3>. QED BY <1>1, <3>1, <3>2
  <2>. QED BY <2>1
<1>. QED BY <1>1 DEF DueInv, LastInv

(* Looking at the last one begun is never too early, whatever has failed,  *)
(* and as good as looking at all if the last one has not failed.           *)
LEMMA DueWhenDocumented ==
  ASSUME DueInv, ~TypeError, NEW t \in Nat
  PROVE  /\ Due(t) => Documented(t)
         /\ (LastSucceeded /\ (conf.mode = "PHYSTIME_REGULAR" => taken # {}))
              => (Documented(t) => Due(t))
<1>. DEFINE Reg == conf.mode = "PHYSTIME_REGULAR"
<1>0. /\ conf.mode \in Modes /\ Interval \in Nat /\ Values \subseteq Nat /\ \A v \in Values : v > 0
  BY CheckpointAssumption DEF DueInv, DueType
<1>7. \A c \in completed : /\ c \in taken /\ c.wall \in Nat /\ c.step \in Nat
                           /\ c.wall <= lastWall /\ c.step <= lastPhys
  BY DEF DueInv, DueType, LastInv, BegunInv
<1>8. lastWall \in Nat /\ lastPhys \in Nat /\ step \in Nat /\ first \in Nat /\ first > 0
      /\ first <= step /\ (taken = {} => completed = {})
  BY DEF DueInv, DueType, BegunInv
<1>9. LastSucceeded => \/ \E c \in completed : c.wall = lastWall /\ c.step = lastPhys
                       \/ taken = {} /\ lastWall = 0 /\ (lastPhys = NoTime \/ Reg)
  BY LastIsCompleted
<1>1. CASE conf.mode = "ALL"
  BY <1>1 DEF Due, Documented
<1>2. CASE conf.mode = "WALLTIME_REGULAR"
  <2>1. Due(t) <=> t - lastWall >= Interval
    BY <1>2 DEF Due
  <2>2. Documented(t) <=> t >= Interval /\ \A c \in completed : t - c.wall >= Interval
    BY <1>2 DEF Documented
  <2>. QED BY <1>0, <1>7, <1>8, <1>9, <2>1, <2>2
<1>3. CASE conf.mode = "WALLTIME_EXPLICIT"
  <2>1. Due(t) <=> \E v \in Values : t >= v /\ v > lastWall
    BY <1>3 DEF Due
  <2>2. Documented(t) <=> \E v \in Values : t >= v /\ \A c \in completed : c.wall < v
    BY <1>3 DEF Documented
  <2>3. \A v \in Values : v > lastWall => \A c \in completed : c.wall < v
    BY <1>0, <1>7, <1>8
  <2>4. LastSucceeded => \A v \in Values : (\A c \in completed : c.wall < v) => v > lastWall
    BY <1>0, <1>8, <1>9
  <2>. QED BY <2>1, <2>2, <2>3, <2>4
<1>4. CASE conf.mode = "PHYSTIME_REGULAR"
  <2>1. Due(t) <=> step - LastPhys >= Interval
    BY <1>4 DEF Due
  <2>2. Documented(t) <=> step >= Interval /\ \A c \in completed : step - c.step >= Interval
    BY <1>4 DEF Documented
  <2>3. LastPhys = IF lastPhys = 0 THEN first ELSE lastPhys
    BY <1>4 DEF LastPhys, NoTime
  <2>4. \A c \in taken : c.step >= first /\ c.step \in Nat
    BY DEF DueInv, DueType, LastInv
  <2>5. LastPhys \in Nat /\ LastPhys > 0 /\ LastPhys >= lastPhys
    BY <1>8, <2>3
  <2>6. ASSUME Due(t) PROVE Documented(t)
    BY <1>0, <1>7, <1>8, <2>1, <2>2, <2>5, <2>6
  <2>7. ASSUME LastSucceeded, taken # {}, Documented(t) PROVE Due(t)
    <3>1. PICK c \in completed : c.step = lastPhys
      BY <1>9, <2>7
    <3>2. LastPhys = lastPhys
      BY <1>7, <1>8, <2>3, <2>4, <3>1
    <3>. QED BY <2>1, <2>2, <2>7, <3>1, <3>2
  <2>. QED BY <1>4, <2>6, <2>7
<1>5. CASE conf.mode = "PHYSTIME_EXPLICIT"
  <2>1. Due(t) <=> \E v \in Values : step >= v /\ v > lastPhys
    BY <1>5 DEF Due
  <2>2. Documented(t) <=> \E v \in Values : step >= v /\ \A c \in completed : c.step < v
    BY <1>5 DEF Documented
  <2>3. \A v \in Values : v > lastPhys => \A c \in completed : c.step < v
    BY <1>0, <1>7, <1>8
  <2>4. LastSucceeded => \A v \in Values : (\A c \in completed : c.step < v) => v > lastPhys
    BY <1>0, <1>5, <1>8, <1>9 DEF NoTime
  <2>. QED BY <2>1, <2>2, <2>3, <2>4
<1>. QED BY <1>0, <1>1, <1>2, <1>3, <1>4, <1>5 DEF Modes

(* checkpoint_components never takes a checkpoint before the documentation  *)
(* says so, also after others have failed and after restarts; and it takes  *)
(* each that is due, unless the condition raises, the last checkpoint has   *)
(* failed, or it is the first of a run at regular physics times.            *)
THEOREM TakenAsDocumented == Spec => TakenWhenDue
<1>. DEFINE AsSaid(t) ==
       /\ at' = "saving" => Documented(t)
       /\ (LastSucceeded /\ (conf.mode = "PHYSTIME_REGULAR" => taken # {}))
            => (Documented(t) => at' = "saving")
<1>1. ASSUME DueInv, [Next]_vars
      PROVE  [\A t \in 1..MaxWall : Asked(t) => AsSaid(t)]_vars
  <2>. SUFFICES ASSUME NEW t \in 1..MaxWall, Asked(t) PROVE AsSaid(t)
    OBVIOUS
  <2>1. t \in Nat /\ ~TypeError
    BY CheckpointAssumption DEF Asked
  <2>2. at' = "saving" <=> Due(t)
    BY DEF Asked, CheckpointComponents, StepIsDone
  <2>. QED BY <1>1, <2>1, <2>2, DueWhenDocumented
<1>. QED BY <1>1, DueInitially, DueStep, PTL DEF Spec, TakenWhenDue
================================================================================
