--------------------------- MODULE CollectionTheorems ---------------------------
(***************************************************************************)
(* Facts about sums over finite sets (SumFunctionOnSet), about lists that  *)
(* are filtered (Filter), and about how often elements occur in a list     *)
(* (Occurs).  The first two are defined by recursive functions, one        *)
(* element after the other; what they compute is found here without an     *)
(* induction over operators: a smallest set, or a first place in the list, *)
(* where a claim fails cannot exist.                                       *)
(***************************************************************************)
EXTENDS Functions, Filtering, FiniteSetTheorems, SequenceTheorems, TLAPS

LEMMA SmallestExists ==
  ASSUME NEW S, S \subseteq Nat, S # {}
  PROVE  \E m \in S : \A n \in S : m <= n
<1>1. PICK m \in S : \A n \in S : ~ (<<n, m>> \in OpToRel(<, Nat))
  BY NatLessThanWellFounded, WFMin
<1>2. ASSUME NEW n \in S PROVE m <= n
  <2>1. ~ (<<n, m>> \in OpToRel(<, Nat))
    BY <1>1
  <2>2. ~ (n < m)
    BY <2>1 DEF OpToRel
  <2>. QED BY <2>2
<1>. QED BY <1>2

(* The subsets of U with at most n elements. *)
UpTo(U, n) == {s \in SUBSET U : Cardinality(s) <= n}

LEMMA OneLess ==
  ASSUME NEW U, IsFiniteSet(U), NEW s \in SUBSET U, NEW x \in s
  PROVE  /\ IsFiniteSet(s) /\ Cardinality(s) \in Nat \ {0}
         /\ s \ {x} \in SUBSET U /\ Cardinality(s \ {x}) = Cardinality(s) - 1
<1>1. IsFiniteSet(s)
  BY FS_Subset
<1>2. Cardinality(s) \in Nat /\ Cardinality(s \ {x}) = Cardinality(s) - 1
  BY <1>1, FS_CardinalityType, FS_RemoveElement
<1>3. Cardinality(s) # 0
  BY <1>1, FS_EmptySet
<1>. QED BY <1>1, <1>2, <1>3

(* The recursion, when c chooses the next element. *)
Chooses(c, U) == \A s \in SUBSET U : s # {} => c[s] \in s
Term(f, c, g, s) == IF s = {} THEN 0 ELSE f[c[s]] + g[s \ {c[s]}]
IsSum(f, c, g, U) == g = [s \in SUBSET U |-> Term(f, c, g, s)]

LEMMA PartialSums ==
  ASSUME NEW U, IsFiniteSet(U), NEW f, NEW c, Chooses(c, U)
  PROVE  \A n \in Nat : \E g : \A s \in UpTo(U, n) : g[s] = Term(f, c, g, s)
<1>. DEFINE Good(n) == \E g : \A s \in UpTo(U, n) : g[s] = Term(f, c, g, s)
            Bad == {n \in Nat : ~Good(n)}
<1>1. Good(0)
  <2>. DEFINE g == [s \in SUBSET U |-> 0]
  <2>1. ASSUME NEW s \in UpTo(U, 0) PROVE s = {}
    <3>1. IsFiniteSet(s) /\ Cardinality(s) <= 0 /\ Cardinality(s) \in Nat
      BY <2>1, FS_Subset, FS_CardinalityType DEF UpTo
    <3>. QED BY <3>1, FS_EmptySet
  <2>2. \A s \in UpTo(U, 0) : g[s] = Term(f, c, g, s)
    BY <2>1 DEF Term, UpTo
  <2>. QED BY <2>2
<1>2. ASSUME NEW n \in Nat, Good(n) PROVE Good(n + 1)
  <2>1. PICK g : \A s \in UpTo(U, n) : g[s] = Term(f, c, g, s)
    BY <1>2
  <2>2. PICK h : h = [s \in SUBSET U |-> Term(f, c, g, s)]
    OBVIOUS
  <2>3. \A s \in UpTo(U, n) : h[s] = g[s]
    BY <2>1, <2>2 DEF UpTo
  <2>4. ASSUME NEW s \in UpTo(U, n + 1) PROVE h[s] = Term(f, c, h, s)
    <3>0. s \in SUBSET U
      BY DEF UpTo
    <3>1. h[s] = Term(f, c, g, s)
      BY <2>2, <3>0
    <3>2. CASE s = {}
      BY <3>1, <3>2 DEF Term
    <3>3. CASE s # {}
      <4>1. c[s] \in s
        BY <3>0, <3>3 DEF Chooses
      <4>2. s \ {c[s]} \in UpTo(U, n)
        <5>0. Cardinality(s) <= n + 1
          BY DEF UpTo
        <5>1. Cardinality(s) \in Nat \ {0} /\ s \ {c[s]} \in SUBSET U
              /\ Cardinality(s \ {c[s]}) = Cardinality(s) - 1
          BY <3>0, <4>1, OneLess
        <5>2. Cardinality(s \ {c[s]}) <= n
          BY <5>0, <5>1
        <5>. QED BY <5>1, <5>2 DEF UpTo
      <4>3. h[s \ {c[s]}] = g[s \ {c[s]}]
        BY <2>3, <4>2
      <4>. QED BY <3>1, <3>3, <4>3 DEF Term
    <3>. QED BY <3>2, <3>3
  <2>. QED BY <2>4
<1>. HIDE DEF Good
<1>3. Bad = {}
  <2>. SUFFICES ASSUME Bad # {} PROVE FALSE
    OBVIOUS
  <2>1. PICK m \in Bad : \A n \in Bad : m <= n
    BY SmallestExists
  <2>2. m # 0
    BY <1>1
  <2>3. m - 1 \in Nat /\ m - 1 \notin Bad /\ (m - 1) + 1 = m
    BY <2>1, <2>2
  <2>4. Good(m - 1)
    BY <2>3
  <2>5. Good((m - 1) + 1)
    BY <1>2, <2>3, <2>4
  <2>. QED BY <2>3, <2>5
<1>4. \A n \in Nat : Good(n)
  BY <1>3
<1>. QED BY <1>4 DEF Good

LEMMA SumRecursion ==
  ASSUME NEW U, IsFiniteSet(U), NEW f, NEW c, Chooses(c, U)
  PROVE  \E g : IsSum(f, c, g, U)
<1>1. Cardinality(U) \in Nat
  BY FS_CardinalityType
<1>2. PICK g : \A s \in UpTo(U, Cardinality(U)) : g[s] = Term(f, c, g, s)
  BY <1>1, PartialSums
<1>3. UpTo(U, Cardinality(U)) = SUBSET U
  BY FS_Subset DEF UpTo
<1>4. PICK h : h = [s \in SUBSET U |-> g[s]]
  OBVIOUS
<1>5. \A s \in SUBSET U : h[s] = Term(f, c, h, s)
  BY <1>2, <1>3, <1>4 DEF Term
<1>6. h = [s \in SUBSET U |-> Term(f, c, h, s)]
  BY <1>4, <1>5
<1>. QED BY <1>6 DEF IsSum

(* What the library chooses next. *)
Next1(U) == [s \in SUBSET U |-> CHOOSE x \in s : TRUE]

LEMMA Next1In ==
  ASSUME NEW U
  PROVE  Chooses(Next1(U), U)
BY DEF Next1, Chooses

LEMMA SumIs ==
  ASSUME NEW U, IsFiniteSet(U), NEW f
  PROVE  \E g : IsSum(f, Next1(U), g, U) /\ SumFunctionOnSet(f, U) = g[U]
<1>. DEFINE It == CHOOSE g : g = [s \in SUBSET U |->
                    IF s = {} THEN 0 ELSE LET x == CHOOSE x \in s : TRUE IN f[x] + g[s \ {x}]]
<1>1. SumFunctionOnSet(f, U) = It[U]
  BY DEF SumFunctionOnSet, FoldFunctionOnSet, MapThenFoldSet
<1>2. PICK g : IsSum(f, Next1(U), g, U)
  <2>1. PICK c : c = Next1(U)
    OBVIOUS
  <2>2. Chooses(c, U)
    BY <2>1, Next1In
  <2>3. \E g : IsSum(f, c, g, U)
    BY <2>2, SumRecursion
  <2>. QED BY <2>1, <2>3
<1>3. g = [s \in SUBSET U |->
             IF s = {} THEN 0 ELSE LET x == CHOOSE x \in s : TRUE IN f[x] + g[s \ {x}]]
  <2>1. \A s \in SUBSET U : Term(f, Next1(U), g, s) =
          IF s = {} THEN 0 ELSE LET x == CHOOSE x \in s : TRUE IN f[x] + g[s \ {x}]
    BY DEF Term, Next1
  <2>. QED BY <1>2, <2>1 DEF IsSum
<1>4. It = [s \in SUBSET U |->
              IF s = {} THEN 0 ELSE LET x == CHOOSE x \in s : TRUE IN f[x] + It[s \ {x}]]
  BY <1>3
<1>. HIDE DEF It
<1>5. \A s \in SUBSET U : Term(f, Next1(U), It, s) =
        IF s = {} THEN 0 ELSE LET x == CHOOSE x \in s : TRUE IN f[x] + It[s \ {x}]
  BY DEF Term, Next1
<1>6. IsSum(f, Next1(U), It, U)
  BY <1>4, <1>5 DEF IsSum
<1>. QED BY <1>1, <1>6

(* Induction over the subsets of a finite set: a family that has a set     *)
(* whenever it has the sets of one element less, has them all.             *)
LEMMA SmallerFirst ==
  ASSUME NEW U, IsFiniteSet(U), NEW F,
         \A s \in SUBSET U : (\A y \in s : s \ {y} \in F) => s \in F
  PROVE  U \in F
<1>. DEFINE Missing == {s \in SUBSET U : s \notin F}
            Sizes == {Cardinality(s) : s \in Missing}
<1>1. \A s \in SUBSET U : IsFiniteSet(s) /\ Cardinality(s) \in Nat
  BY FS_Subset, FS_CardinalityType
<1>2. SUFFICES ASSUME Missing # {} PROVE FALSE
  OBVIOUS
<1>3. Sizes \subseteq Nat /\ Sizes # {}
  BY <1>1, <1>2
<1>4. \E m \in Sizes : \A n \in Sizes : m <= n
  BY <1>3, SmallestExists
<1>5. PICK s \in Missing : \A r \in Missing : Cardinality(s) <= Cardinality(r)
  BY <1>4
<1>6. PICK x : x \in s /\ s \ {x} \notin F
  BY <1>5
<1>7. /\ s \ {x} \in SUBSET U /\ Cardinality(s \ {x}) = Cardinality(s) - 1
      /\ Cardinality(s) \in Nat \ {0}
  BY <1>5, <1>6, OneLess
<1>. QED BY <1>5, <1>6, <1>7

(* The same, one element after the other. *)
LEMMA OneByOne ==
  ASSUME NEW U, IsFiniteSet(U), NEW F, {} \in F,
         \A s \in SUBSET U : \A x \in U \ s : s \in F => s \cup {x} \in F
  PROVE  U \in F
<1>1. ASSUME NEW s \in SUBSET U, \A y \in s : s \ {y} \in F PROVE s \in F
  <2>1. CASE s = {}
    BY <2>1
  <2>2. CASE s # {}
    <3>1. PICK y : y \in s
      BY <2>2
    <3>2. s = (s \ {y}) \cup {y} /\ s \ {y} \in SUBSET U /\ y \in U \ (s \ {y})
      BY <3>1
    <3>3. (s \ {y}) \cup {y} \in F
      BY <1>1, <3>1, <3>2
    <3>. QED BY <3>2, <3>3
  <2>. QED BY <2>1, <2>2
<1>. QED BY <1>1, SmallerFirst

LEMMA Next1Same ==
  ASSUME NEW U, NEW V, NEW s \in SUBSET U, s \in SUBSET V, s # {}
  PROVE  Next1(U)[s] = Next1(V)[s] /\ Next1(U)[s] \in s
BY DEF Next1

(* The sum depends on the values on the set alone. *)
LEMMA SameSums ==
  ASSUME NEW U, NEW V, NEW f, NEW h, NEW g, NEW k,
         IsSum(f, Next1(U), g, U), IsSum(h, Next1(V), k, V),
         NEW S \in SUBSET U, S \in SUBSET V, IsFiniteSet(S), \A x \in S : f[x] = h[x]
  PROVE  g[S] = k[S]
<1>. DEFINE Differ == {s \in SUBSET S : g[s] # k[s]}
            Sizes == {Cardinality(s) : s \in Differ}
<1>1. \A s \in SUBSET S : IsFiniteSet(s) /\ Cardinality(s) \in Nat
  BY FS_Subset, FS_CardinalityType
<1>2. SUFFICES ASSUME Differ # {} PROVE FALSE
  OBVIOUS
<1>3. Sizes \subseteq Nat /\ Sizes # {}
  BY <1>1, <1>2
<1>4. \E m \in Sizes : \A n \in Sizes : m <= n
  BY <1>3, SmallestExists
<1>5. PICK s \in Differ : \A r \in Differ : Cardinality(s) <= Cardinality(r)
  BY <1>4
<1>6. s \in SUBSET U /\ s \in SUBSET V /\ s \in SUBSET S
  BY <1>5
<1>7. g[s] = Term(f, Next1(U), g, s) /\ k[s] = Term(h, Next1(V), k, s)
  BY <1>6 DEF IsSum
<1>8. s # {}
  BY <1>5, <1>7 DEF Term
<1>9. PICK x \in s : x = Next1(U)[s] /\ x = Next1(V)[s]
  <2>1. Next1(U)[s] = Next1(V)[s] /\ Next1(U)[s] \in s
    BY <1>6, <1>8, Next1Same
  <2>. QED BY <2>1
<1>10. /\ s \ {x} \in SUBSET S /\ Cardinality(s \ {x}) = Cardinality(s) - 1
       /\ Cardinality(s) \in Nat \ {0}
  BY <1>6, OneLess
<1>11. g[s \ {x}] = k[s \ {x}]
  BY <1>5, <1>10
<1>12. g[s] = f[x] + g[s \ {x}] /\ k[s] = h[x] + k[s \ {x}]
  BY <1>7, <1>8, <1>9 DEF Term
<1>13. f[x] = h[x]
  BY <1>6
<1>. QED BY <1>5, <1>11, <1>12, <1>13

(* Two sums over a set are equal when their terms are. *)
THEOREM SumEqual ==
  ASSUME NEW S, IsFiniteSet(S), NEW f, NEW h, \A x \in S : f[x] = h[x]
  PROVE  SumFunctionOnSet(f, S) = SumFunctionOnSet(h, S)
<1>1. PICK g : IsSum(f, Next1(S), g, S) /\ SumFunctionOnSet(f, S) = g[S]
  BY SumIs
<1>2. PICK k : IsSum(h, Next1(S), k, S) /\ SumFunctionOnSet(h, S) = k[S]
  BY SumIs
<1>3. g[S] = k[S]
  BY <1>1, <1>2, SameSums
<1>. QED BY <1>1, <1>2, <1>3

(* The empty sum. *)
THEOREM SumOfNone ==
  ASSUME NEW f
  PROVE  SumFunctionOnSet(f, {}) = 0
<1>1. IsFiniteSet({})
  BY FS_EmptySet
<1>2. PICK g : IsSum(f, Next1({}), g, {}) /\ SumFunctionOnSet(f, {}) = g[{}]
  BY <1>1, SumIs
<1>3. g[{}] = Term(f, Next1({}), g, {})
  BY <1>2 DEF IsSum
<1>. QED BY <1>2, <1>3 DEF Term

LEMMA SumChosen ==
  ASSUME NEW S, IsFiniteSet(S), S # {}, NEW f
  PROVE  \E x \in S : SumFunctionOnSet(f, S) = f[x] + SumFunctionOnSet(f, S \ {x})
<1>1. PICK g : IsSum(f, Next1(S), g, S) /\ SumFunctionOnSet(f, S) = g[S]
  BY SumIs
<1>2. PICK x \in S : x = Next1(S)[S]
  BY Next1Same
<1>3. g[S] = f[x] + g[S \ {x}]
  <2>1. g[S] = Term(f, Next1(S), g, S)
    BY <1>1 DEF IsSum
  <2>. QED BY <1>2, <2>1 DEF Term
<1>4. PICK T : T = S \ {x}
  OBVIOUS
<1>5. IsFiniteSet(T) /\ T \in SUBSET S /\ T \in SUBSET T
  BY <1>4, FS_Subset
<1>6. PICK k : IsSum(f, Next1(T), k, T) /\ SumFunctionOnSet(f, T) = k[T]
  BY <1>5, SumIs
<1>7. g[T] = k[T]
  BY <1>1, <1>5, <1>6, SameSums
<1>. QED BY <1>1, <1>3, <1>4, <1>6, <1>7

-----------------------------------------------------------------------------
(* Sums of numbers. *)

(* A sum of integers is one, and any element may be split off it, not only *)
(* the one that the recursion chooses.                                     *)
THEOREM SumRemove ==
  ASSUME NEW S, IsFiniteSet(S), NEW f, \A x \in S : f[x] \in Int
  PROVE  /\ SumFunctionOnSet(f, S) \in Int
         /\ \A x \in S : /\ SumFunctionOnSet(f, S \ {x}) \in Int
                        /\ SumFunctionOnSet(f, S) = f[x] + SumFunctionOnSet(f, S \ {x})
<1>. DEFINE Sum(s) == SumFunctionOnSet(f, s)
            F == {s \in SUBSET S : /\ Sum(s) \in Int
                                   /\ \A x \in s : Sum(s \ {x}) \in Int /\ Sum(s) = f[x] + Sum(s \ {x})}
<1>1. ASSUME NEW s \in SUBSET S, \A y \in s : s \ {y} \in F PROVE s \in F
  <2>1. CASE s = {}
    BY <2>1, SumOfNone
  <2>2. CASE s # {}
    <3>1. IsFiniteSet(s)
      BY FS_Subset
    <3>2. PICK a \in s : Sum(s) = f[a] + Sum(s \ {a})
      BY <2>2, <3>1, SumChosen
    <3>. HIDE DEF Sum
    <3>3. \A y \in s : Sum(s \ {y}) \in Int
      BY <1>1
    <3>4. Sum(s) \in Int
      BY <3>2, <3>3
    <3>5. ASSUME NEW x \in s PROVE Sum(s) = f[x] + Sum(s \ {x})
      <4>1. CASE x = a
        BY <3>2, <4>1
      <4>2. CASE x # a
        <5>1. PICK r : r = (s \ {a}) \ {x}
          OBVIOUS
        <5>2. r = (s \ {x}) \ {a} /\ x \in s \ {a} /\ a \in s \ {x}
          BY <4>2, <5>1
        <5>3. Sum(s \ {a}) = f[x] + Sum(r) /\ Sum(r) \in Int
          BY <1>1, <5>1, <5>2
        <5>4. Sum(s \ {x}) = f[a] + Sum(r)
          BY <1>1, <5>2
        <5>5. f[a] \in Int /\ f[x] \in Int
          OBVIOUS
        <5>. QED BY <3>2, <5>3, <5>4, <5>5
      <4>. QED BY <4>1, <4>2
    <3>. QED BY <3>3, <3>4, <3>5
  <2>. QED BY <2>1, <2>2
<1>. HIDE DEF F
<1>2. S \in F
  BY <1>1, SmallerFirst
<1>. QED BY <1>2 DEF F

(* The sum of two sums, term by term. *)
THEOREM SumAdd ==
  ASSUME NEW S, IsFiniteSet(S), NEW f, NEW g, NEW h,
         \A x \in S : f[x] \in Int /\ g[x] \in Int /\ h[x] = f[x] + g[x]
  PROVE  SumFunctionOnSet(h, S) = SumFunctionOnSet(f, S) + SumFunctionOnSet(g, S)
<1>. DEFINE F == {s \in SUBSET S : SumFunctionOnSet(h, s) = SumFunctionOnSet(f, s) + SumFunctionOnSet(g, s)}
<1>1. {} \in F
  BY SumOfNone
<1>2. ASSUME NEW s \in SUBSET S, NEW x \in S \ s, s \in F PROVE s \cup {x} \in F
  <2>1. PICK r : r = s \cup {x}
    OBVIOUS
  <2>2. IsFiniteSet(r) /\ x \in r /\ r \ {x} = s /\ r \in SUBSET S
    BY <2>1, FS_Subset
  <2>3. (\A y \in r : f[y] \in Int) /\ (\A y \in r : g[y] \in Int) /\ (\A y \in r : h[y] \in Int)
    BY <2>2
  <2>4. /\ SumFunctionOnSet(f, s) \in Int /\ SumFunctionOnSet(g, s) \in Int
        /\ SumFunctionOnSet(f, r) = f[x] + SumFunctionOnSet(f, s)
        /\ SumFunctionOnSet(g, r) = g[x] + SumFunctionOnSet(g, s)
        /\ SumFunctionOnSet(h, r) = h[x] + SumFunctionOnSet(h, s)
    BY <2>2, <2>3, SumRemove
  <2>5. SumFunctionOnSet(h, r) = SumFunctionOnSet(f, r) + SumFunctionOnSet(g, r)
    BY <1>2, <2>4
  <2>. QED BY <2>1, <2>2, <2>5
<1>. HIDE DEF F
<1>3. S \in F
  BY <1>1, <1>2, OneByOne
<1>. QED BY <1>3 DEF F

(* Terms that are all zero. *)
THEOREM SumOfZeros ==
  ASSUME NEW S, IsFiniteSet(S), NEW f, \A x \in S : f[x] = 0
  PROVE  SumFunctionOnSet(f, S) = 0
<1>. DEFINE F == {s \in SUBSET S : SumFunctionOnSet(f, s) = 0}
<1>1. {} \in F
  BY SumOfNone
<1>2. ASSUME NEW s \in SUBSET S, NEW x \in S \ s, s \in F PROVE s \cup {x} \in F
  <2>1. PICK r : r = s \cup {x}
    OBVIOUS
  <2>2. IsFiniteSet(r) /\ x \in r /\ r \ {x} = s /\ r \in SUBSET S
    BY <2>1, FS_Subset
  <2>3. \A y \in r : f[y] \in Int
    BY <2>2
  <2>4. SumFunctionOnSet(f, r) = f[x] + SumFunctionOnSet(f, s)
    BY <2>2, <2>3, SumRemove
  <2>. QED BY <1>2, <2>1, <2>2, <2>4
<1>. HIDE DEF F
<1>3. S \in F
  BY <1>1, <1>2, OneByOne
<1>. QED BY <1>3 DEF F

(* Nothing changes when elements that count for nothing are left out. *)
THEOREM SumWithoutZeros ==
  ASSUME NEW S, IsFiniteSet(S), NEW T \in SUBSET S, NEW f,
         \A x \in S : f[x] \in Int, \A x \in S \ T : f[x] = 0
  PROVE  SumFunctionOnSet(f, S) = SumFunctionOnSet(f, T)
<1>. DEFINE D == S \ T
            F == {s \in SUBSET D : SumFunctionOnSet(f, T \cup s) = SumFunctionOnSet(f, T)}
<1>0. IsFiniteSet(D)
  BY FS_Subset
<1>1. {} \in F
  <2>1. T \cup {} = T
    OBVIOUS
  <2>. QED BY <2>1
<1>2. ASSUME NEW s \in SUBSET D, NEW x \in D \ s, s \in F PROVE s \cup {x} \in F
  <2>1. PICK r : r = T \cup (s \cup {x})
    OBVIOUS
  <2>2. IsFiniteSet(r) /\ x \in r /\ r \ {x} = T \cup s /\ r \in SUBSET S /\ f[x] = 0
    BY <2>1, FS_Subset
  <2>3. \A y \in r : f[y] \in Int
    BY <2>2
  <2>4. /\ SumFunctionOnSet(f, T \cup s) \in Int
        /\ SumFunctionOnSet(f, r) = f[x] + SumFunctionOnSet(f, T \cup s)
    BY <2>2, <2>3, SumRemove
  <2>5. SumFunctionOnSet(f, r) = SumFunctionOnSet(f, T)
    BY <1>2, <2>2, <2>4
  <2>. QED BY <2>1, <2>5
<1>. HIDE DEF F
<1>3. D \in F
  BY <1>0, <1>1, <1>2, OneByOne
<1>4. SumFunctionOnSet(f, T \cup D) = SumFunctionOnSet(f, T) /\ T \cup D = S
  BY <1>3 DEF F
<1>. QED BY <1>4

(* Larger terms, larger sums; and a sum is at least each of its terms.     *)
THEOREM SumMonotone ==
  ASSUME NEW S, IsFiniteSet(S), NEW f, NEW g,
         \A x \in S : f[x] \in Int /\ g[x] \in Int /\ f[x] <= g[x]
  PROVE  SumFunctionOnSet(f, S) <= SumFunctionOnSet(g, S)
<1>. DEFINE F == {s \in SUBSET S : SumFunctionOnSet(f, s) <= SumFunctionOnSet(g, s)}
<1>1. {} \in F
  BY SumOfNone
<1>2. ASSUME NEW s \in SUBSET S, NEW x \in S \ s, s \in F PROVE s \cup {x} \in F
  <2>1. PICK r : r = s \cup {x}
    OBVIOUS
  <2>2. IsFiniteSet(r) /\ x \in r /\ r \ {x} = s /\ r \in SUBSET S
    BY <2>1, FS_Subset
  <2>3. (\A y \in r : f[y] \in Int) /\ (\A y \in r : g[y] \in Int)
    BY <2>2
  <2>4. /\ SumFunctionOnSet(f, s) \in Int /\ SumFunctionOnSet(g, s) \in Int
        /\ SumFunctionOnSet(f, r) = f[x] + SumFunctionOnSet(f, s)
        /\ SumFunctionOnSet(g, r) = g[x] + SumFunctionOnSet(g, s)
    BY <2>2, <2>3, SumRemove
  <2>5. f[x] \in Int /\ g[x] \in Int /\ f[x] <= g[x]
    OBVIOUS
  <2>6. SumFunctionOnSet(f, s) <= SumFunctionOnSet(g, s)
    BY <1>2
  <2>7. SumFunctionOnSet(f, r) <= SumFunctionOnSet(g, r)
    BY <2>4, <2>5, <2>6
  <2>. QED BY <2>1, <2>2, <2>7
<1>. HIDE DEF F
<1>3. S \in F
  BY <1>1, <1>2, OneByOne
<1>. QED BY <1>3 DEF F

(* Natural numbers: the sum is one, and no smaller than any of its terms. *)
THEOREM SumOfNats ==
  ASSUME NEW S, IsFiniteSet(S), NEW f, \A x \in S : f[x] \in Nat
  PROVE  SumFunctionOnSet(f, S) \in Nat /\ \A x \in S : f[x] <= SumFunctionOnSet(f, S)
<1>. DEFINE F == {s \in SUBSET S : SumFunctionOnSet(f, s) \in Nat}
<1>1. {} \in F
  BY SumOfNone
<1>2. ASSUME NEW s \in SUBSET S, NEW x \in S \ s, s \in F PROVE s \cup {x} \in F
  <2>1. PICK r : r = s \cup {x}
    OBVIOUS
  <2>2. IsFiniteSet(r) /\ x \in r /\ r \ {x} = s /\ r \in SUBSET S
    BY <2>1, FS_Subset
  <2>3. \A y \in r : f[y] \in Int
    BY <2>2
  <2>4. SumFunctionOnSet(f, r) = f[x] + SumFunctionOnSet(f, s)
    BY <2>2, <2>3, SumRemove
  <2>5. f[x] \in Nat /\ SumFunctionOnSet(f, s) \in Nat
    BY <1>2
  <2>. QED BY <2>1, <2>2, <2>4, <2>5
<1>3. \A s \in SUBSET S : s \in F
  <2>. SUFFICES ASSUME NEW s \in SUBSET S PROVE SumFunctionOnSet(f, s) \in Nat
    OBVIOUS
  <2>. DEFINE G == {u \in SUBSET s : u \in F}
  <2>0. IsFiniteSet(s)
    BY FS_Subset
  <2>1. {} \in G
    BY <1>1
  <2>2. ASSUME NEW u \in SUBSET s, NEW x \in s \ u, u \in G PROVE u \cup {x} \in G
    <3>1. u \cup {x} \in F
      BY <1>2, <2>2
    <3>. QED BY <2>2, <3>1
  <2>. HIDE DEF G
  <2>3. s \in G
    BY <2>0, <2>1, <2>2, OneByOne
  <2>. QED BY <2>3 DEF G
<1>4. ASSUME NEW x \in S PROVE f[x] <= SumFunctionOnSet(f, S)
  <2>1. \A y \in S : f[y] \in Int
    OBVIOUS
  <2>2. SumFunctionOnSet(f, S) = f[x] + SumFunctionOnSet(f, S \ {x})
    BY <2>1, SumRemove
  <2>3. SumFunctionOnSet(f, S \ {x}) \in Nat /\ f[x] \in Nat
    BY <1>3
  <2>. QED BY <2>2, <2>3
<1>5. SumFunctionOnSet(f, S) \in Nat
  BY <1>3
<1>. QED BY <1>4, <1>5

(* Terms that are capped at p are worth their sum, or at least p. *)
THEOREM SumCapped ==
  ASSUME NEW S, IsFiniteSet(S), NEW c, NEW d, NEW p \in Nat,
         \A x \in S : c[x] \in Nat /\ d[x] \in Nat /\ (d[x] = c[x] \/ d[x] >= p)
  PROVE  SumFunctionOnSet(d, S) = SumFunctionOnSet(c, S) \/ SumFunctionOnSet(d, S) >= p
<1>1. CASE \E x \in S : d[x] >= p
  <2>1. PICK x \in S : d[x] >= p
    BY <1>1
  <2>2. (\A y \in S : d[y] \in Nat) /\ d[x] \in Nat
    OBVIOUS
  <2>3. d[x] <= SumFunctionOnSet(d, S) /\ SumFunctionOnSet(d, S) \in Nat
    BY <2>2, SumOfNats
  <2>. QED BY <2>1, <2>2, <2>3
<1>2. CASE \A x \in S : d[x] = c[x]
  BY <1>2, SumEqual
<1>. QED BY <1>1, <1>2

(* One term changes. *)
THEOREM SumOneChanged ==
  ASSUME NEW S, IsFiniteSet(S), NEW f, NEW h, NEW x \in S,
         \A y \in S : f[y] \in Int, h[x] \in Int, \A y \in S \ {x} : h[y] = f[y]
  PROVE  SumFunctionOnSet(h, S) = SumFunctionOnSet(f, S) - f[x] + h[x]
<1>1. \A y \in S : h[y] \in Int
  OBVIOUS
<1>2. /\ SumFunctionOnSet(f, S \ {x}) \in Int
      /\ SumFunctionOnSet(f, S) = f[x] + SumFunctionOnSet(f, S \ {x})
  BY SumRemove
<1>3. SumFunctionOnSet(h, S) = h[x] + SumFunctionOnSet(h, S \ {x})
  BY <1>1, SumRemove
<1>4. SumFunctionOnSet(h, S \ {x}) = SumFunctionOnSet(f, S \ {x})
  BY FS_Subset, SumEqual
<1>. QED BY <1>2, <1>3, <1>4

LEMMA ImageFinite ==
  ASSUME NEW S, IsFiniteSet(S), NEW q
  PROVE  IsFiniteSet({q[x] : x \in S})
<1>. DEFINE f == [x \in S |-> q[x]]
<1>1. f \in Surjection(S, {q[x] : x \in S})
  BY DEF Surjection
<1>. QED BY <1>1, FS_Surjection

(* A sum over a set is the sum over another that it is the image of. *)
THEOREM SumOfImages ==
  ASSUME NEW S, IsFiniteSet(S), NEW q, NEW f, NEW h,
         \A x \in S : h[x] = f[q[x]] /\ h[x] \in Int,
         \A x, y \in S : q[x] = q[y] => x = y
  PROVE  SumFunctionOnSet(h, S) = SumFunctionOnSet(f, {q[x] : x \in S})
<1>. DEFINE Image(s) == {q[x] : x \in s}
            F == {s \in SUBSET S : SumFunctionOnSet(h, s) = SumFunctionOnSet(f, Image(s))}
<1>1. {} \in F
  <2>1. Image({}) = {}
    OBVIOUS
  <2>. QED BY <2>1, SumOfNone
<1>2. ASSUME NEW s \in SUBSET S, NEW x \in S \ s, s \in F PROVE s \cup {x} \in F
  <2>1. PICK T : T = s \cup {x}
    OBVIOUS
  <2>2. IsFiniteSet(T) /\ IsFiniteSet(Image(T)) /\ T \in SUBSET S /\ T \ {x} = s /\ x \in T
    <3>1. T \in SUBSET S /\ T \ {x} = s /\ x \in T
      BY <2>1
    <3>2. IsFiniteSet(T)
      BY <3>1, FS_Subset
    <3>. QED BY <3>1, <3>2, ImageFinite
  <2>3. q[x] \in Image(T) /\ Image(T) \ {q[x]} = Image(s)
    BY <2>1
  <2>4. \A y \in Image(T) : f[y] \in Int
    BY <2>2
  <2>5. SumFunctionOnSet(h, s) = SumFunctionOnSet(f, Image(s))
    BY <1>2
  <2>6. \A y \in T : h[y] \in Int
    BY <2>2
  <2>. HIDE DEF Image
  <2>7. SumFunctionOnSet(h, T) = h[x] + SumFunctionOnSet(h, T \ {x})
    BY <2>2, <2>6, SumRemove
  <2>8. SumFunctionOnSet(f, Image(T)) = f[q[x]] + SumFunctionOnSet(f, Image(T) \ {q[x]})
    BY <2>2, <2>3, <2>4, SumRemove
  <2>9. h[x] = f[q[x]]
    OBVIOUS
  <2>10. SumFunctionOnSet(h, T) = SumFunctionOnSet(f, Image(T))
    BY <2>2, <2>3, <2>5, <2>7, <2>8, <2>9
  <2>. QED BY <2>1, <2>2, <2>10
<1>. HIDE DEF F
<1>3. S \in F
  BY <1>1, <1>2, OneByOne
<1>. QED BY <1>3 DEF F

(* The parts of a set, by the value that g has on them, make up the set. *)
THEOREM SumOfParts ==
  ASSUME NEW S, IsFiniteSet(S), NEW T, IsFiniteSet(T), NEW g, \A x \in S : g[x] \in T,
         NEW c, \A y \in T : c[y] = Cardinality({x \in S : g[x] = y})
  PROVE  SumFunctionOnSet(c, T) = Cardinality(S)
<1>. DEFINE Over(U) == {x \in S : g[x] \in U}
            F == {U \in SUBSET T : SumFunctionOnSet(c, U) = Cardinality(Over(U))}
<1>0. \A y \in T : c[y] \in Nat
  <2>. SUFFICES ASSUME NEW y \in T PROVE c[y] \in Nat
    OBVIOUS
  <2>1. {x \in S : g[x] = y} \in SUBSET S
    OBVIOUS
  <2>. QED BY <2>1, FS_Subset, FS_CardinalityType
<1>1. {} \in F
  <2>1. Over({}) = {}
    OBVIOUS
  <2>. QED BY <2>1, SumOfNone, FS_EmptySet
<1>2. ASSUME NEW U \in SUBSET T, NEW y \in T \ U, U \in F PROVE U \cup {y} \in F
  <2>1. PICK V : V = U \cup {y}
    OBVIOUS
  <2>2. IsFiniteSet(V) /\ V \in SUBSET T /\ V \ {y} = U /\ y \in V
    BY <2>1, FS_Subset
  <2>3. PICK P : P = {x \in S : g[x] = y}
    OBVIOUS
  <2>4. Over(V) = Over(U) \cup P /\ Over(U) \cap P = {} /\ P \in SUBSET S /\ Over(U) \in SUBSET S
    BY <2>1, <2>3
  <2>5. SumFunctionOnSet(c, U) = Cardinality(Over(U)) /\ c[y] = Cardinality(P)
    BY <1>2, <2>3
  <2>. HIDE DEF Over
  <2>6. IsFiniteSet(Over(U)) /\ IsFiniteSet(P)
    BY <2>4, FS_Subset
  <2>7. Cardinality(Over(V)) = Cardinality(Over(U)) + Cardinality(P)
                              - Cardinality(Over(U) \cap P)
    BY <2>4, <2>6, FS_Union
  <2>8. Cardinality(Over(U) \cap P) = 0
    BY <2>4, FS_EmptySet
  <2>9. Cardinality(Over(U)) \in Nat /\ Cardinality(P) \in Nat
    BY <2>6, FS_CardinalityType
  <2>10. \A z \in V : c[z] \in Int
    BY <1>0, <2>2
  <2>11. SumFunctionOnSet(c, V) = c[y] + SumFunctionOnSet(c, V \ {y})
    BY <2>2, <2>10, SumRemove
  <2>12. SumFunctionOnSet(c, V) = Cardinality(Over(V))
    <3>1. SumFunctionOnSet(c, V) = c[y] + SumFunctionOnSet(c, U)
      BY <2>2, <2>11
    <3>2. SumFunctionOnSet(c, V) = Cardinality(P) + Cardinality(Over(U))
      BY <2>5, <3>1
    <3>3. Cardinality(Over(V)) = Cardinality(Over(U)) + Cardinality(P) - 0
      BY <2>7, <2>8
    <3>. QED BY <2>9, <3>2, <3>3
  <2>. QED BY <2>1, <2>2, <2>12
<1>. HIDE DEF F
<1>3. T \in F
  BY <1>1, <1>2, OneByOne
<1>4. Over(T) = S
  OBVIOUS
<1>. QED BY <1>3, <1>4 DEF F

-----------------------------------------------------------------------------
(* A function may be defined on 0..n by its value at 0 and a step. *)
ByStep(step, x, f, n) ==
  f = [i \in 0..n |-> IF i = 0 THEN x ELSE step[i][f[i - 1]]]

LEMMA StepByStep ==
  ASSUME NEW n \in Nat, NEW X, NEW x \in X, NEW step \in [1..n -> [X -> X]]
  PROVE  \E f \in [0..n -> X] : ByStep(step, x, f, n)
<1>. DEFINE Bad == {k \in 0..n : ~ \E f \in [0..k -> X] : ByStep(step, x, f, k)}
<1>1. ASSUME Bad # {} PROVE FALSE
  <2>1. PICK k \in Bad : \A j \in Bad : k <= j
    <3>1. Bad \subseteq Nat
      OBVIOUS
    <3>. HIDE DEF Bad
    <3>. QED BY <1>1, <3>1, SmallestExists
  <2>2. k # 0
    <3>. DEFINE f == [i \in 0..0 |-> x]
    <3>1. f \in [0..0 -> X] /\ ByStep(step, x, f, 0)
      BY DEF ByStep
    <3>. QED BY <2>1, <3>1
  <2>3. k - 1 \in 0..n /\ k - 1 \notin Bad
    BY <2>1, <2>2
  <2>4. PICK g \in [0..(k - 1) -> X] : ByStep(step, x, g, k - 1)
    BY <2>3
  <2>. DEFINE f == [i \in 0..k |-> IF i < k THEN g[i] ELSE step[k][g[k - 1]]]
  <2>5. k \in 1..n /\ step[k] \in [X -> X] /\ g[k - 1] \in X
    BY <2>1, <2>2
  <2>6. f \in [0..k -> X]
    BY <2>5
  <2>7. \A i \in 0..(k - 1) : g[i] = IF i = 0 THEN x ELSE step[i][g[i - 1]]
    BY <2>4 DEF ByStep
  <2>8. \A i \in 0..k : f[i] = IF i = 0 THEN x ELSE step[i][f[i - 1]]
    <3>. TAKE i \in 0..k
    <3>1. CASE i < k
      <4>1. i \in 0..(k - 1) /\ f[i] = g[i]
        BY <2>5, <3>1
      <4>2. i # 0 => f[i - 1] = g[i - 1]
        BY <2>5, <3>1
      <4>. QED BY <2>7, <4>1, <4>2
    <3>2. CASE i = k
      <4>1. f[i] = step[k][g[k - 1]] /\ f[i - 1] = g[k - 1]
        BY <2>5, <3>2
      <4>. QED BY <2>2, <3>2, <4>1
    <3>. QED BY <2>5, <3>1, <3>2
  <2>9. ByStep(step, x, f, k)
    BY <2>8 DEF ByStep
  <2>. QED BY <2>1, <2>6, <2>9
<1>. QED BY <1>1

LEMMA CountUp ==
  ASSUME NEW n \in Nat, NEW G, 0 \in G, \A i \in 1..n : i - 1 \in G => i \in G
  PROVE  \A i \in 0..n : i \in G
<1>. DEFINE Bad == {i \in 0..n : i \notin G}
<1>1. ASSUME Bad # {} PROVE FALSE
  <2>1. PICK k \in Bad : \A j \in Bad : k <= j
    <3>1. Bad \subseteq Nat
      OBVIOUS
    <3>. HIDE DEF Bad
    <3>. QED BY <1>1, <3>1, SmallestExists
  <2>2. k \in 1..n /\ k - 1 \in 0..n /\ k - 1 \notin Bad
    BY <2>1
  <2>. QED BY <2>1, <2>2
<1>. QED BY <1>1

(* What a filter keeps of each beginning of the list. *)
KeptSoFar(s, S, f) ==
  /\ DOMAIN f = 0..Len(s) /\ f[0] = <<>>
  /\ \A i \in 1..Len(s) : f[i] = IF s[i] \in S THEN Append(f[i - 1], s[i]) ELSE f[i - 1]

LEMMA FilterIs ==
  ASSUME NEW A, NEW s \in Seq(A), NEW S
  PROVE  \E f : KeptSoFar(s, S, f) /\ Filter(s, S) = f[Len(s)]
<1>. DEFINE n == Len(s)
            step == [i \in 1..n |-> [q \in Seq(A) |-> IF s[i] \in S THEN Append(q, s[i]) ELSE q]]
            It == CHOOSE f : f = [i \in 0..n |->
                    IF i = 0 THEN <<>>
                    ELSE IF s[i] \in S THEN Append(f[i - 1], s[i]) ELSE f[i - 1]]
<1>1. n \in Nat /\ <<>> \in Seq(A) /\ \A i \in 1..n : s[i] \in A
  OBVIOUS
<1>2. step \in [1..n -> [Seq(A) -> Seq(A)]]
  BY <1>1
<1>3. PICK f \in [0..n -> Seq(A)] : ByStep(step, <<>>, f, n)
  BY <1>1, <1>2, StepByStep
<1>4. \A i \in 0..n : f[i] = IF i = 0 THEN <<>> ELSE step[i][f[i - 1]]
  BY <1>3 DEF ByStep
<1>5. \A i \in 0..n : f[i] = IF i = 0 THEN <<>>
                ELSE IF s[i] \in S THEN Append(f[i - 1], s[i]) ELSE f[i - 1]
  <2>. SUFFICES ASSUME NEW i \in 0..n
                PROVE  f[i] = IF i = 0 THEN <<>>
                              ELSE IF s[i] \in S THEN Append(f[i - 1], s[i]) ELSE f[i - 1]
    OBVIOUS
  <2>1. CASE i = 0
    BY <1>4, <2>1
  <2>2. CASE i # 0
    <3>1. /\ i \in 1..n /\ i - 1 \in 0..n
          /\ f[i] = step[i][f[i - 1]]
      <4>1. i \in 1..n /\ i - 1 \in 0..n
        BY <1>1, <2>2
      <4>. HIDE DEF step
      <4>2. f[i] = step[i][f[i - 1]]
        BY <1>4, <2>2
      <4>. QED BY <4>1, <4>2
    <3>2. f[i - 1] \in Seq(A)
      BY <1>3, <3>1
    <3>3. step[i] = [q \in Seq(A) |-> IF s[i] \in S THEN Append(q, s[i]) ELSE q]
      BY <3>1
    <3>4. step[i][f[i - 1]] = IF s[i] \in S THEN Append(f[i - 1], s[i]) ELSE f[i - 1]
      BY <3>2, <3>3
    <3>. QED BY <2>2, <3>1, <3>4
  <2>. QED BY <2>1, <2>2
<1>6. f = [i \in 0..n |->
                    IF i = 0 THEN <<>>
                    ELSE IF s[i] \in S THEN Append(f[i - 1], s[i]) ELSE f[i - 1]]
  BY <1>5
<1>7. It = [i \in 0..n |->
                    IF i = 0 THEN <<>>
                    ELSE IF s[i] \in S THEN Append(It[i - 1], s[i]) ELSE It[i - 1]]
  BY <1>6
<1>8. Filter(s, S) = It[n]
  BY DEF Filter
<1>9. KeptSoFar(s, S, It)
  <2>. HIDE DEF It
  <2>1. DOMAIN It = 0..n
    BY <1>7
  <2>2. \A i \in 0..n : It[i] = IF i = 0 THEN <<>>
                    ELSE IF s[i] \in S THEN Append(It[i - 1], s[i]) ELSE It[i - 1]
    BY <1>7
  <2>3. It[0] = <<>>
    BY <1>1, <2>2
  <2>4. ASSUME NEW i \in 1..n
        PROVE  It[i] = IF s[i] \in S THEN Append(It[i - 1], s[i]) ELSE It[i - 1]
    <3>1. i \in 0..n /\ i # 0
      BY <1>1
    <3>. QED BY <2>2, <3>1
  <2>. QED BY <2>1, <2>3, <2>4 DEF KeptSoFar
<1>. QED BY <1>8, <1>9

(* No element is twice in a list. *)
NoneTwice(s) == \A i, j \in DOMAIN s : s[i] = s[j] => i = j
Has(s, x) == \E i \in DOMAIN s : s[i] = x

LEMMA AppendedOnce ==
  ASSUME NEW A, NEW q \in Seq(A), NEW x \in A
  PROVE  /\ Append(q, x) \in Seq(A)
         /\ \A y : Has(Append(q, x), y) <=> Has(q, y) \/ y = x
         /\ NoneTwice(q) /\ ~Has(q, x) => NoneTwice(Append(q, x))
<1>. DEFINE a == Append(q, x)
<1>1. /\ a \in Seq(A) /\ DOMAIN q = 1..Len(q) /\ DOMAIN a = 1..(Len(q) + 1)
      /\ \A i \in 1..Len(q) : a[i] = q[i]
      /\ a[Len(q) + 1] = x /\ Len(q) \in Nat
  BY AppendProperties
<1>. HIDE DEF a
<1>2. \A y : Has(a, y) <=> Has(q, y) \/ y = x
  <2>. TAKE y
  <2>1. Has(a, y) => Has(q, y) \/ y = x
    BY <1>1 DEF Has
  <2>2. Has(q, y) => Has(a, y)
    <3>1. ASSUME NEW i \in DOMAIN q, q[i] = y PROVE Has(a, y)
      <4>1. i \in DOMAIN a /\ a[i] = y
        BY <1>1, <3>1
      <4>. QED BY <4>1 DEF Has
    <3>. QED BY <3>1 DEF Has
  <2>3. Has(a, x)
    <3>1. Len(q) + 1 \in DOMAIN a
      BY <1>1
    <3>. QED BY <1>1, <3>1 DEF Has
  <2>. QED BY <2>1, <2>2, <2>3
<1>3. ASSUME NoneTwice(q), ~Has(q, x) PROVE NoneTwice(a)
  <2>. SUFFICES ASSUME NEW i \in DOMAIN a, NEW j \in DOMAIN a, a[i] = a[j] PROVE i = j
    BY DEF NoneTwice
  <2>1. CASE i \in DOMAIN q /\ j \in DOMAIN q
    BY <1>1, <1>3, <2>1 DEF NoneTwice
  <2>2. CASE i \notin DOMAIN q \/ j \notin DOMAIN q
    <3>1. \A k \in DOMAIN a : k \notin DOMAIN q => k = Len(q) + 1
      BY <1>1
    <3>2. \A k \in DOMAIN q : a[k] # x
      BY <1>1, <1>3 DEF Has
    <3>. QED BY <1>1, <2>2, <3>1, <3>2
  <2>. QED BY <2>1, <2>2
<1>. QED BY <1>1, <1>2, <1>3 DEF a

LEMMA FilterKeeps ==
  ASSUME NEW A, NEW s \in Seq(A), NEW S, NEW f, KeptSoFar(s, S, f)
  PROVE  \A i \in 0..Len(s) :
           /\ f[i] \in Seq(A)
           /\ \A y : Has(f[i], y) <=> y \in S /\ \E j \in 1..i : s[j] = y
           /\ NoneTwice(s) => NoneTwice(f[i])
<1>. DEFINE n == Len(s)
            G == {i \in 0..n : /\ f[i] \in Seq(A)
                               /\ \A y : Has(f[i], y) <=> y \in S /\ \E j \in 1..i : s[j] = y
                               /\ NoneTwice(s) => NoneTwice(f[i])}
<1>0. n \in Nat /\ DOMAIN s = 1..n /\ \A i \in 1..n : s[i] \in A
  OBVIOUS
<1>1. 0 \in G
  <2>1. f[0] = <<>> /\ <<>> \in Seq(A) /\ DOMAIN <<>> = {}
    BY DEF KeptSoFar
  <2>2. NoneTwice(f[0]) /\ \A y : ~Has(f[0], y)
    BY <2>1 DEF Has, NoneTwice
  <2>3. \A j : j \notin 1..0
    OBVIOUS
  <2>4. 0 \in 0..n
    BY <1>0
  <2>. QED BY <2>1, <2>2, <2>3, <2>4
<1>2. ASSUME NEW i \in 1..n, i - 1 \in G PROVE i \in G
  <2>1. /\ f[i - 1] \in Seq(A)
        /\ NoneTwice(s) => NoneTwice(f[i - 1])
        /\ \A y : Has(f[i - 1], y) <=> y \in S /\ \E j \in 1..(i - 1) : s[j] = y
    BY <1>2
  <2>2. f[i] = IF s[i] \in S THEN Append(f[i - 1], s[i]) ELSE f[i - 1]
    BY DEF KeptSoFar
  <2>3. i \in 0..n /\ s[i] \in A
    BY <1>0
  <2>4. \A y : (\E j \in 1..i : s[j] = y) <=> (\E j \in 1..(i - 1) : s[j] = y) \/ s[i] = y
    <3>. TAKE y
    <3>1. \A j : j \in 1..i <=> j \in 1..(i - 1) \/ j = i
      BY <1>0
    <3>. QED BY <3>1
  <2>5. NoneTwice(s) => ~ \E j \in 1..(i - 1) : s[j] = s[i]
    BY <1>0 DEF NoneTwice
  <2>6. CASE s[i] \in S
    <3>1. f[i] = Append(f[i - 1], s[i])
      BY <2>2, <2>6
    <3>2. /\ f[i] \in Seq(A) /\ \A y : Has(f[i], y) <=> Has(f[i - 1], y) \/ y = s[i]
          /\ NoneTwice(f[i - 1]) /\ ~Has(f[i - 1], s[i]) => NoneTwice(f[i])
      BY <2>1, <2>3, <3>1, AppendedOnce
    <3>3. \A y : Has(f[i], y) <=> y \in S /\ \E j \in 1..i : s[j] = y
      BY <2>1, <2>4, <2>6, <3>2
    <3>4. NoneTwice(s) => NoneTwice(f[i])
      BY <2>1, <2>5, <3>2
    <3>. QED BY <2>3, <3>2, <3>3, <3>4
  <2>7. CASE s[i] \notin S
    <3>1. f[i] = f[i - 1]
      BY <2>2, <2>7
    <3>2. \A y : Has(f[i], y) <=> y \in S /\ \E j \in 1..i : s[j] = y
      BY <2>1, <2>4, <2>7, <3>1
    <3>. QED BY <2>1, <2>3, <3>1, <3>2
  <2>. QED BY <2>6, <2>7
<1>. HIDE DEF G
<1>3. \A i \in 0..n : i \in G
  BY <1>0, <1>1, <1>2, CountUp
<1>. QED BY <1>3 DEF G

(* Filter keeps exactly the elements of the set, and makes none twice. *)
THEOREM FilterProperties ==
  ASSUME NEW A, NEW s \in Seq(A), NEW S
  PROVE  /\ Filter(s, S) \in Seq(A)
         /\ \A x : Has(Filter(s, S), x) <=> Has(s, x) /\ x \in S
         /\ NoneTwice(s) => NoneTwice(Filter(s, S))
<1>1. PICK f : KeptSoFar(s, S, f) /\ Filter(s, S) = f[Len(s)]
  BY FilterIs
<1>2. Len(s) \in 0..Len(s) /\ DOMAIN s = 1..Len(s)
  OBVIOUS
<1>3. /\ f[Len(s)] \in Seq(A)
      /\ \A y : Has(f[Len(s)], y) <=> y \in S /\ \E j \in 1..Len(s) : s[j] = y
      /\ NoneTwice(s) => NoneTwice(f[Len(s)])
  BY <1>1, <1>2, FilterKeeps
<1>4. \A y : (\E j \in 1..Len(s) : s[j] = y) <=> Has(s, y)
  BY <1>2 DEF Has
<1>. QED BY <1>1, <1>3, <1>4

(* Two lists that have nothing in common, one after the other. *)
THEOREM ConcatenatedOnce ==
  ASSUME NEW A, NEW p \in Seq(A), NEW q \in Seq(A)
  PROVE  /\ p \o q \in Seq(A)
         /\ \A x : Has(p \o q, x) <=> Has(p, x) \/ Has(q, x)
         /\ NoneTwice(p) /\ NoneTwice(q) /\ (\A x : ~(Has(p, x) /\ Has(q, x))) => NoneTwice(p \o q)
<1>. DEFINE c == p \o q
<1>1. /\ c \in Seq(A) /\ Len(p) \in Nat /\ Len(q) \in Nat
      /\ DOMAIN p = 1..Len(p) /\ DOMAIN q = 1..Len(q) /\ DOMAIN c = 1..(Len(p) + Len(q))
      /\ \A i \in 1..(Len(p) + Len(q)) : c[i] = IF i <= Len(p) THEN p[i] ELSE q[i - Len(p)]
  BY ConcatProperties
<1>. HIDE DEF c
<1>2. \A i \in DOMAIN c :
        \/ i \in DOMAIN p /\ c[i] = p[i]
        \/ i > Len(p) /\ i - Len(p) \in DOMAIN q /\ c[i] = q[i - Len(p)]
  BY <1>1
<1>3. \A x : Has(c, x) <=> Has(p, x) \/ Has(q, x)
  <2>. TAKE x
  <2>1. Has(c, x) => Has(p, x) \/ Has(q, x)
    BY <1>2 DEF Has
  <2>2. ASSUME NEW i \in DOMAIN p, p[i] = x PROVE Has(c, x)
    <3>1. i \in DOMAIN c /\ c[i] = x
      BY <1>1, <2>2
    <3>. QED BY <3>1 DEF Has
  <2>3. ASSUME NEW i \in DOMAIN q, q[i] = x PROVE Has(c, x)
    <3>1. i + Len(p) \in DOMAIN c /\ c[i + Len(p)] = x
      BY <1>1, <2>3
    <3>. QED BY <3>1 DEF Has
  <2>. QED BY <2>1, <2>2, <2>3 DEF Has
<1>4. ASSUME NoneTwice(p), NoneTwice(q), \A x : ~(Has(p, x) /\ Has(q, x)),
             NEW i \in DOMAIN c, NEW j \in DOMAIN c, c[i] = c[j]
      PROVE  i = j
  <2>1. CASE i \in DOMAIN p /\ c[i] = p[i] /\ j \in DOMAIN p /\ c[j] = p[j]
    BY <1>4, <2>1 DEF NoneTwice
  <2>2. CASE /\ i > Len(p) /\ i - Len(p) \in DOMAIN q /\ c[i] = q[i - Len(p)]
             /\ j > Len(p) /\ j - Len(p) \in DOMAIN q /\ c[j] = q[j - Len(p)]
    <3>1. i - Len(p) = j - Len(p)
      BY <1>4, <2>2 DEF NoneTwice
    <3>. QED BY <1>1, <3>1
  <2>3. CASE /\ i \in DOMAIN p /\ c[i] = p[i]
             /\ j - Len(p) \in DOMAIN q /\ c[j] = q[j - Len(p)]
    BY <1>4, <2>3 DEF Has
  <2>4. CASE /\ j \in DOMAIN p /\ c[j] = p[j]
             /\ i - Len(p) \in DOMAIN q /\ c[i] = q[i - Len(p)]
    BY <1>4, <2>4 DEF Has
  <2>. QED BY <1>2, <2>1, <2>2, <2>3, <2>4
<1>5. NoneTwice(p) /\ NoneTwice(q) /\ (\A x : ~(Has(p, x) /\ Has(q, x))) => NoneTwice(c)
  BY <1>4 DEF NoneTwice
<1>. QED BY <1>1, <1>3, <1>5 DEF c

-----------------------------------------------------------------------------
(* How often elements of S occur in a list. *)
Places(q, S) == {i \in DOMAIN q : q[i] \in S}
Occurs(q, S) == Cardinality(Places(q, S))
AtMostOne(b) == IF b THEN 1 ELSE 0

LEMMA PlacesFinite ==
  ASSUME NEW T, NEW q \in Seq(T), NEW S
  PROVE  IsFiniteSet(Places(q, S)) /\ Occurs(q, S) \in Nat
<1>1. Len(q) \in Nat /\ DOMAIN q = 1..Len(q)
  OBVIOUS
<1>2. IsFiniteSet(1..Len(q))
  BY <1>1, FS_Interval
<1>3. Places(q, S) \subseteq 1..Len(q)
  BY <1>1 DEF Places
<1>4. IsFiniteSet(Places(q, S))
  BY <1>2, <1>3, FS_Subset
<1>. QED BY <1>4, FS_CardinalityType DEF Occurs

LEMMA OccursInNone ==
  ASSUME NEW S
  PROVE  Occurs(<<>>, S) = 0
<1>1. Places(<<>>, S) = {}
  BY DEF Places
<1>. QED BY <1>1, FS_EmptySet DEF Occurs

LEMMA NoOccurrence ==
  ASSUME NEW T, NEW q \in Seq(T), NEW S
  PROVE  Occurs(q, S) = 0 <=> \A i \in DOMAIN q : q[i] \notin S
<1>1. IsFiniteSet(Places(q, S))
  BY PlacesFinite
<1>2. Occurs(q, S) = 0 <=> Places(q, S) = {}
  BY <1>1, FS_EmptySet DEF Occurs
<1>. QED BY <1>2 DEF Places

LEMMA OccursAppended ==
  ASSUME NEW T, NEW q \in Seq(T), NEW e \in T, NEW S
  PROVE  Occurs(Append(q, e), S) = Occurs(q, S) + AtMostOne(e \in S)
<1>. DEFINE n == Len(q)
            p == Append(q, e)
<1>1. /\ n \in Nat /\ DOMAIN q = 1..n /\ DOMAIN p = 1..(n + 1)
      /\ p[n + 1] = e /\ \A i \in 1..n : p[i] = q[i]
  OBVIOUS
<1>2. IsFiniteSet(Places(q, S)) /\ Occurs(q, S) \in Nat
  BY PlacesFinite
<1>3. CASE e \in S
  <2>1. Places(p, S) = Places(q, S) \cup {n + 1}
    BY <1>1, <1>3 DEF Places
  <2>2. n + 1 \notin Places(q, S)
    BY <1>1 DEF Places
  <2>3. Cardinality(Places(q, S) \cup {n + 1}) = Cardinality(Places(q, S)) + 1
    BY <1>2, <2>2, FS_AddElement
  <2>. QED BY <1>3, <2>1, <2>3 DEF Occurs, AtMostOne
<1>4. CASE e \notin S
  <2>1. Places(p, S) = Places(q, S)
    BY <1>1, <1>4 DEF Places
  <2>. QED BY <1>2, <1>4, <2>1 DEF Occurs, AtMostOne
<1>. QED BY <1>3, <1>4

LEMMA OccursOfOne ==
  ASSUME NEW T, NEW e \in T, NEW S
  PROVE  Occurs(<<e>>, S) = Occurs(<<>>, S) + AtMostOne(e \in S)
<1>1. <<e>> = Append(<<>>, e)
  OBVIOUS
<1>2. <<>> \in Seq(T)
  OBVIOUS
<1>3. Occurs(Append(<<>>, e), S) = Occurs(<<>>, S) + AtMostOne(e \in S)
  BY <1>2, OccursAppended
<1>. QED BY <1>1, <1>3

LEMMA OccursConcatenated ==
  ASSUME NEW T, NEW p \in Seq(T), NEW q \in Seq(T), NEW S
  PROVE  Occurs(p \o q, S) = Occurs(p, S) + Occurs(q, S)
<1>. DEFINE n == Len(p)
            k == Len(q)
            r == p \o q
            A == Places(p, S)
            B == Places(q, S)
            C == {i \in 1..(n + k) : i > n /\ r[i] \in S}
<1>1. /\ n \in Nat /\ k \in Nat /\ DOMAIN p = 1..n /\ DOMAIN q = 1..k
      /\ DOMAIN r = 1..(n + k)
      /\ \A i \in 1..n : r[i] = p[i]
      /\ \A i \in 1..k : r[n + i] = q[i]
  OBVIOUS
<1>2. IsFiniteSet(A) /\ IsFiniteSet(B)
  BY PlacesFinite
<1>3. Places(r, S) = A \cup C /\ A \cap C = {}
  BY <1>1 DEF Places
<1>4. ExistsBijection(B, C)
  <2>. DEFINE f == [i \in B |-> n + i]
  <2>1. \A i \in B : i \in 1..k /\ q[i] \in S
    BY <1>1 DEF Places
  <2>2. \A i \in B : f[i] \in C
    BY <1>1, <2>1
  <2>3. \A i, j \in B : f[i] = f[j] => i = j
    BY <1>1, <2>1
  <2>4. ASSUME NEW j \in C PROVE \E i \in B : f[i] = j
    <3>1. j - n \in 1..k /\ r[n + (j - n)] = r[j]
      BY <1>1
    <3>2. j - n \in B
      BY <1>1, <3>1 DEF Places
    <3>3. f[j - n] = j
      BY <1>1, <3>2
    <3>. QED BY <3>2, <3>3
  <2>5. f \in Bijection(B, C)
    BY <2>2, <2>3, <2>4 DEF Bijection, Injection, Surjection, IsInjective
  <2>. QED BY <2>5 DEF ExistsBijection
<1>5. IsFiniteSet(C) /\ Cardinality(C) = Cardinality(B)
  BY <1>2, <1>4, FS_Bijection
<1>6. Cardinality(A \cup C) = Cardinality(A) + Cardinality(C) - Cardinality(A \cap C)
  BY <1>2, <1>5, FS_Union
<1>7. Cardinality(A \cap C) = 0
  BY <1>3, FS_EmptySet
<1>8. Cardinality(A) \in Nat /\ Cardinality(C) \in Nat
  BY <1>2, <1>5, FS_CardinalityType
<1>9. Cardinality(A \cup C) = Cardinality(A) + Cardinality(B)
  <2>. HIDE DEF A, B, C
  <2>. QED BY <1>5, <1>6, <1>7, <1>8
<1>. QED BY <1>3, <1>9 DEF Occurs

LEMMA OccursAtHead ==
  ASSUME NEW T, NEW q \in Seq(T), q # <<>>, NEW S
  PROVE  Occurs(q, S) = Occurs(Tail(q), S) + AtMostOne(Head(q) \in S)
<1>1. Head(q) \in T /\ Tail(q) \in Seq(T) /\ <<Head(q)>> \in Seq(T)
  OBVIOUS
<1>2. q = <<Head(q)>> \o Tail(q)
  OBVIOUS
<1>3. Occurs(q, S) = Occurs(<<Head(q)>>, S) + Occurs(Tail(q), S)
  <2>1. PICK a : a = <<Head(q)>>
    OBVIOUS
  <2>2. PICK b : b = Tail(q)
    OBVIOUS
  <2>3. a \in Seq(T) /\ b \in Seq(T) /\ q = a \o b
    BY <1>1, <1>2, <2>1, <2>2
  <2>4. Occurs(a \o b, S) = Occurs(a, S) + Occurs(b, S)
    BY <2>3, OccursConcatenated
  <2>. QED BY <2>1, <2>2, <2>3, <2>4
<1>4. <<Head(q)>> = Append(<<>>, Head(q)) /\ <<>> \in Seq(T)
  OBVIOUS
<1>5. Occurs(<<Head(q)>>, S) = Occurs(<<>>, S) + AtMostOne(Head(q) \in S)
  <2>1. Head(q) \in T
    BY <1>1
  <2>. QED BY <2>1, OccursOfOne
<1>6. Occurs(Tail(q), S) \in Nat
  BY <1>1, PlacesFinite
<1>. QED BY <1>3, <1>5, <1>6, OccursInNone DEF AtMostOne

(* A cardinality as a sum. *)
LEMMA CardinalityIsSum ==
  ASSUME NEW S, IsFiniteSet(S), NEW T \in SUBSET S
  PROVE  Cardinality(T) = SumFunctionOnSet([x \in S |-> AtMostOne(x \in T)], S)
<1>. DEFINE f == [x \in S |-> AtMostOne(x \in T)]
            F == {s \in SUBSET S : SumFunctionOnSet(f, s) = Cardinality(s \cap T)}
<1>1. {} \in F
  <2>1. {} \cap T = {}
    OBVIOUS
  <2>. QED BY <2>1, SumOfNone, FS_EmptySet
<1>2. ASSUME NEW s \in SUBSET S, NEW x \in S \ s, s \in F PROVE s \cup {x} \in F
  <2>. DEFINE u == s \cup {x}
  <2>0. IsFiniteSet(s) /\ IsFiniteSet(u) /\ IsFiniteSet(s \cap T) /\ x \in u /\ u \ {x} = s
    BY FS_Subset
  <2>1. \A y \in u : f[y] \in Int
    BY DEF AtMostOne
  <2>2. SumFunctionOnSet(f, s) = Cardinality(s \cap T) /\ Cardinality(s \cap T) \in Nat
    BY <1>2, <2>0, FS_CardinalityType
  <2>3. f[x] = AtMostOne(x \in T)
    OBVIOUS
  <2>4. Cardinality(u \cap T) = Cardinality(s \cap T) + AtMostOne(x \in T)
    <3>1. CASE x \in T
      <4>1. u \cap T = (s \cap T) \cup {x} /\ x \notin s \cap T
        BY <3>1
      <4>. QED BY <2>0, <3>1, <4>1, FS_AddElement DEF AtMostOne
    <3>2. CASE x \notin T
      <4>1. u \cap T = s \cap T
        BY <3>2
      <4>. QED BY <2>2, <3>2, <4>1 DEF AtMostOne
    <3>. QED BY <3>1, <3>2
  <2>5. SumFunctionOnSet(f, u) = f[x] + SumFunctionOnSet(f, u \ {x})
    <3>. HIDE DEF f, u
    <3>. QED BY <2>0, <2>1, SumRemove
  <2>6. SumFunctionOnSet(f, u \ {x}) = SumFunctionOnSet(f, s)
    BY <2>0
  <2>7. AtMostOne(x \in T) \in Nat
    BY DEF AtMostOne
  <2>8. SumFunctionOnSet(f, u) = Cardinality(u \cap T)
    <3>. HIDE DEF f, u
    <3>. QED BY <2>2, <2>3, <2>4, <2>5, <2>6, <2>7
  <2>. QED BY <2>8
<1>. HIDE DEF F
<1>3. S \in F
  BY <1>1, <1>2, OneByOne
<1>4. SumFunctionOnSet(f, S) = Cardinality(S \cap T)
  BY <1>3 DEF F
<1>5. S \cap T = T
  OBVIOUS
<1>. QED BY <1>4, <1>5

-----------------------------------------------------------------------------
(* Filtered lists that begin alike, and lists of numbers in their order *)

(* Filters of lists that begin alike begin alike. *)
LEMMA SameBeginning ==
  ASSUME NEW A, NEW s \in Seq(A), NEW t \in Seq(A), NEW S, NEW T, NEW f, NEW g,
         KeptSoFar(s, S, f), KeptSoFar(t, T, g),
         NEW n \in Nat, n <= Len(s), n <= Len(t),
         \A i \in 1..n : s[i] = t[i] /\ (s[i] \in S <=> s[i] \in T)
  PROVE  f[n] = g[n]
<1>. DEFINE G == {i \in 0..n : f[i] = g[i]}
<1>1. 0 \in G
  BY DEF KeptSoFar
<1>2. ASSUME NEW i \in 1..n, i - 1 \in G PROVE i \in G
  <2>1. i \in 1..Len(s) /\ i \in 1..Len(t) /\ i \in 0..n
    OBVIOUS
  <2>2. /\ f[i] = IF s[i] \in S THEN Append(f[i - 1], s[i]) ELSE f[i - 1]
        /\ g[i] = IF t[i] \in T THEN Append(g[i - 1], t[i]) ELSE g[i - 1]
    BY <2>1 DEF KeptSoFar
  <2>3. f[i - 1] = g[i - 1] /\ s[i] = t[i] /\ (s[i] \in S <=> s[i] \in T)
    BY <1>2
  <2>4. f[i] = g[i]
    BY <2>2, <2>3
  <2>. QED BY <2>1, <2>4
<1>. HIDE DEF G
<1>3. \A i \in 0..n : i \in G
  BY <1>1, <1>2, CountUp
<1>4. n \in G
  BY <1>3
<1>. QED BY <1>4 DEF G

(* Only what is in the list matters. *)
THEOREM FilterSame ==
  ASSUME NEW A, NEW s \in Seq(A), NEW S, NEW T, \A x : Has(s, x) => (x \in S <=> x \in T)
  PROVE  Filter(s, S) = Filter(s, T)
<1>1. PICK f : KeptSoFar(s, S, f) /\ Filter(s, S) = f[Len(s)]
  BY FilterIs
<1>2. PICK g : KeptSoFar(s, T, g) /\ Filter(s, T) = g[Len(s)]
  BY FilterIs
<1>3. \A i \in 1..Len(s) : s[i] = s[i] /\ (s[i] \in S <=> s[i] \in T)
  BY DEF Has
<1>4. Len(s) \in Nat /\ Len(s) <= Len(s)
  OBVIOUS
<1>5. f[Len(s)] = g[Len(s)]
  BY <1>1, <1>2, <1>3, <1>4, SameBeginning
<1>. QED BY <1>1, <1>2, <1>5

THEOREM FilterAppended ==
  ASSUME NEW A, NEW s \in Seq(A), NEW x \in A, NEW S
  PROVE  Filter(Append(s, x), S) = IF x \in S THEN Append(Filter(s, S), x) ELSE Filter(s, S)
<1>1. PICK t : t = Append(s, x)
  OBVIOUS
<1>2. /\ t \in Seq(A) /\ Len(t) = Len(s) + 1 /\ Len(s) \in Nat
      /\ t[Len(s) + 1] = x /\ \A i \in 1..Len(s) : t[i] = s[i]
  BY <1>1, AppendProperties
<1>3. PICK f : KeptSoFar(s, S, f) /\ Filter(s, S) = f[Len(s)]
  BY FilterIs
<1>4. PICK g : KeptSoFar(t, S, g) /\ Filter(t, S) = g[Len(t)]
  BY <1>2, FilterIs
<1>5. f[Len(s)] = g[Len(s)]
  <2>1. Len(s) <= Len(s) /\ Len(s) <= Len(t)
    BY <1>2
  <2>2. \A i \in 1..Len(s) : s[i] = t[i] /\ (s[i] \in S <=> s[i] \in S)
    BY <1>2
  <2>. QED BY <1>2, <1>3, <1>4, <2>1, <2>2, SameBeginning
<1>6. g[Len(t)] = IF x \in S THEN Append(g[Len(s)], x) ELSE g[Len(s)]
  <2>1. Len(t) \in 1..Len(t) /\ Len(t) - 1 = Len(s)
    BY <1>2
  <2>. QED BY <1>2, <1>4, <2>1 DEF KeptSoFar
<1>. QED BY <1>1, <1>3, <1>4, <1>5, <1>6

THEOREM FilterEmpty == \A S : Filter(<<>>, S) = <<>>
<1>. SUFFICES ASSUME NEW S PROVE Filter(<<>>, S) = <<>>
  OBVIOUS
<1>1. <<>> \in Seq({})
  OBVIOUS
<1>2. PICK f : KeptSoFar(<<>>, S, f) /\ Filter(<<>>, S) = f[Len(<<>>)]
  BY <1>1, FilterIs
<1>. QED BY <1>2 DEF KeptSoFar

-----------------------------------------------------------------------------
(* Lists of numbers in their order. *)
InOrder(s) == \A i, j \in DOMAIN s : i < j => s[i] < s[j]

LEMMA AppendedInOrder ==
  ASSUME NEW A, A \subseteq Int, NEW q \in Seq(A), InOrder(q), NEW x \in A,
         \A y : Has(q, y) => y < x
  PROVE  InOrder(Append(q, x))
<1>1. PICK t : t = Append(q, x)
  OBVIOUS
<1>2. /\ DOMAIN t = 1..(Len(q) + 1) /\ DOMAIN q = 1..Len(q) /\ Len(q) \in Nat
      /\ t[Len(q) + 1] = x /\ \A i \in DOMAIN q : t[i] = q[i]
  BY <1>1, AppendProperties
<1>3. ASSUME NEW i \in DOMAIN t, NEW j \in DOMAIN t, i < j PROVE t[i] < t[j]
  <2>1. i \in DOMAIN q
    BY <1>2, <1>3
  <2>2. CASE j \in DOMAIN q
    BY <1>2, <1>3, <2>1, <2>2 DEF InOrder
  <2>3. CASE j = Len(q) + 1
    <3>1. Has(q, q[i])
      BY <2>1 DEF Has
    <3>. QED BY <1>2, <2>1, <2>3, <3>1
  <2>. QED BY <1>2, <2>2, <2>3
<1>. QED BY <1>1, <1>3 DEF InOrder

THEOREM FilterInOrder ==
  ASSUME NEW A, A \subseteq Int, NEW s \in Seq(A), InOrder(s), NEW S
  PROVE  InOrder(Filter(s, S))
<1>1. PICK f : KeptSoFar(s, S, f) /\ Filter(s, S) = f[Len(s)]
  BY FilterIs
<1>2. \A i \in 0..Len(s) : f[i] \in Seq(A) /\ \A y : Has(f[i], y) => \E j \in 1..i : s[j] = y
  <2>1. KeptSoFar(s, S, f)
    BY <1>1
  <2>2. \A i \in 0..Len(s) :
           /\ f[i] \in Seq(A)
           /\ \A y : Has(f[i], y) <=> y \in S /\ \E j \in 1..i : s[j] = y
           /\ NoneTwice(s) => NoneTwice(f[i])
    BY <2>1, FilterKeeps
  <2>. QED BY <2>2
<1>. DEFINE G == {i \in 0..Len(s) : InOrder(f[i])}
<1>3. Len(s) \in Nat /\ DOMAIN s = 1..Len(s) /\ \A i \in 1..Len(s) : s[i] \in A
  OBVIOUS
<1>4. 0 \in G
  <2>1. f[0] = <<>>
    BY <1>1 DEF KeptSoFar
  <2>2. InOrder(f[0])
    BY <2>1 DEF InOrder
  <2>. QED BY <1>3, <2>2
<1>5. ASSUME NEW i \in 1..Len(s), i - 1 \in G PROVE i \in G
  <2>1. f[i] = IF s[i] \in S THEN Append(f[i - 1], s[i]) ELSE f[i - 1]
    BY <1>1 DEF KeptSoFar
  <2>2. i \in 0..Len(s) /\ i - 1 \in 0..Len(s) /\ InOrder(f[i - 1])
    BY <1>3, <1>5
  <2>3. f[i - 1] \in Seq(A) /\ \A y : Has(f[i - 1], y) => \E j \in 1..(i - 1) : s[j] = y
    BY <1>2, <2>2
  <2>4. \A y : Has(f[i - 1], y) => y < s[i]
    <3>1. \A j \in 1..(i - 1) : s[j] < s[i]
      BY <1>3 DEF InOrder
    <3>. QED BY <2>3, <3>1
  <2>5. InOrder(Append(f[i - 1], s[i]))
    BY <1>3, <2>2, <2>3, <2>4, AppendedInOrder
  <2>6. InOrder(f[i])
    BY <2>1, <2>2, <2>5
  <2>. QED BY <2>2, <2>6
<1>. HIDE DEF G
<1>6. \A i \in 0..Len(s) : i \in G
  BY <1>3, <1>4, <1>5, CountUp
<1>7. Len(s) \in G
  BY <1>3, <1>6
<1>. QED BY <1>1, <1>7 DEF G

LEMMA InOrderOnce ==
  ASSUME NEW A, A \subseteq Int, NEW s \in Seq(A), InOrder(s)
  PROVE  NoneTwice(s)
<1>. SUFFICES ASSUME NEW i \in DOMAIN s, NEW j \in DOMAIN s, s[i] = s[j], i # j PROVE FALSE
  BY DEF NoneTwice
<1>0. s[i] \in A /\ s[j] \in A /\ DOMAIN s = 1..Len(s) /\ Len(s) \in Nat
  OBVIOUS
<1>1. /\ s[i] \in Int /\ s[j] \in Int
      /\ i \in Int /\ j \in Int
  <2>1. s[i] \in Int /\ s[j] \in Int
    BY <1>0
  <2>2. i \in Int /\ j \in Int
    BY <1>0
  <2>. QED BY <2>1, <2>2
<1>2. i < j \/ j < i
  BY <1>1
<1>3. s[i] < s[j] \/ s[j] < s[i]
  BY <1>2 DEF InOrder
<1>. QED BY <1>1, <1>3

(* One of the n last elements of a list has fewer than n elements after    *)
(* it, so it cannot be followed by n others that are also in a list r.     *)
LEMMA FewAreLater ==
  ASSUME NEW A, A \subseteq Int, NEW u \in Seq(A), InOrder(u), NEW r \in Seq(A), NoneTwice(r),
         NEW n \in Nat, NEW k \in DOMAIN u, k > Len(u) - n,
         \A j \in DOMAIN r : r[j] > u[k] /\ Has(u, r[j])
  PROVE  Len(r) < n
<1>. DEFINE place == [j \in DOMAIN r |-> CHOOSE i \in DOMAIN u : u[i] = r[j]]
            D == 1..Len(r)
            L == (k + 1)..Len(u)
<1>0. Len(r) \in Nat /\ Len(u) \in Nat /\ DOMAIN r = D /\ DOMAIN u = 1..Len(u) /\ k \in Nat
      /\ \A i \in DOMAIN u : u[i] \in Int
  <2>1. \A i \in DOMAIN u : u[i] \in A
    OBVIOUS
  <2>2. Len(r) \in Nat /\ Len(u) \in Nat /\ DOMAIN r = D /\ DOMAIN u = 1..Len(u)
    OBVIOUS
  <2>3. \A i \in DOMAIN u : u[i] \in Int
    BY <2>1
  <2>4. k \in Nat
    BY <2>2
  <2>. QED BY <2>2, <2>3, <2>4
<1>1. \A j \in DOMAIN r : place[j] \in DOMAIN u /\ u[place[j]] = r[j]
  BY DEF Has
<1>. HIDE DEF place
<1>2. \A j \in DOMAIN r : place[j] \in L
  <2>. SUFFICES ASSUME NEW j \in DOMAIN r PROVE place[j] \in L
    OBVIOUS
  <2>1. place[j] \in 1..Len(u) /\ u[place[j]] > u[k]
    BY <1>0, <1>1
  <2>2. ~ (place[j] < k) /\ place[j] # k
    BY <1>0, <2>1 DEF InOrder
  <2>. QED BY <1>0, <2>1, <2>2
<1>3. \A i, j \in DOMAIN r : place[i] = place[j] => i = j
  BY <1>1 DEF NoneTwice
<1>4. IsFiniteSet(D) /\ Cardinality(D) = Len(r)
  <2>1. 1 \in Int /\ Len(r) \in Int
    BY <1>0
  <2>2. IsFiniteSet(1..Len(r)) /\ Cardinality(1..Len(r)) = IF 1 > Len(r) THEN 0 ELSE Len(r) - 1 + 1
    BY <2>1, FS_Interval
  <2>. QED BY <1>0, <2>2
<1>5. IsFiniteSet(L) /\ Cardinality(L) <= n - 1
  <2>0. k + 1 \in Int /\ Len(u) \in Int
    BY <1>0
  <2>1. IsFiniteSet(L) /\ Cardinality(L) = IF k + 1 > Len(u) THEN 0 ELSE Len(u) - (k + 1) + 1
    BY <2>0, FS_Interval
  <2>2. n >= 1
    BY <1>0
  <2>. QED BY <1>0, <2>1, <2>2
<1>6. CASE Cardinality(L) < Cardinality(D)
  <2>1. PICK h : h = [j \in D |-> place[j]]
    OBVIOUS
  <2>2. h \in [D -> L] /\ \A j \in D : h[j] = place[j]
    BY <1>0, <1>2, <2>1
  <2>. HIDE DEF D, L
  <2>3. \E x, y \in D : x # y /\ h[x] = h[y]
    BY <1>4, <1>5, <1>6, <2>2, FS_PigeonHole
  <2>. QED BY <1>0, <1>3, <2>2, <2>3
<1>7. CASE ~ (Cardinality(L) < Cardinality(D))
  <2>1. Cardinality(L) \in Nat
    BY <1>5, FS_CardinalityType
  <2>. QED BY <1>0, <1>4, <1>5, <1>7, <2>1
<1>. QED BY <1>6, <1>7

(* A list that is not empty begins with its head, if that is kept. *)
THEOREM FilterFirst ==
  ASSUME NEW A, NEW s \in Seq(A), s # <<>>, NEW S
  PROVE  Filter(s, S) = IF Head(s) \in S THEN <<Head(s)>> \o Filter(Tail(s), S)
                        ELSE Filter(Tail(s), S)
<1>1. PICK t : t = Tail(s)
  OBVIOUS
<1>2. PICK x : x = Head(s)
  OBVIOUS
<1>3. /\ t \in Seq(A) /\ Len(s) = Len(t) + 1 /\ Len(t) \in Nat /\ x \in A /\ s[1] = x
      /\ \A i \in 1..Len(t) : t[i] = s[i + 1] /\ t[i] \in A
  BY <1>1, <1>2
<1>4. PICK f : KeptSoFar(s, S, f) /\ Filter(s, S) = f[Len(s)]
  BY FilterIs
<1>5. PICK g : KeptSoFar(t, S, g) /\ Filter(t, S) = g[Len(t)]
  BY <1>3, FilterIs
<1>6. PICK b : b = IF x \in S THEN <<x>> ELSE <<>>
  OBVIOUS
<1>7. b \in Seq(A)
  <2>1. <<x>> \in Seq(A) /\ <<>> \in Seq(A)
    BY <1>3
  <2>. QED BY <1>6, <2>1
<1>8. f[1] = b
  <2>1. 1 \in 1..Len(s) /\ 1 - 1 = 0
    BY <1>3
  <2>2. f[1] = IF x \in S THEN Append(<<>>, x) ELSE <<>>
    BY <1>3, <1>4, <2>1 DEF KeptSoFar
  <2>3. Append(<<>>, x) = <<x>>
    OBVIOUS
  <2>. QED BY <1>6, <2>2, <2>3
<1>9. \A i \in 0..Len(t) : g[i] \in Seq(A)
  BY <1>3, <1>5, FilterKeeps
<1>. DEFINE G == {i \in 0..Len(t) : f[i + 1] = b \o g[i]}
<1>10. 0 \in G
  <2>1. g[0] = <<>>
    BY <1>5 DEF KeptSoFar
  <2>2. b \o <<>> = b
    BY <1>7
  <2>3. 0 + 1 = 1 /\ 0 \in 0..Len(t)
    BY <1>3
  <2>4. f[0 + 1] = b \o g[0]
    BY <1>8, <2>1, <2>2, <2>3
  <2>. QED BY <2>3, <2>4
<1>11. ASSUME NEW i \in 1..Len(t), i - 1 \in G PROVE i \in G
  <2>1. i - 1 \in 0..Len(t) /\ i \in 0..Len(t) /\ (i - 1) + 1 = i
        /\ i + 1 \in 1..Len(s) /\ (i + 1) - 1 = i
    BY <1>3
  <2>2. f[i] = b \o g[i - 1]
    BY <1>11, <2>1
  <2>3. f[i + 1] = IF t[i] \in S THEN Append(f[i], t[i]) ELSE f[i]
    BY <1>3, <1>4, <2>1 DEF KeptSoFar
  <2>4. g[i] = IF t[i] \in S THEN Append(g[i - 1], t[i]) ELSE g[i - 1]
    BY <1>5 DEF KeptSoFar
  <2>5. Append(b \o g[i - 1], t[i]) = b \o Append(g[i - 1], t[i])
    <3>1. PICK q : q = g[i - 1]
      OBVIOUS
    <3>2. PICK y : y = t[i]
      OBVIOUS
    <3>3. q \in Seq(A) /\ y \in A
      BY <1>3, <1>9, <2>1, <3>1, <3>2
    <3>4. Append(b \o q, y) = b \o Append(q, y)
      <4>1. y \in A
        BY <3>3
      <4>2. q \in Seq(A)
        BY <3>3
      <4>3. <<y>> \in Seq(A) /\ b \o q \in Seq(A)
        BY <1>7, <4>1, <4>2
      <4>4. Append(b \o q, y) = (b \o q) \o <<y>>
        <5>1. PICK z : z = b \o q
          OBVIOUS
        <5>2. z \in Seq(A)
          BY <4>3, <5>1
        <5>3. Append(z, y) = z \o <<y>>
          BY <4>1, <5>2, AppendIsConcat
        <5>. QED BY <5>1, <5>3
      <4>5. Append(q, y) = q \o <<y>>
        BY <4>1, <4>2, AppendIsConcat
      <4>6. (b \o q) \o <<y>> = b \o (q \o <<y>>)
        <5>1. PICK u : u = <<y>>
          OBVIOUS
        <5>2. u \in Seq(A)
          BY <4>3, <5>1
        <5>3. (b \o q) \o u = b \o (q \o u)
          BY <1>7, <4>2, <5>2, ConcatAssociative, SMTT(20)
        <5>. QED BY <5>1, <5>3
      <4>. QED BY <4>4, <4>5, <4>6
    <3>. QED BY <3>1, <3>2, <3>4
  <2>6. f[i + 1] = b \o g[i]
    BY <2>2, <2>3, <2>4, <2>5
  <2>. QED BY <2>1, <2>6
<1>12. Len(t) \in G
  <2>1. Len(t) \in 0..Len(t)
    BY <1>3
  <2>. HIDE DEF G
  <2>2. \A i \in 0..Len(t) : i \in G
    BY <1>3, <1>10, <1>11, CountUp
  <2>. QED BY <2>1, <2>2
<1>13. Filter(s, S) = b \o Filter(t, S)
  BY <1>3, <1>4, <1>5, <1>12
<1>14. Filter(t, S) \in Seq(A)
  BY <1>3, FilterProperties
<1>15. <<>> \o Filter(t, S) = Filter(t, S)
  BY <1>14
<1>. QED BY <1>1, <1>2, <1>6, <1>13, <1>15

THEOREM TailOnce ==
  ASSUME NEW A, NEW q \in Seq(A), q # <<>>
  PROVE  /\ Tail(q) \in Seq(A) /\ Has(q, Head(q)) /\ Head(q) \in A
         /\ \A x : Has(Tail(q), x) => Has(q, x)
         /\ NoneTwice(q) => NoneTwice(Tail(q)) /\ \A x : Has(Tail(q), x) <=> Has(q, x) /\ x # Head(q)
<1>1. PICK r : r = Tail(q)
  OBVIOUS
<1>2. /\ q[1] = Head(q) /\ 1 \in DOMAIN q /\ r \in Seq(A) /\ Len(r) = Len(q) - 1
      /\ DOMAIN r = 1..(Len(q) - 1) /\ DOMAIN q = 1..Len(q) /\ Len(q) \in Nat
      /\ \A j \in DOMAIN r : r[j] = q[j + 1]
  BY <1>1
<1>3. \A j \in DOMAIN r : j + 1 \in DOMAIN q /\ j + 1 # 1
  BY <1>2
<1>4. \A i, j \in DOMAIN r : i + 1 = j + 1 => i = j
  BY <1>2
<1>5. NoneTwice(q) => NoneTwice(r)
  BY <1>2, <1>3, <1>4 DEF NoneTwice
<1>6. ASSUME NEW x, Has(r, x) PROVE Has(q, x) /\ (NoneTwice(q) => x # q[1])
  <2>1. PICK j \in DOMAIN r : r[j] = x
    BY <1>6 DEF Has
  <2>2. j + 1 \in DOMAIN q /\ q[j + 1] = x /\ j + 1 # 1
    BY <1>2, <1>3, <2>1
  <2>. QED BY <1>2, <2>2 DEF Has, NoneTwice
<1>7. ASSUME NEW x, Has(q, x), x # q[1] PROVE Has(r, x)
  <2>1. PICK j \in DOMAIN q : q[j] = x
    BY <1>7 DEF Has
  <2>2. j - 1 \in DOMAIN r /\ (j - 1) + 1 = j
    BY <1>2, <1>7, <2>1
  <2>3. r[j - 1] = x
    BY <1>2, <2>1, <2>2
  <2>. QED BY <2>2, <2>3 DEF Has
<1>8. q[1] \in A /\ Has(q, q[1])
  BY <1>2 DEF Has
<1>. QED BY <1>1, <1>2, <1>5, <1>6, <1>7, <1>8

LEMMA AppendParts ==
  ASSUME NEW A, NEW q \in Seq(A), NEW x \in A
  PROVE  /\ Append(q, x) \in Seq(A) /\ Append(q, x) # <<>>
         /\ Len(q) \in Nat /\ Len(Append(q, x)) = Len(q) + 1
         /\ DOMAIN q = 1..Len(q) /\ DOMAIN Append(q, x) = 1..(Len(q) + 1)
         /\ Append(q, x)[Len(q) + 1] = x /\ \A i \in DOMAIN q : Append(q, x)[i] = q[i]
         /\ \A i \in DOMAIN Append(q, x) : i \in DOMAIN q \/ i = Len(q) + 1
<1>1. /\ Append(q, x) \in Seq(A) /\ Append(q, x) # <<>>
      /\ Len(Append(q, x)) = Len(q) + 1
      /\ Append(q, x)[Len(q) + 1] = x /\ \A i \in 1..Len(q) : Append(q, x)[i] = q[i]
  BY AppendProperties
<1>2. Len(q) \in Nat /\ DOMAIN q = 1..Len(q) /\ DOMAIN Append(q, x) = 1..Len(Append(q, x))
  BY <1>1
<1>3. \A i \in 1..(Len(q) + 1) : i \in 1..Len(q) \/ i = Len(q) + 1
  BY <1>2
<1>. QED BY <1>1, <1>2, <1>3

(* A list is where it was in a longer one. *)
LEMMA FirstPart ==
  ASSUME NEW A, NEW d \in Seq(A), NEW g \in Seq(A)
  PROVE  \A i \in DOMAIN d : i \in DOMAIN (d \o g) /\ (d \o g)[i] = d[i]
<1>1. PICK q : q = d \o g
  OBVIOUS
<1>2. /\ q \in Seq(A) /\ Len(q) = Len(d) + Len(g)
      /\ \A i \in 1 .. Len(d) + Len(g) : q[i] = IF i <= Len(d) THEN d[i] ELSE g[i - Len(d)]
  BY <1>1, ConcatProperties
<1>3. Len(d) \in Nat /\ Len(g) \in Nat /\ DOMAIN d = 1 .. Len(d) /\ DOMAIN q = 1 .. Len(q)
  BY <1>2
<1>. QED BY <1>1, <1>2, <1>3
-----------------------------------------------------------------------------
(* The k lowest of a set of numbers are k. *)
LEMMA LowestCounted ==
  ASSUME NEW F, F \subseteq Nat, IsFiniteSet(F), NEW k \in 0..Cardinality(F)
  PROVE  Cardinality({i \in F : Cardinality({j \in F : j < i}) < k}) = k
<1>. DEFINE Below(i) == {j \in F : j < i}
            Low(n) == {i \in F : Cardinality(Below(i)) < n}
            G == {n \in 0..Cardinality(F) : Cardinality(Low(n)) = n}
<1>0. Cardinality(F) \in Nat
  BY FS_CardinalityType
<1>1. \A S \in SUBSET F : IsFiniteSet(S) /\ Cardinality(S) \in Nat
  BY FS_Subset, FS_CardinalityType
<1>2. \A i : IsFiniteSet(Below(i)) /\ Cardinality(Below(i)) \in Nat
  <2>1. \A i : Below(i) \in SUBSET F
    OBVIOUS
  <2>. QED BY <1>1, <2>1
<1>3. 0 \in G
  <2>1. Low(0) = {}
    BY <1>2
  <2>2. Cardinality(Low(0)) = 0
    BY <2>1, FS_EmptySet
  <2>3. 0 \in 0..Cardinality(F)
    BY <1>0
  <2>. QED BY <2>2, <2>3
<1>4. ASSUME NEW n \in 1..Cardinality(F), n - 1 \in G
      PROVE  n \in G
  <2>1. PICK T : T = Low(n - 1)
    OBVIOUS
  <2>2. T \in SUBSET F /\ Cardinality(T) = n - 1 /\ IsFiniteSet(T)
    BY <1>1, <1>4, <2>1
  <2>3. PICK m \in F \ T : \A x \in F \ T : m <= x
    <3>1. F \ T # {}
      <4>1. T # F
        BY <1>0, <2>2
      <4>. QED BY <2>2, <4>1
    <3>2. F \ T \subseteq Nat
      OBVIOUS
    <3>. QED BY <3>1, <3>2, SmallestExists
  <2>4. Below(m) \subseteq T
    <3>. SUFFICES ASSUME NEW j \in F, j < m, j \notin T PROVE FALSE
      OBVIOUS
    <3>. QED BY <2>3
  <2>5. T \subseteq Below(m)
    <3>. SUFFICES ASSUME NEW j \in T, ~(j < m) PROVE FALSE
      BY <2>2
    <3>1. m < j /\ j \in F
      BY <2>2, <2>3
    <3>2. Below(m) \in SUBSET Below(j) /\ IsFiniteSet(Below(j))
      <4>1. \A i \in F : i \in Nat
        OBVIOUS
      <4>2. \A i \in F : i < m => i < j
        BY <2>3, <3>1, <4>1
      <4>. QED BY <1>2, <4>2
    <3>3. Cardinality(Below(m)) <= Cardinality(Below(j))
      BY <3>2, FS_Subset
    <3>4. Cardinality(Below(j)) < n - 1
      BY <2>1
    <3>5. Cardinality(Below(m)) < n - 1
      BY <1>2, <3>3, <3>4
    <3>. QED BY <2>1, <2>3, <3>5
  <2>6. Below(m) = T
    BY <2>4, <2>5
  <2>7. Cardinality(T \cup {m}) = n
    <3>1. IsFiniteSet(T) /\ m \notin T
      BY <2>2, <2>3
    <3>2. Cardinality(T \cup {m}) = Cardinality(T) + 1
      BY <3>1, FS_AddElement
    <3>3. n \in Int
      BY <1>0
    <3>. QED BY <2>2, <3>2, <3>3
  <2>8. Low(n) = T \cup {m}
    <3>1. m \in Low(n)
      BY <2>2, <2>3, <2>6
    <3>2. ASSUME NEW i \in T PROVE i \in Low(n)
      <4>1. i \in F /\ Cardinality(Below(i)) < n - 1
        BY <2>1, <3>2
      <4>. QED BY <1>2, <4>1
    <3>3. ASSUME NEW x \in Low(n), x \notin T, x # m PROVE FALSE
      <4>1. x \in F /\ Cardinality(Below(x)) < n
        BY <3>3
      <4>2. m < x
        BY <2>3, <3>3, <4>1
      <4>3. T \cup {m} \in SUBSET Below(x) /\ IsFiniteSet(Below(x))
        <5>1. \A j \in T : j < m
          BY <2>6
        <5>2. \A j \in T : j < x
          BY <2>2, <2>3, <4>1, <4>2, <5>1
        <5>3. Below(x) \in SUBSET F
          OBVIOUS
        <5>. QED BY <1>1, <2>2, <2>3, <4>2, <5>2, <5>3
      <4>4. Cardinality(T \cup {m}) = n
        BY <2>7
      <4>5. Cardinality(T \cup {m}) <= Cardinality(Below(x))
        BY <4>3, FS_Subset
      <4>. QED BY <1>2, <4>1, <4>4, <4>5
    <3>. QED BY <3>1, <3>2, <3>3
  <2>9. n \in 0..Cardinality(F)
    BY <1>0
  <2>10. Cardinality(Low(n)) = n
    BY <2>7, <2>8
  <2>. QED BY <2>9, <2>10
<1>5. \A n \in 0..Cardinality(F) : n \in G
  <2>. HIDE DEF G
  <2>. QED BY <1>0, <1>3, <1>4, CountUp
<1>. QED BY <1>5
=============================================================================
