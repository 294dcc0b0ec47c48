----------------------------- MODULE EventServiceProofs -----------------------------
(***************************************************************************)
(* Proofs about EventService for any components, topics, events and        *)
(* programs: the tables agree, topics keep what somebody still has to      *)
(* fetch and nothing else, and every event reaches the callbacks as        *)
(* Mailboxes says.                                                         *)
(***************************************************************************)
EXTENDS EventService, SequenceTheorems, WellFoundedInduction, TLAPS

-----------------------------------------------------------------------------
(* One topic.  The marks of its listeners lie in its list.                 *)

Marks == UNION {[L -> Nat] : L \in SUBSET Nat}
TopicRecord == [events : Seq(Events), marks : Marks]
InList(T) == \A l \in Listeners(T) : T.marks[l] <= Len(T.events)
Sound(T) == T \in TopicRecord /\ InList(T)

(* What NothingKeptInVain says of one topic. *)
KeptForSomeone(T) == T.events # <<>> => \E l \in Listeners(T) : T.marks[l] = 0

LEMMA SmallestExists ==
  ASSUME NEW S, S \subseteq Nat, S # {}
  PROVE  \E m \in S : \A n \in S : m <= n
<1>1. PICK m \in S : \A n \in S : ~ (<<n, m>> \in OpToRel(<, Nat))
  BY NatLessThanWellFounded, WFMin
<1>2. ASSUME NEW n \in S PROVE m <= n
  <2>1. ~ (<<n, m>> \in OpToRel(<, Nat))
    BY <1>1
  <2>2. ~ (n < m)
    BY <2>1 DEF OpToRel
  <2>. QED BY <2>2
<1>. QED BY <1>2

LEMMA MarksShape ==
  ASSUME NEW m \in Marks
  PROVE  m \in [DOMAIN m -> Nat] /\ DOMAIN m \subseteq Nat
BY DEF Marks

LEMMA OldestIsSmallest ==
  ASSUME NEW m \in Marks, DOMAIN m # {}
  PROVE  /\ Oldest(m) \in Nat
         /\ \E l \in DOMAIN m : m[l] = Oldest(m)
         /\ \A l \in DOMAIN m : Oldest(m) <= m[l]
<1>. DEFINE S == {m[l] : l \in DOMAIN m}
<1>1. S \subseteq Nat /\ S # {}
  BY MarksShape
<1>2. \E x \in S : \A y \in S : x <= y
  BY <1>1, SmallestExists
<1>3. \E x \in S : \A l \in DOMAIN m : x <= m[l]
  BY <1>2
<1>4. Oldest(m) \in S /\ \A l \in DOMAIN m : Oldest(m) <= m[l]
  BY <1>3 DEF Oldest
<1>. QED BY <1>1, <1>4

(* What is left of a list after its first m elements. *)
LEMMA RestOf ==
  ASSUME NEW S, NEW s \in Seq(S), NEW m \in Nat, m <= Len(s)
  PROVE  /\ SubSeq(s, m + 1, Len(s)) \in Seq(S)
         /\ Len(SubSeq(s, m + 1, Len(s))) = Len(s) - m
         /\ \A i \in 1..(Len(s) - m) : SubSeq(s, m + 1, Len(s))[i] = s[m + i]
<1>. DEFINE r == SubSeq(s, m + 1, Len(s))
            n == Len(s)
<1>1. n \in Nat /\ m + 1 \in Int /\ n \in Int /\ \A i \in (m + 1)..n : s[i] \in S
  OBVIOUS
<1>2. /\ r \in Seq(S) /\ Len(r) = IF m + 1 <= n THEN n - (m + 1) + 1 ELSE 0
      /\ \A i \in 1..(n - (m + 1) + 1) : r[i] = s[(m + 1) + i - 1]
  BY <1>1, SubSeqProperties
<1>. HIDE DEF r, n
<1>3. Len(r) = n - m
  BY <1>1, <1>2 DEF n
<1>4. ASSUME NEW i \in 1..(n - m) PROVE r[i] = s[m + i]
  <2>1. i \in 1..(n - (m + 1) + 1) /\ (m + 1) + i - 1 = m + i
    BY <1>1
  <2>. QED BY <1>2, <2>1
<1>. QED BY <1>2, <1>3, <1>4 DEF r, n

LEMMA RestOfAppend ==
  ASSUME NEW S, NEW s \in Seq(S), NEW m \in Nat, m <= Len(s), NEW e \in S
  PROVE  SubSeq(Append(s, e), m + 1, Len(Append(s, e))) = Append(SubSeq(s, m + 1, Len(s)), e)
<1>. DEFINE a == Append(s, e)
            n == Len(s)
            p == SubSeq(s, m + 1, n)
            q == SubSeq(a, m + 1, Len(a))
<1>1. /\ a \in Seq(S) /\ Len(a) = n + 1 /\ n \in Nat /\ m <= Len(a)
      /\ a[n + 1] = e /\ \A i \in 1..n : a[i] = s[i]
  OBVIOUS
<1>2. p \in Seq(S) /\ Len(p) = n - m /\ \A i \in 1..(n - m) : p[i] = s[m + i]
  BY RestOf
<1>. HIDE DEF a
<1>3. q \in Seq(S) /\ Len(q) = Len(a) - m /\ \A i \in 1..(Len(a) - m) : q[i] = a[m + i]
  BY <1>1, RestOf
<1>4. n \in Nat /\ m <= n
  OBVIOUS
<1>. HIDE DEF p, q, n
<1>5. Append(p, e) \in Seq(S) /\ Len(Append(p, e)) = Len(q)
  BY <1>1, <1>2, <1>3
<1>6. ASSUME NEW i \in 1..Len(q) PROVE q[i] = Append(p, e)[i]
  <2>1. i \in 1..(n + 1 - m)
    BY <1>1, <1>3
  <2>2. CASE i = n + 1 - m
    <3>1. m + i = n + 1 /\ i = Len(p) + 1
      BY <1>2, <1>4, <2>2
    <3>2. Append(p, e)[Len(p) + 1] = e
      BY <1>2
    <3>. QED BY <1>1, <1>3, <3>1, <3>2
  <2>3. CASE i # n + 1 - m
    <3>1. i \in 1..(n - m) /\ m + i \in 1..n
      BY <1>4, <2>1, <2>3
    <3>2. Append(p, e)[i] = p[i]
      BY <1>2, <3>1
    <3>. QED BY <1>1, <1>2, <1>3, <3>1, <3>2
  <2>. QED BY <2>2, <2>3
<1>7. q = Append(p, e)
  BY <1>3, <1>5, <1>6, SeqEqual
<1>. QED BY <1>7 DEF a, n, p, q

LEMMA RestOfRest ==
  ASSUME NEW S, NEW s \in Seq(S), NEW g \in Nat, NEW m \in Nat, g <= m, m <= Len(s)
  PROVE  LET r == SubSeq(s, g + 1, Len(s))
         IN  SubSeq(r, (m - g) + 1, Len(r)) = SubSeq(s, m + 1, Len(s))
<1>. DEFINE n == Len(s)
            r == SubSeq(s, g + 1, n)
            p == SubSeq(s, m + 1, n)
            d == m - g
            q == SubSeq(r, d + 1, Len(r))
<1>1. n \in Nat /\ d \in Nat /\ m = g + d /\ g <= n /\ m <= n
  OBVIOUS
<1>2. r \in Seq(S) /\ Len(r) = n - g /\ \A i \in 1..(n - g) : r[i] = s[g + i]
  BY <1>1, RestOf
<1>3. p \in Seq(S) /\ Len(p) = n - m /\ \A i \in 1..(n - m) : p[i] = s[m + i]
  BY <1>1, RestOf
<1>. HIDE DEF r, n, d, p
<1>4. d <= Len(r)
  BY <1>1, <1>2
<1>5. q \in Seq(S) /\ Len(q) = Len(r) - d /\ \A i \in 1..(Len(r) - d) : q[i] = r[d + i]
  BY <1>1, <1>2, <1>4, RestOf
<1>. HIDE DEF q
<1>6. Len(q) = Len(p)
  BY <1>1, <1>2, <1>3, <1>5
<1>7. ASSUME NEW i \in 1..Len(q) PROVE q[i] = p[i]
  <2>1. i \in 1..(n - m) /\ i \in 1..(Len(r) - d)
    BY <1>1, <1>2, <1>5
  <2>2. d + i \in 1..(n - g) /\ g + (d + i) = m + i
    BY <1>1, <2>1
  <2>. QED BY <1>2, <1>3, <1>5, <2>1, <2>2
<1>8. q = p
  BY <1>3, <1>5, <1>6, <1>7, SeqEqual
<1>. QED BY <1>8 DEF q, p, d, r, n

LEMMA PendingType ==
  ASSUME NEW T, Sound(T), NEW l \in Listeners(T)
  PROVE  /\ Pending(T, l) \in Seq(Events)
         /\ Len(Pending(T, l)) = Len(T.events) - T.marks[l]
         /\ \A i \in 1..(Len(T.events) - T.marks[l]) : Pending(T, l)[i] = T.events[T.marks[l] + i]
<1>1. T.events \in Seq(Events) /\ T.marks[l] \in Nat /\ T.marks[l] <= Len(T.events)
  BY MarksShape DEF Sound, TopicRecord, InList, Listeners
<1>. QED BY <1>1, RestOf DEF Pending

LEMMA SentIs ==
  ASSUME NEW T, Sound(T), NEW e \in Events
  PROVE  /\ Sound(Sent(T, e)) /\ Listeners(Sent(T, e)) = Listeners(T)
         /\ KeptForSomeone(T) => KeptForSomeone(Sent(T, e))
         /\ \A l \in Listeners(T) : Pending(Sent(T, e), l) = Append(Pending(T, l), e)
<1>1. CASE Listeners(T) = {}
  BY <1>1 DEF Sent
<1>2. CASE Listeners(T) # {}
  <2>1. T.events \in Seq(Events) /\ T.marks \in Marks
    BY DEF Sound, TopicRecord
  <2>2. Sent(T, e).events = Append(T.events, e) /\ Sent(T, e).marks = T.marks
        /\ Sent(T, e) \in TopicRecord
    BY <1>2, <2>1 DEF Sent, Sound, TopicRecord
  <2>3. Append(T.events, e) \in Seq(Events) /\ Len(Append(T.events, e)) = Len(T.events) + 1
        /\ Append(T.events, e) # <<>>
    BY <2>1
  <2>4. \A l \in Listeners(T) : T.marks[l] \in Nat /\ T.marks[l] <= Len(T.events)
    BY <2>1, MarksShape DEF Sound, InList, Listeners
  <2>5. Sound(Sent(T, e)) /\ Listeners(Sent(T, e)) = Listeners(T)
    BY <2>1, <2>2, <2>3, <2>4 DEF Sound, InList, Listeners
  <2>6. KeptForSomeone(T) => KeptForSomeone(Sent(T, e))
    <3>1. CASE T.events = <<>>
      BY <1>2, <2>2, <2>4, <2>5, <3>1 DEF KeptForSomeone
    <3>2. CASE T.events # <<>>
      BY <2>2, <2>5, <3>2 DEF KeptForSomeone
    <3>. QED BY <3>1, <3>2
  <2>7. ASSUME NEW l \in Listeners(T)
        PROVE  Pending(Sent(T, e), l) = Append(Pending(T, l), e)
    <3>1. T.marks[l] \in Nat /\ T.marks[l] <= Len(T.events)
      BY <2>4
    <3>. QED BY <2>1, <2>2, <3>1, RestOfAppend DEF Pending
  <2>. QED BY <2>5, <2>6, <2>7
<1>. QED BY <1>1, <1>2

(* A listener joins: it has nothing to fetch, the others what they had.    *)
LEMMA RegisteredIs ==
  ASSUME NEW T, Sound(T), NEW l \in Nat, l \notin Listeners(T)
  PROVE  /\ Sound(Registered(T, l)) /\ Listeners(Registered(T, l)) = Listeners(T) \cup {l}
         /\ KeptForSomeone(T) => KeptForSomeone(Registered(T, l))
         /\ Pending(Registered(T, l), l) = <<>>
         /\ \A k \in Listeners(T) : Pending(Registered(T, l), k) = Pending(T, k)
<1>. DEFINE m == [k \in Listeners(T) \cup {l} |-> IF k = l THEN Len(T.events) ELSE T.marks[k]]
<1>1. T.events \in Seq(Events) /\ T.marks \in Marks
      /\ T.marks \in [Listeners(T) -> Nat] /\ Listeners(T) \subseteq Nat
  BY MarksShape DEF Sound, TopicRecord, Listeners
<1>2. m \in [Listeners(T) \cup {l} -> Nat]
  BY <1>1
<1>3. m \in Marks
  BY <1>1, <1>2 DEF Marks
<1>4. Registered(T, l).events = T.events /\ Registered(T, l).marks = m
      /\ Registered(T, l) \in TopicRecord
  BY <1>1, <1>3 DEF Registered, MarkAtEnd, Sound, TopicRecord
<1>5. Listeners(Registered(T, l)) = Listeners(T) \cup {l}
  BY <1>4 DEF Listeners
<1>6. InList(Registered(T, l))
  BY <1>1, <1>4, <1>5 DEF InList, Sound
<1>7. KeptForSomeone(T) => KeptForSomeone(Registered(T, l))
  BY <1>4, <1>5 DEF KeptForSomeone
<1>8. Pending(Registered(T, l), l) = <<>>
  BY <1>1, <1>4, SubSeqEmpty DEF Pending
<1>9. \A k \in Listeners(T) : Pending(Registered(T, l), k) = Pending(T, k)
  BY <1>4 DEF Pending
<1>. QED BY <1>4, <1>5, <1>6, <1>7, <1>8, <1>9 DEF Sound

(* A listener has fetched everything: it has nothing left, the others have *)
(* what they had, though the list was cut and all marks moved.             *)
LEMMA CleanedUpIs ==
  ASSUME NEW T, Sound(T), NEW l \in Listeners(T)
  PROVE  /\ Sound(CleanedUp(T, l)) /\ Listeners(CleanedUp(T, l)) = Listeners(T)
         /\ KeptForSomeone(CleanedUp(T, l))
         /\ CleanedUp(T, l).marks[l] = Len(CleanedUp(T, l).events)
         /\ Pending(CleanedUp(T, l), l) = <<>>
         /\ \A k \in Listeners(T) \ {l} : Pending(CleanedUp(T, l), k) = Pending(T, k)
<1>. DEFINE m == [T.marks EXCEPT ![l] = Len(T.events)]
            gone == Oldest(m)
            n == Len(T.events)
            C == CleanedUp(T, l)
<1>1. T.events \in Seq(Events) /\ T.marks \in Marks /\ n \in Nat
      /\ T.marks \in [Listeners(T) -> Nat] /\ Listeners(T) \subseteq Nat
  BY MarksShape DEF Sound, TopicRecord, Listeners
<1>2. m \in [Listeners(T) -> Nat] /\ DOMAIN m = Listeners(T) /\ m \in Marks
  BY <1>1 DEF Marks
<1>3. /\ m[l] = n
      /\ \A k \in Listeners(T) : m[k] \in Nat /\ m[k] <= n
      /\ \A k \in Listeners(T) \ {l} : m[k] = T.marks[k]
  BY <1>1, <1>2 DEF Sound, InList
<1>. HIDE DEF m
<1>4. gone \in Nat /\ (\A k \in Listeners(T) : gone <= m[k]) /\ (\E k \in Listeners(T) : m[k] = gone)
  BY <1>2, OldestIsSmallest
<1>5. gone <= n
  BY <1>3, <1>4
<1>. HIDE DEF gone
<1>6. C = [events |-> SubSeq(T.events, gone + 1, n), marks |-> [k \in Listeners(T) |-> m[k] - gone]]
  BY DEF CleanedUp, gone, m
<1>. DEFINE ev == SubSeq(T.events, gone + 1, n)
            mk == [k \in Listeners(T) |-> m[k] - gone]
<1>7. ev \in Seq(Events) /\ Len(ev) = n - gone /\ \A i \in 1..(n - gone) : ev[i] = T.events[gone + i]
  <2>1. \A i \in (gone + 1)..n : T.events[i] \in Events
    BY <1>1, <1>4
  <2>2. gone + 1 \in Int /\ n \in Int
    BY <1>1, <1>4
  <2>. QED BY <1>1, <1>4, <1>5, <2>1, <2>2, SubSeqProperties
<1>8. mk \in [Listeners(T) -> Nat] /\ DOMAIN mk = Listeners(T) /\ mk \in Marks
  <2>1. \A k \in Listeners(T) : m[k] - gone \in Nat
    BY <1>3, <1>4
  <2>2. mk \in [Listeners(T) -> Nat]
    BY <2>1
  <2>. QED BY <1>1, <2>2 DEF Marks
<1>9. C.events = ev /\ C.marks = mk /\ C \in TopicRecord /\ Listeners(C) = Listeners(T)
  <2>. HIDE DEF ev, mk, C
  <2>1. C = [events |-> ev, marks |-> mk]
    BY <1>6 DEF ev, mk
  <2>. QED BY <1>7, <1>8, <2>1 DEF TopicRecord, Listeners
<1>10. Sound(C)
  BY <1>3, <1>4, <1>5, <1>7, <1>9 DEF Sound, InList
<1>11. C.marks[l] = Len(C.events)
  BY <1>3, <1>7, <1>9
<1>12. KeptForSomeone(C)
  BY <1>1, <1>4, <1>9 DEF KeptForSomeone
<1>. HIDE DEF ev, mk, C
<1>13. Pending(C, l) = <<>>
  <2>1. C.marks[l] \in Nat
    BY <1>7, <1>11, <1>9
  <2>. QED BY <1>7, <1>9, <1>11, <2>1, SubSeqEmpty DEF Pending
<1>14. ASSUME NEW k \in Listeners(T) \ {l}
       PROVE  Pending(C, k) = Pending(T, k)
  <2>1. C.marks[k] = T.marks[k] - gone /\ Len(C.events) = Len(ev)
        /\ T.marks[k] \in Nat /\ gone <= T.marks[k] /\ T.marks[k] <= n
    BY <1>3, <1>4, <1>9 DEF mk
  <2>2. Pending(C, k) = SubSeq(ev, (T.marks[k] - gone) + 1, Len(ev))
    BY <1>9, <2>1 DEF Pending
  <2>3. SubSeq(ev, (T.marks[k] - gone) + 1, Len(ev)) = SubSeq(T.events, T.marks[k] + 1, n)
    BY <1>1, <1>4, <2>1, RestOfRest DEF ev
  <2>. QED BY <2>2, <2>3 DEF Pending
<1>. QED BY <1>9, <1>10, <1>11, <1>12, <1>13, <1>14 DEF C

(* A listener leaves; it is cleaned up first, so nothing is kept for it.   *)
LEMMA UnregisteredIs ==
  ASSUME NEW T, Sound(T), NEW l \in Listeners(T)
  PROVE  /\ Sound(Unregistered(T, l)) /\ Listeners(Unregistered(T, l)) = Listeners(T) \ {l}
         /\ KeptForSomeone(Unregistered(T, l))
         /\ \A k \in Listeners(T) \ {l} : Pending(Unregistered(T, l), k) = Pending(T, k)
<1>. DEFINE C == CleanedUp(T, l)
            m == [k \in Listeners(C) \ {l} |-> C.marks[k]]
<1>1. /\ Sound(C) /\ Listeners(C) = Listeners(T) /\ KeptForSomeone(C)
      /\ C.marks[l] = Len(C.events)
      /\ \A k \in Listeners(T) \ {l} : Pending(C, k) = Pending(T, k)
  BY CleanedUpIs
<1>. HIDE DEF C
<1>2. C.events \in Seq(Events) /\ C.marks \in [Listeners(C) -> Nat] /\ Listeners(C) \subseteq Nat
  BY <1>1, MarksShape DEF Sound, TopicRecord, Listeners
<1>3. m \in [Listeners(C) \ {l} -> Nat] /\ m \in Marks /\ DOMAIN m = Listeners(C) \ {l}
  <2>1. m \in [Listeners(C) \ {l} -> Nat]
    BY <1>2
  <2>. HIDE DEF m
  <2>. QED BY <1>2, <2>1 DEF Marks
<1>4. Unregistered(T, l) = [C EXCEPT !.marks = m]
  BY DEF Unregistered, WithoutListener, C
<1>. HIDE DEF m
<1>5. Unregistered(T, l).events = C.events /\ Unregistered(T, l).marks = m
      /\ Unregistered(T, l) \in TopicRecord
  BY <1>1, <1>3, <1>4 DEF Sound, TopicRecord
<1>6. Listeners(Unregistered(T, l)) = Listeners(T) \ {l}
  BY <1>1, <1>3, <1>5 DEF Listeners
<1>7. \A k \in Listeners(T) \ {l} : m[k] = C.marks[k]
  BY <1>1 DEF m
<1>8. Sound(Unregistered(T, l))
  BY <1>1, <1>5, <1>6, <1>7 DEF Sound, InList
<1>9. KeptForSomeone(Unregistered(T, l))
  <2>1. C.events # <<>> => C.marks[l] # 0
    BY <1>1, <1>2
  <2>. QED BY <1>1, <1>5, <1>6, <1>7, <2>1 DEF KeptForSomeone
<1>10. \A k \in Listeners(T) \ {l} : Pending(Unregistered(T, l), k) = Pending(C, k)
  BY <1>5, <1>7 DEF Pending
<1>. QED BY <1>1, <1>6, <1>8, <1>9, <1>10
-----------------------------------------------------------------------------
(* The invariant of the service. *)

Batch == [listener : Nat, events : Seq(Events)]
ServiceType ==
  /\ topics \subseteq Topics /\ subscribers \subseteq Clients
  /\ topicDirectory \in [Topics -> TopicRecord]
  /\ subscriptions \in [Clients -> SUBSET Topics]
  /\ listener \in [Clients -> [Topics -> Nat]] /\ numListeners \in Nat
  /\ alive \subseteq Clients
  /\ objcache \in [Clients -> SUBSET Topics]
  /\ listenerDirectory \in [Clients -> SUBSET Nat]
  /\ evl \in [Clients -> Nat]
  /\ todo \in [Clients -> Seq(Requests)]
  /\ batch \in [Clients -> [Topics -> Batch]]

TopicsOK == \A t \in Topics : InList(topicDirectory[t]) /\ KeptForSomeone(topicDirectory[t])

(* Only listeners that have been created are in use. *)
Created ==
  \A c \in Clients :
    /\ evl[c] <= numListeners
    /\ \A t \in Topics : listener[c][t] <= numListeners /\ batch[c][t].listener <= numListeners

(* A topic lists the listeners of those who are subscribed to it. *)
ListedOnce ==
  /\ \A c \in Clients, t \in Topics : Subscribed(c, t) => listener[c][t] \in Listeners(topicDirectory[t])
  /\ \A t \in Topics : \A l \in Listeners(topicDirectory[t]) :
        \E c \in Clients : Subscribed(c, t) /\ listener[c][t] = l
  /\ \A c, d \in Clients, t, u \in Topics :
        Subscribed(c, t) /\ listener[c][t] = listener[d][u] => c = d /\ t = u

(* The proxy of a component knows the listeners of its subscriptions. *)
CalledBack ==
  \A c \in alive :
    /\ \A t \in Topics : Subscribed(c, t) => listener[c][t] \in listenerDirectory[c]
    /\ \A l \in listenerDirectory[c] : \E t \in Topics : Subscribed(c, t) /\ listener[c][t] = l

(* A component has a Subscription object for what it is subscribed to; the *)
(* service forgets a subscription a little later than the component.       *)
BooksOf(c) ==
  /\ objcache[c] \subseteq subscriptions[c]
  /\ \A t \in subscriptions[c] : t \in objcache[c] \/ todo[c] = <<AskOf("removeSubscription", t)>>
  /\ \A t \in Topics : Subscribed(c, t) => t \in objcache[c]

(* The listener that c has just created is not used yet. *)
FreshListener(c) ==
  /\ evl[c] # 0
  /\ \A d \in Clients : \A u \in Topics : listener[d][u] # evl[c] /\ batch[d][u].listener # evl[c]
  /\ \A d \in Clients \ {c} : evl[d] # evl[c]

(* A careful component with fetched events in hand keeps its listeners.    *)
Undisturbed(c) == c \notin Careless /\ Handed(c) # {}

(* The rest of the operation c is in, and what holds at that point of it.  *)
Fetching(c) == todo[c] = <<Ask("processEvents")>> /\ Handed(c) = {}
Publishing(c, t, e) ==
  \/ todo[c] = PublishRequests(t, e)
  \/ todo[c] = <<[type |-> "sendEvent", topic |-> t, event |-> e]>> /\ t \in topics
Unsubscribing(c, t) ==
  /\ ~Undisturbed(c)
  /\ \/ todo[c] = <<AskOf("unregisterEventListener", t), AskOf("removeSubscription", t)>>
     \/ todo[c] = <<AskOf("removeSubscription", t)>> /\ t \notin objcache[c]
ToListen(t) == <<Ask("createListener"), AskOf("registerEventListener", t)>>
ToSubscribe(t) ==
  <<AskOf("getSubscription", t), Ask("createListener"), AskOf("registerEventListener", t)>>
Subscribing(c, t) ==
  /\ Undisturbed(c) => ~Subscribed(c, t)
  /\ \/ /\ t \notin objcache[c]
        /\ todo[c] = <<Ask("registerSubscriber"), AskOf("getSubscription", t),
                       Ask("createListener"), AskOf("registerEventListener", t)>>
     \/ t \notin objcache[c] /\ c \in subscribers /\ todo[c] = ToSubscribe(t)
     \/ /\ t \in objcache[c]
        /\ todo[c] = <<Ask("registerSubscriber"),
                       Ask("createListener"), AskOf("registerEventListener", t)>>
     \/ t \in objcache[c] /\ todo[c] = ToListen(t)
     \/ /\ t \in objcache[c] /\ FreshListener(c)
        /\ todo[c] = <<AskOf("registerEventListener", t)>>

InOperation(c) ==
  \/ todo[c] = <<>>
  \/ Fetching(c)
  \/ \E t \in Topics : Unsubscribing(c, t) \/ Subscribing(c, t)
  \/ \E t \in Topics, e \in Events : Publishing(c, t, e)

(* What a careful component is about to hand over is of its listeners.     *)
BatchCurrent(c) ==
  c \notin Careless => \A t \in Handed(c) : Subscribed(c, t) /\ batch[c][t].listener = listener[c][t]

ServiceInv ==
  /\ ServiceType /\ TopicsOK /\ Created /\ ListedOnce /\ CalledBack
  /\ \A c \in Clients : InOperation(c)
  /\ \A c \in alive : BooksOf(c) /\ BatchCurrent(c)

LEMMA Tuples ==
  ASSUME NEW a, NEW b, NEW c, NEW d
  PROVE  /\ <<a>> # <<>> /\ Head(<<a>>) = a /\ Tail(<<a>>) = <<>>
         /\ <<a, b>> # <<>> /\ Head(<<a, b>>) = a /\ Tail(<<a, b>>) = <<b>>
         /\ <<a, b, c>> # <<>> /\ Head(<<a, b, c>>) = a /\ Tail(<<a, b, c>>) = <<b, c>>
         /\ <<a, b, c, d>> # <<>> /\ Head(<<a, b, c, d>>) = a /\ Tail(<<a, b, c, d>>) = <<b, c, d>>
OBVIOUS

LEMMA RequestFields ==
  /\ \A type : Ask(type).type = type
  /\ \A type, t : AskOf(type, t).type = type /\ AskOf(type, t).topic = t
BY DEF Ask, AskOf

(* What holds when the next request is of some type, and what then follows *)
(* it in the operation.                                                    *)
Turn(c, r, q) ==
  /\ r.type = "processEvents" => q = <<>> /\ Handed(c) = {}
  /\ r.type = "getTopic" =>
       /\ r.topic \in Topics
       /\ \E e \in Events : q = <<[type |-> "sendEvent", topic |-> r.topic, event |-> e]>>
  /\ r.type = "sendEvent" =>
       r.topic \in Topics /\ r.event \in Events /\ q = <<>> /\ r.topic \in topics
  /\ r.type = "unregisterEventListener" =>
       r.topic \in Topics /\ ~Undisturbed(c) /\ q = <<AskOf("removeSubscription", r.topic)>>
  /\ r.type = "removeSubscription" =>
       r.topic \in Topics /\ q = <<>> /\ r.topic \notin objcache[c]
  /\ r.type = "registerSubscriber" => \E t \in Topics :
       /\ Undisturbed(c) => ~Subscribed(c, t)
       /\ \/ t \notin objcache[c] /\ q = ToSubscribe(t)
          \/ t \in objcache[c] /\ q = ToListen(t)
  /\ r.type = "getSubscription" =>
       /\ r.topic \in Topics /\ (Undisturbed(c) => ~Subscribed(c, r.topic))
       /\ r.topic \notin objcache[c] /\ c \in subscribers /\ q = ToListen(r.topic)
  /\ r.type = "createListener" => \E t \in Topics :
       /\ Undisturbed(c) => ~Subscribed(c, t)
       /\ t \in objcache[c] /\ q = <<AskOf("registerEventListener", t)>>
  /\ r.type = "registerEventListener" =>
       /\ r.topic \in Topics /\ (Undisturbed(c) => ~Subscribed(c, r.topic))
       /\ r.topic \in objcache[c] /\ FreshListener(c) /\ q = <<>>

LEMMA NextRequest ==
  ASSUME NEW c \in Clients, InOperation(c), todo[c] # <<>>
  PROVE  Turn(c, Head(todo[c]), Tail(todo[c]))
<1>. DEFINE r == Head(todo[c])
            q == Tail(todo[c])
<1>. USE RequestFields
<1>1. CASE Fetching(c)
  <2>1. r = Ask("processEvents") /\ q = <<>> /\ Handed(c) = {}
    BY <1>1, Tuples DEF Fetching
  <2>. HIDE DEF r, q
  <2>2. Turn(c, r, q)
    BY <2>1 DEF Turn
  <2>. QED BY <2>2 DEF r, q
<1>2. ASSUME NEW t \in Topics, Unsubscribing(c, t)
      PROVE  Turn(c, r, q)
  <2>1. CASE todo[c] = <<AskOf("unregisterEventListener", t), AskOf("removeSubscription", t)>>
    <3>1. r = AskOf("unregisterEventListener", t) /\ q = <<AskOf("removeSubscription", t)>>
          /\ ~Undisturbed(c)
      BY <1>2, <2>1, Tuples DEF Unsubscribing
    <3>. HIDE DEF r, q
    <3>. QED BY <3>1 DEF Turn
  <2>2. CASE todo[c] = <<AskOf("removeSubscription", t)>> /\ t \notin objcache[c]
    <3>1. r = AskOf("removeSubscription", t) /\ q = <<>>
      BY <2>2, Tuples
    <3>. HIDE DEF r, q
    <3>. QED BY <2>2, <3>1 DEF Turn
  <2>. QED BY <1>2, <2>1, <2>2 DEF Unsubscribing
<1>3. ASSUME NEW t \in Topics, Subscribing(c, t)
      PROVE  Turn(c, r, q)
  <2>0. Undisturbed(c) => ~Subscribed(c, t)
    BY <1>3 DEF Subscribing
  <2>1. CASE /\ t \notin objcache[c]
             /\ todo[c] = <<Ask("registerSubscriber"), AskOf("getSubscription", t),
                            Ask("createListener"), AskOf("registerEventListener", t)>>
    <3>1. r = Ask("registerSubscriber") /\ q = ToSubscribe(t)
      BY <2>1, Tuples DEF ToListen, ToSubscribe
    <3>. HIDE DEF r, q
    <3>. QED BY <2>0, <2>1, <3>1 DEF Turn
  <2>2. CASE t \notin objcache[c] /\ c \in subscribers /\ todo[c] = ToSubscribe(t)
    <3>1. r = AskOf("getSubscription", t) /\ q = ToListen(t)
      BY <2>2, Tuples DEF ToListen, ToSubscribe
    <3>. HIDE DEF r, q
    <3>. QED BY <2>0, <2>2, <3>1 DEF Turn
  <2>3. CASE /\ t \in objcache[c]
             /\ todo[c] = <<Ask("registerSubscriber"),
                            Ask("createListener"), AskOf("registerEventListener", t)>>
    <3>1. r = Ask("registerSubscriber") /\ q = ToListen(t)
      BY <2>3, Tuples DEF ToListen, ToSubscribe
    <3>. HIDE DEF r, q
    <3>. QED BY <2>0, <2>3, <3>1 DEF Turn
  <2>4. CASE t \in objcache[c] /\ todo[c] = ToListen(t)
    <3>1. r = Ask("createListener") /\ q = <<AskOf("registerEventListener", t)>>
      BY <2>4, Tuples DEF ToListen
    <3>. HIDE DEF r, q
    <3>. QED BY <2>0, <2>4, <3>1 DEF Turn
  <2>5. CASE /\ t \in objcache[c] /\ FreshListener(c)
             /\ todo[c] = <<AskOf("registerEventListener", t)>>
    <3>1. r = AskOf("registerEventListener", t) /\ q = <<>>
      BY <2>5, Tuples
    <3>. HIDE DEF r, q
    <3>. QED BY <2>0, <2>5, <3>1 DEF Turn
  <2>. QED BY <1>3, <2>1, <2>2, <2>3, <2>4, <2>5 DEF Subscribing
<1>4. ASSUME NEW t \in Topics, NEW e \in Events, Publishing(c, t, e)
      PROVE  Turn(c, r, q)
  <2>1. CASE todo[c] = PublishRequests(t, e)
    <3>1. r = AskOf("getTopic", t) /\ q = <<[type |-> "sendEvent", topic |-> t, event |-> e]>>
      BY <2>1, Tuples DEF PublishRequests
    <3>. HIDE DEF r, q
    <3>. QED BY <3>1 DEF Turn
  <2>2. CASE todo[c] = <<[type |-> "sendEvent", topic |-> t, event |-> e]>> /\ t \in topics
    <3>1. r = [type |-> "sendEvent", topic |-> t, event |-> e] /\ q = <<>>
      BY <2>2, Tuples
    <3>. HIDE DEF r, q
    <3>. QED BY <2>2, <3>1 DEF Turn
  <2>. QED BY <1>4, <2>1, <2>2 DEF Publishing
<1>. QED BY <1>1, <1>2, <1>3, <1>4 DEF InOperation

-----------------------------------------------------------------------------
(* What most steps have in common. *)

(* A request is served: the component goes on with the rest.               *)
LEMMA RequestServed ==
  ASSUME ServiceType, NEW c \in Clients, todo[c] # <<>>, todo' = [todo EXCEPT ![c] = Tail(@)]
  PROVE  /\ todo' \in [Clients -> Seq(Requests)] /\ Head(todo[c]) \in Requests
         /\ todo'[c] = Tail(todo[c]) /\ \A d \in Clients \ {c} : todo'[d] = todo[d]
<1>1. todo[c] \in Seq(Requests) /\ todo \in [Clients -> Seq(Requests)]
  BY DEF ServiceType
<1>2. Tail(todo[c]) \in Seq(Requests) /\ Head(todo[c]) \in Requests
  BY <1>1, HeadTailProperties
<1>. QED BY <1>1, <1>2

(* A component that a step leaves alone is where it was in its operation.  *)
LEMMA GoesOn ==
  ASSUME NEW d \in Clients, InOperation(d),
         todo'[d] = todo[d], batch'[d] = batch[d], objcache'[d] = objcache[d],
         listener'[d] = listener[d], topics \subseteq topics', subscribers \subseteq subscribers',
         FreshListener(d) => FreshListener(d)'
  PROVE  InOperation(d)'
<1>1. Handed(d)' = Handed(d) /\ (Undisturbed(d)' <=> Undisturbed(d))
  BY DEF Handed, Undisturbed
<1>2. \A t \in Topics : Subscribed(d, t)' <=> Subscribed(d, t)
  BY DEF Subscribed
<1>3. Fetching(d) => Fetching(d)'
  BY <1>1 DEF Fetching
<1>4. \A t \in Topics : Unsubscribing(d, t) => Unsubscribing(d, t)'
  BY <1>1 DEF Unsubscribing
<1>5. \A t \in Topics : Subscribing(d, t) => Subscribing(d, t)'
  BY <1>1, <1>2 DEF Subscribing
<1>6. \A t \in Topics, e \in Events : Publishing(d, t, e) => Publishing(d, t, e)'
  BY DEF Publishing, PublishRequests
<1>. QED BY <1>3, <1>4, <1>5, <1>6 DEF InOperation

LEMMA FreshStays ==
  ASSUME NEW d \in Clients, listener' = listener, batch' = batch, evl' = evl, FreshListener(d)
  PROVE  FreshListener(d)'
BY DEF FreshListener

(* The books of a component change only with what they speak of.           *)
LEMMA BooksStay ==
  ASSUME NEW d \in Clients, objcache'[d] = objcache[d], subscriptions'[d] = subscriptions[d],
         listener'[d] = listener[d], batch'[d] = batch[d]
  PROVE  /\ todo'[d] = todo[d] /\ BooksOf(d) => BooksOf(d)'
         /\ BatchCurrent(d) => BatchCurrent(d)'
<1>1. todo'[d] = todo[d] /\ BooksOf(d) => BooksOf(d)'
  BY DEF BooksOf, Subscribed
<1>2. BatchCurrent(d) => BatchCurrent(d)'
  BY DEF BatchCurrent, Handed, Subscribed
<1>. QED BY <1>1, <1>2

(* Steps that leave the listeners alone. *)
ListenersStay ==
  UNCHANGED <<topicDirectory, listener, alive, listenerDirectory, batch>>

LEMMA ListedStay ==
  ASSUME ListedOnce, listener' = listener,
         \A t \in Topics : Listeners(topicDirectory'[t]) = Listeners(topicDirectory[t])
  PROVE  ListedOnce'
<1>1. \A c \in Clients, t \in Topics : Subscribed(c, t)' <=> Subscribed(c, t)
  BY DEF Subscribed
<1>2. \A c \in Clients, t \in Topics :
        Subscribed(c, t)' => listener'[c][t] \in Listeners(topicDirectory'[t])
  BY <1>1 DEF ListedOnce
<1>3. \A t \in Topics : \A l \in Listeners(topicDirectory'[t]) :
        \E c \in Clients : Subscribed(c, t)' /\ listener'[c][t] = l
  BY <1>1 DEF ListedOnce
<1>4. \A c, d \in Clients, t, u \in Topics :
        Subscribed(c, t)' /\ listener'[c][t] = listener'[d][u] => c = d /\ t = u
  BY <1>1 DEF ListedOnce
<1>. QED BY <1>2, <1>3, <1>4 DEF ListedOnce

LEMMA CalledBackStays ==
  ASSUME CalledBack, listener' = listener, alive' \subseteq alive,
         \A c \in alive' : listenerDirectory'[c] = listenerDirectory[c]
  PROVE  CalledBack'
BY DEF CalledBack, Subscribed

LEMMA TablesStay ==
  ASSUME ServiceInv, ListenersStay, evl' = evl, numListeners' = numListeners
  PROVE  (TopicsOK /\ Created /\ ListedOnce /\ CalledBack)'
<1>1. TopicsOK' /\ Created'
  BY DEF ServiceInv, ListenersStay, TopicsOK, Created
<1>. QED BY <1>1, ListedStay, CalledBackStays DEF ServiceInv, ListenersStay

-----------------------------------------------------------------------------
(* Requests that leave the listeners alone. *)

LEMMA SubscriberRegistered ==
  ASSUME ServiceInv, NEW c \in Clients, RegisterSubscriber(c)
  PROVE  ServiceInv'
<1>. USE DEF ServiceInv
<1>1. /\ todo[c] # <<>> /\ Head(todo[c]).type = "registerSubscriber"
      /\ todo' = [todo EXCEPT ![c] = Tail(@)] /\ subscribers' = subscribers \cup {c}
      /\ topics' = topics /\ subscriptions' = subscriptions /\ objcache' = objcache
      /\ ListenersStay /\ evl' = evl /\ numListeners' = numListeners
  BY DEF RegisterSubscriber, Accepted, Asks, ListenersStay
<1>2. todo' \in [Clients -> Seq(Requests)]
      /\ todo'[c] = Tail(todo[c]) /\ \A d \in Clients \ {c} : todo'[d] = todo[d]
  BY <1>1, RequestServed
<1>3. ServiceType'
  BY <1>1, <1>2 DEF ServiceType, ListenersStay
<1>4. (TopicsOK /\ Created /\ ListedOnce /\ CalledBack)'
  BY <1>1, TablesStay
<1>5. \A d \in Clients \ {c} : InOperation(d)'
  BY <1>1, <1>2, GoesOn, FreshStays DEF ListenersStay
<1>6. PICK t \in Topics :
        /\ Undisturbed(c) => ~Subscribed(c, t)
        /\ \/ t \notin objcache[c] /\ todo'[c] = ToSubscribe(t)
           \/ t \in objcache[c] /\ todo'[c] = ToListen(t)
  <2>1. Turn(c, Head(todo[c]), Tail(todo[c]))
    BY <1>1, NextRequest
  <2>. QED BY <1>1, <1>2, <2>1 DEF Turn
<1>7. InOperation(c)'
  <2>1. (Undisturbed(c) => ~Subscribed(c, t))'
    BY <1>1, <1>6 DEF ListenersStay, Undisturbed, Handed, Subscribed
  <2>2. Subscribing(c, t)'
    BY <1>1, <1>6, <2>1 DEF Subscribing
  <2>. QED BY <2>2 DEF InOperation
<1>8. \A d \in alive' : BooksOf(d)' /\ BatchCurrent(d)'
  <2>1. alive' = alive /\ alive \subseteq Clients
    BY <1>1 DEF ListenersStay, ServiceType
  <2>2. \A d \in Clients : objcache'[d] = objcache[d] /\ subscriptions'[d] = subscriptions[d]
                           /\ listener'[d] = listener[d] /\ batch'[d] = batch[d]
    BY <1>1 DEF ListenersStay
  <2>3. \A u : todo[c] # <<AskOf("removeSubscription", u)>>
    BY <1>1, RequestFields, Tuples
  <2>4. c \in alive => BooksOf(c)'
    BY <1>1, <2>1, <2>2, <2>3 DEF BooksOf, ListenersStay, Subscribed
  <2>. QED BY <1>2, <2>1, <2>2, <2>4, BooksStay
<1>. QED BY <1>3, <1>4, <1>5, <1>7, <1>8

LEMMA SubscriptionMade ==
  ASSUME ServiceInv, NEW c \in Clients, GetSubscription(c)
  PROVE  ServiceInv'
<1>. USE DEF ServiceInv
<1>0. PICK t : t = Head(todo[c]).topic
  OBVIOUS
<1>1. /\ todo[c] # <<>> /\ Head(todo[c]).type = "getSubscription"
      /\ todo' = [todo EXCEPT ![c] = Tail(@)] /\ subscribers' = subscribers
      /\ topics' = topics \cup {t} /\ subscriptions' = [subscriptions EXCEPT ![c] = @ \cup {t}]
      /\ objcache' = [objcache EXCEPT ![c] = @ \cup {t}]
      /\ ListenersStay /\ evl' = evl /\ numListeners' = numListeners
  BY <1>0 DEF GetSubscription, Accepted, Asks, ListenersStay
<1>2. todo' \in [Clients -> Seq(Requests)]
      /\ todo'[c] = Tail(todo[c]) /\ \A d \in Clients \ {c} : todo'[d] = todo[d]
  BY <1>1, RequestServed
<1>3. /\ t \in Topics /\ (Undisturbed(c) => ~Subscribed(c, t))
      /\ t \notin objcache[c] /\ c \in subscribers /\ todo'[c] = ToListen(t)
  <2>1. Turn(c, Head(todo[c]), Tail(todo[c]))
    BY <1>1, NextRequest
  <2>. QED BY <1>0, <1>1, <1>2, <2>1 DEF Turn
<1>4. ServiceType'
  BY <1>1, <1>2, <1>3 DEF ServiceType, ListenersStay
<1>5. (TopicsOK /\ Created /\ ListedOnce /\ CalledBack)'
  BY <1>1, TablesStay
<1>6. objcache'[c] = objcache[c] \cup {t} /\ subscriptions'[c] = subscriptions[c] \cup {t}
      /\ \A d \in Clients \ {c} : objcache'[d] = objcache[d] /\ subscriptions'[d] = subscriptions[d]
  BY <1>1 DEF ServiceType
<1>7. \A d \in Clients \ {c} : InOperation(d)'
  BY <1>1, <1>2, <1>6, GoesOn, FreshStays DEF ListenersStay
<1>8. InOperation(c)'
  <2>1. (Undisturbed(c) => ~Subscribed(c, t))'
    BY <1>1, <1>3 DEF ListenersStay, Undisturbed, Handed, Subscribed
  <2>2. Subscribing(c, t)'
    BY <1>3, <1>6, <2>1 DEF Subscribing
  <2>. QED BY <1>3, <2>2 DEF InOperation
<1>9. \A d \in alive' : BooksOf(d)' /\ BatchCurrent(d)'
  <2>1. alive' = alive /\ alive \subseteq Clients /\ listener' = listener /\ batch' = batch
    BY <1>1 DEF ListenersStay, ServiceType
  <2>2. \A u : todo[c] # <<AskOf("removeSubscription", u)>>
    BY <1>1, RequestFields, Tuples
  <2>3. c \in alive => BooksOf(c)'
    BY <1>6, <2>1, <2>2 DEF BooksOf, Subscribed
  <2>4. c \in alive => BatchCurrent(c)'
    BY <2>1 DEF BatchCurrent, Handed, Subscribed
  <2>5. \A d \in alive \ {c} : BooksOf(d)' /\ BatchCurrent(d)'
    BY <1>2, <1>6, <2>1, BooksStay
  <2>. QED BY <2>1, <2>3, <2>4, <2>5
<1>. QED BY <1>4, <1>5, <1>7, <1>8, <1>9

LEMMA ListenerCreated ==
  ASSUME ServiceInv, NEW c \in Clients, CreateListener(c)
  PROVE  ServiceInv'
<1>. USE DEF ServiceInv
<1>1. /\ todo[c] # <<>> /\ Head(todo[c]).type = "createListener"
      /\ todo' = [todo EXCEPT ![c] = Tail(@)] /\ subscribers' = subscribers
      /\ topics' = topics /\ subscriptions' = subscriptions /\ objcache' = objcache
      /\ ListenersStay
      /\ numListeners' = numListeners + 1 /\ evl' = [evl EXCEPT ![c] = numListeners + 1]
  BY DEF CreateListener, Accepted, Asks, ListenersStay, subscriberDirectory
<1>2. todo' \in [Clients -> Seq(Requests)]
      /\ todo'[c] = Tail(todo[c]) /\ \A d \in Clients \ {c} : todo'[d] = todo[d]
  BY <1>1, RequestServed
<1>3. PICK t \in Topics : /\ Undisturbed(c) => ~Subscribed(c, t)
                          /\ t \in objcache[c] /\ todo'[c] = <<AskOf("registerEventListener", t)>>
  <2>1. Turn(c, Head(todo[c]), Tail(todo[c]))
    BY <1>1, NextRequest
  <2>. QED BY <1>1, <1>2, <2>1 DEF Turn
<1>4. ServiceType'
  BY <1>1, <1>2 DEF ServiceType, ListenersStay
<1>5. /\ evl'[c] = numListeners + 1 /\ \A d \in Clients \ {c} : evl'[d] = evl[d]
      /\ numListeners \in Nat /\ \A d \in Clients : evl[d] \in Nat /\ evl[d] <= numListeners
      /\ \A d \in Clients, u \in Topics :
           /\ listener[d][u] \in Nat /\ listener[d][u] <= numListeners
           /\ batch[d][u].listener \in Nat /\ batch[d][u].listener <= numListeners
  BY <1>1 DEF ServiceType, Created, Batch
<1>6. Created'
  BY <1>1, <1>5 DEF Created, ListenersStay
<1>7. (TopicsOK /\ ListedOnce /\ CalledBack)'
  <2>1. TopicsOK'
    BY <1>1 DEF ListenersStay, TopicsOK
  <2>. QED BY <1>1, <2>1, ListedStay, CalledBackStays DEF ListenersStay
<1>8. FreshListener(c)'
  BY <1>1, <1>5 DEF FreshListener, ListenersStay
<1>9. \A d \in Clients \ {c} : FreshListener(d) => FreshListener(d)'
  BY <1>1, <1>5 DEF FreshListener, ListenersStay
<1>10. \A d \in Clients \ {c} : InOperation(d)'
  BY <1>1, <1>2, <1>9, GoesOn DEF ListenersStay
<1>11. InOperation(c)'
  <2>1. (Undisturbed(c) => ~Subscribed(c, t))'
    BY <1>1, <1>3 DEF ListenersStay, Undisturbed, Handed, Subscribed
  <2>2. Subscribing(c, t)'
    BY <1>1, <1>3, <1>8, <2>1 DEF Subscribing
  <2>. QED BY <2>2 DEF InOperation
<1>12. \A d \in alive' : BooksOf(d)' /\ BatchCurrent(d)'
  <2>1. alive' = alive /\ alive \subseteq Clients /\ listener' = listener /\ batch' = batch
    BY <1>1 DEF ListenersStay, ServiceType
  <2>2. \A u : todo[c] # <<AskOf("removeSubscription", u)>>
    BY <1>1, RequestFields, Tuples
  <2>3. c \in alive => BooksOf(c)'
    BY <1>1, <2>1, <2>2 DEF BooksOf, Subscribed
  <2>. QED BY <1>1, <1>2, <2>1, <2>3, BooksStay
<1>. QED BY <1>4, <1>6, <1>7, <1>10, <1>11, <1>12

LEMMA SubscriptionRemoved ==
  ASSUME ServiceInv, NEW c \in Clients, RemoveSubscription(c)
  PROVE  ServiceInv'
<1>. USE DEF ServiceInv
<1>0. PICK t : t = Head(todo[c]).topic
  OBVIOUS
<1>1. /\ todo[c] # <<>> /\ Head(todo[c]).type = "removeSubscription"
      /\ todo' = [todo EXCEPT ![c] = Tail(@)] /\ subscribers' = subscribers
      /\ topics' = topics /\ subscriptions' = [subscriptions EXCEPT ![c] = @ \ {t}]
      /\ objcache' = objcache /\ ListenersStay /\ evl' = evl /\ numListeners' = numListeners
  BY <1>0 DEF RemoveSubscription, Accepted, Asks, ListenersStay
<1>2. todo' \in [Clients -> Seq(Requests)]
      /\ todo'[c] = Tail(todo[c]) /\ \A d \in Clients \ {c} : todo'[d] = todo[d]
  BY <1>1, RequestServed
<1>3. t \in Topics /\ t \notin objcache[c] /\ todo'[c] = <<>>
  <2>1. Turn(c, Head(todo[c]), Tail(todo[c]))
    BY <1>1, NextRequest
  <2>. QED BY <1>0, <1>1, <1>2, <2>1 DEF Turn
<1>4. \A u : todo[c] = <<AskOf("removeSubscription", u)>> => t = u
  BY <1>0, RequestFields, Tuples
<1>5. ServiceType'
  BY <1>1, <1>2, <1>3 DEF ServiceType, ListenersStay
<1>6. (TopicsOK /\ Created /\ ListedOnce /\ CalledBack)'
  BY <1>1, TablesStay
<1>7. subscriptions'[c] = subscriptions[c] \ {t}
      /\ \A d \in Clients \ {c} : subscriptions'[d] = subscriptions[d]
  BY <1>1 DEF ServiceType
<1>8. \A d \in Clients : InOperation(d)'
  BY <1>1, <1>2, <1>3, GoesOn, FreshStays DEF ListenersStay, InOperation
<1>9. \A d \in alive' : BooksOf(d)' /\ BatchCurrent(d)'
  <2>1. alive' = alive /\ alive \subseteq Clients /\ listener' = listener /\ batch' = batch
    BY <1>1 DEF ListenersStay, ServiceType
  <2>3. c \in alive => BooksOf(c)'
    BY <1>1, <1>3, <1>4, <1>7, <2>1 DEF BooksOf, Subscribed
  <2>4. c \in alive => BatchCurrent(c)'
    BY <2>1 DEF BatchCurrent, Handed, Subscribed
  <2>5. \A d \in alive \ {c} : BooksOf(d)' /\ BatchCurrent(d)'
    BY <1>1, <1>2, <1>7, <2>1, BooksStay
  <2>. QED BY <2>1, <2>3, <2>4, <2>5
<1>. QED BY <1>5, <1>6, <1>8, <1>9

LEMMA TopicGot ==
  ASSUME ServiceInv, NEW c \in Clients, GetTopic(c)
  PROVE  ServiceInv'
<1>. USE DEF ServiceInv
<1>0. PICK t : t = Head(todo[c]).topic
  OBVIOUS
<1>1. /\ todo[c] # <<>> /\ Head(todo[c]).type = "getTopic"
      /\ todo' = [todo EXCEPT ![c] = Tail(@)] /\ subscribers' = subscribers
      /\ topics' = topics \cup {t} /\ subscriptions' = subscriptions
      /\ objcache' = objcache /\ ListenersStay /\ evl' = evl /\ numListeners' = numListeners
  BY <1>0 DEF GetTopic, Accepted, Asks, ListenersStay, subscriberDirectory
<1>2. todo' \in [Clients -> Seq(Requests)]
      /\ todo'[c] = Tail(todo[c]) /\ \A d \in Clients \ {c} : todo'[d] = todo[d]
  BY <1>1, RequestServed
<1>3. t \in Topics /\ \E e \in Events : todo'[c] = <<[type |-> "sendEvent", topic |-> t, event |-> e]>>
  <2>1. Turn(c, Head(todo[c]), Tail(todo[c]))
    BY <1>1, NextRequest
  <2>. QED BY <1>0, <1>1, <1>2, <2>1 DEF Turn
<1>4. ServiceType'
  BY <1>1, <1>2, <1>3 DEF ServiceType, ListenersStay
<1>5. (TopicsOK /\ Created /\ ListedOnce /\ CalledBack)'
  BY <1>1, TablesStay
<1>6. \A d \in Clients \ {c} : InOperation(d)'
  BY <1>1, <1>2, GoesOn, FreshStays DEF ListenersStay
<1>7. InOperation(c)'
  <2>1. \E e \in Events : Publishing(c, t, e)'
    BY <1>1, <1>3 DEF Publishing
  <2>. QED BY <1>3, <2>1 DEF InOperation
<1>8. \A d \in alive' : BooksOf(d)' /\ BatchCurrent(d)'
  <2>1. alive' = alive /\ alive \subseteq Clients /\ listener' = listener /\ batch' = batch
    BY <1>1 DEF ListenersStay, ServiceType
  <2>2. \A u : todo[c] # <<AskOf("removeSubscription", u)>>
    BY <1>1, RequestFields, Tuples
  <2>3. c \in alive => BooksOf(c)'
    BY <1>1, <2>1, <2>2 DEF BooksOf, Subscribed
  <2>. QED BY <1>1, <1>2, <2>1, <2>3, BooksStay
<1>. QED BY <1>4, <1>5, <1>6, <1>7, <1>8

-----------------------------------------------------------------------------
(* Steps that change a topic. *)

LEMMA TopicsAreSound ==
  ASSUME ServiceInv, NEW t \in Topics
  PROVE  Sound(topicDirectory[t]) /\ KeptForSomeone(topicDirectory[t])
BY DEF ServiceInv, ServiceType, TopicsOK, Sound

(* The listener of a component that has one is a listener of the topic.    *)
LEMMA SubscribedIsListed ==
  ASSUME ServiceInv, NEW c \in Clients, NEW t \in Topics, Subscribed(c, t)
  PROVE  listener[c][t] \in Listeners(topicDirectory[t])
BY DEF ServiceInv, ListedOnce

EventSent(t, e) == topicDirectory' = [topicDirectory EXCEPT ![t] = Sent(@, e)]

LEMMA TopicHasEvent ==
  ASSUME ServiceInv, NEW t \in Topics, NEW e \in Events, EventSent(t, e)
  PROVE  /\ topicDirectory' \in [Topics -> TopicRecord] /\ TopicsOK'
         /\ \A u \in Topics : Listeners(topicDirectory'[u]) = Listeners(topicDirectory[u])
<1>1. topicDirectory \in [Topics -> TopicRecord] /\ \A u \in Topics : Sound(topicDirectory[u])
  BY TopicsAreSound DEF ServiceInv, ServiceType
<1>2. /\ Sound(Sent(topicDirectory[t], e)) /\ KeptForSomeone(Sent(topicDirectory[t], e))
      /\ Listeners(Sent(topicDirectory[t], e)) = Listeners(topicDirectory[t])
  BY TopicsAreSound, SentIs
<1>3. topicDirectory'[t] = Sent(topicDirectory[t], e)
      /\ \A u \in Topics \ {t} : topicDirectory'[u] = topicDirectory[u]
  BY <1>1 DEF EventSent
<1>4. topicDirectory' \in [Topics -> TopicRecord]
  BY <1>1, <1>2 DEF EventSent, Sound
<1>5. TopicsOK'
  BY <1>2, <1>3 DEF TopicsOK, ServiceInv, Sound
<1>6. \A u \in Topics : Listeners(topicDirectory'[u]) = Listeners(topicDirectory[u])
  BY <1>2, <1>3
<1>. QED BY <1>4, <1>5, <1>6

LEMMA EventPublished ==
  ASSUME ServiceInv, NEW t \in Topics, NEW e \in Events, Publish(t, e)
  PROVE  ServiceInv'
<1>. USE DEF ServiceInv
<1>1. /\ EventSent(t, e) /\ topics' = topics \cup {t} /\ subscribers' = subscribers
      /\ subscriptions' = subscriptions /\ listener' = listener /\ numListeners' = numListeners
      /\ alive' = alive /\ objcache' = objcache /\ listenerDirectory' = listenerDirectory
      /\ evl' = evl /\ todo' = todo /\ batch' = batch
  BY DEF Publish, EventSent, subscriberDirectory, clientVars
<1>2. /\ topicDirectory' \in [Topics -> TopicRecord] /\ TopicsOK'
      /\ \A u \in Topics : Listeners(topicDirectory'[u]) = Listeners(topicDirectory[u])
  BY <1>1, TopicHasEvent
<1>3. ServiceType'
  BY <1>1, <1>2 DEF ServiceType
<1>4. (Created /\ ListedOnce /\ CalledBack)'
  <2>1. Created'
    BY <1>1 DEF Created
  <2>. QED BY <1>1, <1>2, <2>1, ListedStay, CalledBackStays
<1>5. \A d \in Clients : InOperation(d)'
  BY <1>1, GoesOn, FreshStays
<1>6. \A d \in alive' : BooksOf(d)' /\ BatchCurrent(d)'
  BY <1>1, BooksStay DEF ServiceType
<1>. QED BY <1>2, <1>3, <1>4, <1>5, <1>6

LEMMA EventSentOff ==
  ASSUME ServiceInv, NEW c \in Clients, SendEvent(c)
  PROVE  /\ ServiceInv'
         /\ \E t \in Topics, e \in Events : EventSent(t, e)
<1>. USE DEF ServiceInv
<1>0. PICK t, e : t = Head(todo[c]).topic /\ e = Head(todo[c]).event
  OBVIOUS
<1>1. /\ todo[c] # <<>> /\ Head(todo[c]).type = "sendEvent" /\ EventSent(t, e)
      /\ todo' = [todo EXCEPT ![c] = Tail(@)] /\ subscribers' = subscribers
      /\ topics' = topics /\ subscriptions' = subscriptions /\ listener' = listener
      /\ numListeners' = numListeners /\ alive' = alive /\ objcache' = objcache
      /\ listenerDirectory' = listenerDirectory /\ evl' = evl /\ batch' = batch
  BY <1>0 DEF SendEvent, Accepted, Asks, EventSent, subscriberDirectory
<1>2. todo' \in [Clients -> Seq(Requests)]
      /\ todo'[c] = Tail(todo[c]) /\ \A d \in Clients \ {c} : todo'[d] = todo[d]
  BY <1>1, RequestServed
<1>3. t \in Topics /\ e \in Events /\ todo'[c] = <<>>
  <2>1. Turn(c, Head(todo[c]), Tail(todo[c]))
    BY <1>1, NextRequest
  <2>. QED BY <1>0, <1>1, <1>2, <2>1 DEF Turn
<1>4. /\ topicDirectory' \in [Topics -> TopicRecord] /\ TopicsOK'
      /\ \A u \in Topics : Listeners(topicDirectory'[u]) = Listeners(topicDirectory[u])
  BY <1>1, <1>3, TopicHasEvent
<1>5. ServiceType'
  BY <1>1, <1>2, <1>4 DEF ServiceType
<1>6. (Created /\ ListedOnce /\ CalledBack)'
  <2>1. Created'
    BY <1>1 DEF Created
  <2>. QED BY <1>1, <1>4, <2>1, ListedStay, CalledBackStays
<1>7. \A d \in Clients : InOperation(d)'
  BY <1>1, <1>2, <1>3, GoesOn, FreshStays DEF InOperation
<1>8. \A d \in alive' : BooksOf(d)' /\ BatchCurrent(d)'
  <2>1. \A u : todo[c] # <<AskOf("removeSubscription", u)>>
    BY <1>1, RequestFields, Tuples
  <2>2. c \in alive => BooksOf(c)'
    BY <1>1, <2>1 DEF BooksOf, Subscribed
  <2>. QED BY <1>1, <1>2, <2>2, BooksStay DEF ServiceType
<1>. QED BY <1>1, <1>3, <1>4, <1>5, <1>6, <1>7, <1>8

(* What joining and leaving change for the events on their way. *)
Joins(c, t, l) ==
  /\ c \in alive /\ ~Subscribed(c, t) /\ l # 0 /\ l \notin Listeners(topicDirectory[t])
  /\ batch[c][t].listener # l
  /\ topicDirectory'[t] = Registered(topicDirectory[t], l)
  /\ \A u \in Topics \ {t} : topicDirectory'[u] = topicDirectory[u]
  /\ listener'[c][t] = l /\ \A u \in Topics \ {t} : listener'[c][u] = listener[c][u]
  /\ \A d \in Clients \ {c} : listener'[d] = listener[d]
  /\ alive' = alive /\ batch' = batch
Quits(c, t) ==
  /\ c \in alive /\ Subscribed(c, t)
  /\ topicDirectory'[t] = Unregistered(topicDirectory[t], listener[c][t])
  /\ \A u \in Topics \ {t} : topicDirectory'[u] = topicDirectory[u]
  /\ listener'[c][t] = 0 /\ \A u \in Topics \ {t} : listener'[c][u] = listener[c][u]
  /\ \A d \in Clients \ {c} : listener'[d] = listener[d]
  /\ alive' = alive /\ batch' = batch

LEMMA ListenerRegistered ==
  ASSUME ServiceInv, NEW c \in Clients, RegisterEventListener(c)
  PROVE  ServiceInv' /\ \E t \in Topics, l \in Nat : Joins(c, t, l)
<1>. USE DEF ServiceInv
<1>0. PICK t, l : t = Head(todo[c]).topic /\ l = evl[c]
  OBVIOUS
<1>1. /\ todo[c] # <<>> /\ Head(todo[c]).type = "registerEventListener" /\ c \in alive
      /\ ~Refused(c, Head(todo[c]))
      /\ todo' = [todo EXCEPT ![c] = Tail(@)] /\ subscribers' = subscribers
      /\ topics' = topics /\ subscriptions' = subscriptions
      /\ numListeners' = numListeners /\ alive' = alive /\ objcache' = objcache
      /\ topicDirectory' = [topicDirectory EXCEPT ![t] = Registered(@, l)]
      /\ listener' = [listener EXCEPT ![c][t] = l]
      /\ listenerDirectory' = [listenerDirectory EXCEPT ![c] = @ \cup {l}]
      /\ evl' = evl /\ batch' = batch
  BY <1>0 DEF RegisterEventListener, Accepted, Asks
<1>2. todo' \in [Clients -> Seq(Requests)]
      /\ todo'[c] = Tail(todo[c]) /\ \A d \in Clients \ {c} : todo'[d] = todo[d]
  BY <1>1, RequestServed
<1>3. /\ t \in Topics /\ (Undisturbed(c) => ~Subscribed(c, t))
      /\ t \in objcache[c] /\ FreshListener(c) /\ todo'[c] = <<>>
  <2>1. Turn(c, Head(todo[c]), Tail(todo[c]))
    BY <1>1, NextRequest
  <2>. QED BY <1>0, <1>1, <1>2, <2>1 DEF Turn
<1>4. ~Subscribed(c, t)
  BY <1>0, <1>1 DEF Refused
<1>5. /\ l \in Nat /\ l # 0 /\ l <= numListeners
      /\ \A d \in Clients : \A u \in Topics : listener[d][u] # l /\ batch[d][u].listener # l
      /\ \A d \in Clients \ {c} : evl[d] # l
  BY <1>0, <1>3 DEF FreshListener, ServiceType, Created
<1>6. /\ listener'[c][t] = l /\ \A u \in Topics \ {t} : listener'[c][u] = listener[c][u]
      /\ \A d \in Clients \ {c} : listener'[d] = listener[d]
      /\ listener' \in [Clients -> [Topics -> Nat]]
  BY <1>1, <1>3, <1>5 DEF ServiceType
<1>7. l \notin Listeners(topicDirectory[t])
  BY <1>3, <1>5 DEF ListedOnce
<1>8. /\ Sound(Registered(topicDirectory[t], l)) /\ KeptForSomeone(Registered(topicDirectory[t], l))
      /\ Listeners(Registered(topicDirectory[t], l)) = Listeners(topicDirectory[t]) \cup {l}
  BY <1>3, <1>5, <1>7, TopicsAreSound, RegisteredIs
<1>9. topicDirectory'[t] = Registered(topicDirectory[t], l)
      /\ \A u \in Topics \ {t} : topicDirectory'[u] = topicDirectory[u]
  BY <1>1, <1>3 DEF ServiceType
<1>10. ServiceType'
  <2>1. topicDirectory' \in [Topics -> TopicRecord]
    BY <1>1, <1>8 DEF ServiceType, Sound
  <2>. QED BY <1>1, <1>2, <1>5, <1>6, <2>1 DEF ServiceType
<1>11. TopicsOK'
  BY <1>8, <1>9 DEF TopicsOK, Sound
<1>12. Created'
  BY <1>1, <1>5, <1>6 DEF Created
<1>13. ListedOnce'
  <2>1. \A d \in Clients, u \in Topics :
          Subscribed(d, u)' <=> Subscribed(d, u) \/ (d = c /\ u = t)
    BY <1>5, <1>6 DEF Subscribed
  <2>2. \A d \in Clients, u \in Topics :
          Subscribed(d, u)' => listener'[d][u] \in Listeners(topicDirectory'[u])
    <3>1. ASSUME NEW d \in Clients, NEW u \in Topics, Subscribed(d, u)'
          PROVE  listener'[d][u] \in Listeners(topicDirectory'[u])
      <4>1. CASE d = c /\ u = t
        BY <1>6, <1>8, <1>9, <4>1
      <4>2. CASE ~(d = c /\ u = t)
        <5>1. Subscribed(d, u) /\ listener'[d][u] = listener[d][u]
          BY <1>6, <2>1, <3>1, <4>2
        <5>. QED BY <1>8, <1>9, <5>1 DEF ListedOnce
      <4>. QED BY <4>1, <4>2
    <3>. QED BY <3>1
  <2>3. \A u \in Topics : \A n \in Listeners(topicDirectory'[u]) :
          \E d \in Clients : Subscribed(d, u)' /\ listener'[d][u] = n
    <3>1. ASSUME NEW u \in Topics, NEW n \in Listeners(topicDirectory'[u])
          PROVE  \E d \in Clients : Subscribed(d, u)' /\ listener'[d][u] = n
      <4>1. CASE u = t /\ n = l
        BY <1>3, <1>6, <2>1, <4>1
      <4>2. CASE ~(u = t /\ n = l)
        <5>1. n \in Listeners(topicDirectory[u])
          BY <1>8, <1>9, <4>2
        <5>2. PICK d \in Clients : Subscribed(d, u) /\ listener[d][u] = n
          BY <5>1 DEF ListedOnce
        <5>3. ~(d = c /\ u = t)
          BY <1>4, <5>2
        <5>. QED BY <1>6, <2>1, <5>2, <5>3
      <4>. QED BY <4>1, <4>2
    <3>. QED BY <3>1
  <2>4. \A d, x \in Clients, u, w \in Topics :
          Subscribed(d, u)' /\ listener'[d][u] = listener'[x][w] => d = x /\ u = w
    <3>1. \A d \in Clients, u \in Topics :
            IF d = c /\ u = t THEN listener'[d][u] = l
            ELSE listener'[d][u] = listener[d][u] /\ listener[d][u] # l
      BY <1>5, <1>6
    <3>. QED BY <2>1, <3>1 DEF ListedOnce
  <2>. QED BY <2>2, <2>3, <2>4 DEF ListedOnce
<1>14. CalledBack'
  <2>1. \A d \in Clients, u \in Topics :
          Subscribed(d, u)' <=> Subscribed(d, u) \/ (d = c /\ u = t)
    BY <1>5, <1>6 DEF Subscribed
  <2>2. listenerDirectory'[c] = listenerDirectory[c] \cup {l}
        /\ \A d \in Clients \ {c} : listenerDirectory'[d] = listenerDirectory[d]
    BY <1>1 DEF ServiceType
  <2>3. \A d \in alive, u \in Topics : Subscribed(d, u)' => listener'[d][u] \in listenerDirectory'[d]
    <3>1. ASSUME NEW d \in alive, NEW u \in Topics, Subscribed(d, u)'
          PROVE  listener'[d][u] \in listenerDirectory'[d]
      <4>1. d \in Clients
        BY DEF ServiceType
      <4>2. CASE d = c /\ u = t
        BY <1>6, <2>2, <4>2
      <4>3. CASE ~(d = c /\ u = t)
        <5>1. Subscribed(d, u) /\ listener'[d][u] = listener[d][u]
          BY <1>6, <2>1, <3>1, <4>1, <4>3
        <5>. QED BY <2>2, <4>1, <5>1 DEF CalledBack
      <4>. QED BY <4>2, <4>3
    <3>. QED BY <3>1
  <2>4. ASSUME NEW d \in alive, NEW n \in listenerDirectory'[d]
        PROVE  \E u \in Topics : Subscribed(d, u)' /\ listener'[d][u] = n
    <3>1. d \in Clients
      BY DEF ServiceType
    <3>2. CASE d = c /\ n = l
      BY <1>3, <1>6, <2>1, <3>2
    <3>3. CASE ~(d = c /\ n = l)
      <4>1. n \in listenerDirectory[d]
        BY <2>2, <3>1, <3>3
      <4>2. PICK u \in Topics : Subscribed(d, u) /\ listener[d][u] = n
        BY <4>1 DEF CalledBack
      <4>3. ~(d = c /\ u = t)
        BY <1>4, <4>2
      <4>. QED BY <1>6, <2>1, <3>1, <4>2, <4>3
    <3>. QED BY <3>2, <3>3
  <2>. QED BY <1>1, <2>3, <2>4 DEF CalledBack
<1>15. \A d \in Clients \ {c} : FreshListener(d) => FreshListener(d)'
  BY <1>1, <1>5, <1>6 DEF FreshListener
<1>16. \A d \in Clients : InOperation(d)'
  BY <1>1, <1>2, <1>3, <1>6, <1>15, GoesOn DEF InOperation
<1>17. \A d \in alive' : BooksOf(d)' /\ BatchCurrent(d)'
  <2>1. \A u : todo[c] # <<AskOf("removeSubscription", u)>>
    BY <1>1, RequestFields, Tuples
  <2>2. \A u \in Topics : Subscribed(c, u)' => Subscribed(c, u) \/ u = t
    BY <1>6 DEF Subscribed
  <2>3. BooksOf(c)'
    BY <1>1, <1>3, <2>1, <2>2 DEF BooksOf
  <2>4. BatchCurrent(c)'
    <3>1. Handed(c)' = Handed(c)
      BY <1>1 DEF Handed
    <3>2. ASSUME c \notin Careless, NEW u \in Handed(c)
          PROVE  Subscribed(c, u)' /\ batch'[c][u].listener = listener'[c][u]
      <4>1. Subscribed(c, u) /\ batch[c][u].listener = listener[c][u] /\ u \in Topics
        BY <1>1, <3>2 DEF BatchCurrent, Handed
      <4>2. u # t
        BY <1>4, <4>1
      <4>. QED BY <1>1, <1>6, <4>1, <4>2 DEF Subscribed
    <3>. QED BY <3>1, <3>2 DEF BatchCurrent
  <2>. QED BY <1>1, <1>2, <1>6, <2>3, <2>4, BooksStay DEF ServiceType
<1>18. Joins(c, t, l)
  BY <1>1, <1>3, <1>4, <1>5, <1>6, <1>7, <1>9 DEF Joins
<1>. QED BY <1>3, <1>5, <1>10, <1>11, <1>12, <1>13, <1>14, <1>16, <1>17, <1>18

LEMMA ListenerUnregistered ==
  ASSUME ServiceInv, NEW c \in Clients, UnregisterEventListener(c)
  PROVE  ServiceInv' /\ \E t \in Topics : Quits(c, t)
<1>. USE DEF ServiceInv
<1>0. PICK t, l : t = Head(todo[c]).topic /\ l = listener[c][t]
  OBVIOUS
<1>1. /\ todo[c] # <<>> /\ Head(todo[c]).type = "unregisterEventListener" /\ c \in alive
      /\ ~Refused(c, Head(todo[c]))
      /\ todo' = [todo EXCEPT ![c] = Tail(@)] /\ subscribers' = subscribers
      /\ topics' = topics /\ subscriptions' = subscriptions
      /\ numListeners' = numListeners /\ alive' = alive
      /\ topicDirectory' = [topicDirectory EXCEPT ![t] = Unregistered(@, l)]
      /\ listener' = [listener EXCEPT ![c][t] = 0]
      /\ listenerDirectory' = [listenerDirectory EXCEPT ![c] = @ \ {l}]
      /\ objcache' = [objcache EXCEPT ![c] = @ \ {t}]
      /\ evl' = evl /\ batch' = batch
  BY <1>0 DEF UnregisterEventListener, Accepted, Asks, Forgotten
<1>2. todo' \in [Clients -> Seq(Requests)]
      /\ todo'[c] = Tail(todo[c]) /\ \A d \in Clients \ {c} : todo'[d] = todo[d]
  BY <1>1, RequestServed
<1>3. t \in Topics /\ ~Undisturbed(c) /\ todo'[c] = <<AskOf("removeSubscription", t)>>
  <2>1. Turn(c, Head(todo[c]), Tail(todo[c]))
    BY <1>1, NextRequest
  <2>. QED BY <1>0, <1>1, <1>2, <2>1 DEF Turn
<1>4. Subscribed(c, t)
  BY <1>0, <1>1 DEF Refused
<1>5. l \in Listeners(topicDirectory[t]) /\ l # 0
  BY <1>0, <1>3, <1>4 DEF ListedOnce, Subscribed
<1>6. /\ listener'[c][t] = 0 /\ \A u \in Topics \ {t} : listener'[c][u] = listener[c][u]
      /\ \A d \in Clients \ {c} : listener'[d] = listener[d]
      /\ listener' \in [Clients -> [Topics -> Nat]]
  BY <1>1, <1>3 DEF ServiceType
<1>7. /\ Sound(Unregistered(topicDirectory[t], l)) /\ KeptForSomeone(Unregistered(topicDirectory[t], l))
      /\ Listeners(Unregistered(topicDirectory[t], l)) = Listeners(topicDirectory[t]) \ {l}
  BY <1>3, <1>5, TopicsAreSound, UnregisteredIs
<1>8. topicDirectory'[t] = Unregistered(topicDirectory[t], l)
      /\ \A u \in Topics \ {t} : topicDirectory'[u] = topicDirectory[u]
  BY <1>1, <1>3 DEF ServiceType
<1>9. objcache'[c] = objcache[c] \ {t} /\ \A d \in Clients \ {c} : objcache'[d] = objcache[d]
  BY <1>1 DEF ServiceType
<1>10. ServiceType'
  <2>1. topicDirectory' \in [Topics -> TopicRecord]
    BY <1>1, <1>7 DEF ServiceType, Sound
  <2>. QED BY <1>1, <1>2, <1>6, <2>1 DEF ServiceType
<1>11. TopicsOK'
  BY <1>7, <1>8 DEF TopicsOK, Sound
<1>12. Created'
  BY <1>1, <1>6 DEF Created, ServiceType
<1>13. \A d \in Clients, u \in Topics :
         Subscribed(d, u)' <=> Subscribed(d, u) /\ ~(d = c /\ u = t)
  BY <1>6 DEF Subscribed
<1>14. \A d \in Clients, u \in Topics : Subscribed(d, u)' => listener'[d][u] = listener[d][u]
  BY <1>6, <1>13
<1>15. \A d \in Clients, u \in Topics :
         Subscribed(d, u) /\ listener[d][u] = l => d = c /\ u = t
  BY <1>0, <1>3 DEF ListedOnce
<1>16. ListedOnce'
  <2>1. ASSUME NEW d \in Clients, NEW u \in Topics, Subscribed(d, u)'
        PROVE  listener'[d][u] \in Listeners(topicDirectory'[u])
    <3>1. Subscribed(d, u) /\ listener'[d][u] = listener[d][u] /\ listener[d][u] # l
      BY <1>13, <1>14, <1>15, <2>1
    <3>. QED BY <1>7, <1>8, <3>1 DEF ListedOnce
  <2>2. ASSUME NEW u \in Topics, NEW n \in Listeners(topicDirectory'[u])
        PROVE  \E d \in Clients : Subscribed(d, u)' /\ listener'[d][u] = n
    <3>1. n \in Listeners(topicDirectory[u]) /\ (u = t => n # l)
      BY <1>7, <1>8
    <3>2. PICK d \in Clients : Subscribed(d, u) /\ listener[d][u] = n
      BY <3>1 DEF ListedOnce
    <3>3. ~(d = c /\ u = t)
      BY <1>0, <3>1, <3>2
    <3>. QED BY <1>13, <1>14, <3>2, <3>3
  <2>3. ASSUME NEW d \in Clients, NEW x \in Clients, NEW u \in Topics, NEW w \in Topics,
               Subscribed(d, u)', listener'[d][u] = listener'[x][w]
        PROVE  d = x /\ u = w
    <3>1. Subscribed(d, u) /\ listener'[d][u] = listener[d][u]
      BY <1>13, <1>14, <2>3
    <3>2. Subscribed(x, w)'
      BY <2>3 DEF Subscribed
    <3>3. listener'[x][w] = listener[x][w]
      BY <1>14, <3>2
    <3>4. Subscribed(d, u) /\ listener[d][u] = listener[x][w]
      BY <2>3, <3>1, <3>3
    <3>5. ListedOnce
      OBVIOUS
    <3>6. \A a, b \in Clients, p, q \in Topics :
            Subscribed(a, p) /\ listener[a][p] = listener[b][q] => a = b /\ p = q
      BY <3>5 DEF ListedOnce
    <3>. HIDE DEF ServiceInv
    <3>. QED BY <3>4, <3>6, Zenon
  <2>. QED BY <2>1, <2>2, <2>3 DEF ListedOnce
<1>17. CalledBack'
  <2>1. listenerDirectory'[c] = listenerDirectory[c] \ {l}
        /\ \A d \in Clients \ {c} : listenerDirectory'[d] = listenerDirectory[d]
    BY <1>1 DEF ServiceType
  <2>2. alive \subseteq Clients
    BY DEF ServiceType
  <2>3. ASSUME NEW d \in alive, NEW u \in Topics, Subscribed(d, u)'
        PROVE  listener'[d][u] \in listenerDirectory'[d]
    <3>1. Subscribed(d, u) /\ listener'[d][u] = listener[d][u] /\ listener[d][u] # l
      BY <1>13, <1>14, <1>15, <2>2, <2>3
    <3>. QED BY <2>1, <2>2, <3>1 DEF CalledBack
  <2>4. ASSUME NEW d \in alive, NEW n \in listenerDirectory'[d]
        PROVE  \E u \in Topics : Subscribed(d, u)' /\ listener'[d][u] = n
    <3>1. n \in listenerDirectory[d] /\ (d = c => n # l)
      BY <2>1, <2>2
    <3>2. PICK u \in Topics : Subscribed(d, u) /\ listener[d][u] = n
      BY <3>1 DEF CalledBack
    <3>3. ~(d = c /\ u = t)
      BY <1>0, <3>1, <3>2
    <3>. QED BY <1>13, <1>14, <2>2, <3>2, <3>3
  <2>. QED BY <1>1, <2>3, <2>4 DEF CalledBack
<1>18. \A d \in Clients : FreshListener(d) => FreshListener(d)'
  BY <1>1, <1>6 DEF FreshListener
<1>19. \A d \in Clients \ {c} : InOperation(d)'
  BY <1>1, <1>2, <1>6, <1>9, <1>18, GoesOn
<1>20. InOperation(c)'
  <2>1. ~Undisturbed(c)'
    BY <1>1, <1>3 DEF Undisturbed, Handed
  <2>2. Unsubscribing(c, t)'
    BY <1>3, <1>9, <2>1 DEF Unsubscribing
  <2>. QED BY <1>3, <2>2 DEF InOperation
<1>21. \A d \in alive' : BooksOf(d)' /\ BatchCurrent(d)'
  <2>1. \A u : todo[c] # <<AskOf("removeSubscription", u)>>
    BY <1>1, RequestFields, Tuples
  <2>2. BooksOf(c)'
    BY <1>1, <1>3, <1>9, <1>13, <2>1 DEF BooksOf
  <2>3. BatchCurrent(c)'
    BY <1>1, <1>3 DEF BatchCurrent, Undisturbed, Handed
  <2>4. alive \subseteq Clients
    BY DEF ServiceType
  <2>5. ASSUME NEW d \in alive \ {c} PROVE BooksOf(d)' /\ BatchCurrent(d)'
    <3>1. d \in Clients \ {c} /\ BooksOf(d) /\ BatchCurrent(d)
      BY <2>4
    <3>. QED BY <1>1, <1>2, <1>6, <1>9, <3>1, BooksStay
  <2>. QED BY <1>1, <2>2, <2>3, <2>5
<1>22. Quits(c, t)
  BY <1>0, <1>1, <1>4, <1>6, <1>8 DEF Quits
<1>. QED BY <1>3, <1>10, <1>11, <1>12, <1>16, <1>17, <1>19, <1>20, <1>21, <1>22

(* What processEvents gives c of topic t. *)
Fetched(c, t) ==
  IF Subscribed(c, t)
  THEN [listener |-> listener[c][t], events |-> Pending(topicDirectory[t], listener[c][t])]
  ELSE [listener |-> 0, events |-> <<>>]
Remaining(c, t) ==
  IF Subscribed(c, t) THEN CleanedUp(topicDirectory[t], listener[c][t]) ELSE topicDirectory[t]

LEMMA EventsFetched ==
  ASSUME ServiceInv, NEW c \in Clients, ProcessEvents(c)
  PROVE  ServiceInv' /\ Handed(c) = {}
<1>. USE DEF ServiceInv
<1>1. /\ todo[c] # <<>> /\ Head(todo[c]).type = "processEvents"
      /\ todo' = [todo EXCEPT ![c] = Tail(@)] /\ subscribers' = subscribers
      /\ topics' = topics /\ subscriptions' = subscriptions /\ listener' = listener
      /\ numListeners' = numListeners /\ alive' = alive /\ objcache' = objcache
      /\ listenerDirectory' = listenerDirectory /\ evl' = evl
      /\ batch' = [batch EXCEPT ![c] = [t \in Topics |-> Fetched(c, t)]]
      /\ topicDirectory' = [t \in Topics |-> Remaining(c, t)]
  BY DEF ProcessEvents, Accepted, Asks, subscriberDirectory, Fetched, Remaining
<1>2. todo' \in [Clients -> Seq(Requests)]
      /\ todo'[c] = Tail(todo[c]) /\ \A d \in Clients \ {c} : todo'[d] = todo[d]
  BY <1>1, RequestServed
<1>3. todo'[c] = <<>> /\ Handed(c) = {}
  <2>1. Turn(c, Head(todo[c]), Tail(todo[c]))
    BY <1>1, NextRequest
  <2>. QED BY <1>1, <1>2, <2>1 DEF Turn
<1>4. \A t \in Topics : Fetched(c, t) \in Batch
        /\ (Fetched(c, t).listener = 0 \/ Fetched(c, t).listener = listener[c][t])
        /\ (Fetched(c, t).events # <<>> => Subscribed(c, t) /\ Fetched(c, t).listener = listener[c][t])
  <2>1. ASSUME NEW t \in Topics, Subscribed(c, t)
        PROVE  Pending(topicDirectory[t], listener[c][t]) \in Seq(Events)
    BY <2>1, TopicsAreSound, SubscribedIsListed, PendingType
  <2>2. <<>> \in Seq(Events)
    OBVIOUS
  <2>3. \A t \in Topics : listener[c][t] \in Nat
    BY DEF ServiceType
  <2>. QED BY <2>1, <2>2, <2>3 DEF Fetched, Batch
<1>5. \A t \in Topics : Remaining(c, t) \in TopicRecord /\ InList(Remaining(c, t))
        /\ KeptForSomeone(Remaining(c, t)) /\ Listeners(Remaining(c, t)) = Listeners(topicDirectory[t])
  BY TopicsAreSound, SubscribedIsListed, CleanedUpIs DEF Remaining, Sound
<1>6. \A t \in Topics : topicDirectory'[t] = Remaining(c, t)
  BY <1>1
<1>7. \A t \in Topics : batch'[c][t] = Fetched(c, t)
  BY <1>1 DEF ServiceType
<1>8. \A d \in Clients \ {c} : batch'[d] = batch[d]
  BY <1>1 DEF ServiceType
<1>9. ServiceType'
  <2>1. topicDirectory' \in [Topics -> TopicRecord]
    BY <1>1, <1>5
  <2>2. [t \in Topics |-> Fetched(c, t)] \in [Topics -> Batch]
    BY <1>4
  <2>3. batch' \in [Clients -> [Topics -> Batch]]
    BY <1>1, <2>2 DEF ServiceType
  <2>. QED BY <1>1, <1>2, <2>1, <2>3 DEF ServiceType
<1>10. TopicsOK'
  BY <1>5, <1>6 DEF TopicsOK
<1>11. Created'
  <2>1. ASSUME NEW d \in Clients, NEW t \in Topics
        PROVE  batch'[d][t].listener <= numListeners
    <3>1. CASE d = c
      <4>1. Fetched(c, t).listener = 0 \/ Fetched(c, t).listener = listener[c][t]
        BY <1>4
      <4>2. listener[c][t] <= numListeners /\ 0 <= numListeners
        BY DEF Created, ServiceType
      <4>. QED BY <1>7, <3>1, <4>1, <4>2
    <3>2. CASE d # c
      BY <1>8, <3>2 DEF Created
    <3>. QED BY <3>1, <3>2
  <2>. QED BY <1>1, <2>1 DEF Created
<1>12. ListedOnce' /\ CalledBack'
  BY <1>1, <1>5, <1>6, ListedStay, CalledBackStays
<1>13. \A d \in Clients \ {c} : FreshListener(d) => FreshListener(d)'
  BY <1>1, <1>4, <1>7, <1>8 DEF FreshListener
<1>14. \A d \in Clients : InOperation(d)'
  BY <1>1, <1>2, <1>3, <1>8, <1>13, GoesOn DEF InOperation
<1>15. \A d \in alive' : BooksOf(d)' /\ BatchCurrent(d)'
  <2>1. \A u : todo[c] # <<AskOf("removeSubscription", u)>>
    BY <1>1, RequestFields, Tuples
  <2>2. c \in alive => BooksOf(c)'
    BY <1>1, <2>1 DEF BooksOf, Subscribed
  <2>3. BatchCurrent(c)'
    BY <1>1, <1>4, <1>7 DEF BatchCurrent, Handed, Subscribed
  <2>. QED BY <1>1, <1>2, <1>8, <2>2, <2>3, BooksStay DEF ServiceType
<1>. QED BY <1>3, <1>9, <1>10, <1>11, <1>12, <1>14, <1>15

-----------------------------------------------------------------------------
(* Operations begin and end. *)

LEMMA TupleConcat ==
  ASSUME NEW S, NEW a \in S, NEW b \in S, NEW c \in S, NEW d \in S
  PROVE  /\ <<>> \o <<>> = <<>> /\ <<>> \o <<b>> = <<b>> /\ <<a>> \o <<>> = <<a>>
         /\ <<>> \o <<c, d>> = <<c, d>> /\ <<a>> \o <<b>> = <<a, b>>
         /\ <<a>> \o <<c, d>> = <<a, c, d>> /\ <<b>> \o <<c, d>> = <<b, c, d>>
         /\ <<a, b>> \o <<c, d>> = <<a, b, c, d>>
<1>1. /\ <<>> \in Seq(S) /\ <<a>> \in Seq(S) /\ <<b>> \in Seq(S) /\ <<c, d>> \in Seq(S)
      /\ <<a, b>> \in Seq(S) /\ <<a, c, d>> \in Seq(S) /\ <<a, b, c, d>> \in Seq(S)
  OBVIOUS
<1>2. <<>> \o <<>> = <<>> /\ <<>> \o <<b>> = <<b>> /\ <<a>> \o <<>> = <<a>> /\ <<>> \o <<c, d>> = <<c, d>>
  BY <1>1, ConcatEmptySeq
<1>3. <<a>> \o <<b>> = <<a, b>>
  <2>1. <<a>> \o <<b>> \in Seq(S) /\ Len(<<a>> \o <<b>>) = 2
        /\ \A i \in 1..2 : (<<a>> \o <<b>>)[i] = <<a, b>>[i]
    BY <1>1, ConcatProperties
  <2>. QED BY <1>1, <2>1, SeqEqual
<1>4. <<a>> \o <<c, d>> = <<a, c, d>>
  <2>1. <<a>> \o <<c, d>> \in Seq(S) /\ Len(<<a>> \o <<c, d>>) = 3
        /\ \A i \in 1..3 : (<<a>> \o <<c, d>>)[i] = <<a, c, d>>[i]
    BY <1>1, ConcatProperties
  <2>. QED BY <1>1, <2>1, SeqEqual
<1>5. <<a, b>> \o <<c, d>> = <<a, b, c, d>>
  <2>1. <<a, b>> \o <<c, d>> \in Seq(S) /\ Len(<<a, b>> \o <<c, d>>) = 4
        /\ \A i \in 1..4 : (<<a, b>> \o <<c, d>>)[i] = <<a, b, c, d>>[i]
    BY <1>1, ConcatProperties
  <2>. QED BY <1>1, <2>1, SeqEqual
<1>6. <<b>> \o <<c, d>> = <<b, c, d>>
  <2>0. <<b, c, d>> \in Seq(S)
    OBVIOUS
  <2>1. <<b>> \o <<c, d>> \in Seq(S) /\ Len(<<b>> \o <<c, d>>) = 3
        /\ \A i \in 1..3 : (<<b>> \o <<c, d>>)[i] = <<b, c, d>>[i]
    BY <1>1, ConcatProperties
  <2>. QED BY <1>1, <2>0, <2>1, SeqEqual
<1>. QED BY <1>2, <1>3, <1>4, <1>5, <1>6

LEMMA RequestType ==
  /\ \A type \in {"registerSubscriber", "createListener", "processEvents"} : Ask(type) \in Requests
  /\ \A type \in {"getSubscription", "registerEventListener", "unregisterEventListener",
                  "removeSubscription", "getTopic"} :
       \A t \in Topics : AskOf(type, t) \in Requests
  /\ \A t \in Topics, e \in Events : [type |-> "sendEvent", topic |-> t, event |-> e] \in Requests
BY DEF Requests, Ask, AskOf

(* The list of requests of an operation is one of these. *)
LEMMA SubscribeShape ==
  ASSUME NEW c \in Clients, NEW t \in Topics
  PROVE  /\ SubscribeRequests(c, t) \in Seq(Requests)
         /\ \/ /\ t \notin objcache[c]
               /\ SubscribeRequests(c, t) =
                    <<Ask("registerSubscriber"), AskOf("getSubscription", t),
                      Ask("createListener"), AskOf("registerEventListener", t)>>
            \/ t \notin objcache[c] /\ c \in subscribers /\ SubscribeRequests(c, t) = ToSubscribe(t)
            \/ /\ t \in objcache[c]
               /\ SubscribeRequests(c, t) = <<Ask("registerSubscriber"),
                    Ask("createListener"), AskOf("registerEventListener", t)>>
            \/ t \in objcache[c] /\ SubscribeRequests(c, t) = ToListen(t)
         /\ \E i \in DOMAIN SubscribeRequests(c, t) :
              SubscribeRequests(c, t)[i] = AskOf("registerEventListener", t)
<1>. DEFINE a == Ask("registerSubscriber")
            b == AskOf("getSubscription", t)
            x == Ask("createListener")
            y == AskOf("registerEventListener", t)
            s == SubscribeRequests(c, t)
<1>1. a \in Requests /\ b \in Requests /\ x \in Requests /\ y \in Requests
  BY RequestType
<1>2. s = (IF c \in subscribers THEN <<>> ELSE <<a>>) \o (IF t \in objcache[c] THEN <<>> ELSE <<b>>)
          \o <<x, y>>
  BY DEF SubscribeRequests
<1>. HIDE DEF a, b, x, y, s
<1>7. /\ <<>> \o <<>> = <<>> /\ <<>> \o <<b>> = <<b>> /\ <<a>> \o <<>> = <<a>>
      /\ <<>> \o <<x, y>> = <<x, y>> /\ <<a>> \o <<b>> = <<a, b>>
      /\ <<a>> \o <<x, y>> = <<a, x, y>> /\ <<b>> \o <<x, y>> = <<b, x, y>>
      /\ <<a, b>> \o <<x, y>> = <<a, b, x, y>>
  BY <1>1, TupleConcat
<1>3. CASE c \in subscribers /\ t \in objcache[c]
  <2>1. s = <<x, y>>
    BY <1>2, <1>3, <1>7
  <2>2. <<x, y>> \in Seq(Requests) /\ 2 \in DOMAIN <<x, y>> /\ <<x, y>>[2] = y
    BY <1>1
  <2>. QED BY <1>3, <2>1, <2>2 DEF ToListen, x, y, s
<1>4. CASE c \in subscribers /\ t \notin objcache[c]
  <2>1. s = <<b, x, y>>
    BY <1>2, <1>4, <1>7
  <2>2. <<b, x, y>> \in Seq(Requests) /\ 3 \in DOMAIN <<b, x, y>> /\ <<b, x, y>>[3] = y
    BY <1>1
  <2>. QED BY <1>4, <2>1, <2>2 DEF ToSubscribe, b, x, y, s
<1>5. CASE c \notin subscribers /\ t \in objcache[c]
  <2>1. s = <<a, x, y>>
    BY <1>2, <1>5, <1>7
  <2>2. <<a, x, y>> \in Seq(Requests) /\ 3 \in DOMAIN <<a, x, y>> /\ <<a, x, y>>[3] = y
    BY <1>1
  <2>. QED BY <1>5, <2>1, <2>2 DEF a, x, y, s
<1>6. CASE c \notin subscribers /\ t \notin objcache[c]
  <2>1. s = <<a, b, x, y>>
    BY <1>2, <1>6, <1>7
  <2>2. <<a, b, x, y>> \in Seq(Requests) /\ 4 \in DOMAIN <<a, b, x, y>> /\ <<a, b, x, y>>[4] = y
    BY <1>1
  <2>. QED BY <1>6, <2>1, <2>2 DEF a, b, x, y, s
<1>. QED BY <1>3, <1>4, <1>5, <1>6

(* An operation begins.  A careful component does not touch its listeners  *)
(* while it has events in hand.                                            *)
LEMMA OperationBegins ==
  ASSUME ServiceInv, NEW c \in alive, NEW r \in Operations(c) \cup {<<>>},
         todo' = [todo EXCEPT ![c] = r], objcache' = objcache, listener' = listener,
         subscribers' = subscribers,
         c \in Careless \/ Handed(c)' = {} \/ r \in CallbackUses(c)
  PROVE  /\ todo' \in [Clients -> Seq(Requests)] /\ todo'[c] = r
         /\ InOperation(c)'
<1>. USE DEF ServiceInv
<1>1. c \in Clients /\ todo \in [Clients -> Seq(Requests)] /\ BooksOf(c)
  BY DEF ServiceType
<1>2. <<>> \in Seq(Requests)
  OBVIOUS
<1>3. Undisturbed(c)' => r \in CallbackUses(c) /\ c \notin Careless
  BY DEF Undisturbed
<1>4. todo'[c] = r
  BY <1>1
<1>5. CASE r = <<>>
  BY <1>1, <1>2, <1>4, <1>5 DEF InOperation
<1>6. ASSUME NEW t \in Topics, r = SubscribeRequests(c, t)
      PROVE  r \in Seq(Requests) /\ InOperation(c)'
  <2>1. Undisturbed(c)' => ~Subscribed(c, t)
    <3>1. SUFFICES ASSUME Undisturbed(c)' PROVE t \notin objcache[c]
      BY <1>1 DEF BooksOf
    <3>2. PICK i \in DOMAIN r : r[i] = AskOf("registerEventListener", t)
      BY <1>1, <1>6, SubscribeShape
    <3>3. r # <<>>
      BY <1>1, <1>6, SubscribeShape, Tuples DEF ToSubscribe, ToListen
    <3>. QED BY <1>3, <3>1, <3>2, <3>3, RequestFields DEF CallbackUses
  <2>2. (Undisturbed(c) => ~Subscribed(c, t))'
    BY <2>1 DEF Subscribed
  <2>3. Subscribing(c, t)'
    BY <1>1, <1>4, <1>6, <2>2, SubscribeShape DEF Subscribing
  <2>. QED BY <1>1, <1>6, <2>3, SubscribeShape DEF InOperation
<1>7. ASSUME NEW t \in Topics, r = UnsubscribeRequests(c, t), r # <<>>
      PROVE  r \in Seq(Requests) /\ InOperation(c)'
  <2>1. r = <<AskOf("unregisterEventListener", t), AskOf("removeSubscription", t)>>
    BY <1>7 DEF UnsubscribeRequests
  <2>2. AskOf("unregisterEventListener", t) \in Requests /\ AskOf("removeSubscription", t) \in Requests
    BY RequestType
  <2>3. ~Undisturbed(c)'
    <3>1. 1 \in DOMAIN r /\ r[1].type = "unregisterEventListener"
      BY <2>1, RequestFields
    <3>. QED BY <1>3, <1>7, <3>1 DEF CallbackUses
  <2>4. Unsubscribing(c, t)'
    BY <1>4, <2>1, <2>3 DEF Unsubscribing
  <2>. QED BY <2>1, <2>2, <2>4 DEF InOperation
<1>8. ASSUME NEW t \in Topics, NEW e \in Events, r = PublishRequests(t, e)
      PROVE  r \in Seq(Requests) /\ InOperation(c)'
  <2>1. r \in Seq(Requests)
    BY <1>8, RequestType DEF PublishRequests
  <2>2. Publishing(c, t, e)'
    BY <1>4, <1>8 DEF Publishing, PublishRequests
  <2>. QED BY <2>1, <2>2 DEF InOperation
<1>9. r \in Seq(Requests) /\ InOperation(c)'
  <2>1. \/ r = <<>> \/ \E t \in Topics : r = SubscribeRequests(c, t)
        \/ \E t \in Topics : r = UnsubscribeRequests(c, t)
        \/ \E t \in Topics, e \in Events : r = PublishRequests(t, e)
    <3>. DEFINE S == {u \in Topics : <<"subscribe", u>> \in Uses[c] /\ numListeners < MaxListeners}
                U == {u \in Topics : <<"unsubscribe", u>> \in Uses[c]}
                P == {u \in Topics : <<"publish", u>> \in Uses[c] /\ Room(u)}
    <3>1. Operations(c) = {SubscribeRequests(c, t) : t \in S} \cup {UnsubscribeRequests(c, t) : t \in U}
                          \cup {PublishRequests(t, e) : t \in P, e \in Events}
      BY DEF Operations
    <3>2. S \subseteq Topics /\ U \subseteq Topics /\ P \subseteq Topics
      OBVIOUS
    <3>. HIDE DEF S, U, P
    <3>3. r \in {PublishRequests(t, e) : t \in P, e \in Events}
            => \E t \in P, e \in Events : r = PublishRequests(t, e)
      OBVIOUS
    <3>. QED BY <3>1, <3>2, <3>3
  <2>2. r = <<>> => r \in Seq(Requests) /\ InOperation(c)'
    BY <1>2, <1>5
  <2>. QED BY <1>6, <1>7, <1>8, <2>1, <2>2
<1>. QED BY <1>1, <1>4, <1>9

(* Steps that only change what a component does next, and its events.      *)
OnlyItself(c) ==
  /\ topics' = topics /\ topicDirectory' = topicDirectory /\ subscribers' = subscribers
  /\ subscriptions' = subscriptions /\ listener' = listener /\ numListeners' = numListeners
  /\ alive' = alive /\ objcache' = objcache /\ listenerDirectory' = listenerDirectory /\ evl' = evl
  /\ todo' \in [Clients -> Seq(Requests)] /\ \A d \in Clients \ {c} : todo'[d] = todo[d]
  /\ batch' \in [Clients -> [Topics -> Batch]] /\ \A d \in Clients \ {c} : batch'[d] = batch[d]
  /\ \A t \in Topics : batch'[c][t].listener \in {0, batch[c][t].listener}

LEMMA ItselfOnly ==
  ASSUME ServiceInv, NEW c \in alive, OnlyItself(c), InOperation(c)', BatchCurrent(c)',
         \A u : todo[c] # <<AskOf("removeSubscription", u)>>
  PROVE  ServiceInv'
<1>. USE DEF ServiceInv
<1>. USE DEF OnlyItself
<1>0. c \in Clients /\ alive \subseteq Clients
  BY DEF ServiceType
<1>1. ServiceType'
  BY DEF ServiceType
<1>2. TopicsOK' /\ ListedOnce' /\ CalledBack'
  BY ListedStay, CalledBackStays DEF TopicsOK
<1>3. Created'
  <2>1. ASSUME NEW d \in Clients, NEW t \in Topics
        PROVE  batch'[d][t].listener <= numListeners
    <3>1. CASE d = c
      <4>1. batch[c][t].listener <= numListeners /\ 0 <= numListeners
        BY <1>0 DEF Created, ServiceType
      <4>2. batch'[c][t].listener = 0 \/ batch'[c][t].listener = batch[c][t].listener
        OBVIOUS
      <4>. QED BY <3>1, <4>1, <4>2
    <3>2. CASE d # c
      BY <3>2 DEF Created
    <3>. QED BY <3>1, <3>2
  <2>. QED BY <2>1 DEF Created
<1>4. \A d \in Clients \ {c} : FreshListener(d) => FreshListener(d)'
  <2>1. ASSUME NEW d \in Clients \ {c}, FreshListener(d) PROVE FreshListener(d)'
    <3>1. \A u \in Topics : batch'[c][u].listener # evl[d]
      BY <1>0, <2>1 DEF FreshListener
    <3>. QED BY <2>1, <3>1 DEF FreshListener
  <2>. QED BY <2>1
<1>5. \A d \in Clients : InOperation(d)'
  BY <1>4, GoesOn
<1>6. BooksOf(c)'
  BY DEF BooksOf, Subscribed
<1>7. ASSUME NEW d \in alive \ {c} PROVE BooksOf(d)' /\ BatchCurrent(d)'
  <2>1. d \in Clients \ {c} /\ BooksOf(d) /\ BatchCurrent(d)
    BY <1>0
  <2>. QED BY <2>1, BooksStay
<1>. QED BY <1>1, <1>2, <1>3, <1>5, <1>6, <1>7

LEMMA OperationStarted ==
  ASSUME ServiceInv, NEW c \in Clients, Start(c)
  PROVE  ServiceInv'
<1>. USE DEF ServiceInv
<1>1. /\ c \in alive /\ todo[c] = <<>> /\ Handed(c) = {} /\ batch' = batch
      /\ topics' = topics /\ topicDirectory' = topicDirectory /\ subscribers' = subscribers
      /\ subscriptions' = subscriptions /\ listener' = listener /\ numListeners' = numListeners
      /\ alive' = alive /\ objcache' = objcache /\ listenerDirectory' = listenerDirectory /\ evl' = evl
  BY DEF Start, Idle, serviceVars, subscriberDirectory
<1>2. PICK r \in Operations(c) \cup {ProcessRequests(c)} :
         r # <<>> /\ todo' = [todo EXCEPT ![c] = r]
  BY DEF Start
<1>3. Handed(c)' = {}
  BY <1>1 DEF Handed
<1>4. todo' \in [Clients -> Seq(Requests)] /\ InOperation(c)'
  <2>1. CASE r \in Operations(c)
    BY <1>1, <1>2, <1>3, <2>1, OperationBegins
  <2>2. CASE r = ProcessRequests(c)
    <3>1. r = <<Ask("processEvents")>>
      BY <1>2, <2>2 DEF ProcessRequests
    <3>2. r \in Seq(Requests)
      BY <3>1, RequestType
    <3>3. Fetching(c)'
      BY <1>2, <1>3, <3>1 DEF Fetching, ServiceType
    <3>. QED BY <1>2, <3>2, <3>3 DEF InOperation, ServiceType
  <2>. QED BY <2>1, <2>2
<1>5. OnlyItself(c)
  BY <1>1, <1>2, <1>4 DEF OnlyItself, ServiceType
<1>6. BatchCurrent(c)'
  BY <1>3 DEF BatchCurrent
<1>7. \A u : todo[c] # <<AskOf("removeSubscription", u)>>
  BY <1>1
<1>. QED BY <1>1, <1>4, <1>5, <1>6, <1>7, ItselfOnly

LEMMA EventHandedOver ==
  ASSUME ServiceInv, NEW c \in Clients, NEW t \in Topics, HandOver(c, t)
  PROVE  /\ ServiceInv'
         /\ batch[c][t].events # <<>>
         /\ batch'[c][t] = [listener |-> batch[c][t].listener, events |-> Tail(batch[c][t].events)]
         /\ \A u \in Topics \ {t} : batch'[c][u] = batch[c][u]
         /\ OnlyItself(c)
<1>. USE DEF ServiceInv
<1>1. /\ c \in alive /\ todo[c] = <<>> /\ batch[c][t].events # <<>>
      /\ batch' = [batch EXCEPT ![c][t].events = Tail(@)]
      /\ topics' = topics /\ topicDirectory' = topicDirectory /\ subscribers' = subscribers
      /\ subscriptions' = subscriptions /\ listener' = listener /\ numListeners' = numListeners
      /\ alive' = alive /\ objcache' = objcache /\ listenerDirectory' = listenerDirectory /\ evl' = evl
  BY DEF HandOver, NextHanded, Handed, serviceVars, subscriberDirectory
<1>2. PICK r \in CallbackUses(c) : todo' = [todo EXCEPT ![c] = r]
  BY DEF HandOver
<1>3. batch \in [Clients -> [Topics -> Batch]]
  BY DEF ServiceType
<1>4. batch[c][t] \in Batch
  BY <1>3
<1>5. Tail(batch[c][t].events) \in Seq(Events)
  BY <1>1, <1>4, HeadTailProperties DEF Batch
<1>6. batch'[c][t] = [batch[c][t] EXCEPT !.events = Tail(batch[c][t].events)]
  BY <1>1, <1>3
<1>7. batch'[c][t] = [listener |-> batch[c][t].listener, events |-> Tail(batch[c][t].events)]
  BY <1>4, <1>6 DEF Batch
<1>8. /\ \A u \in Topics \ {t} : batch'[c][u] = batch[c][u]
      /\ \A d \in Clients \ {c} : batch'[d] = batch[d]
  BY <1>1, <1>3
<1>9. batch'[c][t] \in Batch
  BY <1>4, <1>5, <1>7 DEF Batch
<1>10. batch' \in [Clients -> [Topics -> Batch]]
  <2>1. batch' = [batch EXCEPT ![c] = [batch[c] EXCEPT ![t] = batch'[c][t]]]
    BY <1>1, <1>3
  <2>. QED BY <1>3, <1>9, <2>1
<1>11. r \in Operations(c) \cup {<<>>}
  BY DEF CallbackUses
<1>12. todo' \in [Clients -> Seq(Requests)] /\ todo'[c] = r /\ InOperation(c)'
  BY <1>1, <1>2, <1>11, OperationBegins
<1>13. OnlyItself(c)
  <2>1. \A u \in Topics : batch'[c][u].listener \in {0, batch[c][u].listener}
    BY <1>7, <1>8
  <2>2. \A d \in Clients \ {c} : todo'[d] = todo[d]
    BY <1>2 DEF ServiceType
  <2>. QED BY <1>1, <1>8, <1>10, <1>12, <2>1, <2>2 DEF OnlyItself
<1>14. BatchCurrent(c)'
  <2>1. \A u \in Topics : u \in Handed(c)' => u \in Handed(c)
    BY <1>1, <1>8 DEF Handed
  <2>2. \A u \in Topics : batch'[c][u].listener = batch[c][u].listener
    BY <1>7, <1>8
  <2>3. BatchCurrent(c)
    BY <1>1
  <2>. QED BY <1>1, <2>1, <2>2, <2>3 DEF BatchCurrent, Subscribed, Handed
<1>15. \A u : todo[c] # <<AskOf("removeSubscription", u)>>
  BY <1>1
<1>. QED BY <1>1, <1>7, <1>8, <1>12, <1>13, <1>14, <1>15, ItselfOnly

(* An exception: a careful component has no events in hand then.           *)
LEMMA ExceptionRaised ==
  ASSUME ServiceInv, NEW c \in alive, Raise(c),
         \A u : todo[c] # <<AskOf("removeSubscription", u)>>
  PROVE  /\ ServiceInv' /\ OnlyItself(c)
         /\ \A t \in Topics : batch'[c][t].events = <<>>
<1>. USE DEF ServiceInv
<1>1. /\ todo' = [todo EXCEPT ![c] = <<>>] /\ batch' = [batch EXCEPT ![c] = NoBatch]
      /\ topics' = topics /\ topicDirectory' = topicDirectory /\ subscribers' = subscribers
      /\ subscriptions' = subscriptions /\ listener' = listener /\ numListeners' = numListeners
      /\ alive' = alive /\ objcache' = objcache /\ listenerDirectory' = listenerDirectory /\ evl' = evl
  BY DEF Raise, serviceVars, subscriberDirectory
<1>2. c \in Clients /\ todo \in [Clients -> Seq(Requests)] /\ batch \in [Clients -> [Topics -> Batch]]
  BY DEF ServiceType
<1>3. <<>> \in Seq(Requests) /\ <<>> \in Seq(Events)
  OBVIOUS
<1>4. NoBatch \in [Topics -> Batch] /\ \A t \in Topics : NoBatch[t] = [listener |-> 0, events |-> <<>>]
  BY <1>3 DEF NoBatch, Batch
<1>5. todo' \in [Clients -> Seq(Requests)] /\ todo'[c] = <<>>
      /\ \A d \in Clients \ {c} : todo'[d] = todo[d]
  BY <1>1, <1>2, <1>3
<1>6. batch' \in [Clients -> [Topics -> Batch]] /\ batch'[c] = NoBatch
      /\ \A d \in Clients \ {c} : batch'[d] = batch[d]
  BY <1>1, <1>2, <1>4
<1>7. OnlyItself(c)
  BY <1>1, <1>4, <1>5, <1>6 DEF OnlyItself
<1>8. InOperation(c)' /\ BatchCurrent(c)'
  BY <1>4, <1>5, <1>6 DEF InOperation, BatchCurrent, Handed
<1>. QED BY <1>4, <1>6, <1>7, <1>8, ItselfOnly

(* A careful component is never refused while it has events in hand, and   *)
(* never misses a listener.                                                *)
LEMMA RequestRefused ==
  ASSUME ServiceInv, NEW c \in Clients, Refuse(c)
  PROVE  /\ ServiceInv' /\ OnlyItself(c) /\ c \in alive
         /\ \A t \in Topics : batch'[c][t].events = <<>>
         /\ c \in Careless \/ Handed(c) = {}
<1>. USE DEF ServiceInv
<1>1. c \in alive /\ todo[c] # <<>> /\ Refused(c, Head(todo[c])) /\ Raise(c)
  BY DEF Refuse
<1>2. Turn(c, Head(todo[c]), Tail(todo[c]))
  BY <1>1, NextRequest
<1>3. \A u : todo[c] # <<AskOf("removeSubscription", u)>>
  <2>1. Head(todo[c]).type # "removeSubscription"
    BY <1>1 DEF Refused
  <2>. QED BY <2>1, RequestFields, Tuples
<1>4. BooksOf(c)
  BY <1>1
<1>5. ~Undisturbed(c)
  <2>. DEFINE r == Head(todo[c])
  <2>1. CASE r.type = "getSubscription"
    <3>1. r.topic \notin objcache[c] /\ c \in subscribers
      BY <1>2, <2>1 DEF Turn
    <3>2. r.topic \notin subscriptions[c]
      BY <1>3, <1>4, <3>1 DEF BooksOf
    <3>. QED BY <1>1, <2>1, <3>1, <3>2 DEF Refused
  <2>2. CASE r.type = "registerEventListener"
    <3>1. r.topic \in objcache[c] /\ (Undisturbed(c) => ~Subscribed(c, r.topic))
      BY <1>2, <2>2 DEF Turn
    <3>2. r.topic \in subscriptions[c]
      BY <1>4, <3>1 DEF BooksOf
    <3>. QED BY <1>1, <2>2, <3>1, <3>2 DEF Refused
  <2>3. CASE r.type = "unregisterEventListener"
    BY <1>2, <2>3 DEF Turn
  <2>4. CASE r.type = "sendEvent"
    <3>1. r.topic \in topics
      BY <1>2, <2>4 DEF Turn
    <3>. QED BY <1>1, <2>4, <3>1 DEF Refused
  <2>5. CASE r.type = "processEvents"
    BY <1>2, <2>5 DEF Turn, Undisturbed
  <2>. QED BY <1>1, <2>1, <2>2, <2>3, <2>4, <2>5 DEF Refused
<1>. QED BY <1>1, <1>3, <1>5, ExceptionRaised DEF Undisturbed

LEMMA ListenerMissed ==
  ASSUME ServiceInv, NEW c \in Clients, NEW t \in Topics, MissListener(c, t)
  PROVE  /\ ServiceInv' /\ OnlyItself(c) /\ c \in alive
         /\ \A u \in Topics : batch'[c][u].events = <<>>
         /\ c \in Careless
<1>. USE DEF ServiceInv
<1>1. /\ c \in alive /\ todo[c] = <<>> /\ t \in Handed(c) /\ Raise(c)
      /\ batch[c][t].listener \notin listenerDirectory[c]
  BY DEF MissListener, NextHanded
<1>2. c \in Careless
  <2>1. SUFFICES ASSUME c \notin Careless PROVE FALSE
    OBVIOUS
  <2>2. Subscribed(c, t) /\ batch[c][t].listener = listener[c][t]
    BY <1>1, <2>1 DEF BatchCurrent
  <2>3. listener[c][t] \in listenerDirectory[c]
    BY <1>1, <2>2 DEF CalledBack
  <2>. QED BY <1>1, <2>2, <2>3
<1>3. \A u : todo[c] # <<AskOf("removeSubscription", u)>>
  BY <1>1
<1>. QED BY <1>1, <1>2, <1>3, ExceptionRaised

LEMMA ProcessEnded ==
  ASSUME ServiceInv, NEW c \in Clients, Die(c)
  PROVE  ServiceInv'
<1>. USE DEF ServiceInv
<1>1. /\ c \in alive /\ alive' = alive \ {c}
      /\ todo' = [todo EXCEPT ![c] = <<>>] /\ batch' = [batch EXCEPT ![c] = NoBatch]
      /\ objcache' = [objcache EXCEPT ![c] = {}]
      /\ listenerDirectory' = [listenerDirectory EXCEPT ![c] = {}]
      /\ topics' = topics /\ topicDirectory' = topicDirectory /\ subscribers' = subscribers
      /\ subscriptions' = subscriptions /\ listener' = listener /\ numListeners' = numListeners
      /\ evl' = evl
  BY DEF Die, serviceVars, subscriberDirectory
<1>2. /\ alive \subseteq Clients /\ todo \in [Clients -> Seq(Requests)]
      /\ batch \in [Clients -> [Topics -> Batch]]
      /\ objcache \in [Clients -> SUBSET Topics] /\ listenerDirectory \in [Clients -> SUBSET Nat]
  BY DEF ServiceType
<1>3. <<>> \in Seq(Requests) /\ <<>> \in Seq(Events)
  OBVIOUS
<1>4. NoBatch \in [Topics -> Batch] /\ \A t \in Topics : NoBatch[t] = [listener |-> 0, events |-> <<>>]
  BY <1>3 DEF NoBatch, Batch
<1>5. ServiceType'
  BY <1>1, <1>2, <1>3, <1>4 DEF ServiceType
<1>6. todo'[c] = <<>> /\ batch'[c] = NoBatch
      /\ \A d \in Clients \ {c} : /\ todo'[d] = todo[d] /\ batch'[d] = batch[d]
                                  /\ objcache'[d] = objcache[d]
                                  /\ listenerDirectory'[d] = listenerDirectory[d]
  BY <1>1, <1>2
<1>7. TopicsOK' /\ ListedOnce' /\ CalledBack'
  <2>1. \A d \in alive' : listenerDirectory'[d] = listenerDirectory[d]
    BY <1>1, <1>2, <1>6
  <2>. QED BY <1>1, <2>1, ListedStay, CalledBackStays DEF TopicsOK
<1>8. Created'
  <2>1. \A t \in Topics : batch'[c][t].listener = 0
    BY <1>4, <1>6
  <2>2. 0 <= numListeners
    BY DEF ServiceType
  <2>. QED BY <1>1, <1>6, <2>1, <2>2 DEF Created
<1>9. \A d \in Clients \ {c} : FreshListener(d) => FreshListener(d)'
  <2>1. ASSUME NEW d \in Clients \ {c}, FreshListener(d) PROVE FreshListener(d)'
    <3>1. \A u \in Topics : batch'[c][u].listener # evl[d]
      BY <1>4, <1>6, <2>1 DEF FreshListener
    <3>. QED BY <1>1, <1>6, <2>1, <3>1 DEF FreshListener
  <2>. QED BY <2>1
<1>10. \A d \in Clients : InOperation(d)'
  BY <1>1, <1>6, <1>9, GoesOn DEF InOperation
<1>11. ASSUME NEW d \in alive' PROVE BooksOf(d)' /\ BatchCurrent(d)'
  <2>1. d \in Clients \ {c} /\ BooksOf(d) /\ BatchCurrent(d)
    BY <1>1, <1>2
  <2>. QED BY <1>1, <1>6, <2>1, BooksStay
<1>. QED BY <1>5, <1>7, <1>8, <1>10, <1>11

LEMMA ServiceInitially == Init => ServiceInv
<1>. SUFFICES ASSUME Init PROVE ServiceInv
  OBVIOUS
<1>1. <<>> \in Seq(Requests) /\ <<>> \in Seq(Events)
  OBVIOUS
<1>2. NoBatch \in [Topics -> Batch] /\ \A t \in Topics : NoBatch[t] = [listener |-> 0, events |-> <<>>]
  BY <1>1 DEF NoBatch, Batch
<1>3. NewTopic \in TopicRecord /\ Listeners(NewTopic) = {} /\ NewTopic.events = <<>>
  <2>1. <<>> \in [{} -> Nat]
    OBVIOUS
  <2>2. <<>> \in Marks
    BY <2>1 DEF Marks
  <2>3. NewTopic \in TopicRecord /\ NewTopic.events = <<>> /\ NewTopic.marks = <<>>
    BY <1>1, <2>2 DEF NewTopic, TopicRecord
  <2>4. DOMAIN NewTopic.marks = {}
    BY <2>1, <2>3
  <2>. QED BY <2>3, <2>4 DEF Listeners
<1>4. ServiceType
  BY <1>1, <1>2, <1>3 DEF Init, ServiceType
<1>5. \A t \in Topics : topicDirectory[t] = NewTopic
  BY DEF Init
<1>6. \A c \in Clients, t \in Topics : ~Subscribed(c, t)
  BY DEF Init, Subscribed
<1>7. TopicsOK /\ ListedOnce
  BY <1>3, <1>5, <1>6 DEF TopicsOK, InList, KeptForSomeone, ListedOnce
<1>8. CalledBack
  BY <1>6 DEF Init, CalledBack
<1>9. Created
  BY <1>2 DEF Init, Created
<1>10. \A c \in Clients : InOperation(c) /\ BatchCurrent(c) /\ BooksOf(c)
  BY <1>2, <1>6 DEF Init, InOperation, BatchCurrent, BooksOf, Handed
<1>. QED BY <1>4, <1>7, <1>8, <1>9, <1>10 DEF ServiceInv, ServiceType

LEMMA ServiceInductive == ServiceInv /\ [Next]_vars => ServiceInv'
<1>. SUFFICES ASSUME ServiceInv, [Next]_vars PROVE ServiceInv'
  OBVIOUS
<1>1. ASSUME NEW c \in Clients, ClientStep(c) PROVE ServiceInv'
  <2>1. CASE \E t \in Topics : HandOver(c, t) \/ MissListener(c, t)
    BY <2>1, EventHandedOver, ListenerMissed
  <2>2. CASE Start(c) \/ Refuse(c) \/ Die(c)
    BY <2>2, OperationStarted, RequestRefused, ProcessEnded
  <2>3. CASE RegisterSubscriber(c) \/ GetSubscription(c) \/ CreateListener(c) \/ RemoveSubscription(c)
    BY <2>3, SubscriberRegistered, SubscriptionMade, ListenerCreated, SubscriptionRemoved
  <2>4. CASE GetTopic(c) \/ SendEvent(c) \/ ProcessEvents(c)
    BY <2>4, TopicGot, EventSentOff, EventsFetched
  <2>5. CASE RegisterEventListener(c) \/ UnregisterEventListener(c)
    BY <2>5, ListenerRegistered, ListenerUnregistered
  <2>. QED BY <1>1, <2>1, <2>2, <2>3, <2>4, <2>5 DEF ClientStep
<1>2. CASE UNCHANGED vars
  <2>1. /\ topics' = topics /\ topicDirectory' = topicDirectory /\ subscribers' = subscribers
        /\ subscriptions' = subscriptions /\ listener' = listener /\ numListeners' = numListeners
        /\ alive' = alive /\ objcache' = objcache /\ listenerDirectory' = listenerDirectory
        /\ evl' = evl /\ todo' = todo /\ batch' = batch
    BY <1>2 DEF vars, serviceVars, clientVars, subscriberDirectory
  <2>2. ServiceType' /\ Created' /\ TopicsOK' /\ ListedOnce' /\ CalledBack'
    BY <2>1, ListedStay, CalledBackStays DEF ServiceInv, ServiceType, Created, TopicsOK
  <2>3. \A c \in Clients : InOperation(c)'
    BY <2>1, GoesOn, FreshStays DEF ServiceInv
  <2>4. \A c \in alive' : BooksOf(c)' /\ BatchCurrent(c)'
    BY <2>1, BooksStay DEF ServiceInv, ServiceType
  <2>. QED BY <2>2, <2>3, <2>4 DEF ServiceInv
<1>3. CASE \E t \in Topics, e \in Events : Publish(t, e)
  BY <1>3, EventPublished
<1>. QED BY <1>1, <1>2, <1>3 DEF Next

LEMMA ServiceInvHolds == Spec => []ServiceInv
BY ServiceInitially, ServiceInductive, PTL DEF Spec

-----------------------------------------------------------------------------
(* ListenersAgree: the tables of the service, of the topics and of the     *)
(* proxies tell of the same listeners, each of one component and one       *)
(* topic, whatever is requested in whatever order and whoever dies.        *)
THEOREM TablesAgree == Spec => []ListenersAgree
<1>1. ServiceInv => ListenersAgree
  <2>. SUFFICES ASSUME ServiceInv PROVE ListenersAgree
    OBVIOUS
  <2>. USE DEF ServiceInv
  <2>1. \A t \in Topics : topicDirectory[t].events \in Seq(Events)
          /\ \A l \in Listeners(topicDirectory[t]) :
               topicDirectory[t].marks[l] \in 0..Len(topicDirectory[t].events)
    <3>1. ASSUME NEW t \in Topics PROVE topicDirectory[t].events \in Seq(Events)
            /\ \A l \in Listeners(topicDirectory[t]) :
                 topicDirectory[t].marks[l] \in 0..Len(topicDirectory[t].events)
      <4>1. topicDirectory[t] \in TopicRecord /\ InList(topicDirectory[t])
        BY TopicsAreSound DEF Sound
      <4>. QED BY <4>1, MarksShape DEF TopicRecord, InList, Listeners
    <3>. QED BY <3>1
  <2>2. \A c \in Clients, t \in Topics : listener[c][t] \in 0..numListeners
    BY DEF ServiceType, Created
  <2>3. \A t \in Topics : Listeners(topicDirectory[t]) \subseteq 1..numListeners
    BY <2>2 DEF ListedOnce, Subscribed
  <2>4. TypeOK
    <3>1. listener \in [Clients -> [Topics -> 0..numListeners]]
      BY <2>2 DEF ServiceType
    <3>. QED BY <2>1, <2>3, <3>1 DEF TypeOK, ServiceType, Batch
  <2>5. \A t \in Topics : Listeners(topicDirectory[t]) =
          {listener[c][t] : c \in {d \in Clients : Subscribed(d, t)}}
    BY DEF ListedOnce
  <2>6. \A c \in alive : listenerDirectory[c] =
          {listener[c][t] : t \in {u \in Topics : Subscribed(c, u)}}
    BY DEF CalledBack
  <2>7. \A c, d \in Clients, t, u \in Topics :
          Subscribed(c, t) /\ listener[c][t] = listener[d][u] => c = d /\ t = u
    BY DEF ListedOnce
  <2>8. \A c \in alive : \A t \in objcache[c] : t \in subscriptions[c]
    BY DEF BooksOf
  <2>. QED BY <2>4, <2>5, <2>6, <2>7, <2>8 DEF ListenersAgree
<1>. QED BY <1>1, ServiceInvHolds, PTL

(* NothingKeptInVain: what a topic keeps begins where its slowest listener *)
(* is, also after listeners have joined, left or fetched in any order.     *)
THEOREM TopicsForget == Spec => []NothingKeptInVain
<1>1. ServiceInv => NothingKeptInVain
  BY DEF ServiceInv, TopicsOK, KeptForSomeone, NothingKeptInVain
<1>. QED BY <1>1, ServiceInvHolds, PTL

-----------------------------------------------------------------------------
(* The service and its event managers implement Mailboxes.                 *)

Listening(c, t) == c \in alive /\ Subscribed(c, t)
Content(c, t) == Read(c, t) \o Pending(topicDirectory[t], listener[c][t])

LEMMA InboxCell ==
  ASSUME NEW c \in Clients, NEW t \in Topics
  PROVE  /\ Inbox[c][t] = IF Listening(c, t) THEN Content(c, t) ELSE Closed
         /\ Inbox'[c][t] = IF Listening(c, t)' THEN Content(c, t)' ELSE Closed
BY DEF Inbox, Listening, Content

LEMMA ContentType ==
  ASSUME ServiceInv, NEW c \in Clients, NEW t \in Topics, Listening(c, t)
  PROVE  /\ Read(c, t) \in Seq(Events)
         /\ Pending(topicDirectory[t], listener[c][t]) \in Seq(Events)
         /\ Content(c, t) \in Seq(Events) /\ Content(c, t) # Closed
<1>1. Read(c, t) \in Seq(Events)
  <2>1. batch[c][t] \in Batch
    BY DEF ServiceInv, ServiceType
  <2>2. <<>> \in Seq(Events)
    OBVIOUS
  <2>. QED BY <2>1, <2>2 DEF Read, Batch
<1>2. Pending(topicDirectory[t], listener[c][t]) \in Seq(Events)
  BY TopicsAreSound, SubscribedIsListed, PendingType DEF Listening
<1>3. Content(c, t) \in Seq(Events)
  BY <1>1, <1>2 DEF Content
<1>. QED BY <1>1, <1>2, <1>3, ServiceAssumption

(* From cells to the whole. *)
LEMMA NothingMoves ==
  ASSUME \A c \in Clients, t \in Topics : Inbox'[c][t] = Inbox[c][t]
  PROVE  Inbox' = Inbox
<1>1. Inbox' = [c \in Clients |-> [t \in Topics |-> Inbox'[c][t]]]
  BY DEF Inbox
<1>2. Inbox = [c \in Clients |-> [t \in Topics |-> Inbox[c][t]]]
  BY DEF Inbox
<1>. QED BY <1>1, <1>2

LEMMA OneCellMoves ==
  ASSUME NEW c \in Clients, NEW t \in Topics,
         \A u \in Topics \ {t} : Inbox'[c][u] = Inbox[c][u],
         \A d \in Clients \ {c} : \A u \in Topics : Inbox'[d][u] = Inbox[d][u]
  PROVE  Inbox' = [Inbox EXCEPT ![c][t] = Inbox'[c][t]]
<1>1. Inbox' = [d \in Clients |-> [u \in Topics |-> Inbox'[d][u]]]
  BY DEF Inbox
<1>2. Inbox = [d \in Clients |-> [u \in Topics |-> Inbox[d][u]]]
  BY DEF Inbox
<1>. QED BY <1>1, <1>2

LEMMA OneRowMoves ==
  ASSUME NEW c \in Clients,
         \A d \in Clients \ {c} : \A u \in Topics : Inbox'[d][u] = Inbox[d][u]
  PROVE  Inbox' = [Inbox EXCEPT ![c] = Inbox'[c]]
<1>1. Inbox' = [d \in Clients |-> [u \in Topics |-> Inbox'[d][u]]]
  BY DEF Inbox
<1>2. Inbox = [d \in Clients |-> [u \in Topics |-> Inbox[d][u]]]
  BY DEF Inbox
<1>3. \A d \in Clients \ {c} : Inbox'[d] = Inbox[d]
  BY <1>1, <1>2
<1>. QED BY <1>1, <1>2, <1>3

LEMMA AppendToBoth ==
  ASSUME NEW S, NEW s \in Seq(S), NEW p \in Seq(S), NEW e \in S
  PROVE  s \o Append(p, e) = Append(s \o p, e)
OBVIOUS

LEMMA TailOfBoth ==
  ASSUME NEW S, NEW s \in Seq(S), NEW p \in Seq(S), s # <<>>
  PROVE  Tail(s) \o p = Tail(s \o p) /\ s \o p # <<>>
OBVIOUS

LEMMA RestOfBoth ==
  ASSUME NEW S, NEW s \in Seq(S), NEW p \in Seq(S), s # <<>>
  PROVE  /\ Len(s) \in 1..Len(s \o p)
         /\ p = SubSeq(s \o p, Len(s) + 1, Len(s \o p))
<1>1. /\ s \o p \in Seq(S) /\ Len(s \o p) = Len(s) + Len(p) /\ Len(s) \in Nat /\ Len(p) \in Nat
      /\ Len(s) # 0 /\ \A i \in 1..Len(p) : (s \o p)[Len(s) + i] = p[i]
  OBVIOUS
<1>. DEFINE r == SubSeq(s \o p, Len(s) + 1, Len(s \o p))
<1>2. Len(s) <= Len(s \o p)
  BY <1>1
<1>3. r \in Seq(S) /\ Len(r) = Len(s \o p) - Len(s)
      /\ \A i \in 1..(Len(s \o p) - Len(s)) : r[i] = (s \o p)[Len(s) + i]
  BY <1>1, <1>2, RestOf
<1>. HIDE DEF r
<1>4. Len(r) = Len(p) /\ \A i \in 1..Len(p) : r[i] = p[i]
  BY <1>1, <1>3
<1>5. r = p
  BY <1>3, <1>4, SeqEqual
<1>. QED BY <1>1, <1>2, <1>5 DEF r

LEMMA StepPosts ==
  ASSUME ServiceInv, NEW t \in Topics, NEW e \in Events, EventSent(t, e),
         listener' = listener, alive' = alive, batch' = batch
  PROVE  Promise!Post(t, e)
<1>1. topicDirectory \in [Topics -> TopicRecord]
  BY DEF ServiceInv, ServiceType
<1>2. topicDirectory'[t] = Sent(topicDirectory[t], e)
      /\ \A u \in Topics \ {t} : topicDirectory'[u] = topicDirectory[u]
  BY <1>1 DEF EventSent
<1>3. ASSUME NEW d \in Clients, NEW u \in Topics
      PROVE  Inbox'[d][u] = IF u = t /\ Inbox[d][u] # Closed THEN Append(Inbox[d][u], e)
                            ELSE Inbox[d][u]
  <2>1. Listening(d, u)' = Listening(d, u)
    BY DEF Listening, Subscribed
  <2>2. Read(d, u)' = Read(d, u)
    BY DEF Read
  <2>3. CASE ~Listening(d, u)
    BY <2>1, <2>3, InboxCell
  <2>4. CASE Listening(d, u) /\ u # t
    <3>1. Content(d, u)' = Content(d, u)
      BY <1>2, <2>2, <2>4 DEF Content
    <3>. QED BY <2>1, <2>4, <3>1, InboxCell
  <2>5. CASE Listening(d, u) /\ u = t
    <3>1. listener[d][t] \in Listeners(topicDirectory[t])
      BY <2>5, SubscribedIsListed DEF Listening
    <3>2. Pending(Sent(topicDirectory[t], e), listener[d][t])
            = Append(Pending(topicDirectory[t], listener[d][t]), e)
      BY <3>1, TopicsAreSound, SentIs
    <3>3. Content(d, t)' = Read(d, t) \o Append(Pending(topicDirectory[t], listener[d][t]), e)
      BY <1>2, <2>2, <2>5, <3>2 DEF Content
    <3>4. Content(d, t)' = Append(Content(d, t), e)
      BY <2>5, <3>3, ContentType, AppendToBoth DEF Content
    <3>5. Content(d, t) # Closed
      BY <2>5, ContentType
    <3>. QED BY <2>1, <2>5, <3>4, <3>5, InboxCell
  <2>. QED BY <2>3, <2>4, <2>5
<1>4. Inbox' = [d \in Clients |-> [u \in Topics |-> Inbox'[d][u]]]
  BY DEF Inbox
<1>. QED BY <1>3, <1>4 DEF Promise!Post

LEMMA StepOpens ==
  ASSUME ServiceInv, NEW c \in Clients, NEW t \in Topics, NEW l \in Nat, Joins(c, t, l)
  PROVE  Promise!Open(c, t)
<1>. USE DEF Joins
<1>1. Inbox[c][t] = Closed
  BY InboxCell DEF Listening
<1>2. /\ Pending(Registered(topicDirectory[t], l), l) = <<>>
      /\ \A k \in Listeners(topicDirectory[t]) :
            Pending(Registered(topicDirectory[t], l), k) = Pending(topicDirectory[t], k)
  BY TopicsAreSound, RegisteredIs
<1>3. Inbox'[c][t] = <<>>
  <2>1. Listening(c, t)' /\ Read(c, t)' = <<>>
    BY DEF Listening, Subscribed, Read
  <2>2. Pending(topicDirectory'[t], listener'[c][t]) = <<>>
    BY <1>2
  <2>3. Content(c, t)' = <<>> \o <<>>
    BY <2>1, <2>2 DEF Content
  <2>4. <<>> \o <<>> = <<>>
    OBVIOUS
  <2>. QED BY <2>1, <2>3, <2>4, InboxCell
<1>4. ASSUME NEW d \in Clients, NEW u \in Topics, ~(d = c /\ u = t)
      PROVE  Inbox'[d][u] = Inbox[d][u]
  <2>1. listener'[d][u] = listener[d][u]
    BY <1>4
  <2>2. Listening(d, u)' = Listening(d, u) /\ Read(d, u)' = Read(d, u)
    BY <2>1 DEF Listening, Subscribed, Read
  <2>3. ASSUME Listening(d, u)
        PROVE  Pending(topicDirectory'[u], listener'[d][u]) = Pending(topicDirectory[u], listener[d][u])
    <3>1. listener[d][u] \in Listeners(topicDirectory[u])
      BY <2>3, SubscribedIsListed DEF Listening
    <3>2. CASE u = t
      BY <1>2, <2>1, <3>1, <3>2
    <3>3. CASE u # t
      BY <2>1, <3>3
    <3>. QED BY <3>2, <3>3
  <2>4. Listening(d, u) => Content(d, u)' = Content(d, u)
    BY <2>2, <2>3 DEF Content
  <2>. QED BY <2>2, <2>4, InboxCell
<1>5. Inbox' = [Inbox EXCEPT ![c][t] = Inbox'[c][t]]
  <2>1. \A u \in Topics \ {t} : Inbox'[c][u] = Inbox[c][u]
    BY <1>4
  <2>2. \A d \in Clients \ {c} : \A u \in Topics : Inbox'[d][u] = Inbox[d][u]
    BY <1>4
  <2>. QED BY <2>1, <2>2, OneCellMoves
<1>. QED BY <1>1, <1>3, <1>5 DEF Promise!Open

LEMMA StepCloses ==
  ASSUME ServiceInv, NEW c \in Clients, NEW t \in Topics, Quits(c, t)
  PROVE  Promise!Close(c, t)
<1>. USE DEF Quits
<1>1. Inbox[c][t] # Closed
  BY InboxCell, ContentType DEF Listening
<1>2. Inbox'[c][t] = Closed
  BY InboxCell DEF Listening, Subscribed
<1>3. listener[c][t] \in Listeners(topicDirectory[t])
  BY SubscribedIsListed
<1>4. \A k \in Listeners(topicDirectory[t]) \ {listener[c][t]} :
         Pending(topicDirectory'[t], k) = Pending(topicDirectory[t], k)
  BY <1>3, TopicsAreSound, UnregisteredIs
<1>5. ASSUME NEW d \in Clients, NEW u \in Topics, ~(d = c /\ u = t)
      PROVE  Inbox'[d][u] = Inbox[d][u]
  <2>1. listener'[d][u] = listener[d][u]
    BY <1>5
  <2>2. Listening(d, u)' = Listening(d, u) /\ Read(d, u)' = Read(d, u)
    BY <2>1 DEF Listening, Subscribed, Read
  <2>3. ASSUME Listening(d, u)
        PROVE  Pending(topicDirectory'[u], listener'[d][u]) = Pending(topicDirectory[u], listener[d][u])
    <3>1. listener[d][u] \in Listeners(topicDirectory[u])
      BY <2>3, SubscribedIsListed DEF Listening
    <3>2. CASE u = t
      <4>1. listener[d][u] # listener[c][t]
        BY <1>5, <2>3 DEF ServiceInv, ListedOnce, Listening
      <4>. QED BY <1>4, <2>1, <3>1, <3>2, <4>1
    <3>3. CASE u # t
      BY <2>1, <3>3
    <3>. QED BY <3>2, <3>3
  <2>4. Listening(d, u) => Content(d, u)' = Content(d, u)
    BY <2>2, <2>3 DEF Content
  <2>. QED BY <2>2, <2>4, InboxCell
<1>6. Inbox' = [Inbox EXCEPT ![c][t] = Inbox'[c][t]]
  <2>1. \A u \in Topics \ {t} : Inbox'[c][u] = Inbox[c][u]
    BY <1>5
  <2>2. \A d \in Clients \ {c} : \A u \in Topics : Inbox'[d][u] = Inbox[d][u]
    BY <1>5
  <2>. QED BY <2>1, <2>2, OneCellMoves
<1>. QED BY <1>1, <1>2, <1>6 DEF Promise!Close

(* Fetching moves events from the topics to the component's hand: nothing  *)
(* changes in what anybody is still to be handed.                          *)
LEMMA StepFetches ==
  ASSUME ServiceInv, NEW c \in Clients, ProcessEvents(c), Handed(c) = {}
  PROVE  Inbox' = Inbox
<1>1. /\ listener' = listener /\ alive' = alive
      /\ batch' = [batch EXCEPT ![c] = [t \in Topics |-> Fetched(c, t)]]
      /\ topicDirectory' = [t \in Topics |-> Remaining(c, t)]
  BY DEF ProcessEvents, Fetched, Remaining, subscriberDirectory
<1>2. \A t \in Topics : batch'[c][t] = Fetched(c, t) /\ topicDirectory'[t] = Remaining(c, t)
  BY <1>1 DEF ServiceInv, ServiceType
<1>3. \A d \in Clients \ {c} : batch'[d] = batch[d]
  BY <1>1 DEF ServiceInv, ServiceType
<1>4. ASSUME NEW d \in Clients, NEW t \in Topics PROVE Inbox'[d][t] = Inbox[d][t]
  <2>1. Listening(d, t)' = Listening(d, t) /\ listener'[d][t] = listener[d][t]
    BY <1>1 DEF Listening, Subscribed
  <2>2. CASE ~Listening(d, t)
    BY <2>1, <2>2, InboxCell
  <2>3. CASE Listening(d, t) /\ d = c
    <3>1. Subscribed(c, t) /\ listener[c][t] \in Listeners(topicDirectory[t])
      BY <2>3, SubscribedIsListed DEF Listening
    <3>2. Read(c, t) = <<>>
      BY DEF Read, Handed
    <3>3. PICK p \in Seq(Events) : p = Pending(topicDirectory[t], listener[c][t])
      BY <2>3, ContentType
    <3>4. Read(c, t)' = p
      <4>1. Fetched(c, t) = [listener |-> listener[c][t], events |-> p]
        BY <3>1, <3>3 DEF Fetched
      <4>2. batch'[c][t] = Fetched(c, t) /\ listener'[c][t] = listener[c][t]
        BY <1>1, <1>2
      <4>. QED BY <4>1, <4>2 DEF Read
    <3>5. Pending(topicDirectory'[t], listener'[c][t]) = <<>>
      BY <1>2, <2>1, <2>3, <3>1, TopicsAreSound, CleanedUpIs DEF Remaining
    <3>6. Content(c, t)' = p \o <<>> /\ Content(c, t) = <<>> \o p
      BY <3>2, <3>3, <3>4, <3>5 DEF Content
    <3>7. p \o <<>> = <<>> \o p
      OBVIOUS
    <3>. QED BY <2>1, <2>3, <3>6, <3>7, InboxCell
  <2>4. CASE Listening(d, t) /\ d # c
    <3>1. listener[d][t] \in Listeners(topicDirectory[t]) /\ Subscribed(d, t)
      BY <2>4, SubscribedIsListed DEF Listening
    <3>2. Read(d, t)' = Read(d, t)
      BY <1>3, <2>1, <2>4 DEF Read
    <3>3. Pending(topicDirectory'[t], listener[d][t]) = Pending(topicDirectory[t], listener[d][t])
      <4>1. CASE Subscribed(c, t)
        <5>1. listener[d][t] # listener[c][t]
          BY <2>4, <3>1 DEF ServiceInv, ListedOnce
        <5>2. listener[c][t] \in Listeners(topicDirectory[t])
          BY <4>1, SubscribedIsListed
        <5>3. topicDirectory'[t] = CleanedUp(topicDirectory[t], listener[c][t])
          BY <1>2, <4>1 DEF Remaining
        <5>. QED BY <3>1, <5>1, <5>2, <5>3, TopicsAreSound, CleanedUpIs
      <4>2. CASE ~Subscribed(c, t)
        BY <1>2, <4>2 DEF Remaining
      <4>. QED BY <4>1, <4>2
    <3>4. Content(d, t)' = Content(d, t)
      BY <2>1, <3>2, <3>3 DEF Content
    <3>. QED BY <2>1, <2>4, <3>4, InboxCell
  <2>. QED BY <2>2, <2>3, <2>4
<1>. QED BY <1>4, NothingMoves

(* A step of c that leaves the topics alone moves only what c has in hand. *)
LEMMA OnlyItsRow ==
  ASSUME NEW c \in Clients, OnlyItself(c)
  PROVE  /\ \A d \in Clients \ {c} : \A t \in Topics : Inbox'[d][t] = Inbox[d][t]
         /\ \A t \in Topics : Read(c, t)' = Read(c, t) => Inbox'[c][t] = Inbox[c][t]
         /\ \A t \in Topics : Listening(c, t)' = Listening(c, t)
         /\ \A t \in Topics : Content(c, t)' = Read(c, t)' \o Pending(topicDirectory[t], listener[c][t])
<1>. USE DEF OnlyItself
<1>1. \A d \in Clients, t \in Topics : Listening(d, t)' = Listening(d, t)
  BY DEF Listening, Subscribed
<1>2. \A d \in Clients \ {c} : \A t \in Topics : Read(d, t)' = Read(d, t)
  BY DEF Read
<1>3. \A d \in Clients, t \in Topics :
         Content(d, t)' = Read(d, t)' \o Pending(topicDirectory[t], listener[d][t])
  BY DEF Content
<1>4. ASSUME NEW d \in Clients, NEW t \in Topics, Read(d, t)' = Read(d, t)
      PROVE  Inbox'[d][t] = Inbox[d][t]
  <2>1. Content(d, t)' = Content(d, t)
    BY <1>3, <1>4 DEF Content
  <2>. QED BY <1>1, <2>1, InboxCell
<1>. QED BY <1>1, <1>2, <1>3, <1>4

LEMMA StepHandsOver ==
  ASSUME ServiceInv, NEW c \in Clients, NEW t \in Topics, HandOver(c, t)
  PROVE  Promise!HandOver(c, t) \/ Inbox' = Inbox
<1>1. /\ OnlyItself(c) /\ batch[c][t].events # <<>>
      /\ batch'[c][t] = [listener |-> batch[c][t].listener, events |-> Tail(batch[c][t].events)]
      /\ \A u \in Topics \ {t} : batch'[c][u] = batch[c][u]
  BY EventHandedOver
<1>2. listener' = listener
  BY <1>1 DEF OnlyItself
<1>3. \A u \in Topics \ {t} : Inbox'[c][u] = Inbox[c][u]
  <2>1. \A u \in Topics \ {t} : Read(c, u)' = Read(c, u)
    BY <1>1, <1>2 DEF Read
  <2>. QED BY <1>1, <2>1, OnlyItsRow
<1>4. \A d \in Clients \ {c} : \A u \in Topics : Inbox'[d][u] = Inbox[d][u]
  BY <1>1, OnlyItsRow
<1>5. CASE Listening(c, t) /\ batch[c][t].listener = listener[c][t]
  <2>1. Read(c, t) = batch[c][t].events /\ Read(c, t)' = Tail(Read(c, t)) /\ Read(c, t) # <<>>
    BY <1>1, <1>2, <1>5 DEF Read
  <2>2. PICK p \in Seq(Events) : p = Pending(topicDirectory[t], listener[c][t])
    BY <1>5, ContentType
  <2>3. Content(c, t) = Read(c, t) \o p /\ Content(c, t)' = Tail(Read(c, t)) \o p
    BY <1>1, <2>1, <2>2, OnlyItsRow DEF Content
  <2>4. Content(c, t)' = Tail(Content(c, t)) /\ Content(c, t) # <<>>
    BY <1>5, <2>1, <2>2, <2>3, ContentType, TailOfBoth
  <2>5. Inbox'[c][t] = Tail(Inbox[c][t]) /\ Inbox[c][t] \notin {Closed, <<>>}
    BY <1>1, <1>5, <2>4, OnlyItsRow, InboxCell, ContentType
  <2>6. Inbox' = [Inbox EXCEPT ![c][t] = Inbox'[c][t]]
    BY <1>3, <1>4, OneCellMoves
  <2>7. Inbox' = [Inbox EXCEPT ![c][t] = Tail(Inbox[c][t])]
    BY <2>5, <2>6
  <2>. QED BY <2>5, <2>7 DEF Promise!HandOver
<1>6. CASE ~(Listening(c, t) /\ batch[c][t].listener = listener[c][t])
  <2>1. CASE ~Listening(c, t)
    <3>1. Inbox'[c][t] = Inbox[c][t]
      BY <1>1, <2>1, OnlyItsRow, InboxCell
    <3>. QED BY <1>3, <1>4, <3>1, NothingMoves
  <2>2. CASE batch[c][t].listener # listener[c][t]
    <3>1. Read(c, t)' = Read(c, t)
      BY <1>1, <1>2, <2>2 DEF Read
    <3>2. Inbox'[c][t] = Inbox[c][t]
      BY <1>1, <3>1, OnlyItsRow
    <3>. QED BY <1>3, <1>4, <3>2, NothingMoves
  <2>. QED BY <1>6, <2>1, <2>2
<1>. QED BY <1>5, <1>6

(* An exception drops what the component has in hand.                      *)
LEMMA StepLoses ==
  ASSUME ServiceInv, NEW c \in Clients, OnlyItself(c),
         \A t \in Topics : batch'[c][t].events = <<>>
  PROVE  /\ c \in Careless => Promise!Lose(c)
         /\ Handed(c) = {} => Inbox' = Inbox
<1>1. \A t \in Topics : Read(c, t)' = <<>>
  BY DEF Read
<1>2. \A d \in Clients \ {c} : \A t \in Topics : Inbox'[d][t] = Inbox[d][t]
  BY OnlyItsRow
<1>3. ASSUME Handed(c) = {} PROVE Inbox' = Inbox
  <2>1. \A t \in Topics : Read(c, t) = <<>>
    BY <1>3 DEF Read, Handed
  <2>2. \A t \in Topics : Inbox'[c][t] = Inbox[c][t]
    BY <1>1, <2>1, OnlyItsRow
  <2>. QED BY <1>2, <2>2, NothingMoves
<1>4. ASSUME NEW t \in Topics PROVE Promise!Drops(Inbox[c][t], Inbox'[c][t])
  <2>1. CASE Read(c, t) = <<>> \/ ~Listening(c, t)
    <3>1. Inbox'[c][t] = Inbox[c][t]
      BY <1>1, <2>1, OnlyItsRow, InboxCell
    <3>. QED BY <3>1 DEF Promise!Drops
  <2>2. CASE Read(c, t) # <<>> /\ Listening(c, t)
    <3>1. PICK p \in Seq(Events), s \in Seq(Events) :
            p = Pending(topicDirectory[t], listener[c][t]) /\ s = Read(c, t)
      BY <2>2, ContentType
    <3>2. Inbox[c][t] = s \o p /\ Inbox[c][t] # Closed
      BY <2>2, <3>1, InboxCell, ContentType DEF Content
    <3>3. <<>> \o p = p
      OBVIOUS
    <3>4. Inbox'[c][t] = p
      BY <1>1, <2>2, <3>1, <3>3, OnlyItsRow, InboxCell
    <3>5. Len(s) \in 1..Len(s \o p) /\ p = SubSeq(s \o p, Len(s) + 1, Len(s \o p))
      BY <2>2, <3>1, RestOfBoth
    <3>. QED BY <3>2, <3>4, <3>5 DEF Promise!Drops
  <2>. QED BY <2>1, <2>2
<1>5. Inbox' = [Inbox EXCEPT ![c] = Inbox'[c]]
  BY <1>2, OneRowMoves
<1>. QED BY <1>3, <1>4, <1>5 DEF Promise!Lose

LEMMA StepLeaves ==
  ASSUME ServiceInv, NEW c \in Clients, Die(c)
  PROVE  Promise!Leave(c)
<1>1. /\ alive' = alive \ {c} /\ listener' = listener /\ topicDirectory' = topicDirectory
      /\ batch' = [batch EXCEPT ![c] = NoBatch]
  BY DEF Die, serviceVars, subscriberDirectory
<1>2. \A d \in Clients \ {c} : batch'[d] = batch[d]
  BY <1>1 DEF ServiceInv, ServiceType
<1>3. ASSUME NEW d \in Clients \ {c}, NEW t \in Topics PROVE Inbox'[d][t] = Inbox[d][t]
  <2>1. Listening(d, t)' = Listening(d, t)
    BY <1>1 DEF Listening, Subscribed
  <2>2. Read(d, t)' = Read(d, t)
    BY <1>1, <1>2 DEF Read
  <2>3. Content(d, t)' = Content(d, t)
    BY <1>1, <2>2 DEF Content
  <2>. QED BY <2>1, <2>3, InboxCell
<1>4. \A t \in Topics : Inbox'[c][t] = Closed
  BY <1>1, InboxCell DEF Listening
<1>5. Inbox'[c] = [t \in Topics |-> Closed]
  <2>1. Inbox'[c] = [t \in Topics |-> Inbox'[c][t]]
    BY DEF Inbox
  <2>. QED BY <1>4, <2>1
<1>6. Inbox' = [Inbox EXCEPT ![c] = Inbox'[c]]
  BY <1>3, OneRowMoves
<1>. QED BY <1>5, <1>6 DEF Promise!Leave

LEMMA StepElsewhere ==
  ASSUME topicDirectory' = topicDirectory, listener' = listener, alive' = alive, batch' = batch
  PROVE  Inbox' = Inbox
BY DEF Inbox, Read, Subscribed

(* MailboxesKept: a component that has subscribed is handed every event    *)
(* published from then on, once and in order, whatever the others do; only *)
(* a component whose own callbacks unsubscribe or subscribe again may lose *)
(* some.                                                                   *)
THEOREM EventsReachListeners == Spec => MailboxesKept
<1>1. Init => Promise!Init
  <2>. SUFFICES ASSUME Init PROVE Promise!Init
    OBVIOUS
  <2>1. \A c \in Clients, t \in Topics : ~Listening(c, t)
    BY DEF Init, Listening, Subscribed
  <2>2. \A c \in Clients, t \in Topics : Inbox[c][t] = Closed
    BY <2>1, InboxCell
  <2>3. Inbox = [c \in Clients |-> [t \in Topics |-> Inbox[c][t]]]
    BY DEF Inbox
  <2>. QED BY <2>2, <2>3 DEF Promise!Init
<1>2. ServiceInv /\ [Next]_vars => [Promise!Next]_Inbox
  <2>. SUFFICES ASSUME ServiceInv, [Next]_vars, Inbox' # Inbox PROVE Promise!Next
    OBVIOUS
  <2>1. CASE \E t \in Topics, e \in Events : Publish(t, e)
    <3>1. PICK t \in Topics, e \in Events : Publish(t, e)
      BY <2>1
    <3>2. EventSent(t, e) /\ listener' = listener /\ alive' = alive /\ batch' = batch
      BY <3>1 DEF Publish, EventSent, subscriberDirectory, clientVars
    <3>. QED BY <3>2, StepPosts DEF Promise!Next
  <2>2. ASSUME NEW c \in Clients, ClientStep(c) PROVE Promise!Next
    <3>1. CASE SendEvent(c)
      <4>1. listener' = listener /\ alive' = alive /\ batch' = batch
        BY <3>1 DEF SendEvent, subscriberDirectory
      <4>. QED BY <3>1, <4>1, EventSentOff, StepPosts DEF Promise!Next
    <3>2. CASE RegisterEventListener(c)
      BY <3>2, ListenerRegistered, StepOpens DEF Promise!Next
    <3>3. CASE UnregisterEventListener(c)
      BY <3>3, ListenerUnregistered, StepCloses DEF Promise!Next
    <3>4. CASE ProcessEvents(c)
      BY <3>4, EventsFetched, StepFetches
    <3>5. CASE Refuse(c)
      BY <3>5, RequestRefused, StepLoses DEF Promise!Next
    <3>6. CASE \E t \in Topics : HandOver(c, t)
      BY <3>6, StepHandsOver DEF Promise!Next
    <3>7. CASE \E t \in Topics : MissListener(c, t)
      BY <3>7, ListenerMissed, StepLoses DEF Promise!Next
    <3>8. CASE Die(c)
      BY <3>8, StepLeaves DEF Promise!Next
    <3>9. CASE Start(c) \/ RegisterSubscriber(c) \/ GetSubscription(c) \/ CreateListener(c)
               \/ RemoveSubscription(c) \/ GetTopic(c)
      <4>1. topicDirectory' = topicDirectory /\ listener' = listener /\ alive' = alive /\ batch' = batch
        BY <3>9 DEF Start, RegisterSubscriber, GetSubscription, CreateListener,
                    RemoveSubscription, GetTopic, serviceVars, subscriberDirectory
      <4>. QED BY <4>1, StepElsewhere
    <3>. QED BY <2>2, <3>1, <3>2, <3>3, <3>4, <3>5, <3>6, <3>7, <3>8, <3>9 DEF ClientStep
  <2>3. CASE UNCHANGED vars
    <3>1. topicDirectory' = topicDirectory /\ listener' = listener /\ alive' = alive /\ batch' = batch
      BY <2>3 DEF vars, serviceVars, clientVars, subscriberDirectory
    <3>. QED BY <3>1, StepElsewhere
  <2>. QED BY <2>1, <2>2, <2>3 DEF Next
<1>. QED BY <1>1, <1>2, ServiceInvHolds, PTL DEF Spec, MailboxesKept, Promise!Spec
=====
