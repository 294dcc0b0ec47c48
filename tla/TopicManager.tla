------------------------------ MODULE TopicManager ------------------------------
(***************************************************************************)
(* One topic of the event service (topicManager.py): a list of events that *)
(* all listeners share, and for each listener a mark, the number of events *)
(* of the list that it has fetched.  A topic is a record, and an operation *)
(* an operator from a record to the next.                                  *)
(***************************************************************************)
EXTENDS Naturals, Sequences

NewTopic == [events |-> <<>>, marks |-> <<>>]

Listeners(T) == DOMAIN T.marks

(* What listener l has not fetched yet. *)
Pending(T, l) == SubSeq(T.events, T.marks[l] + 1, Len(T.events))

(* sendEvent: an event that nobody listens for is not stored. *)
Sent(T, e) ==
  IF Listeners(T) = {} THEN T ELSE [T EXCEPT !.events = Append(@, e)]

(* registerListener: a listener gets what is sent after it has registered. *)
MarkAtStart(T) == 0
MarkAtEnd(T) == Len(T.events)
Registered(T, l) ==
  [T EXCEPT !.marks = [k \in Listeners(T) \cup {l} |-> IF k = l THEN MarkAtEnd(T) ELSE T.marks[k]]]

(* cleanupEvents: l has seen everything; what all have seen is removed, and *)
(* the marks move with the list.                                            *)
Oldest(marks) == CHOOSE m \in {marks[l] : l \in DOMAIN marks} :
                   \A l \in DOMAIN marks : m <= marks[l]
CleanedUp(T, l) ==
  LET marks == [T.marks EXCEPT ![l] = Len(T.events)]
      gone  == Oldest(marks)
  IN  [events |-> SubSeq(T.events, gone + 1, Len(T.events)),
       marks  |-> [k \in Listeners(T) |-> marks[k] - gone]]

(* unregisterListener *)
WithoutListener(T, l) == [T EXCEPT !.marks = [k \in Listeners(T) \ {l} |-> T.marks[k]]]
LeftBehind(T, l) == WithoutListener(T, l)
Unregistered(T, l) == WithoutListener(CleanedUp(T, l), l)
=============================================================================
