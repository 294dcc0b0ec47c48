------------------------------- MODULE Mailboxes -------------------------------
(***************************************************************************)
(* What the event service promises: a reader that has subscribed to a      *)
(* topic is handed every event that is published on it from then on, once, *)
(* in the order of publication, until it unsubscribes or its process ends. *)
(* Only a reader whose own callbacks disturb the hand-over may lose some.  *)
(***************************************************************************)
EXTENDS Naturals, Sequences

CONSTANTS Readers, Topics, Events, Careless, Closed

VARIABLE box   \* box[r][t]: what r is still to be handed of topic t, or Closed

Init == box = [r \in Readers |-> [t \in Topics |-> Closed]]

Open(r, t)  == box[r][t] = Closed /\ box' = [box EXCEPT ![r][t] = <<>>]
Close(r, t) == box[r][t] # Closed /\ box' = [box EXCEPT ![r][t] = Closed]

Post(t, e) ==
  box' = [r \in Readers |-> [u \in Topics |->
            IF u = t /\ box[r][u] # Closed THEN Append(box[r][u], e) ELSE box[r][u]]]

HandOver(r, t) ==
  box[r][t] \notin {Closed, <<>>} /\ box' = [box EXCEPT ![r][t] = Tail(@)]

Drops(old, new) ==
  \/ new = old
  \/ old # Closed /\ \E k \in 1..Len(old) : new = SubSeq(old, k + 1, Len(old))

Lose(r) ==
  /\ r \in Careless
  /\ \A t \in Topics : Drops(box[r][t], box'[r][t])
  /\ box' = [box EXCEPT ![r] = box'[r]]

Leave(r) == box' = [box EXCEPT ![r] = [t \in Topics |-> Closed]]

Next ==
  /\ box' # box
  /\ \/ \E t \in Topics, e \in Events : Post(t, e)
     \/ \E r \in Readers : Lose(r) \/ Leave(r)
     \/ \E r \in Readers, t \in Topics : Open(r, t) \/ Close(r, t) \/ HandOver(r, t)

Spec == Init /\ [][Next]_box
=============================================================================
