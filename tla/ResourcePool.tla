------------------------------ MODULE ResourcePool ------------------------------
(***************************************************************************)
(* What a keeper of cores promises to the tasks that use them: a core is   *)
(* lent to one task at a time, a task is lent all its cores at once, and   *)
(* it gives all of them back at once.                                      *)
(***************************************************************************)
CONSTANTS Units, Tasks, Nobody

VARIABLE holder

Init == holder = [u \in Units |-> Nobody]

Lend(t, S) ==
  /\ \A u \in S : holder[u] = Nobody
  /\ \A u \in Units : holder[u] # t
  /\ holder' = [u \in Units |-> IF u \in S THEN t ELSE holder[u]]

TakeBack(t) ==
  holder' = [u \in Units |-> IF holder[u] = t THEN Nobody ELSE holder[u]]

Next == \E t \in Tasks : TakeBack(t) \/ \E S \in SUBSET Units : Lend(t, S)

Spec == Init /\ [][Next]_holder
=============================================================================
