----------------------------- MODULE MCEventService -----------------------------
(***************************************************************************)
(* An instance of EventService for TLC: a careful component that listens   *)
(* to one topic and publishes, and one that is careless with two topics.   *)
(***************************************************************************)
EXTENDS EventService, TLC

CONSTANTS c1, c2, t1, t2

Habits == [c \in {c1, c2} |->
  IF c = c1 THEN {<<"subscribe", t1>>, <<"publish", t1>>}
            ELSE {<<"subscribe", t1>>, <<"unsubscribe", t1>>, <<"subscribe", t2>>}]

Pendings == [x \in {t1, t2} |-> IF x = t1 THEN 2 ELSE 1]

(* Contents of events are not looked at. *)
Symmetry == Permutations(Events)
=============================================================================
