------------------------------- MODULE MCTaskPool -------------------------------
(***************************************************************************)
(* Instances of TaskPool for TLC: tasks of one core and of two, and one    *)
(* that asks for more than there is.                                       *)
(***************************************************************************)
EXTENDS TaskPool

PoolCores == [n \in Names |-> IF n = "huge" THEN 3 ELSE IF n = "large" THEN 2 ELSE 1]
PoolAdds == [n \in Names |-> IF n = "timed" THEN 2 ELSE 1]
=============================================================================
