------------------------------- MODULE MCBridges -------------------------------
(***************************************************************************)
(* An instance of Bridges: a sweep of two evaluations, whose clients may   *)
(* die, with simulations that may not be created, and a sweep of a single  *)
(* evaluation with a portal that may fail to answer.                       *)
(***************************************************************************)
EXTENDS Bridges

CONSTANTS e1, e2

Both == {e1, e2}
AllSims == 0 .. 2
TwoSites ==
  {[portal |-> TRUE, sweep |-> {e1}, mortal |-> {}, mayFail |-> FALSE, calls |-> 1],
   [portal |-> FALSE, sweep |-> Both, mortal |-> Both, mayFail |-> TRUE, calls |-> 0]}
=============================================================================
