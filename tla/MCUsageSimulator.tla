--------------------------- MODULE MCUsageSimulator ---------------------------
(***************************************************************************)
(* An instance of UsageSimulator: two simulations of two phases, one saved *)
(* by the clock after its first step, one by steps at the end of its first *)
(* phase.  Four nodes are enough for both; with three the second gets      *)
(* stuck in its second phase, with two the first does as well.             *)
(***************************************************************************)
EXTENDS UsageSimulator

Names == {"a", "b", "c", "e", "w", "x", "y", "z"}
TwoPlans ==
  <<<<[nsteps |-> 2, comps |-> <<"a", "b">>], [nsteps |-> 2, comps |-> <<"e", "c">>]>>,
    <<[nsteps |-> 2, comps |-> <<"x", "y", "z">>], [nsteps |-> 1, comps |-> <<"w">>]>>>>
TwoNodes == [c \in Names |->
              CASE c = "w" -> 4 [] c = "c" -> 3 [] c \in {"a", "x"} -> 2
                [] c \in {"b", "y"} -> 1 [] OTHER -> 0]
TwoDeps == [c \in Names |->
             CASE c = "c" -> {"e"} [] c = "b" -> {"a"} [] c = "z" -> {"x", "y"} [] OTHER -> {}]
TwoTimes == [c \in Names \cup Overheads |->
              IF c \in {"a", "e"} THEN {1, 3} ELSE IF c \in {"x", "y"} THEN {1, 2} ELSE {1}]
TwoCheckpoints ==
  <<[on |-> TRUE, clock |-> "wall", values |-> <<2>>, interval |-> 0],
    [on |-> TRUE, clock |-> "phys", values |-> <<>>, interval |-> 2]>>
=============================================================================
