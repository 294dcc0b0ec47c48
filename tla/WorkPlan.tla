------------------------------- MODULE WorkPlan -------------------------------
(***************************************************************************)
(* What a simulated run of the Resource Usage Simulator promises about its *)
(* work: every simulation does the steps of its plan one after the other,  *)
(* saves points that it has reached, and loses work only by falling back   *)
(* to the point it saved last.  It ends when the plan is done, or the      *)
(* whole run gives up.                                                     *)
(***************************************************************************)
EXTENDS Naturals

CONSTANTS Simulations, Total    \* Total[s]: the steps of s's plan, over all phases

VARIABLES
  done,     \* done[s]: steps of the plan that s has behind it
  saved,    \* saved[s]: where s would start again
  over      \* the simulations that ended well

vars == <<done, saved, over>>

Init ==
  /\ done = [s \in Simulations |-> 0]
  /\ saved = [s \in Simulations |-> 0]
  /\ over = {}

Advance(s) ==
  /\ done[s] < Total[s]
  /\ done' = [done EXCEPT ![s] = @ + 1]
  /\ UNCHANGED <<saved, over>>

Save(s) ==
  /\ \E n \in saved[s] .. done[s] + 1 :
       /\ n <= Total[s]
       /\ saved' = [saved EXCEPT ![s] = n]
  /\ UNCHANGED <<done, over>>

FallBack(s) ==
  /\ saved[s] <= done[s]
  /\ done' = [done EXCEPT ![s] = saved[s]]
  /\ UNCHANGED <<saved, over>>

Finish(s) ==
  /\ s \notin over
  /\ done[s] = Total[s]
  /\ over' = over \cup {s}
  /\ UNCHANGED <<done, saved>>

Next == \E s \in Simulations : Advance(s) \/ Save(s) \/ FallBack(s) \/ Finish(s)

Spec == Init /\ [][Next]_vars
=============================================================================
