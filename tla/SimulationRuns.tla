---------------------------- MODULE SimulationRuns ----------------------------
(***************************************************************************)
(* What Framework.run promises about the simulations it is given, with the *)
(* queues, managers and component processes left out.                      *)
(*                                                                         *)
(* A line is the fixed list of method invocations of a simulation (init,   *)
(* step, finalize of its Init component, then of its Driver), issued one   *)
(* at a time and in order.  A line is given up at its first failing        *)
(* invocation; it is over, with the verdict "ok", only after its last one  *)
(* has been issued and has returned.                                       *)
(* Module Framework implements this specification.                         *)
(***************************************************************************)
EXTENDS Integers, Sequences

CONSTANTS
  Lines,         \* simulations
  Line,          \* Line[k]: the invocations of k, in order
  NoInvocation   \* no invocation is in flight

VARIABLES
  issued,     \* issued[k]: how many invocations of k have been issued, while k is active
  flying,     \* flying[k]: the one that has not returned yet
  verdict     \* "new", "active", "ok", "error" or "aborted"

runVars == <<issued, flying, verdict>>

Active == {k \in Lines : verdict[k] = "active"}

Init == /\ issued = [k \in Lines |-> 0]
        /\ flying = [k \in Lines |-> NoInvocation]
        /\ verdict = [k \in Lines |-> "new"]

(* The first invocation of every line in K is issued. *)
Begin(K) ==
  /\ K # {} /\ \A k \in K : verdict[k] = "new"
  /\ issued' = [k \in Lines |-> IF k \in K THEN 1 ELSE issued[k]]
  /\ flying' = [k \in Lines |-> IF k \in K THEN Line[k][1] ELSE flying[k]]
  /\ verdict' = [k \in Lines |-> IF k \in K THEN "active" ELSE verdict[k]]

(* The invocation in flight has succeeded and the next one is issued. *)
Advance(k) ==
  /\ verdict[k] = "active" /\ issued[k] < Len(Line[k])
  /\ issued' = [issued EXCEPT ![k] = @ + 1]
  /\ flying' = [flying EXCEPT ![k] = Line[k][issued'[k]]]
  /\ UNCHANGED verdict

Over(k, how) ==
  /\ verdict[k] = "active"
  /\ verdict' = [verdict EXCEPT ![k] = how]
  /\ issued' = [issued EXCEPT ![k] = 0]
  /\ flying' = [flying EXCEPT ![k] = NoInvocation]

(* The last invocation has succeeded. *)
Complete(k) == issued[k] = Len(Line[k]) /\ Over(k, "ok")

(* The invocation in flight has failed: the rest of the line is dropped. *)
GiveUp(k) == Over(k, "error")

(* The framework itself gives up: every line in flight is lost. *)
Abort ==
  /\ Active # {}
  /\ verdict' = [k \in Lines |-> IF k \in Active THEN "aborted" ELSE verdict[k]]
  /\ UNCHANGED <<issued, flying>>

Next ==
  \/ \E K \in SUBSET Lines : Begin(K)
  \/ \E k \in Lines : Advance(k) \/ Complete(k) \/ GiveUp(k)
  \/ Abort

Spec == Init /\ [][Next]_runVars
=============================================================================
