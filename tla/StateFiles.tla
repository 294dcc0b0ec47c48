------------------------------- MODULE StateFiles -------------------------------
(***************************************************************************)
(* The shared state file of a simulation: the master copy in               *)
(* STATE_WORK_DIR, which the DataManager copies and merges, and the copies *)
(* in the working directories of the components.                           *)
(*                                                                         *)
(* A copy is abstracted to the step, for every component, whose values of  *)
(* that component it contains.  The framework serves one request at a      *)
(* time, so each operation is atomic.                                      *)
(***************************************************************************)
EXTENDS Naturals

CONSTANT Workers   \* the components that share the state file

VARIABLES
  master,   \* the copy in STATE_WORK_DIR
  copy,     \* the copies in the working directories
  staged    \* ghost: who has staged the state for its current step

stateVars == <<master, copy, staged>>

StateInit ==
  /\ master = [w \in Workers |-> 0]
  /\ copy = [w \in Workers |-> [v \in Workers |-> 0]]
  /\ staged = {}

StageState(w) ==
  /\ w \notin staged
  /\ copy' = [copy EXCEPT ![w] = master]
  /\ staged' = staged \cup {w}
  /\ UNCHANGED master

(* update_state copies the whole file, with w's own values of this step. *)
UpdateState(w, step) ==
  /\ w \in staged
  /\ master' = [copy[w] EXCEPT ![w] = step]
  /\ copy' = [copy EXCEPT ![w] = master']
  /\ staged' = staged \ {w}

(* merge_current_plasma_state: the partial file holds w's own values only, *)
(* and w's copy is refreshed afterwards.                                   *)
MergeWholeFile(w, step) == [copy[w] EXCEPT ![w] = step]
Merged(w, step) == [master EXCEPT ![w] = step]

MergeState(w, step) ==
  /\ w \in staged
  /\ master' = Merged(w, step)
  /\ copy' = [copy EXCEPT ![w] = master']
  /\ staged' = staged \ {w}
=============================================================================
