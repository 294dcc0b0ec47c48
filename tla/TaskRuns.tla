-------------------------------- MODULE TaskRuns --------------------------------
(***************************************************************************)
(* What a task pool promises of each task that is added to it: it is       *)
(* started once, and when it has ended its status is reported once.  Only  *)
(* the removal of the pool gives tasks up, all that are unreported.        *)
(***************************************************************************)
CONSTANT Tasks

VARIABLE stage   \* stage[t]: how far task t has come

Stages == {"none", "queued", "running", "ended", "reported", "dropped"}

Init == stage = [t \in Tasks |-> "none"]

(* The tasks of S go on from one stage to the next. *)
Move(S, from, to) ==
  /\ \A t \in S : stage[t] = from
  /\ stage' = [t \in Tasks |-> IF t \in S THEN to ELSE stage[t]]

DropAll ==
  stage' = [t \in Tasks |-> IF stage[t] \in {"none", "reported"} THEN stage[t] ELSE "dropped"]

Next ==
  \/ DropAll
  \/ \E S \in SUBSET Tasks :
        \/ Move(S, "none", "queued") \/ Move(S, "queued", "running")
        \/ Move(S, "running", "ended") \/ Move(S, "ended", "reported")

Spec == Init /\ [][Next]_stage
=============================================================================
