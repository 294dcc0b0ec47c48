------------------------------ MODULE MCCheckpoint ------------------------------
(***************************************************************************)
(* Instances of Checkpoint for TLC: each mode with a number of checkpoints *)
(* to keep, with and without protected ones.                               *)
(***************************************************************************)
EXTENDS Checkpoint, Integers, TLC

Setting(m, n, f) == [mode |-> m, num |-> n, freq |-> f, merge |-> n = 1]
AllSettings ==
  {Setting("ALL", 1, 0), Setting("ALL", 2, 2), Setting("ALL", 0, 0), Setting("WALLTIME_REGULAR", -1, 0)}
  \cup {Setting(m, 1, 2) : m \in {"WALLTIME_EXPLICIT", "PHYSTIME_REGULAR", "PHYSTIME_EXPLICIT"}}
NoFrequency == {Setting("ALL", 1, 0)}

Symmetry == Permutations(Workers)
=============================================================================
