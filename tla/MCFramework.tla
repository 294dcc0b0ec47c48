------------------------------ MODULE MCFramework ------------------------------
(***************************************************************************)
(* Instances of Framework for TLC: who is in which simulation and what the *)
(* programs of the components may do.  A driver calls its workers, workers *)
(* launch tasks, and one driver may create a further simulation.           *)
(***************************************************************************)
EXTENDS Framework

CONSTANTS fwk, s1, s2, s3, d1, w1, x1, d2, w2, d3

F == <<fwk>>
NoCreates == {}

(* One simulation: a driver with two workers. *)
OneSims == {s1}
OneComps == {d1, w1, x1}
OneSimOf == [c \in OneComps |-> s1]
OneVisible == [s \in OneSims |-> <<d1>>]
OneList == <<s1>>
OneCalls == {<<d1, w1>>, <<d1, x1>>}
OneTasks == [c \in OneComps |-> CASE c = d1 -> {} [] c = w1 -> {1} [] c = x1 -> {2}]
OneFails == {w1}
OneBadCommand == {w1}
OneBadBinary == {x1}
OneRequests == [c \in OneComps |-> IF c = d1 THEN 2 ELSE 1]

(* A driver that launches a task of its own beside its one worker. *)
PairComps == {d1, w1}
PairSimOf == [c \in PairComps |-> s1]
PairCalls == {<<d1, w1>>}
PairTasks == [c \in PairComps |-> {1}]
PairFails == {w1, fwk}
PairBadLaunch == {w1}
NoBadLaunch == {}
PairRequests == [c \in PairComps |-> IF c = d1 THEN 2 ELSE 1]

(* Two simulations, with a driver and a worker each. *)
TwoSims == {s1, s2}
TwoComps == {d1, w1, d2, w2}
TwoSimOf == [c \in TwoComps |-> IF c \in {d1, w1} THEN s1 ELSE s2]
TwoVisible == [s \in TwoSims |-> IF s = s1 THEN <<d1>> ELSE <<d2>>]
TwoList == <<s1, s2>>
TwoCalls == {<<d1, w1>>}
TwoTasks == [c \in TwoComps |-> IF c = w1 THEN {1} ELSE {}]
FirstFails == {d1}
TwoRequests == [c \in TwoComps |-> IF c \in {d1, w1} THEN 1 ELSE 0]

(* A driver creates a sub-workflow, whose component it calls, and a further *)
(* simulation, which has an Init component; both drivers may fail.          *)
DynSims == {s1, s2, s3}
DynComps == {d1, w1, x1, d3}
DynSimOf == [c \in DynComps |-> CASE c = w1 -> s2 [] c = d3 -> s3 [] OTHER -> s1]
DynVisible == [s \in DynSims |-> CASE s = s1 -> <<x1, d1>> [] s = s2 -> <<w1>> [] s = s3 -> <<d3>>]
DynCalls == {<<d1, w1>>}
DynCreates == {<<d1, s2, TRUE>>, <<d1, s3, FALSE>>}
DynTasks == [c \in DynComps |-> {}]
DynFails == {d1, d3}
DynRequests == [c \in DynComps |-> IF c = d1 THEN 3 ELSE IF c = w1 THEN 1 ELSE 0]
=============================================================================
