------------------------------- MODULE Checkpoint -------------------------------
(***************************************************************************)
(* Checkpoints and restarts of a simulation: checkpoint_components and     *)
(* _dispatch_checkpoint in the driver, save_restart_files in the workers,  *)
(* the purge of old checkpoints, crashes at any moment, and restarts.      *)
(*                                                                         *)
(* The driver goes through the time loop, 1..MaxStep.  In every step the   *)
(* workers stage the state, compute, and update or merge it (StateFiles);  *)
(* then the driver asks for a checkpoint.  Wall clock times are whole      *)
(* numbers since the start of the run, and advance between two requests.   *)
(* The driver does not save files of its own.                              *)
(***************************************************************************)
EXTENDS StateFiles, Integers, FiniteSets, Sequences, SequencesExt, Filtering

CONSTANTS
  Settings,      \* [mode, num, freq, merge]: MODE, NUM_CHECKPOINT, PROTECT_FREQUENCY
                 \* or 0, and whether the workers merge the state
  Interval,      \* WALLTIME_INTERVAL and PHYSTIME_INTERVAL
  Values,        \* WALLTIME_VALUES and PHYSTIME_VALUES
  MaxStep,       \* bounds the time loop
  MaxWall,       \* bounds the wall clock of a run
  MaxRuns,       \* bounds the restarts
  Habits         \* "once_per_step", see CheckpointComponents

Times == 1..MaxStep
NoTime == 0
Modes == {"ALL", "WALLTIME_REGULAR", "WALLTIME_EXPLICIT", "PHYSTIME_REGULAR", "PHYSTIME_EXPLICIT"}

ASSUME CheckpointAssumption ==
  /\ MaxStep \in Nat \ {0} /\ MaxWall \in Nat /\ MaxRuns \in Nat /\ Interval \in Nat
  /\ Values \subseteq Nat \ {0} /\ NoTime \notin Times /\ Workers # {}
  /\ Settings \subseteq [mode : Modes, num : Int, freq : Nat, merge : BOOLEAN]

VARIABLES
  conf,            \* the settings of the simulation
  runs,            \* how often the simulation has been started
  first, step,     \* start of the time loop of this run, and the current time
  done,            \* workers that have finished the current step
  at,              \* "step", "saving", "purge" or "down"
  outcome          \* of the last checkpoint_components in this step

VARIABLES
  wall,            \* cur_time of the driver's ServicesProxy
  lastWall,        \* last_ckpt_walltime
  lastPhys,        \* last_ckpt_phystime
  newChkpts,       \* new_chkpts
  protected,       \* protected_chkpts
  counter          \* chkpt_counter

VARIABLES
  restart,         \* restart[t]: workers whose files are in SIM_ROOT/restart/t
  waiting,         \* checkpoint calls that have not returned
  failed,          \* one of them has raised
  protect,         \* the argument Protect
  purge            \* purge_candidates

VARIABLES
  made,            \* ghost: times of this run's completed checkpoints
  taken, completed, \* ghosts: [wall, step] of all checkpoints that this run has
                   \* begun, and of those that have succeeded
  promised,        \* ghost: times of this run's checkpoints that are to be kept
  saved            \* ghost: some run has completed a checkpoint

simVars == <<conf, runs, first, step, done>>
driverVars == <<wall, lastWall, lastPhys, newChkpts, protected, counter>>
callVars == <<waiting, failed, protect, purge>>
ghostVars == <<made, taken, completed, promised, saved>>
vars == <<stateVars, simVars, at, outcome, driverVars, restart, callVars, ghostVars>>

Init ==
  /\ StateInit
  /\ conf \in Settings /\ runs = 1
  /\ first = 1 /\ step = 1 /\ done = {}
  /\ at = "step" /\ outcome = "none"
  /\ wall = 0 /\ lastWall = 0 /\ lastPhys = NoTime
  /\ newChkpts = <<>> /\ protected = {} /\ counter = 0
  /\ made = <<>> /\ taken = {} /\ completed = {} /\ promised = {} /\ saved = FALSE
  /\ restart = [t \in Times |-> {}]
  /\ waiting = {} /\ failed = FALSE /\ protect = FALSE /\ purge = <<>>

-----------------------------------------------------------------------------
(* A step of the simulation *)

(* A program whose workers step concurrently merges; one that updates the *)
(* state runs its workers one by one.                                     *)
Stage(w) ==
  /\ at = "step" /\ w \notin done
  /\ conf.merge \/ staged = {}
  /\ StageState(w)
  /\ UNCHANGED <<simVars, at, outcome, driverVars, restart, callVars, ghostVars>>

FinishStep(w) ==
  /\ at = "step"
  /\ IF conf.merge THEN MergeState(w, step) ELSE UpdateState(w, step)
  /\ done' = done \cup {w}
  /\ UNCHANGED <<conf, runs, first, step, at, outcome, driverVars, restart, callVars, ghostVars>>

StepIsDone == at = "step" /\ done = Workers

NextStep ==
  /\ StepIsDone /\ outcome # "none" /\ step < MaxStep
  /\ step' = step + 1 /\ done' = {} /\ outcome' = "none"
  /\ UNCHANGED <<stateVars, conf, runs, first, at, driverVars, restart, callVars, ghostVars>>

-----------------------------------------------------------------------------
(* checkpoint_components *)

(* The origin of PHYSTIME_REGULAR is the first time of the time loop. *)
LastPhys == IF conf.mode = "PHYSTIME_REGULAR" /\ lastPhys = NoTime THEN first ELSE lastPhys

DueAfter(t) ==
  \/ conf.mode = "ALL"
  \/ conf.mode = "WALLTIME_REGULAR" /\ t - lastWall > Interval
  \/ conf.mode = "WALLTIME_EXPLICIT" /\ \E v \in Values : t > v /\ v > lastWall
  \/ conf.mode = "PHYSTIME_REGULAR" /\ step - LastPhys > Interval
  \/ conf.mode = "PHYSTIME_EXPLICIT" /\ \E v \in Values : step > v /\ v > lastPhys
Due(t) ==
  \/ conf.mode = "ALL"
  \/ conf.mode = "WALLTIME_REGULAR" /\ t - lastWall >= Interval
  \/ conf.mode = "WALLTIME_EXPLICIT" /\ \E v \in Values : t >= v /\ v > lastWall
  \/ conf.mode = "PHYSTIME_REGULAR" /\ step - LastPhys >= Interval
  \/ conf.mode = "PHYSTIME_EXPLICIT" /\ \E v \in Values : step >= v /\ v > lastPhys

(* last_ckpt_phystime is None until the first checkpoint, and no number is *)
(* greater than None.                                                      *)
TypeError ==
  /\ conf.mode = "PHYSTIME_EXPLICIT" /\ lastPhys = NoTime
  /\ \E v \in Values : step >= v

(* Habit "once_per_step": no second request in the same step.  The driver *)
(* may go on after an exception.                                          *)
CheckpointComponents(force, prot, t) ==
  /\ StepIsDone
  /\ "once_per_step" \in Habits => outcome = "none"
  /\ t > wall /\ wall' = t
  /\ IF force \/ (conf.num # 0 /\ ~TypeError /\ Due(t))
     THEN /\ lastWall' = t /\ lastPhys' = step
          /\ taken' = taken \cup {[wall |-> t, step |-> step]}
          /\ at' = "saving" /\ waiting' = Workers /\ failed' = FALSE /\ protect' = prot
          /\ UNCHANGED outcome
     ELSE /\ lastPhys' = IF conf.num # 0 THEN LastPhys ELSE lastPhys
          /\ outcome' = IF conf.num # 0 /\ TypeError THEN "error" ELSE "skipped"
          /\ UNCHANGED <<lastWall, taken, at, waiting, failed, protect>>
  /\ UNCHANGED <<stateVars, simVars, newChkpts, protected, counter, restart, purge, made, completed,
                 promised, saved>>

(* A worker's checkpoint method: save_restart_files, or an exception. *)
SaveRestartFiles(w) ==
  /\ at = "saving" /\ w \in waiting
  /\ waiting' = waiting \ {w}
  /\ \/ /\ restart' = IF conf.num = 0 THEN restart ELSE [restart EXCEPT ![step] = @ \cup {w}]
        /\ UNCHANGED failed
     \/ failed' = TRUE /\ UNCHANGED restart
  /\ UNCHANGED <<stateVars, simVars, at, outcome, driverVars, protect, purge, ghostVars>>

Return(how) == at' = "step" /\ outcome' = how

OnDisk(t) == restart[t] # {}
Elements(s) == {s[i] : i \in DOMAIN s}

Present == {t \in Times : OnDisk(t)}

(* Checkpoints of earlier runs go first, then this run's in their order. *)
Prior(listed) == Filter([t \in Times |-> t], Present \ listed)
CandidatesWithProtected(new, prot) == Prior(Elements(new)) \o Filter(new, Present)
CandidatesNewestFirst(new, prot) ==
  Filter(Reverse(new), Present \ prot) \o Prior(Elements(new))
Candidates(new, prot) == Prior(Elements(new)) \o Filter(new, Present \ prot)

(* Without PROTECT_FREQUENCY no checkpoint is listed as protected, not even *)
(* one that was made with Protect=True.                                    *)
Designated(n) == conf.freq # 0 /\ n % conf.freq = 0

CollectCalls ==
  /\ at = "saving" /\ waiting = {}
  /\ IF failed
     THEN /\ Return("error")
          /\ UNCHANGED <<newChkpts, protected, counter, purge, made, completed, promised, saved>>
     ELSE /\ counter' = counter + 1
          /\ completed' = completed \cup {[wall |-> wall, step |-> step]}
          /\ promised' = IF conf.num # 0 /\ (protect \/ Designated(counter'))
                         THEN promised \cup {step} ELSE promised
          /\ made' = IF conf.num = 0 THEN made ELSE Append(made, step)
          /\ saved' = (saved \/ conf.num # 0)
          /\ IF conf.num <= 0
             THEN Return("made") /\ UNCHANGED <<newChkpts, protected, purge>>
             ELSE /\ newChkpts' = Append(newChkpts, step)
                  /\ protected' =
                       IF conf.freq # 0 /\ (protect \/ Designated(counter'))
                       THEN protected \cup {step} ELSE protected
                  /\ purge' = Candidates(newChkpts', protected')
                  /\ at' = "purge" /\ UNCHANGED outcome
  /\ UNCHANGED <<stateVars, simVars, wall, lastWall, lastPhys, restart, waiting, failed, protect,
                 taken>>

(* The oldest candidate is removed; rmtree fails for a directory that is *)
(* no longer there.                                                      *)
SurplusOffByOne == Len(purge) >= conf.num
Surplus == Len(purge) > conf.num

RemoveObsolete ==
  /\ at = "purge" /\ Surplus
  /\ restart' = [restart EXCEPT ![Head(purge)] = {}]
  /\ IF OnDisk(Head(purge))
     THEN purge' = Tail(purge) /\ UNCHANGED <<at, outcome>>
     ELSE purge' = <<>> /\ Return("error")
  /\ UNCHANGED <<stateVars, simVars, driverVars, waiting, failed, protect, ghostVars>>

EndPurge ==
  /\ at = "purge" /\ ~Surplus
  /\ purge' = <<>> /\ Return("made")
  /\ UNCHANGED <<stateVars, simVars, driverVars, restart, waiting, failed, protect, ghostVars>>

-----------------------------------------------------------------------------
(* Crashes and restarts *)

Crash ==
  /\ at # "down"
  /\ at' = "down" /\ outcome' = "none"
  /\ staged' = {} /\ waiting' = {} /\ failed' = FALSE /\ protect' = FALSE /\ purge' = <<>>
  /\ UNCHANGED <<master, copy, simVars, driverVars, restart, ghostVars>>

(* The workers' restart methods get their files, which raises when one is  *)
(* missing; the time loop then starts after the time of the checkpoint.    *)
Complete(t) == restart[t] = Workers

Restart(t) ==
  /\ at = "down" /\ runs < MaxRuns
  /\ Complete(t) /\ t < MaxStep
  /\ runs' = runs + 1
  /\ first' = t + 1 /\ step' = t + 1 /\ done' = {}
  /\ at' = "step"
  /\ wall' = 0 /\ lastWall' = 0 /\ lastPhys' = NoTime
  /\ newChkpts' = <<>> /\ protected' = {} /\ counter' = 0
  /\ made' = <<>> /\ taken' = {} /\ completed' = {} /\ promised' = {}
  /\ UNCHANGED <<stateVars, conf, outcome, restart, callVars, saved>>

Next ==
  \/ \E w \in Workers : Stage(w) \/ FinishStep(w) \/ SaveRestartFiles(w)
  \/ NextStep
  \/ \E force, prot \in BOOLEAN, t \in 1..MaxWall : CheckpointComponents(force, prot, t)
  \/ CollectCalls \/ RemoveObsolete \/ EndPurge
  \/ Crash
  \/ \E t \in Times : Restart(t)

Spec == Init /\ [][Next]_vars

-----------------------------------------------------------------------------
(* Properties *)

(* No contribution to the state is lost, whether workers update the state  *)
(* one by one or merge it concurrently, also after a restart.              *)
ContributionsKept == StepIsDone => master = [w \in Workers |-> step]

(* Once a checkpoint has been completed, in this run or an earlier one,    *)
(* there is a complete one to restart from at any moment: while others are *)
(* being saved or fail, and between any two removals.                      *)
CanRestart == saved => \E t \in Times : Complete(t)

(* "Keep the most recent n checkpoints": they are all there, complete, and *)
(* nothing else is that is not protected.                                  *)
Unprotected == Filter(made, Times \ protected)
MostRecent == {Unprotected[i] : i \in {j \in DOMAIN Unprotected : j > Len(Unprotected) - conf.num}}

KeepsMostRecent ==
  (conf.num > 0 /\ outcome = "made") =>
     /\ \A t \in MostRecent : Complete(t)
     /\ Cardinality(Present \ protected) <= conf.num

(* "If Protect is True, or this checkpoint is designated as a protected    *)
(* checkpoint by the simulation configuration parameters, steps are taken  *)
(* to ensure it remains in the restart directory": as long as the run      *)
(* lasts.                                                                  *)
ProtectIsKept == at # "down" => \A t \in promised : Complete(t)

(* It is kept where PROTECT_FREQUENCY is set: whatever the frequency, and  *)
(* while others are saved, fail or are purged.                             *)
ProtectedRemain == conf.freq # 0 => ProtectIsKept

(* The documentation of checkpoint_components: its interval has passed     *)
(* "since the last successful checkpoint", or a time of the list has come  *)
(* and no checkpoint has been taken since; physics times count from zero.  *)
Documented(t) ==
  CASE conf.mode = "ALL" -> TRUE
    [] conf.mode = "WALLTIME_REGULAR" ->
         t >= Interval /\ \A c \in completed : t - c.wall >= Interval
    [] conf.mode = "WALLTIME_EXPLICIT" ->
         \E v \in Values : t >= v /\ \A c \in completed : c.wall < v
    [] conf.mode = "PHYSTIME_REGULAR" ->
         step >= Interval /\ \A c \in completed : step - c.step >= Interval
    [] conf.mode = "PHYSTIME_EXPLICIT" ->
         \E v \in Values : step >= v /\ \A c \in completed : c.step < v

(* A call that takes one when it is due, and gives an answer.  A due time  *)
(* of an explicit list of physics times may raise an exception instead.    *)
Asked(t) == CheckpointComponents(FALSE, FALSE, t) /\ conf.num # 0 /\ ~TypeError

(* The last checkpoint of this run, if any, has not failed. *)
LastSucceeded == \A c \in taken \ completed : \E d \in completed : d.wall > c.wall

(* checkpoint_components compares each time with the last checkpoint that  *)
(* was begun, and before the first of a run with the start of the time     *)
(* loop: it never takes one before it should, whatever has failed, and     *)
(* takes it as soon as it should unless the last one has failed, or it is  *)
(* the first of a run at regular physics times.                            *)
TakenWhenDue ==
  [][\A t \in 1..MaxWall : Asked(t) =>
       /\ at' = "saving" => Documented(t)
       /\ (LastSucceeded /\ (conf.mode = "PHYSTIME_REGULAR" => taken # {}))
            => (Documented(t) => at' = "saving")]_vars
=============================================================================
