---------------------------- MODULE UsageSimulator ----------------------------
(***************************************************************************)
(* The Resource Usage Simulator (utils/RUS): simulations of several phases *)
(* and steps, their components, the nodes they share, checkpoints, and the *)
(* resubmission of a run that can no longer go on.                         *)
(*                                                                         *)
(* One turn of the main loop runs what is to run (Run), moves the clock to *)
(* the next end of a task or resubmits (Elapse, Resubmit, GiveUp) and lets *)
(* every simulation catch up (the actions that end in Return).  Components *)
(* and overheads are items <<simulation, name>>; a configuration without   *)
(* phases is one phase.  The usage statistics are left out.                *)
(***************************************************************************)
EXTENDS Integers, Sequences, FiniteSets, SequencesExt

CONSTANTS
  Simulations,     \* 1 .. n, in the order of the configuration
  Phases,          \* Phases[s]: the phases of s, each [nsteps, comps]
  NodesFor,        \* NodesFor[c]: the nodes that component c needs
  DependsOn,       \* DependsOn[c]: components of the same phase
  RunTimes,        \* RunTimes[c]: how long a task or overhead may take
  Checkpoints,     \* Checkpoints[s]: [on, clock, values, interval]
  AllocationSizes, \* how many nodes the resource file may give
  ResubmitOn,      \* the flags of the command line
  FailuresOn,
  ResubmissionThreshold

Overheads == {"startup", "shutdown", "resubmit", "checkpoint"}
Never == -1        \* next_ckpt is None

VARIABLES
  size,       \* the nodes of the allocation, allocation_size
  available,  \* available["nodes"]
  allocated,  \* allocated["nodes"]
  active,     \* the pairs of an item and its nodes
  tasks,      \* tasks[i]: [state, ends, readyFor, using] of item i
  sim,        \* sim[s]: the attributes of a simulation object
  sims,       \* the simulations that are not done, in order
  toRun,      \* to_run
  clock,      \* fwk_global_time
  pc,         \* where the main loop is: "run", "sync" or "end"
  at,         \* the position of the loop over toRun, or over sims
  status

books == <<available, allocated, active>>
vars == <<size, books, tasks, sim, sims, toRun, clock, pc, at, status>>

Team(s, p) == Phases[s][p].comps
Components(s) == UNION {ToSet(Team(s, p)) : p \in DOMAIN Phases[s]}
Items == UNION {{s} \X (Components(s) \cup Overheads) : s \in Simulations}
Needed(i) == IF i[2] \in Overheads THEN 0 ELSE NodesFor[i[2]]
Named(s, names) == [k \in DOMAIN names |-> <<s, names[k]>>]
Steps(s, p) == SumFunctionOnSet([q \in 1 .. p |-> Phases[s][q].nsteps], 1 .. p)
AllSteps(s) == Steps(s, Len(Phases[s]))

Running(i) == tasks[i].state = "running"
DueLater(i) == Running(i) /\ tasks[i].ends < clock
Due(i) == Running(i) /\ tasks[i].ends <= clock

-----------------------------------------------------------------------------
(* Every simulation is set up with its startup overhead as all it has to   *)
(* run, and go() takes what is ready from each.                            *)

FirstCheckpoint(c) ==
  CASE ~c.on -> Never
    [] c.on /\ c.values # <<>> -> Head(c.values)
    [] OTHER -> c.interval

NewSim(s) ==
  [state |-> "startup", phase |-> 0, step |-> 1, comps |-> <<"startup">>,
   saved |-> [phase |-> 0, step |-> 0, comps |-> <<>>],
   again |-> [phase |-> 0, step |-> 0],
   next |-> FirstCheckpoint(Checkpoints[s]),
   values |-> IF Checkpoints[s].values = <<>> THEN <<>> ELSE Tail(Checkpoints[s].values),
   resubmissions |-> 0, totalSteps |-> 0]

Init ==
  /\ size \in AllocationSizes
  /\ available = size /\ allocated = 0 /\ active = {}
  /\ tasks = [i \in Items |->
               [state |-> IF i[2] = "startup" THEN "ready" ELSE "not_done",
                ends |-> 0, readyFor |-> 1, using |-> 0]]
  /\ sim = [s \in Simulations |-> NewSim(s)]
  /\ sims = [s \in Simulations |-> s]
  /\ toRun = [s \in Simulations |-> <<s, "startup">>]
  /\ clock = 0 /\ pc = "run" /\ at = 1 /\ status = "Success"

-----------------------------------------------------------------------------
(* component.run and overhead.run on the next item of to_run.  A component *)
(* that gets no nodes stays in to_run.                                     *)

Start(i) ==
  \E t \in RunTimes[i[2]] :
    tasks' = [tasks EXCEPT ![i].state = "running", ![i].ends = clock + t, ![i].using = Needed(i)]

GetAllocation(i) ==
  /\ available >= Needed(i)
  /\ available' = available - Needed(i)
  /\ allocated' = allocated + Needed(i)
  /\ active' = active \cup {<<i, Needed(i)>>}

Run ==
  /\ pc = "run" /\ at <= Len(toRun)
  /\ LET i == toRun[at] IN
       \/ Needed(i) = 0 /\ Start(i) /\ UNCHANGED books
       \/ Needed(i) > 0 /\ GetAllocation(i) /\ Start(i)
       \/ /\ Needed(i) > available
          /\ tasks' = [tasks EXCEPT ![i].state = "waiting_on_resources"]
          /\ UNCHANGED books
  /\ at' = at + 1
  /\ UNCHANGED <<size, sim, sims, toRun, clock, pc, status>>

-----------------------------------------------------------------------------
(* The rest of the turn, once everything was tried.  get_failed_task names *)
(* a variable that does not exist, so a node failure ends the program.     *)

InProgress == {i \in Items : i[1] \in ToSet(sims) /\ Running(i)}
AllTried == pc = "run" /\ at > Len(toRun)
AllToRun == toRun
StillToRun == SelectSeq(toRun, LAMBDA i : ~Running(i))

Elapse ==
  /\ AllTried /\ InProgress # {}
  /\ clock' = Min({tasks[i].ends : i \in InProgress})
  /\ toRun' = StillToRun
  /\ pc' = "sync" /\ at' = 1
  /\ UNCHANGED <<size, books, tasks, sim, sims, status>>

NodeFailure ==
  /\ AllTried /\ InProgress # {} /\ FailuresOn
  /\ toRun' = StillToRun
  /\ pc' = "end" /\ status' = "raised"
  /\ UNCHANGED <<size, books, tasks, sim, sims, clock, at>>

(* Nothing runs although there are simulations left: every one is set up   *)
(* to be restarted in a new allocation, or the run has failed.             *)
TooManyResubmissions ==
  \E s \in ToSet(sims) : sim[s].resubmissions > ResubmissionThreshold

ResubmitSetup(S) ==
  [S EXCEPT !.again = IF S.state = "work" THEN [phase |-> S.phase, step |-> S.step] ELSE @,
            !.state = "resubmit", !.comps = <<"resubmit">>, !.resubmissions = @ + 1]

Resubmit ==
  /\ AllTried /\ InProgress = {} /\ ResubmitOn /\ ~TooManyResubmissions
  /\ sim' = [s \in Simulations |->
              IF s \in ToSet(sims) THEN ResubmitSetup(sim[s]) ELSE sim[s]]
  /\ tasks' = [i \in Items |->
                IF i[1] \in ToSet(sims) /\ i[2] = "resubmit"
                  THEN [tasks[i] EXCEPT !.state = "ready"] ELSE tasks[i]]
  /\ available' = size /\ allocated' = 0
  /\ toRun' = <<>>
  /\ pc' = "sync" /\ at' = 1
  /\ UNCHANGED <<size, active, sims, clock, status>>

GiveUp ==
  /\ AllTried /\ InProgress = {} /\ (ResubmitOn => TooManyResubmissions)
  /\ pc' = "end" /\ status' = "Failed"
  /\ UNCHANGED <<size, books, tasks, sim, sims, toRun, clock, at>>

-----------------------------------------------------------------------------
(* What sync shares: finishing tasks, get_ready_comps, and the return of   *)
(* what is to run next.  A simulation that is done leaves the list that is *)
(* being walked, so that the one after it is not looked at in this turn.   *)

FinishTasks(T, D) ==
  [i \in Items |->
    IF i \notin D THEN T[i]
    ELSE [T[i] EXCEPT !.state = "done", !.using = 0,
                      !.readyFor = IF i[2] \in Overheads THEN @ ELSE @ + 1]]

ReleaseNotCounted(D) ==
  /\ available' = available + Cardinality({i \in D : tasks[i].using > 0})
  /\ allocated' = allocated - Cardinality({i \in D : tasks[i].using > 0})
  /\ active' = {a \in active : a[1] \notin D}
ReleaseAllocations(D) ==
  LET n == SumFunctionOnSet([i \in D |-> tasks[i].using], D) IN
    /\ available' = available + n
    /\ allocated' = allocated - n
    /\ active' = {a \in active : a[1] \notin D}

SomeParentDone(i, T) ==
  DependsOn[i[2]] # {} => \E p \in DependsOn[i[2]] : T[<<i[1], p>>].state = "done"
ParentsDone(i, T) == \A p \in DependsOn[i[2]] : T[<<i[1], p>>].state = "done"
NewState(i, T) ==
  IF i[2] \in Overheads \/ T[i].state \notin {"not_done", "waiting_on_parents"} THEN T[i].state
  ELSE IF ParentsDone(i, T) THEN "ready" ELSE "waiting_on_parents"

MarkReady(s, names, T) ==
  [i \in Items |-> IF i \in ToSet(Named(s, names)) THEN [T[i] EXCEPT !.state = NewState(i, T)]
                   ELSE T[i]]
GetReady(s, names, T) ==
  SelectSeq(Named(s, names), LAMBDA i : i[2] \in Overheads \/ T[i].state = "ready")

Syncing(s) == pc = "sync" /\ at <= Len(sims) /\ s = sims[at]

Return(items) ==
  /\ toRun' = toRun \o items
  /\ sims' = sims
  /\ at' = at + 1
  /\ UNCHANGED <<size, clock, pc, status>>

(* Return with S as the simulation's attributes, and with what is ready.   *)
Continue(s, S, T) ==
  /\ sim' = [sim EXCEPT ![s] = S]
  /\ tasks' = MarkReady(s, S.comps, T)
  /\ Return(GetReady(s, S.comps, tasks'))

NotDone(s, names, T) ==
  [i \in Items |-> IF i \in ToSet(Named(s, names)) THEN [T[i] EXCEPT !.state = "not_done"]
                   ELSE T[i]]
StartStep(s, S, T) ==
  [i \in Items |->
    IF i \in ToSet(Named(s, S.comps))
      THEN [T[i] EXCEPT !.state = "not_done", !.readyFor = S.step] ELSE T[i]]

-----------------------------------------------------------------------------
(* sync when an overhead of the simulation has ended.                      *)

FinishStartup(s) ==
  /\ Syncing(s) /\ Due(<<s, "startup">>)
  /\ LET team == Team(s, 1) IN
       Continue(s, [sim[s] EXCEPT !.state = "work", !.step = 1, !.phase = 1, !.comps = team,
                                  !.saved = [phase |-> 1, step |-> 1, comps |-> team]],
                NotDone(s, team, FinishTasks(tasks, {<<s, "startup">>})))
  /\ UNCHANGED books

HandOutResubmit(s) ==
  /\ Syncing(s) /\ tasks[<<s, "resubmit">>].state = "ready"
  /\ Return(<<<<s, "resubmit">>>>)
  /\ UNCHANGED <<books, tasks, sim>>

(* resubmit_restart: back to the point that was saved last.                *)
Restored(S) ==
  [S EXCEPT !.state = "rework", !.phase = S.saved.phase, !.step = S.saved.step,
            !.comps = S.saved.comps]

FinishResubmit(s) ==
  /\ Syncing(s) /\ Due(<<s, "resubmit">>)
  /\ LET S == Restored(sim[s]) IN
       Continue(s, S, StartStep(s, S, FinishTasks(tasks, {<<s, "resubmit">>})))
  /\ UNCHANGED books

FinishShutdown(s) ==
  /\ Syncing(s) /\ Due(<<s, "shutdown">>)
  /\ tasks' = FinishTasks(tasks, {<<s, "shutdown">>})
  /\ sims' = RemoveAt(sims, at)
  /\ at' = at + 1
  /\ UNCHANGED <<size, books, sim, toRun, clock, pc, status>>

-----------------------------------------------------------------------------
(* sync otherwise: the components that ended, or the checkpoint, and       *)
(* update_step when there are any.                                         *)

Finished(s) == {i \in {s} \X (ToSet(sim[s].comps) \cup {"checkpoint"}) : Due(i)}
Working(s) ==
  /\ Syncing(s)
  /\ tasks[<<s, "resubmit">>].state # "ready"
  /\ \A o \in Overheads \ {"checkpoint"} : ~Due(<<s, o>>)
After(s) == FinishTasks(tasks, Finished(s))

NothingEnded(s) ==
  /\ Working(s) /\ Finished(s) = {}
  /\ Return(<<>>)
  /\ UNCHANGED <<books, tasks, sim>>

Behind(s) == SelectSeq(sim[s].comps, LAMBDA c : After(s)[<<s, c>>].readyFor < sim[s].step + 1)
SomeEnded(s) == Working(s) /\ Finished(s) # {} /\ ReleaseAllocations(Finished(s))

(* Some component has not done the step yet.  If it were two steps behind, *)
(* update_step would raise and the program stop here.                      *)
StepGoesOn(s) ==
  /\ SomeEnded(s) /\ Behind(s) # <<>>
  /\ After(s)[<<s, Head(Behind(s))>>].readyFor = sim[s].step
  /\ Continue(s, sim[s], After(s))

LastButOneOfPhase(s) == sim[s].step + 1 >= Phases[s][sim[s].phase].nsteps
LastStepOfPhase(s) == sim[s].step + 1 > Phases[s][sim[s].phase].nsteps
LastPhase(s) == sim[s].phase = Len(Phases[s])

CheckpointDue(s) ==
  /\ Checkpoints[s].on /\ sim[s].next # Never
  /\ ~(LastPhase(s) /\ LastStepOfPhase(s))
  /\ sim[s].next <= (IF Checkpoints[s].clock = "phys" THEN sim[s].step ELSE clock)

NextCheckpoint(s, S) ==
  CASE Checkpoints[s].values = <<>> -> [S EXCEPT !.next = @ + Checkpoints[s].interval]
    [] Checkpoints[s].values # <<>> /\ S.values # <<>> ->
         [S EXCEPT !.next = Head(S.values), !.values = Tail(@)]
    [] OTHER -> [S EXCEPT !.next = Never]

(* checkpoint(): the step that has been done is saved, or the phase after  *)
(* the one that was saved last; an IndexError when that was the last one.  *)
SavedNextPhase(s, S) ==
  LET p == S.saved.phase + 1 IN
    [S EXCEPT !.saved = [phase |-> p, step |-> 1, comps |-> Team(s, p)]]
Saved(s, S) ==
  IF ~LastStepOfPhase(s)
    THEN [S EXCEPT !.saved = [phase |-> S.phase, step |-> S.step, comps |-> S.comps]]
    ELSE LET p == S.saved.phase + 1 IN
           [S EXCEPT !.saved = [phase |-> p, step |-> 1, comps |-> Team(s, p)], !.comps = <<>>]

TakeCheckpoint(s) ==
  /\ SomeEnded(s) /\ Behind(s) = <<>> /\ CheckpointDue(s)
  /\ LastStepOfPhase(s) => sim[s].saved.phase < Len(Phases[s])
  /\ sim' = [sim EXCEPT ![s] = Saved(s, NextCheckpoint(s, sim[s]))]
  /\ tasks' = [After(s) EXCEPT ![<<s, "checkpoint">>].state = "ready"]
  /\ Return(<<<<s, "checkpoint">>>>)

(* The step is done: rework ends where the work was left, and a step of    *)
(* the work counts.                                                        *)
ReworkDone(s) ==
  /\ sim[s].state = "rework" /\ sim[s].phase = sim[s].again.phase
  /\ sim[s].step + 1 >= sim[s].again.step
StateNow(s) == IF ReworkDone(s) THEN "work" ELSE sim[s].state

StepDone(s) ==
  [sim[s] EXCEPT !.step = @ + 1, !.state = StateNow(s),
                 !.totalSteps = IF StateNow(s) = "work" THEN @ + 1 ELSE @]

StepEnded(s) == SomeEnded(s) /\ Behind(s) = <<>> /\ ~CheckpointDue(s)

NextStep(s) ==
  /\ StepEnded(s) /\ ~LastStepOfPhase(s)
  /\ Continue(s, StepDone(s), StartStep(s, StepDone(s), After(s)))

(* get_next_phase at the end of a phase, and at the end of the last one.   *)
NextPhase(s) ==
  /\ StepEnded(s) /\ LastStepOfPhase(s) /\ ~LastPhase(s)
  /\ LET p == sim[s].phase + 1
         S == [StepDone(s) EXCEPT !.step = 1, !.phase = p, !.comps = Team(s, p)] IN
       Continue(s, S, StartStep(s, S, After(s)))

BeginShutdown(s) ==
  /\ StepEnded(s) /\ LastStepOfPhase(s) /\ LastPhase(s)
  /\ LET S == [StepDone(s) EXCEPT !.step = 1, !.state = "shutdown", !.comps = <<"shutdown">>] IN
       Continue(s, S, StartStep(s, S, After(s)))

-----------------------------------------------------------------------------
(* The end of a turn.  When all simulations are done, the run has failed   *)
(* after all if one of them counted too few steps.                         *)

NextTurn ==
  /\ pc = "sync" /\ at > Len(sims) /\ sims # <<>>
  /\ pc' = "run" /\ at' = 1
  /\ UNCHANGED <<size, books, tasks, sim, sims, toRun, clock, status>>

Report ==
  /\ pc = "sync" /\ sims = <<>>
  /\ pc' = "end"
  /\ status' = IF \E s \in Simulations : sim[s].totalSteps < AllSteps(s)
                 THEN "Failed" ELSE "Success"
  /\ UNCHANGED <<size, books, tasks, sim, sims, toRun, clock, at>>

Sync(s) ==
  \/ FinishStartup(s) \/ HandOutResubmit(s) \/ FinishResubmit(s) \/ FinishShutdown(s)
  \/ NothingEnded(s) \/ StepGoesOn(s) \/ TakeCheckpoint(s)
  \/ NextStep(s) \/ NextPhase(s) \/ BeginShutdown(s)

Next ==
  \/ Run \/ Elapse \/ NodeFailure \/ Resubmit \/ GiveUp \/ NextTurn \/ Report
  \/ \E s \in Simulations : Sync(s)

(* The main loop is one sequential program, so it always goes on.          *)
Spec == Init /\ [][Next]_vars
FairSpec == Spec /\ WF_vars(Next)

-----------------------------------------------------------------------------
(* Properties.                                                             *)

(* The books of the resource manager agree with what the tasks use: the    *)
(* nodes add up to the allocation, and only running tasks hold some.       *)
NodesAddUp ==
  /\ available >= 0 /\ available + allocated = size
  /\ allocated = SumFunctionOnSet([i \in Items |-> tasks[i].using], Items)
  /\ active = {<<i, tasks[i].using>> : i \in {j \in Items : tasks[j].using > 0}}
  /\ \A i \in Items : tasks[i].using > 0 => Running(i)

(* A component of a step is not started, and does not ask for nodes,       *)
(* before all components it depends on have done that same step.           *)
ParentsComeFirst ==
  \A s \in Simulations : \A c \in Components(s) \cap ToSet(sim[s].comps) :
    tasks[<<s, c>>].state \in {"ready", "running", "waiting_on_resources", "done"} =>
      \A p \in DependsOn[c] :
        /\ tasks[<<s, p>>].state = "done"
        /\ tasks[<<s, p>>].readyFor = sim[s].step + 1

(* No work is lost or done twice: when a turn begins, every item of the    *)
(* current step that is not finished is running, or stands in to_run       *)
(* exactly once, or waits for a parent that has not finished.              *)
NothingForgotten ==
  pc = "run" /\ at = 1 =>
    /\ \A s \in ToSet(sims) : \A i \in {s} \X ToSet(sim[s].comps) :
         \/ Running(i) \/ tasks[i].state = "done"
         \/ i \in ToSet(toRun)
         \/ tasks[i].state = "waiting_on_parents" /\ ~ParentsDone(i, tasks)
    /\ \A k, l \in DOMAIN toRun : toRun[k] = toRun[l] => k = l
    /\ \A k \in DOMAIN toRun : ~Running(toRun[k])

(* The run reports success exactly when every simulation has done all the  *)
(* steps of its phases.                                                    *)
PlanDone(s) == s \notin ToSet(sims) /\ sim[s].state = "shutdown"
StatusIsTrue ==
  pc = "end" => (status = "Success" <=> \A s \in Simulations : PlanDone(s))

(* Seen from its work, every simulation follows its plan: one step after   *)
(* the other, restarts only from a point that it had reached, and an end   *)
(* only after the last step.                                               *)
StepsDone(s) ==
  CASE sim[s].state = "startup" -> 0
    [] sim[s].state = "shutdown" -> AllSteps(s)
    [] OTHER -> Steps(s, sim[s].phase - 1) + sim[s].step - 1
StepsSaved(s) ==
  IF sim[s].saved.phase = 0 THEN 0
  ELSE Steps(s, sim[s].saved.phase - 1) + sim[s].saved.step - 1

Work == INSTANCE WorkPlan WITH
  Total <- [s \in Simulations |-> AllSteps(s)],
  done <- [s \in Simulations |-> StepsDone(s)],
  saved <- [s \in Simulations |-> StepsSaved(s)],
  over <- {s \in Simulations : s \notin ToSet(sims)}
FollowsThePlan == Work!Spec

(* The main loop ends, whatever does not fit in the allocation: it does    *)
(* not wait or resubmit for ever.                                          *)
LoopEnds == <>(pc = "end")
=============================================================================
