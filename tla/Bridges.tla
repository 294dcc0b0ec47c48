-------------------------------- MODULE Bridges --------------------------------
(***************************************************************************)
(* A Dakota sweep with the portal: the framework publishes what happens to *)
(* simulation 0, whose driver is DakotaBridge, and to the instances that   *)
(* driver creates, on the two topics the bridges have subscribed to        *)
(* (Framework._send_monitor_event, _send_dynamic_sim_event).               *)
(***************************************************************************)
EXTENDS DakotaBridge, PortalBridge

CONSTANTS
  Sites         \* the circumstances: is there a portal, what does Dakota evaluate,
                \* whose clients may die, may the creation of a simulation fail,
                \* how many events has a run between its start and its end

ASSUME BridgesAssumption ==
  /\ IsFiniteSet(Evaluations) /\ Evaluations \cap Launcher = {}
  /\ Sites \subseteq [portal : BOOLEAN, sweep : SUBSET Evaluations,
                       mortal : SUBSET Evaluations, mayFail : BOOLEAN, calls : Nat]
  /\ Sims = 0 .. Cardinality(Evaluations)
  /\ FailedConnections \in Nat /\ TooMany \in Nat

VARIABLES
  runs,       \* runs[s]: the stage of s, how it ended, and whose parameters it has
  site,       \* the circumstances of this behaviour, which stay as they are
  published   \* published[s]: the types of the events about s, in order

frameworkVars == <<runs, site, published>>
vars == <<dakotaVars, portalVars, frameworkVars>>

Unborn == [stage |-> "none", ok |-> TRUE, evaluation |-> {}]

Init ==
  /\ site \in Sites /\ DakotaInit /\ PortalInit(site.portal)
  /\ pinbox = <<[sim |-> 0, type |-> "IPS_START"]>>
  /\ published = [s \in Sims |-> IF s = 0 THEN <<"IPS_START">> ELSE <<>>]
  /\ runs = [s \in Sims |-> IF s = 0 THEN [Unborn EXCEPT !.stage = "running"] ELSE Unborn]

Served == launcher # "failed"      \* the launcher has not killed the framework

Monitor(s, type) ==
  /\ pinbox' = Append(pinbox, [sim |-> s, type |-> type])
  /\ published' = [published EXCEPT ![s] = Append(@, type)]
  /\ UNCHANGED <<batch, simMap, counter, bridge, url, site, childVars>>

DynamicSim(s, type, ok) ==
  dinbox' = IF driver = "gone" THEN dinbox
            ELSE Append(dinbox, [sim |-> s, type |-> type, ok |-> ok])

-----------------------------------------------------------------------------
(* create_simulation, called by the driver: initiate_new_simulation.       *)
CreateSimulation ==
  /\ Register(TRUE)
  /\ runs' = [runs EXCEPT ![idx + 1] =
                [stage |-> "running", ok |-> TRUE, evaluation |-> {Caller}]]
  /\ Monitor(idx + 1, "IPS_START")
  /\ DynamicSim(idx + 1, "IPS_START", TRUE)

CreateFails ==
  /\ site.mayFail /\ Register(FALSE)
  /\ UNCHANGED <<dinbox, portalVars, frameworkVars>>

RunCall(s) ==
  /\ runs[s].stage = "running" /\ Len(published[s]) <= site.calls
  /\ Monitor(s, "IPS_CALL")
  /\ UNCHANGED <<dakotaVars, runs>>

End(s, ok) ==
  /\ runs[s].stage = "running"
  /\ runs' = [runs EXCEPT ![s].stage = "ended", ![s].ok = ok]
  /\ Monitor(s, "IPS_END")

EndRun(s) ==
  /\ \E ok \in BOOLEAN : End(s, ok) /\ DynamicSim(s, "IPS_END", ok)
  /\ UNCHANGED <<events, driver, ready, backlog, cache, idx, failed, client, answer, launcher>>

EndBridgeRun == DriverGone /\ End(0, driver = "done")

-----------------------------------------------------------------------------
Alone(A) == A /\ UNCHANGED <<portalVars, frameworkVars>>

DriverStep ==
  /\ Served
  /\ \/ Alone(Listen) \/ Alone(Select) \/ Alone(HandleEvent) \/ Alone(KeepWaiting)
     \/ Alone(TimeOut) \/ Alone(Accept) \/ Alone(RecvFails)
     \/ Alone(AnswerStart) \/ Alone(AnswerEnd)
     \/ CreateSimulation \/ CreateFails

LauncherStep == Alone(SayStart) \/ Alone(LauncherFails) \/ Alone(DakotaEnds(site.sweep)) \/ Alone(SayEnd)
ClientStep(e) ==
  /\ e \in site.sweep
  /\ \/ Alone(Connect(e)) \/ Alone(SendParameters(e))
     \/ Alone(ClientFails(e)) \/ Alone(ClientReturns(e))
ClientDeath == \E e \in site.mortal : Alone(ClientDies(e))

FrameworkStep ==
  Served /\ (EndBridgeRun \/ \E s \in Sims : RunCall(s) \/ (s # 0 /\ EndRun(s)))

PortalStep == Served /\ BridgeStep /\ UNCHANGED <<dakotaVars, frameworkVars>>
PostStep == Served /\ ChildStep /\ UNCHANGED <<dakotaVars, frameworkVars>>

Next ==
  \/ DriverStep \/ LauncherStep \/ FrameworkStep \/ PortalStep \/ PostStep
  \/ ClientDeath \/ \E e \in Evaluations : ClientStep(e)

Spec == Init /\ [][Next]_vars

(* Processes go on when they can; a simulation ends, a connected client    *)
(* sends, Dakota starts its evaluations.  Clients need not die.            *)
Fairness ==
  /\ WF_vars(DriverStep) /\ WF_vars(LauncherStep)
  /\ WF_vars(PortalStep) /\ WF_vars(PostStep)
  /\ \A e \in Evaluations : WF_vars(ClientStep(e))
  /\ \A s \in Sims \ {0} : WF_vars(Served /\ EndRun(s))
  /\ WF_vars(Served /\ EndBridgeRun)

FairSpec == Spec /\ Fairness
-----------------------------------------------------------------------------
(* What a client is answered is the result of a run with its parameters    *)
(* that has ended, FAIL exactly when that run failed, and no run answers   *)
(* twice (dakota_bridge.py, sim_cache).                                    *)
AnswersAreOwn ==
  \A e \in Evaluations :
    answer[e] # NoAnswer =>
      LET run == runs[answer[e].instance] IN
        /\ run.evaluation = {e} /\ run.stage = "ended"
        /\ answer[e].result = IF run.ok THEN "RESULT" ELSE "FAIL"

(* A client whose parameters the driver has taken is left without answer   *)
(* only when something went wrong: a client died, a run failed or could    *)
(* not be created.  Idle time-outs and END never do that.                  *)
WentWrong ==
  \/ \E e \in Evaluations : Gone(e) \/ answer[e].result = "FAIL"
  \/ \E s \in Sims : runs[s].stage = "ended" /\ ~runs[s].ok
  \/ \E s \in 1 .. idx : runs[s].stage = "none"

Taken(e) == \E s \in Sims : runs[s].evaluation = {e}

NobodyIsAbandoned ==
  \A e \in Evaluations : client[e] = "failed" /\ Taken(e) => WentWrong

(* What the portal gets of a run is in order and in the run's own numbers, *)
(* with gaps only where a post was lost; when the bridge has returned and  *)
(* no post was lost it is everything (PortalBridge.process_event and       *)
(* send_post: the child is joined after it has emptied the pipe).          *)
PortalHearsAll ==
  \A s \in Sims :
    LET got == delivered[s] IN
      /\ \A i \in 1 .. Len(got) :
           /\ got[i].seqnum < Len(published[s])
           /\ got[i].type = published[s][got[i].seqnum + 1]
           /\ i > 1 => got[i].seqnum > got[i - 1].seqnum
      /\ site.portal /\ BridgeReturns /\ ~lost => Len(got) = Len(published[s])

(* The bridge stops monitoring when nothing can be published any more, and *)
(* it never meets an event of a run it does not know (KeyError in step).   *)
MonitoredToTheEnd ==
  /\ bridge # "failed"
  /\ BridgeReturns => pinbox = <<>> /\ \A s \in Sims : runs[s].stage # "running"

(* The sweep comes to an end: nobody waits for ever, whoever dies.         *)
Finished ==
  /\ launcher \in {"returned", "failed"}
  /\ Served => BridgeReturns /\ \A e \in Evaluations : client[e] # "waiting"

SweepEnds == <>Finished
=============================================================================
