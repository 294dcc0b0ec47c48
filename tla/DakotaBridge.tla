----------------------------- MODULE DakotaBridge -----------------------------
(***************************************************************************)
(* Dakota sweeps: the launcher (ips_dakota_dynamic.py), one client process *)
(* per evaluation (ips_dakota_client.py), and the Driver of the simulation *)
(* that serves them (dakota_bridge.py), over connections to one socket.    *)
(*                                                                         *)
(* The driver creates one simulation per evaluation and answers the client *)
(* when the IPS_END event of that simulation reaches it.  Dakota itself is *)
(* external: it starts clients while it runs, and ends when they have      *)
(* ended, or earlier when one of them failed.                              *)
(***************************************************************************)
EXTENDS Naturals, Sequences, FiniteSets

CONSTANTS Evaluations, FailedConnections

Launcher == {"START", "END"}        \* the launcher's two messages

VARIABLES
  dinbox,     \* events of _IPS_DYNAMIC_SIMULATION the driver has not fetched
  events,     \* events_received, still to be looked at
  driver,     \* where step() of the driver is
  ready,      \* select has found a connection
  backlog,    \* connections to the socket that are not accepted, by caller
  cache,      \* sim_cache: the instance and the client of a connection
  idx,        \* instances created
  failed,     \* failed_connections
  client,     \* client[e]: what the process of evaluation e is doing
  answer,     \* answer[e]: the result it has read, and of which instance
  launcher    \* what the launcher is doing

dakotaVars == <<dinbox, events, driver, ready, backlog, cache, idx, failed, client, answer, launcher>>
serverVars == <<dinbox, events, driver, ready, cache, idx, failed>>

NoAnswer == [result |-> "none", instance |-> 0]

DakotaInit ==
  /\ dinbox = <<>> /\ events = <<>> /\ driver = "init" /\ ready = FALSE
  /\ backlog = <<>> /\ cache = {} /\ idx = 0 /\ failed = 0
  /\ client = [e \in Evaluations |-> "idle"]
  /\ answer = [e \in Evaluations |-> NoAnswer]
  /\ launcher = "start"

Listening == driver \in {"select", "events", "accept"}
Gone(e) == client[e] \in {"lost", "dead"}   \* died before, after its parameters

-----------------------------------------------------------------------------
(* The launcher: it connects until the driver listens or it has tried too  *)
(* often, waits for the answer, runs Dakota, and says END, once.           *)

Call(message, next) ==
  /\ Listening
  /\ backlog' = Append(backlog, message)
  /\ launcher' = next
  /\ UNCHANGED <<serverVars, client, answer>>

SayStart == launcher = "start" /\ Call("START", "wait_start")
SayEnd   == launcher = "end" /\ Call("END", "wait_end")

(* Too many failed attempts, or no answer: the framework is killed.        *)
NotServed ==
  \/ launcher \in {"start", "end"} /\ ~Listening
  \/ launcher \in {"wait_start", "wait_end"} /\ driver = "gone"

LauncherFails ==
  /\ NotServed
  /\ launcher' = "failed" /\ driver' = "gone" /\ backlog' = <<>> /\ cache' = {}
  /\ UNCHANGED <<dinbox, events, ready, idx, failed, client, answer>>

Over(e) == client[e] \in {"returned", "failed"} \/ Gone(e)

DakotaEnds(sweep) ==
  /\ launcher = "dakota"
  /\ \/ \A e \in sweep : Over(e)
     \/ \E e \in sweep : client[e] = "failed" \/ Gone(e) \/ answer[e].result = "FAIL"
  /\ launcher' = "end"
  /\ UNCHANGED <<serverVars, backlog, client, answer>>

-----------------------------------------------------------------------------
(* The client of an evaluation.                                            *)

Connect(e) ==
  /\ launcher = "dakota" /\ client[e] = "idle" /\ Listening
  /\ client' = [client EXCEPT ![e] = "connected"]
  /\ backlog' = Append(backlog, e)
  /\ UNCHANGED <<serverVars, answer, launcher>>

SendParameters(e) ==
  /\ client[e] = "connected"
  /\ client' = [client EXCEPT ![e] = "waiting"]
  /\ UNCHANGED <<serverVars, backlog, answer, launcher>>

(* Nobody listens any more, or the driver that had the connection is gone. *)
ClientFails(e) ==
  /\ \/ launcher = "dakota" /\ client[e] = "idle" /\ ~Listening
     \/ client[e] \in {"connected", "waiting"} /\ driver = "gone" /\ answer[e] = NoAnswer
  /\ client' = [client EXCEPT ![e] = "failed"]
  /\ UNCHANGED <<serverVars, backlog, answer, launcher>>

ClientReturns(e) ==
  /\ client[e] = "waiting" /\ answer[e] # NoAnswer
  /\ client' = [client EXCEPT ![e] = "returned"]
  /\ UNCHANGED <<serverVars, backlog, answer, launcher>>

ClientDies(e) ==
  /\ client[e] \in {"connected", "waiting"}
  /\ client' = [client EXCEPT ![e] = IF @ = "waiting" THEN "dead" ELSE "lost"]
  /\ UNCHANGED <<serverVars, backlog, answer, launcher>>

-----------------------------------------------------------------------------
(* The driver: select, then the events, then a connection if select found  *)
(* one.  The driver leaves its loop on END, when it has been idle for long *)
(* enough, and with an exception ("broken").                               *)

Listen ==
  /\ driver = "init"
  /\ driver' = "select"
  /\ UNCHANGED <<dinbox, events, ready, backlog, cache, idx, failed, client, answer, launcher>>

Select ==
  /\ driver = "select"
  /\ ready' = (backlog # <<>>)
  /\ driver' = "events"
  /\ events' = dinbox /\ dinbox' = <<>>     \* process_events
  /\ UNCHANGED <<backlog, cache, idx, failed, client, answer, launcher>>

AnswerToAny(event) == {c \in cache : event.type = "IPS_END"}
AnswerTo(event) == {c \in cache : event.type = "IPS_END" /\ c.instance = event.sim}

(* The RESULT file is the simulation's own, or is overwritten with FAIL.   *)
Result(event) == [result |-> IF event.ok THEN "RESULT" ELSE "FAIL", instance |-> event.sim]

HandleEvent ==
  /\ driver = "events" /\ events # <<>>
  /\ LET to == AnswerTo(Head(events)) IN
       \/ /\ \A c \in to : ~Gone(c.caller)
          /\ answer' = [e \in Evaluations |->
                         IF \E c \in to : c.caller = e THEN Result(Head(events)) ELSE answer[e]]
          /\ cache' = cache \ to /\ driver' = driver
       \/ /\ \E c \in to : Gone(c.caller)         \* conn.send raises
          /\ driver' = "broken" /\ UNCHANGED <<answer, cache>>
  /\ events' = Tail(events)
  /\ UNCHANGED <<dinbox, ready, backlog, idx, failed, client, launcher>>

EventsHandled == driver = "events" /\ events = <<>>

KeepWaiting ==
  /\ EventsHandled /\ ~ready
  /\ driver' = "select"
  /\ UNCHANGED <<dinbox, events, ready, backlog, cache, idx, failed, client, answer, launcher>>

IdleAnyway == TRUE
Idle == cache = {}

TimeOut ==
  /\ EventsHandled /\ ~ready /\ Idle
  /\ driver' = "done"
  /\ UNCHANGED <<dinbox, events, ready, backlog, cache, idx, failed, client, answer, launcher>>

Accept ==
  /\ EventsHandled /\ ready
  /\ driver' = "accept"
  /\ UNCHANGED <<dinbox, events, ready, backlog, cache, idx, failed, client, answer, launcher>>

Caller == Head(backlog)
Accepting(next) == driver = "accept" /\ backlog' = Tail(backlog) /\ driver' = next

(* A client that went away before it sent anything: recv raises.           *)
RecvFails ==
  /\ driver = "accept" /\ Caller \notin Launcher /\ client[Caller] = "lost"
  /\ IF failed > FailedConnections THEN Accepting("broken") /\ failed' = failed
     ELSE Accepting("select") /\ failed' = failed + 1
  /\ UNCHANGED <<dinbox, events, ready, cache, idx, client, answer, launcher>>

AnswerStart ==
  /\ Accepting("select") /\ Caller = "START"
  /\ launcher' = "dakota"
  /\ UNCHANGED <<dinbox, events, ready, cache, idx, failed, client, answer>>

AnswerEnd ==
  /\ Accepting("done") /\ Caller = "END"
  /\ launcher' = "returned"
  /\ UNCHANGED <<dinbox, events, ready, cache, idx, failed, client, answer>>

(* The parameters have arrived: the connection is remembered under the     *)
(* name of the new instance.  dinbox is left to create_simulation.         *)
Register(created) ==
  /\ driver = "accept" /\ Caller \notin Launcher /\ client[Caller] \in {"waiting", "dead"}
  /\ Accepting(IF created THEN "select" ELSE "broken")
  /\ idx' = idx + 1
  /\ cache' = cache \cup {[instance |-> idx + 1, caller |-> Caller]}
  /\ UNCHANGED <<events, ready, failed, client, answer, launcher>>

(* The simulation of the bridge ends, and its process with it.             *)
DriverGone ==
  /\ driver \in {"done", "broken"}
  /\ driver' = "gone" /\ backlog' = <<>> /\ cache' = {}
  /\ UNCHANGED <<dinbox, events, ready, idx, failed, client, answer, launcher>>
=============================================================================
