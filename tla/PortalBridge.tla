----------------------------- MODULE PortalBridge -----------------------------
(***************************************************************************)
(* The framework component that reports to the web portal (PortalBridge):  *)
(* its step fetches _IPS_MONITOR events until no simulation is left, and   *)
(* hands them over a pipe to a child process (send_post) that posts what   *)
(* it finds in the pipe.  The portal itself is external: a post reaches    *)
(* it, is answered with an error, or finds nobody (after the retries of    *)
(* the HTTP library).  Log files, HTML pages and MPO are left out.         *)
(***************************************************************************)
EXTENDS Naturals, Sequences, Filtering

CONSTANTS
  Sims,
  TooMany       \* fail_count at which the child gives up

VARIABLES
  pinbox,       \* events of _IPS_MONITOR the bridge has not fetched
  batch,        \* fetched events, still to be handled
  simMap,       \* sim_map: the simulations being monitored
  counter,      \* counter[s]: events of s sent so far
  bridge,       \* "polling", "joining" the child, "done", "failed"
  url,          \* portal_url is set
  child,        \* the child process: "none", "up", "ended"
  stop,         \* childProcessStop
  pipe,         \* what the child has not received
  failCount,    \* consecutive posts that found nobody
  gaveUp,       \* the child's last response, not yet read, is -1
  delivered,    \* delivered[s]: what the portal has got of s
  lost          \* some post did not reach the portal

bridgeVars == <<pinbox, batch, simMap, counter, bridge, url>>
childVars == <<child, stop, pipe, failCount, gaveUp, delivered, lost>>
portalVars == <<pinbox, batch, simMap, counter, bridge, url,
                child, stop, pipe, failCount, gaveUp, delivered, lost>>

PortalInit(configured) ==      \* whether there is a PORTAL_URL
  /\ batch = <<>> /\ simMap = {} /\ counter = [s \in Sims |-> 0]
  /\ bridge = "polling" /\ url = configured
  /\ child = "none" /\ stop = FALSE /\ pipe = <<>>
  /\ failCount = 0 /\ gaveUp = FALSE
  /\ delivered = [s \in Sims |-> <<>>] /\ lost = FALSE

-----------------------------------------------------------------------------
(* process_events in step: all that is there, for process_event.           *)
Fetch ==
  /\ bridge = "polling" /\ batch = <<>>
  /\ batch' = pinbox /\ pinbox' = <<>>
  /\ UNCHANGED <<simMap, counter, bridge, url, childVars>>

(* send_event: the first one starts the child; one that has ended cannot   *)
(* be sent to, which is ignored.  The responses that have arrived are read *)
(* after each event.                                                       *)
Send(message) ==
  IF url
    THEN /\ child' = IF child = "none" THEN "up" ELSE child
         /\ pipe' = IF child = "ended" THEN pipe ELSE Append(pipe, message)
         /\ url' = ~gaveUp /\ gaveUp' = FALSE
    ELSE UNCHANGED <<child, pipe, url, gaveUp>>

Watched(event) == IF event.type = "IPS_START" THEN simMap \cup {event.sim} ELSE simMap
KeepsEnded(event) == Watched(event)
Remaining(event) == IF event.type = "IPS_END" THEN Watched(event) \ {event.sim} ELSE Watched(event)

FirstIsOver(sims) == 0 \notin sims
NoMore(sims) == sims = {}

ProcessEvent ==
  /\ bridge \in {"polling", "done"} /\ batch # <<>>
  /\ batch' = Tail(batch)
  /\ LET event == Head(batch) IN
       IF event.sim \in Watched(event)
         THEN /\ Send([sim |-> event.sim, type |-> event.type, seqnum |-> counter[event.sim]])
              /\ counter' = [counter EXCEPT ![event.sim] = @ + 1]
              /\ simMap' = Remaining(event)
              /\ bridge' = IF ~NoMore(Remaining(event)) THEN bridge
                           ELSE IF child' = "none" THEN "done" ELSE "joining"
              /\ stop' = (stop \/ bridge' = "joining")
         ELSE /\ bridge' = "failed"               \* KeyError: step fails
              /\ UNCHANGED <<simMap, counter, url, child, stop, pipe, gaveUp>>
  /\ UNCHANGED <<pinbox, failCount, delivered, lost>>

(* The child has ended: its last responses are read, and step will end.    *)
Join ==
  /\ bridge = "joining" /\ child = "ended"
  /\ bridge' = "done"
  /\ url' = (url /\ ~gaveUp) /\ gaveUp' = FALSE
  /\ UNCHANGED <<pinbox, batch, simMap, counter, child, stop, pipe, failCount, delivered, lost>>

BridgeReturns == bridge = "done" /\ batch = <<>>

-----------------------------------------------------------------------------
(* The child, send_post: one post of all that is in the pipe.              *)

Types == {"IPS_START", "IPS_CALL", "IPS_END"}
Got(s) == Filter(pipe, [sim : {s}, type : Types, seqnum : Nat])

PostReaches ==
  /\ delivered' = [s \in Sims |-> delivered[s] \o Got(s)]
  /\ failCount' = 0
  /\ UNCHANGED <<child, gaveUp, lost>>

PostIsRejected ==
  /\ failCount' = 0 /\ lost' = TRUE
  /\ UNCHANGED <<child, gaveUp, delivered>>

PostFails ==
  /\ failCount' = failCount + 1 /\ lost' = TRUE
  /\ IF failCount' >= TooMany THEN child' = "ended" /\ gaveUp' = TRUE
     ELSE UNCHANGED <<child, gaveUp>>
  /\ UNCHANGED delivered

Post ==
  /\ child = "up" /\ pipe # <<>>
  /\ pipe' = <<>>
  /\ PostReaches \/ PostIsRejected \/ PostFails
  /\ UNCHANGED <<bridgeVars, stop>>

StopAtOnce == TRUE
Drained == pipe = <<>>

ChildStops ==
  /\ child = "up" /\ stop /\ Drained
  /\ child' = "ended"
  /\ UNCHANGED <<bridgeVars, stop, pipe, failCount, gaveUp, delivered, lost>>

BridgeStep == Fetch \/ ProcessEvent \/ Join
ChildStep == Post \/ ChildStops
=============================================================================
