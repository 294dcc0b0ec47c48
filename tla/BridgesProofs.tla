----------------------------- MODULE BridgesProofs -----------------------------
(***************************************************************************)
(* Proofs about Bridges for any number of evaluations and in all           *)
(* circumstances: whose clients die, what fails, with and without portal.  *)
(***************************************************************************)
EXTENDS Bridges, CollectionTheorems

LEMMA SimsAreNumbers == Sims \subseteq Nat /\ 0 \in Sims
<1>1. Cardinality(Evaluations) \in Nat
  BY BridgesAssumption, FS_CardinalityType
<1>. QED BY <1>1, BridgesAssumption

-----------------------------------------------------------------------------
(* Types of what the answers are made of. *)
DynamicEvents == [sim : Nat, type : {"IPS_START", "IPS_END"}, ok : BOOLEAN]

SweepType ==
  /\ runs \in [Sims -> [stage : {"none", "running", "ended"}, ok : BOOLEAN,
                        evaluation : SUBSET Evaluations]]
  /\ idx \in Nat
  /\ dinbox \in Seq(DynamicEvents) /\ events \in Seq(DynamicEvents)
  /\ backlog \in Seq(Launcher \cup Evaluations) /\ ready \in BOOLEAN
  /\ cache \subseteq [instance : Nat, caller : Evaluations]
  /\ answer \in [Evaluations -> [result : {"none", "RESULT", "FAIL"}, instance : Nat]]

(* select has seen a connection, and only the driver takes one.            *)
Connected ==
  /\ driver = "accept" => backlog # <<>>
  /\ driver = "events" /\ ready => backlog # <<>>

(* The number of the next instance has not been used. *)
FreshInstance ==
  /\ \A s \in Sims : s > idx => runs[s].stage = "none"
  /\ \A c \in cache : c.instance <= idx

(* An event that tells of an end tells the truth. *)
Truthful(q) ==
  \A i \in DOMAIN q : q[i].type = "IPS_END" =>
    /\ q[i].sim \in Sims
    /\ runs[q[i].sim].stage = "ended" /\ q[i].ok = runs[q[i].sim].ok

(* A connection is remembered with the run that has its parameters.  When  *)
(* create_simulation fails there is none, and the driver leaves its loop.  *)
Serving == {"init", "select", "events", "accept"}
CacheIsRight ==
  driver \in Serving =>
    \A c \in cache : c.instance \in Sims => runs[c.instance].evaluation = {c.caller}

Answered(e) ==
  answer[e] # NoAnswer =>
    /\ answer[e].instance \in Sims
    /\ runs[answer[e].instance].evaluation = {e} /\ runs[answer[e].instance].stage = "ended"
    /\ answer[e].result = IF runs[answer[e].instance].ok THEN "RESULT" ELSE "FAIL"

AnswersInv ==
  /\ SweepType /\ Connected /\ FreshInstance /\ CacheIsRight
  /\ Truthful(dinbox) /\ Truthful(events)
  /\ \A e \in Evaluations : Answered(e)

LEMMA AnswersInitially == Init => AnswersInv
<1>. SUFFICES ASSUME Init PROVE AnswersInv
  OBVIOUS
<1>1. SweepType
  <2>1. Unborn \in [stage : {"none", "running", "ended"}, ok : BOOLEAN,
                     evaluation : SUBSET Evaluations]
        /\ [Unborn EXCEPT !.stage = "running"]
             \in [stage : {"none", "running", "ended"}, ok : BOOLEAN,
                  evaluation : SUBSET Evaluations]
    BY DEF Unborn
  <2>2. NoAnswer \in [result : {"none", "RESULT", "FAIL"}, instance : Nat]
    BY DEF NoAnswer
  <2>3. runs \in [Sims -> [stage : {"none", "running", "ended"}, ok : BOOLEAN,
                           evaluation : SUBSET Evaluations]]
    BY <2>1 DEF Init
  <2>4. answer \in [Evaluations -> [result : {"none", "RESULT", "FAIL"}, instance : Nat]]
    BY <2>2 DEF Init, DakotaInit
  <2>5. <<>> \in Seq(DynamicEvents) /\ <<>> \in Seq(Launcher \cup Evaluations)
    OBVIOUS
  <2>. QED BY <2>3, <2>4, <2>5 DEF Init, DakotaInit, SweepType
<1>2. FreshInstance
  BY SimsAreNumbers DEF Init, DakotaInit, Unborn, FreshInstance
<1>. QED BY <1>1, <1>2 DEF Init, DakotaInit, AnswersInv, Connected, Truthful, CacheIsRight, Answered

-----------------------------------------------------------------------------
(* What a step may do to the parts of the invariant.                       *)

SweepVars == <<runs, idx, dinbox, events, driver, ready, backlog, cache, answer>>

LEMMA Untouched == AnswersInv /\ UNCHANGED SweepVars => AnswersInv'
BY DEF AnswersInv, SweepVars, SweepType, Connected, FreshInstance, Truthful, CacheIsRight, Answered

LEMMA AppendEvent ==
  ASSUME NEW q \in Seq(DynamicEvents), NEW e \in DynamicEvents, NEW i \in DOMAIN Append(q, e)
  PROVE  (i \in DOMAIN q /\ Append(q, e)[i] = q[i]) \/ Append(q, e)[i] = e
OBVIOUS

LEMMA FirstAndRest ==
  ASSUME NEW S, NEW q \in Seq(S), q # <<>>
  PROVE  /\ Head(q) \in S /\ 1 \in DOMAIN q /\ Head(q) = q[1]
         /\ Tail(q) \in Seq(S)
         /\ \A i \in DOMAIN Tail(q) : i + 1 \in DOMAIN q /\ Tail(q)[i] = q[i + 1]
OBVIOUS

(* What the driver does with events: fetch all, drop them, handle the first. *)
EventsMove ==
  /\ dinbox' = dinbox \/ dinbox' = <<>>
  /\ events' = events \/ events' = dinbox \/ (events # <<>> /\ events' = Tail(events))

(* The driver moves on, drops connections, fetches or drops events.        *)
LEMMA DriverMoves ==
  ASSUME AnswersInv, runs' = runs, answer' = answer, idx' = idx,
         cache' \subseteq cache,
         driver' \in Serving => driver \in Serving,
         backlog' \in Seq(Launcher \cup Evaluations), ready' \in BOOLEAN, Connected',
         EventsMove
  PROVE  AnswersInv'
<1>. USE DEF AnswersInv
<1>1. dinbox \in Seq(DynamicEvents) /\ events \in Seq(DynamicEvents)
  BY DEF SweepType
<1>2. dinbox' \in Seq(DynamicEvents) /\ events' \in Seq(DynamicEvents)
  <2>1. <<>> \in Seq(DynamicEvents)
    OBVIOUS
  <2>2. events # <<>> => Tail(events) \in Seq(DynamicEvents)
    BY <1>1, FirstAndRest
  <2>. QED BY <1>1, <2>1, <2>2 DEF EventsMove
<1>3. SweepType'
  BY <1>2 DEF SweepType
<1>4. FreshInstance' /\ (\A e \in Evaluations : Answered(e))'
  BY DEF FreshInstance, Answered
<1>5. Truthful(dinbox)'
  BY DEF Truthful, EventsMove
<1>6. Truthful(events)'
  <2>1. CASE events' = events \/ events' = dinbox
    BY <2>1 DEF Truthful
  <2>2. CASE events # <<>> /\ events' = Tail(events)
    <3>1. \A i \in DOMAIN events' : i + 1 \in DOMAIN events /\ events'[i] = events[i + 1]
      BY <1>1, <2>2, FirstAndRest
    <3>. QED BY <3>1 DEF Truthful
  <2>. QED BY <2>1, <2>2 DEF EventsMove
<1>7. CacheIsRight'
  BY DEF CacheIsRight
<1>. QED BY <1>3, <1>4, <1>5, <1>6, <1>7

-----------------------------------------------------------------------------
(* The steps of driver, launcher and clients.                              *)

LEMMA HandleEventAnswers ==
  ASSUME AnswersInv, HandleEvent, UNCHANGED runs
  PROVE  AnswersInv'
<1>. DEFINE event == Head(events)
            to == AnswerTo(event)
<1>1. /\ driver = "events" /\ events # <<>> /\ events' = Tail(events)
      /\ UNCHANGED <<dinbox, backlog, ready, idx>>
  BY DEF HandleEvent
<1>2. backlog' \in Seq(Launcher \cup Evaluations) /\ ready' \in BOOLEAN
      /\ events \in Seq(DynamicEvents)
  BY <1>1 DEF AnswersInv, SweepType
<1>3. CASE driver' = "broken" /\ UNCHANGED <<answer, cache>>
  <2>1. Connected'
    BY <1>3 DEF Connected
  <2>2. driver' \notin Serving
    BY <1>3 DEF Serving
  <2>. QED BY <1>1, <1>2, <1>3, <2>1, <2>2, DriverMoves DEF EventsMove
<1>4. CASE /\ answer' = [e \in Evaluations |->
                           IF \E c \in to : c.caller = e THEN Result(event) ELSE answer[e]]
           /\ cache' = cache \ to /\ driver' = driver
  <2>. USE DEF AnswersInv
  <2>1. event \in DynamicEvents /\ 1 \in DOMAIN events /\ event = events[1]
        /\ events' \in Seq(DynamicEvents)
        /\ \A i \in DOMAIN events' : i + 1 \in DOMAIN events /\ events'[i] = events[i + 1]
    BY <1>1, <1>2, FirstAndRest
  <2>2. Result(event) \in [result : {"none", "RESULT", "FAIL"}, instance : Nat]
    BY <2>1 DEF Result, DynamicEvents
  <2>3. SweepType'
    BY <1>1, <1>4, <2>1, <2>2 DEF SweepType
  <2>4. ASSUME NEW e \in Evaluations PROVE Answered(e)'
    <3>1. CASE \E c \in to : c.caller = e
      <4>1. PICK c \in to : c.caller = e
        BY <3>1
      <4>2. c \in cache /\ event.type = "IPS_END" /\ c.instance = event.sim
        BY <4>1 DEF AnswerTo
      <4>3. event.sim \in Sims /\ runs[event.sim].stage = "ended" /\ event.ok = runs[event.sim].ok
        BY <2>1, <4>2 DEF Truthful
      <4>4. runs[event.sim].evaluation = {e}
        BY <1>1, <4>1, <4>2, <4>3 DEF CacheIsRight, Serving
      <4>5. answer'[e] = Result(event)
        BY <1>4, <3>1
      <4>. QED BY <4>3, <4>4, <4>5 DEF Answered, Result
    <3>2. CASE ~\E c \in to : c.caller = e
      <4>1. answer'[e] = answer[e]
        BY <1>4, <3>2
      <4>. QED BY <4>1 DEF Answered
    <3>. QED BY <3>1, <3>2
  <2>5. FreshInstance' /\ CacheIsRight' /\ Connected'
    BY <1>1, <1>4 DEF FreshInstance, CacheIsRight, Connected
  <2>6. Truthful(dinbox)' /\ Truthful(events)'
    BY <1>1, <2>1 DEF Truthful
  <2>. QED BY <2>3, <2>4, <2>5, <2>6
<1>. QED BY <1>3, <1>4 DEF HandleEvent

LEMMA DriverAloneAnswers ==
  ASSUME AnswersInv, UNCHANGED runs,
         \/ Listen \/ Select \/ KeepWaiting \/ TimeOut \/ Accept
         \/ RecvFails \/ AnswerStart \/ AnswerEnd
  PROVE  AnswersInv'
<1>1. backlog \in Seq(Launcher \cup Evaluations) /\ ready \in BOOLEAN /\ Connected
  BY DEF AnswersInv, SweepType
<1>2. CASE Listen \/ Select \/ KeepWaiting \/ TimeOut \/ Accept
  <2>1. runs' = runs /\ answer' = answer /\ idx' = idx /\ cache' \subseteq cache
        /\ backlog' \in Seq(Launcher \cup Evaluations) /\ ready' \in BOOLEAN
    BY <1>1, <1>2 DEF Listen, Select, KeepWaiting, TimeOut, Accept, EventsHandled
  <2>2. driver' \in Serving => driver \in Serving
    BY <1>2 DEF Listen, Select, KeepWaiting, TimeOut, Accept, EventsHandled, Serving
  <2>3. Connected'
    BY <1>1, <1>2 DEF Listen, Select, KeepWaiting, TimeOut, Accept, EventsHandled, Connected
  <2>4. EventsMove
    BY <1>2 DEF EventsMove, Listen, Select, KeepWaiting, TimeOut, Accept, EventsHandled
  <2>. QED BY <2>1, <2>2, <2>3, <2>4, DriverMoves
<1>3. CASE RecvFails \/ AnswerStart \/ AnswerEnd
  <2>1. /\ UNCHANGED <<cache, answer, idx, dinbox, events, ready>>
        /\ driver = "accept" /\ driver' \in {"select", "broken", "done"}
        /\ backlog' = Tail(backlog)
    BY <1>3 DEF RecvFails, AnswerStart, AnswerEnd, Accepting
  <2>2. backlog' \in Seq(Launcher \cup Evaluations) /\ Connected'
    BY <1>1, <2>1, FirstAndRest DEF Connected
  <2>3. driver \in Serving
    BY <2>1 DEF Serving
  <2>4. ready' \in BOOLEAN /\ cache' \subseteq cache /\ runs' = runs /\ answer' = answer /\ idx' = idx
    BY <1>1, <2>1
  <2>5. EventsMove
    BY <2>1 DEF EventsMove
  <2>. QED BY <2>2, <2>3, <2>4, <2>5, DriverMoves
<1>. QED BY <1>2, <1>3

(* A connection is closed with the driver, and new ones arrive.            *)
LEMMA OthersAnswers ==
  ASSUME AnswersInv, UNCHANGED runs,
         \/ SayStart \/ SayEnd \/ LauncherFails
         \/ DakotaEnds(site.sweep)
         \/ \E e \in Evaluations : \/ Connect(e) \/ SendParameters(e) \/ ClientFails(e)
                                   \/ ClientReturns(e) \/ ClientDies(e)
  PROVE  AnswersInv'
<1>1. backlog \in Seq(Launcher \cup Evaluations) /\ ready \in BOOLEAN /\ Connected
  BY DEF AnswersInv, SweepType
<1>3. CASE LauncherFails
  <2>1. UNCHANGED <<answer, idx, dinbox, events, ready>> /\ driver' = "gone"
        /\ backlog' = <<>> /\ cache' = {}
    BY <1>3 DEF LauncherFails
  <2>2. backlog' \in Seq(Launcher \cup Evaluations) /\ Connected' /\ driver' \notin Serving
    BY <2>1 DEF Connected, Serving
  <2>3. ready' \in BOOLEAN /\ cache' \subseteq cache /\ runs' = runs /\ answer' = answer /\ idx' = idx
    BY <1>1, <2>1
  <2>4. EventsMove
    BY <2>1 DEF EventsMove
  <2>. QED BY <2>2, <2>3, <2>4, DriverMoves
<1>4. ASSUME NEW c \in Launcher \cup Evaluations, backlog' = Append(backlog, c),
             UNCHANGED <<serverVars, answer>>
      PROVE  AnswersInv'
  <2>1. UNCHANGED <<cache, answer, idx, dinbox, events, ready, driver>>
    BY <1>4 DEF serverVars
  <2>2. backlog' \in Seq(Launcher \cup Evaluations) /\ backlog' # <<>>
    BY <1>1, <1>4
  <2>3. Connected' /\ (driver' \in Serving => driver \in Serving)
    BY <2>1, <2>2 DEF Connected
  <2>4. ready' \in BOOLEAN /\ cache' \subseteq cache /\ runs' = runs /\ answer' = answer /\ idx' = idx
    BY <1>1, <2>1
  <2>5. EventsMove
    BY <2>1 DEF EventsMove
  <2>. QED BY <2>2, <2>3, <2>4, <2>5, DriverMoves
<1>5. CASE SayStart \/ SayEnd
  BY <1>4, <1>5 DEF SayStart, SayEnd, Call, Launcher
<1>6. ASSUME NEW e \in Evaluations, Connect(e) PROVE AnswersInv'
  BY <1>4, <1>6 DEF Connect
<1>7. ASSUME NEW e \in Evaluations,
             SendParameters(e) \/ ClientFails(e) \/ ClientReturns(e) \/ ClientDies(e)
      PROVE  AnswersInv'
  BY <1>7, Untouched
     DEF SendParameters, ClientFails, ClientReturns, ClientDies, serverVars, SweepVars
<1>8. ASSUME DakotaEnds(site.sweep) PROVE AnswersInv'
  BY <1>8, Untouched DEF DakotaEnds, serverVars, SweepVars
<1>. QED BY <1>3, <1>5, <1>6, <1>7, <1>8

-----------------------------------------------------------------------------
(* The steps that create and end runs.                                     *)

RunType == [stage : {"none", "running", "ended"}, ok : BOOLEAN, evaluation : SUBSET Evaluations]

(* Neither changes a run that has ended, on which answers and events rest. *)
LEMMA EndedRunsStay ==
  ASSUME AnswersInv,
         \A s \in Sims : runs[s].stage = "ended" => runs'[s] = runs[s],
         UNCHANGED answer
  PROVE  (\A e \in Evaluations : Answered(e))'
         /\ \A q \in Seq(DynamicEvents) : Truthful(q) =>
              \A i \in DOMAIN q : q[i].type = "IPS_END" =>
                /\ q[i].sim \in Sims
                /\ runs'[q[i].sim].stage = "ended" /\ q[i].ok = runs'[q[i].sim].ok
BY DEF AnswersInv, Answered, Truthful

LEMMA EventAdded ==
  ASSUME AnswersInv,
         \A s \in Sims : runs[s].stage = "ended" => runs'[s] = runs[s],
         UNCHANGED answer, NEW e \in DynamicEvents,
         e.type = "IPS_END" =>
           /\ e.sim \in Sims
           /\ runs'[e.sim].stage = "ended" /\ e.ok = runs'[e.sim].ok,
         dinbox' \in {dinbox, Append(dinbox, e)}, UNCHANGED events
  PROVE  /\ (\A f \in Evaluations : Answered(f))'
         /\ dinbox' \in Seq(DynamicEvents) /\ events' \in Seq(DynamicEvents)
         /\ Truthful(dinbox)' /\ Truthful(events)'
<1>1. dinbox \in Seq(DynamicEvents) /\ events \in Seq(DynamicEvents)
  BY DEF AnswersInv, SweepType
<1>2. dinbox' \in Seq(DynamicEvents) /\ events' \in Seq(DynamicEvents)
  BY <1>1
<1>3. \A q \in Seq(DynamicEvents) : Truthful(q) =>
         \A i \in DOMAIN q : q[i].type = "IPS_END" =>
           /\ q[i].sim \in Sims
           /\ runs'[q[i].sim].stage = "ended" /\ q[i].ok = runs'[q[i].sim].ok
  BY EndedRunsStay
<1>4. Truthful(dinbox) /\ Truthful(events)
  BY DEF AnswersInv
<1>5. Truthful(events)'
  BY <1>1, <1>3, <1>4 DEF Truthful
<1>6. Truthful(dinbox)'
  <2>1. \A i \in DOMAIN dinbox' : (i \in DOMAIN dinbox /\ dinbox'[i] = dinbox[i]) \/ dinbox'[i] = e
    BY <1>1, AppendEvent
  <2>. QED BY <1>1, <1>3, <1>4, <2>1 DEF Truthful
<1>7. (\A f \in Evaluations : Answered(f))'
  BY EndedRunsStay
<1>. QED BY <1>2, <1>5, <1>6, <1>7

LEMMA RegisterAnswers ==
  ASSUME AnswersInv, CreateSimulation \/ CreateFails
  PROVE  AnswersInv'
<1>1. SweepType /\ Connected /\ FreshInstance /\ CacheIsRight
  BY DEF AnswersInv
<1>2. /\ driver = "accept" /\ Caller \notin Launcher
      /\ backlog' = Tail(backlog) /\ driver' \in {"select", "broken"}
      /\ idx' = idx + 1
      /\ cache' = cache \cup {[instance |-> idx + 1, caller |-> Caller]}
      /\ UNCHANGED <<events, ready, answer>>
  BY DEF CreateSimulation, CreateFails, Register, Accepting
<1>3. Caller \in Evaluations /\ backlog' \in Seq(Launcher \cup Evaluations) /\ Connected'
  BY <1>1, <1>2, FirstAndRest DEF Connected, SweepType, Caller
<1>4. idx + 1 \in Nat /\ cache' \subseteq [instance : Nat, caller : Evaluations]
  BY <1>1, <1>2, <1>3 DEF SweepType
<1>5. /\ runs' \in [Sims -> RunType]
      /\ \A s \in Sims : s # idx + 1 => runs'[s] = runs[s]
      /\ driver' \in Serving => CreateSimulation
  <2>1. CASE CreateSimulation
    BY <1>1, <1>3, <2>1 DEF CreateSimulation, SweepType, RunType
  <2>2. CASE CreateFails
    BY <1>1, <2>2 DEF CreateFails, Register, Accepting, Serving, SweepType, RunType, frameworkVars
  <2>. QED BY <2>1, <2>2
<1>6. \A s \in Sims : runs[s].stage = "ended" => runs'[s] = runs[s]
  BY <1>1, <1>4, <1>5, SimsAreNumbers DEF FreshInstance, SweepType
<1>7. FreshInstance'
  <2>1. ASSUME NEW s \in Sims, s > idx' PROVE runs'[s].stage = "none"
    <3>1. s > idx /\ s # idx + 1
      BY <1>1, <1>2, <2>1, SimsAreNumbers DEF SweepType
    <3>. QED BY <1>1, <1>5, <3>1 DEF FreshInstance
  <2>2. ASSUME NEW c \in cache' PROVE c.instance <= idx'
    <3>1. CASE c \in cache
      <4>1. c.instance <= idx /\ c.instance \in Nat /\ idx \in Nat
        BY <1>1, <3>1 DEF FreshInstance, SweepType
      <4>. QED BY <4>1, <1>2
    <3>2. CASE c = [instance |-> idx + 1, caller |-> Caller]
      BY <1>2, <1>4, <3>2
    <3>. QED BY <1>2, <2>2, <3>1, <3>2
  <2>. QED BY <2>1, <2>2 DEF FreshInstance
<1>8. CacheIsRight'
  <2>. SUFFICES ASSUME driver' \in Serving, NEW c \in cache', c.instance \in Sims
                PROVE  runs'[c.instance].evaluation = {c.caller}
    BY DEF CacheIsRight
  <2>1. CreateSimulation /\ driver \in Serving
    BY <1>2, <1>5 DEF Serving
  <2>2. CASE c \in cache
    BY <1>1, <1>5, <2>1, <2>2 DEF FreshInstance, CacheIsRight, SweepType
  <2>3. CASE c = [instance |-> idx + 1, caller |-> Caller]
    BY <1>1, <2>1, <2>3 DEF CreateSimulation, SweepType
  <2>. QED BY <1>2, <2>2, <2>3
<1>9. \E e \in DynamicEvents : e.type = "IPS_START" /\ dinbox' \in {dinbox, Append(dinbox, e)}
  <2>. DEFINE e == [sim |-> idx + 1, type |-> "IPS_START", ok |-> TRUE]
  <2>1. e \in DynamicEvents /\ e.type = "IPS_START"
    BY <1>4 DEF DynamicEvents
  <2>2. dinbox' \in {dinbox, Append(dinbox, e)}
    BY DEF CreateSimulation, CreateFails, DynamicSim
  <2>. QED BY <2>1, <2>2
<1>10. /\ (\A e \in Evaluations : Answered(e))'
       /\ dinbox' \in Seq(DynamicEvents) /\ events' \in Seq(DynamicEvents)
       /\ Truthful(dinbox)' /\ Truthful(events)'
  BY <1>2, <1>6, <1>9, EventAdded
<1>11. SweepType'
  BY <1>1, <1>2, <1>3, <1>4, <1>5, <1>10 DEF SweepType, RunType
<1>. QED BY <1>3, <1>7, <1>8, <1>10, <1>11 DEF AnswersInv

LEMMA EndAnswers ==
  ASSUME AnswersInv, EndBridgeRun \/ \E s \in Sims : EndRun(s)
  PROVE  AnswersInv'
<1>1. SweepType /\ Connected /\ FreshInstance /\ CacheIsRight
  BY DEF AnswersInv
<1>2. PICK s \in Sims, ok \in BOOLEAN :
        /\ runs[s].stage = "running"
        /\ runs' = [runs EXCEPT ![s].stage = "ended", ![s].ok = ok]
        /\ \/ DynamicSim(s, "IPS_END", ok) /\ UNCHANGED <<driver, backlog, cache>>
           \/ UNCHANGED dinbox /\ driver' = "gone" /\ backlog' = <<>> /\ cache' = {}
        /\ UNCHANGED <<events, ready, idx, answer>>
  <2>1. CASE EndBridgeRun
    BY <2>1, SimsAreNumbers DEF EndBridgeRun, End, DriverGone
  <2>2. CASE \E s \in Sims : EndRun(s)
    BY <2>2 DEF EndRun, End
  <2>. QED BY <2>1, <2>2
<1>3. /\ runs \in [Sims -> RunType] /\ runs' \in [Sims -> RunType]
      /\ runs'[s] = [runs[s] EXCEPT !.stage = "ended", !.ok = ok]
      /\ \A t \in Sims : t # s => runs'[t] = runs[t]
  <2>1. runs \in [Sims -> RunType]
    BY <1>1 DEF SweepType, RunType
  <2>2. [runs[s] EXCEPT !.stage = "ended", !.ok = ok] \in RunType
    <3>1. runs[s] \in RunType
      BY <2>1
    <3>. QED BY <3>1 DEF RunType
  <2>3. runs' = [runs EXCEPT ![s] = [runs[s] EXCEPT !.stage = "ended", !.ok = ok]]
    BY <1>2, <2>1
  <2>. QED BY <2>1, <2>2, <2>3
<1>. runs[s] \in RunType
  BY <1>3
<1>4. \A t \in Sims : runs'[t].evaluation = runs[t].evaluation
  <2>1. runs'[s].evaluation = runs[s].evaluation
    BY <1>3 DEF RunType
  <2>. QED BY <1>3, <2>1
<1>5. \A t \in Sims : runs[t].stage = "ended" => runs'[t] = runs[t]
  BY <1>2, <1>3
<1>. DEFINE e == [sim |-> s, type |-> "IPS_END", ok |-> ok]
<1>6. /\ (\A f \in Evaluations : Answered(f))'
      /\ dinbox' \in Seq(DynamicEvents) /\ events' \in Seq(DynamicEvents)
      /\ Truthful(dinbox)' /\ Truthful(events)'
  <2>1. e \in DynamicEvents
    BY SimsAreNumbers DEF DynamicEvents
  <2>2. e.sim \in Sims /\ runs'[e.sim].stage = "ended" /\ e.ok = runs'[e.sim].ok
    BY <1>3 DEF RunType
  <2>3. dinbox' \in {dinbox, Append(dinbox, e)}
    BY <1>2 DEF DynamicSim
  <2>. HIDE DEF e
  <2>. QED BY <1>2, <1>5, <2>1, <2>2, <2>3, EventAdded
<1>7. SweepType'
  <2>1. backlog' \in {backlog, <<>>} /\ cache' \in {cache, {}}
    BY <1>2
  <2>2. <<>> \in Seq(Launcher \cup Evaluations)
    OBVIOUS
  <2>3. backlog' \in Seq(Launcher \cup Evaluations)
        /\ cache' \subseteq [instance : Nat, caller : Evaluations]
    BY <1>1, <2>1, <2>2 DEF SweepType
  <2>. QED BY <1>1, <1>2, <1>3, <1>6, <2>3 DEF SweepType, RunType
<1>8. Connected'
  BY <1>1, <1>2 DEF Connected
<1>9. FreshInstance'
  BY <1>1, <1>2, <1>3 DEF FreshInstance
<1>10. CacheIsRight'
  BY <1>1, <1>2, <1>4 DEF CacheIsRight
<1>. QED BY <1>6, <1>7, <1>8, <1>9, <1>10 DEF AnswersInv

-----------------------------------------------------------------------------
LEMMA AnswersStep == AnswersInv /\ [Next]_vars => AnswersInv'
<1>. SUFFICES ASSUME AnswersInv, [Next]_vars PROVE AnswersInv'
  OBVIOUS
<1>1. CASE DriverStep
  BY <1>1, HandleEventAnswers, DriverAloneAnswers, RegisterAnswers
     DEF DriverStep, Alone, frameworkVars
<1>2. CASE LauncherStep
  BY <1>2, OthersAnswers DEF LauncherStep, Alone, frameworkVars
<1>3. ASSUME NEW e \in Evaluations, ClientStep(e) PROVE AnswersInv'
  BY <1>3, OthersAnswers DEF ClientStep, Alone, frameworkVars
<1>4. CASE ClientDeath
  <2>1. PICK e \in site.mortal : ClientDies(e) /\ UNCHANGED runs
    BY <1>4 DEF ClientDeath, Alone, frameworkVars
  <2>. QED BY <2>1, Untouched DEF ClientDies, serverVars, SweepVars
<1>5. CASE FrameworkStep
  <2>1. ASSUME NEW s \in Sims, RunCall(s) PROVE AnswersInv'
    BY <2>1, Untouched DEF RunCall, dakotaVars, SweepVars
  <2>. QED BY <1>5, <2>1, EndAnswers DEF FrameworkStep
<1>6. CASE PortalStep \/ PostStep \/ UNCHANGED vars
  BY <1>6, Untouched DEF PortalStep, PostStep, vars, dakotaVars, frameworkVars, SweepVars
<1>. QED BY <1>1, <1>2, <1>3, <1>4, <1>5, <1>6 DEF Next

(* Whatever fails or dies and in whatever order runs end: a client is      *)
(* answered with the result of a run that had its own parameters           *)
(* (dakota_bridge.py, sim_cache and the handler of IPS_END).               *)
THEOREM AnswersAreRight == Spec => []AnswersAreOwn
<1>1. AnswersInv => AnswersAreOwn
  BY DEF AnswersInv, Answered, AnswersAreOwn
<1>. QED BY AnswersInitially, AnswersStep, <1>1, PTL DEF Spec

-----------------------------------------------------------------------------
(* Who has been connected.                                                 *)

(* Every evaluation connects once, and its connection is taken once: there *)
(* are no more instances than evaluations.                                 *)
Called == {e \in Evaluations : client[e] # "idle" /\ ~Has(backlog, e)}

CallersInv ==
  /\ client \in [Evaluations -> {"idle", "connected", "waiting", "returned", "failed", "lost", "dead"}]
  /\ NoneTwice(backlog)
  /\ \A e \in Evaluations : Has(backlog, e) => client[e] # "idle"
  /\ Has(backlog, "START") => launcher = "wait_start"
  /\ Has(backlog, "END") => launcher = "wait_end"
  /\ idx <= Cardinality(Called)

LEMMA CalledIsFinite == IsFiniteSet(Called) /\ Cardinality(Called) \in Nat
<1>1. Called \subseteq Evaluations
  BY DEF Called
<1>2. IsFiniteSet(Called)
  BY <1>1, BridgesAssumption, FS_Subset
<1>. QED BY <1>2, FS_CardinalityType

LEMMA CalledIsFiniteNext == IsFiniteSet(Called') /\ Cardinality(Called') \in Nat
<1>1. Called' \subseteq Evaluations
  BY DEF Called
<1>2. IsFiniteSet(Called')
  BY <1>1, BridgesAssumption, FS_Subset
<1>. QED BY <1>2, FS_CardinalityType

LEMMA MoreCalled ==
  ASSUME idx \in Nat, idx <= Cardinality(Called), idx' = idx,
         \A e \in Evaluations : e \in Called => e \in Called'
  PROVE  idx' <= Cardinality(Called')
<1>1. Called \subseteq Called'
  BY DEF Called
<1>2. Cardinality(Called) <= Cardinality(Called')
  BY <1>1, CalledIsFiniteNext, FS_Subset
<1>. QED BY <1>2, CalledIsFinite, CalledIsFiniteNext

LEMMA CallersInitially == Init => CallersInv
<1>. SUFFICES ASSUME Init PROVE CallersInv
  OBVIOUS
<1>1. \A x : ~Has(<<>>, x)
  BY DEF Has
<1>2. NoneTwice(<<>>)
  BY DEF NoneTwice
<1>3. idx = 0 /\ backlog = <<>> /\ client = [e \in Evaluations |-> "idle"]
  BY DEF Init, DakotaInit
<1>. QED BY <1>1, <1>2, <1>3, CalledIsFinite DEF CallersInv

(* Clients go on, connections are dropped or taken. *)
LEMMA FewerWait ==
  ASSUME AnswersInv, CallersInv, idx' = idx,
         client' \in [Evaluations -> {"idle", "connected", "waiting", "returned", "failed", "lost", "dead"}],
         \A e \in Evaluations : client[e] # "idle" => client'[e] # "idle",
         NoneTwice(backlog'), \A x : Has(backlog', x) => Has(backlog, x),
         Has(backlog', "START") => launcher' = launcher,
         Has(backlog', "END") => launcher' = launcher
  PROVE  CallersInv'
<1>1. \A e \in Evaluations : e \in Called => e \in Called'
  BY DEF Called
<1>2. idx' <= Cardinality(Called')
  BY <1>1, MoreCalled DEF AnswersInv, SweepType, CallersInv
<1>. QED BY <1>2 DEF CallersInv

LEMMA OneMoreWaits ==
  ASSUME AnswersInv, CallersInv, idx' = idx,
         NEW x \in Launcher \cup Evaluations, ~Has(backlog, x), backlog' = Append(backlog, x),
         client' \in [Evaluations -> {"idle", "connected", "waiting", "returned", "failed", "lost", "dead"}],
         \A e \in Evaluations : (client[e] # "idle" => client'[e] # "idle") /\ (e = x => client[e] = "idle" /\ client'[e] # "idle"),
         x = "START" => launcher' = "wait_start", x = "END" => launcher' = "wait_end",
         Has(backlog, "START") => launcher' = launcher,
         Has(backlog, "END") => launcher' = launcher
  PROVE  CallersInv'
<1>1. NoneTwice(backlog') /\ \A y : Has(backlog', y) <=> Has(backlog, y) \/ y = x
  BY AppendedOnce DEF AnswersInv, SweepType, CallersInv
<1>2. \A e \in Evaluations : e \in Called => e \in Called'
  BY <1>1 DEF Called
<1>3. idx' <= Cardinality(Called')
  BY <1>2, MoreCalled DEF AnswersInv, SweepType, CallersInv
<1>. QED BY <1>1, <1>3 DEF CallersInv

(* The connection that the driver takes. *)
LEMMA Taking ==
  ASSUME AnswersInv, CallersInv, driver = "accept", backlog' = Tail(backlog)
  PROVE  /\ Caller \in Launcher \cup Evaluations /\ Has(backlog, Caller)
         /\ NoneTwice(backlog')
         /\ \A x : Has(backlog', x) <=> Has(backlog, x) /\ x # Caller
<1>1. backlog # <<>> /\ backlog \in Seq(Launcher \cup Evaluations) /\ NoneTwice(backlog)
  BY DEF AnswersInv, SweepType, Connected, CallersInv
<1>. QED BY <1>1, TailOnce DEF Caller

LEMMA RegisterCallers ==
  ASSUME AnswersInv, CallersInv, CreateSimulation \/ CreateFails
  PROVE  CallersInv' /\ idx' = idx + 1 /\ idx' <= Cardinality(Evaluations)
<1>1. /\ driver = "accept" /\ Caller \notin Launcher /\ client[Caller] \in {"waiting", "dead"}
      /\ backlog' = Tail(backlog) /\ idx' = idx + 1 /\ UNCHANGED <<client, launcher>>
  BY DEF CreateSimulation, CreateFails, Register, Accepting
<1>2. PICK x : x = Caller
  OBVIOUS
<1>3. /\ x \in Evaluations /\ Has(backlog, x) /\ NoneTwice(backlog')
      /\ \A y : Has(backlog', y) <=> Has(backlog, y) /\ y # x
      /\ client[x] # "idle"
  BY <1>1, <1>2, Taking
<1>4. Called' = Called \cup {x} /\ x \notin Called
  <2>1. \A e : e \in Called' <=> e \in Called \/ e = x
    BY <1>1, <1>3 DEF Called
  <2>2. x \notin Called
    BY <1>3 DEF Called
  <2>. QED BY <2>1, <2>2
<1>5. Cardinality(Called') = Cardinality(Called) + 1
  <2>1. Cardinality(Called \cup {x}) = Cardinality(Called) + 1
    BY <1>4, CalledIsFinite, FS_AddElement
  <2>. QED BY <1>4, <2>1
<1>6. idx' <= Cardinality(Called')
  BY <1>1, <1>5, CalledIsFinite DEF AnswersInv, SweepType, CallersInv
<1>7. CallersInv'
  BY <1>1, <1>3, <1>6 DEF CallersInv
<1>8. Cardinality(Called') <= Cardinality(Evaluations) /\ Cardinality(Evaluations) \in Nat
  <2>1. Called' \subseteq Evaluations /\ IsFiniteSet(Evaluations)
    BY BridgesAssumption DEF Called
  <2>. QED BY <2>1, FS_Subset, FS_CardinalityType
<1>9. idx' \in Nat
  BY <1>1 DEF AnswersInv, SweepType
<1>. QED BY <1>1, <1>6, <1>7, <1>8, <1>9, CalledIsFiniteNext

LEMMA CallersStep == AnswersInv /\ CallersInv /\ [Next]_vars => CallersInv'
<1>. SUFFICES ASSUME AnswersInv, CallersInv, [Next]_vars PROVE CallersInv'
  OBVIOUS
<1>1. ASSUME UNCHANGED <<idx, client, backlog, launcher>> PROVE CallersInv'
  BY <1>1 DEF CallersInv, Called
<1>2. ASSUME UNCHANGED <<idx, client>>, backlog' = <<>> PROVE CallersInv'
  <2>1. NoneTwice(<<>>) /\ \A x : ~Has(<<>>, x)
    BY DEF NoneTwice, Has
  <2>. QED BY <1>2, <2>1, FewerWait DEF CallersInv
<1>3. CASE DriverStep
  <2>1. CASE \/ Listen \/ Select \/ HandleEvent \/ KeepWaiting \/ TimeOut \/ Accept
    BY <1>1, <2>1 DEF Listen, Select, HandleEvent, KeepWaiting, TimeOut, Accept
  <2>2. CASE RecvFails \/ AnswerStart \/ AnswerEnd
    <3>1. /\ UNCHANGED <<idx, client>> /\ driver = "accept" /\ backlog' = Tail(backlog)
          /\ \/ UNCHANGED launcher
             \/ Caller = "START"
             \/ Caller = "END"
      BY <2>2 DEF RecvFails, AnswerStart, AnswerEnd, Accepting
    <3>2. /\ Has(backlog, Caller) /\ NoneTwice(backlog')
          /\ \A x : Has(backlog', x) <=> Has(backlog, x) /\ x # Caller
      BY <3>1, Taking
    <3>3. \A x \in {"START", "END"} : Has(backlog', x) => launcher' = launcher
      BY <3>1, <3>2 DEF CallersInv
    <3>. QED BY <3>1, <3>2, <3>3, FewerWait DEF CallersInv
  <2>. QED BY <1>3, <2>1, <2>2, RegisterCallers DEF DriverStep, Alone
<1>4. CASE LauncherStep
  <2>1. CASE SayStart \/ SayEnd
    <3>1. PICK x \in {"START", "END"} :
            /\ launcher = (IF x = "START" THEN "start" ELSE "end")
            /\ launcher' = (IF x = "START" THEN "wait_start" ELSE "wait_end")
            /\ backlog' = Append(backlog, x) /\ UNCHANGED <<idx, client>>
      BY <2>1 DEF SayStart, SayEnd, Call, serverVars
    <3>2. ~Has(backlog, "START") /\ ~Has(backlog, "END")
      BY <3>1 DEF CallersInv
    <3>3. x \in Launcher \cup Evaluations /\ x \notin Evaluations
      BY BridgesAssumption DEF Launcher
    <3>4. client \in [Evaluations -> {"idle", "connected", "waiting", "returned", "failed", "lost", "dead"}]
      BY DEF CallersInv
    <3>5. (x = "START" => launcher' = "wait_start") /\ (x = "END" => launcher' = "wait_end")
      BY <3>1
    <3>6. ~Has(backlog, x)
      BY <3>2
    <3>. QED BY <3>1, <3>2, <3>3, <3>4, <3>5, <3>6, OneMoreWaits
  <2>2. CASE LauncherFails
    BY <1>2, <2>2 DEF LauncherFails
  <2>3. CASE DakotaEnds(site.sweep)
    <3>1. launcher = "dakota" /\ UNCHANGED <<idx, client, backlog>>
      BY <2>3 DEF DakotaEnds, serverVars
    <3>. QED BY <3>1, FewerWait DEF CallersInv
  <2>. QED BY <1>4, <2>1, <2>2, <2>3 DEF LauncherStep, Alone
<1>5. ASSUME NEW e \in Evaluations, Connect(e) PROVE CallersInv'
  <2>1. /\ client[e] = "idle" /\ client' = [client EXCEPT ![e] = "connected"]
        /\ backlog' = Append(backlog, e) /\ UNCHANGED <<idx, launcher>>
    BY <1>5 DEF Connect, serverVars
  <2>2. client' \in [Evaluations -> {"idle", "connected", "waiting", "returned", "failed", "lost", "dead"}]
        /\ client'[e] = "connected" /\ \A f \in Evaluations : f # e => client'[f] = client[f]
    BY <2>1 DEF CallersInv
  <2>3. e \in Launcher \cup Evaluations /\ e # "START" /\ e # "END"
    BY BridgesAssumption DEF Launcher
  <2>4. ~Has(backlog, e)
    BY <2>1 DEF CallersInv
  <2>. QED BY <2>1, <2>2, <2>3, <2>4, OneMoreWaits
<1>6. ASSUME NEW e \in Evaluations,
             SendParameters(e) \/ ClientFails(e) \/ ClientReturns(e) \/ ClientDies(e)
      PROVE  CallersInv'
  <2>1. PICK x \in {"waiting", "returned", "failed", "lost", "dead"} :
          client' = [client EXCEPT ![e] = x]
    BY <1>6 DEF SendParameters, ClientFails, ClientReturns, ClientDies
  <2>2. UNCHANGED <<idx, backlog, launcher>>
    BY <1>6 DEF SendParameters, ClientFails, ClientReturns, ClientDies, serverVars
  <2>3. client' \in [Evaluations -> {"idle", "connected", "waiting", "returned", "failed", "lost", "dead"}]
        /\ \A f \in Evaluations : client[f] # "idle" => client'[f] # "idle"
    BY <2>1 DEF CallersInv
  <2>. QED BY <2>2, <2>3, FewerWait DEF CallersInv
<1>7. CASE ClientDeath
  <2>1. PICK e \in site.mortal : ClientDies(e)
    BY <1>7 DEF ClientDeath, Alone
  <2>2. CASE e \in Evaluations
    BY <1>6, <2>1, <2>2
  <2>3. CASE e \notin Evaluations
    <3>1. client' = client /\ UNCHANGED <<idx, backlog, launcher>>
      BY <2>1, <2>3 DEF ClientDies, serverVars, CallersInv
    <3>. QED BY <1>1, <3>1
  <2>. QED BY <2>2, <2>3
<1>8. CASE FrameworkStep
  <2>1. ASSUME NEW s \in Sims, RunCall(s) \/ EndRun(s) PROVE CallersInv'
    BY <1>1, <2>1 DEF RunCall, EndRun, dakotaVars
  <2>2. CASE EndBridgeRun
    BY <1>2, <2>2 DEF EndBridgeRun, DriverGone
  <2>. QED BY <1>8, <2>1, <2>2 DEF FrameworkStep
<1>9. CASE PortalStep \/ PostStep \/ UNCHANGED vars
  BY <1>1, <1>9 DEF PortalStep, PostStep, vars, dakotaVars
<1>. QED BY <1>3, <1>4, <1>5, <1>6, <1>7, <1>8, <1>9 DEF Next, ClientStep, Alone

-----------------------------------------------------------------------------
(* What is published and what the bridge has handled of it.                *)

MonitorEvents == [sim : Sims, type : Types]
OfRun(s) == [sim : {s}, type : Types]

Unhandled == batch \o pinbox
Left(s) == Filter(Unhandled, OfRun(s))

MonitorType ==
  /\ batch \in Seq(MonitorEvents) /\ pinbox \in Seq(MonitorEvents)
  /\ published \in [Sims -> Seq(Types)] /\ counter \in [Sims -> Nat]
  /\ simMap \subseteq Sims

(* A run is told of from its start to its end. *)
Story(s) ==
  /\ runs[s].stage = "none" <=> published[s] = <<>>
  /\ runs[s].stage = "ended" <=> \E i \in DOMAIN published[s] : published[s][i] = "IPS_END"
  /\ \A i \in DOMAIN published[s] :
       /\ published[s][i] = "IPS_START" <=> i = 1
       /\ published[s][i] = "IPS_END" => i = Len(published[s])

(* The bridge has handled a beginning of the story. *)
Handling(s) ==
  /\ counter[s] + Len(Left(s)) = Len(published[s])
  /\ \A i \in DOMAIN Left(s) : Left(s)[i].type = published[s][counter[s] + i]
  /\ s \in simMap <=> counter[s] > 0 /\ published[s][counter[s]] # "IPS_END"

(* Runs are created by the driver only: they all start before its own run, *)
(* which is the first, ends.                                               *)
BirthInv ==
  /\ driver # "gone" => runs[0].stage = "running"
  /\ runs[0].stage # "none"
  /\ \A i, j \in DOMAIN Unhandled :
       Unhandled[i].sim = 0 /\ Unhandled[i].type = "IPS_END" /\ Unhandled[j].type = "IPS_START" => j < i
  /\ (runs[0].stage = "ended" /\ counter[0] = Len(published[0])) =>
       \A j \in DOMAIN Unhandled : Unhandled[j].type # "IPS_START"
  /\ counter[0] = 0 => Unhandled # <<>> /\ Unhandled[1].sim = 0

OverInv ==
  /\ bridge # "failed"
  /\ bridge \in {"joining", "done"} => Unhandled = <<>> /\ \A s \in Sims : runs[s].stage # "running"

MonitorInv ==
  /\ MonitorType /\ BirthInv /\ OverInv
  /\ \A s \in Sims : Story(s) /\ Handling(s)

LEMMA UnhandledType ==
  ASSUME MonitorType
  PROVE  /\ Unhandled \in Seq(MonitorEvents) /\ \A s : Left(s) \in Seq(MonitorEvents)
         /\ 0 \in Sims
<1>1. Unhandled \in Seq(MonitorEvents)
  BY DEF MonitorType, Unhandled
<1>. QED BY <1>1, FilterProperties, SimsAreNumbers DEF Left

(* Every event that is not handled is in the part of its story to come. *)
LEMMA EventsAreToCome ==
  ASSUME MonitorInv, NEW i \in DOMAIN Unhandled
  PROVE  /\ Unhandled[i] \in MonitorEvents /\ Unhandled[i].sim \in Sims
         /\ \E k \in DOMAIN published[Unhandled[i].sim] :
              /\ k > counter[Unhandled[i].sim]
              /\ published[Unhandled[i].sim][k] = Unhandled[i].type
<1>1. PICK e : e = Unhandled[i]
  OBVIOUS
<1>2. PICK s : s = e.sim
  OBVIOUS
<1>3. Unhandled \in Seq(MonitorEvents) /\ Left(s) \in Seq(MonitorEvents)
  BY UnhandledType DEF MonitorInv
<1>4. e \in MonitorEvents /\ s \in Sims /\ e \in OfRun(s)
  <2>1. e \in MonitorEvents
    BY <1>1, <1>3
  <2>. QED BY <1>2, <2>1 DEF MonitorEvents, OfRun
<1>5. Has(Left(s), e)
  BY <1>1, <1>3, <1>4, FilterProperties DEF Left, Has
<1>6. PICK j \in DOMAIN Left(s) : Left(s)[j] = e
  BY <1>5 DEF Has
<1>7. /\ counter[s] \in Nat /\ published[s] \in Seq(Types)
      /\ counter[s] + Len(Left(s)) = Len(published[s])
      /\ e.type = published[s][counter[s] + j]
  BY <1>4, <1>6 DEF MonitorInv, MonitorType, Handling
<1>8. counter[s] + j \in DOMAIN published[s] /\ counter[s] + j > counter[s]
  BY <1>3, <1>6, <1>7
<1>. QED BY <1>1, <1>2, <1>4, <1>7, <1>8

LEMMA MonitorInitially == Init => MonitorInv
<1>. SUFFICES ASSUME Init PROVE MonitorInv
  OBVIOUS
<1>1. PICK e : e = [sim |-> 0, type |-> "IPS_START"]
  OBVIOUS
<1>2. /\ e \in MonitorEvents /\ e.sim = 0 /\ e.type = "IPS_START" /\ 0 \in Sims
      /\ e \in OfRun(0) /\ \A s : s # 0 => e \notin OfRun(s)
  BY <1>1, SimsAreNumbers DEF MonitorEvents, OfRun, Types
<1>3. /\ batch = <<>> /\ pinbox = <<e>> /\ simMap = {} /\ bridge = "polling" /\ driver = "init"
      /\ counter = [s \in Sims |-> 0]
      /\ published = [s \in Sims |-> IF s = 0 THEN <<"IPS_START">> ELSE <<>>]
      /\ runs = [s \in Sims |-> IF s = 0 THEN [Unborn EXCEPT !.stage = "running"] ELSE Unborn]
  BY <1>1 DEF Init, PortalInit, DakotaInit
<1>4. <<>> \in Seq(MonitorEvents) /\ <<e>> \in Seq(MonitorEvents)
      /\ <<"IPS_START">> \in Seq(Types) /\ <<>> \in Seq(Types)
  BY <1>2 DEF Types
<1>5. MonitorType
  BY <1>3, <1>4 DEF MonitorType
<1>6. Unhandled = <<e>>
  BY <1>3, <1>4 DEF Unhandled
<1>7. Left(0) = <<e>> /\ \A s : s # 0 => Left(s) = <<>>
  <2>1. <<e>> = Append(<<>>, e) /\ Append(<<>>, e) = <<e>>
    OBVIOUS
  <2>2. ASSUME NEW S PROVE Filter(Append(<<>>, e), S) = IF e \in S THEN Append(<<>>, e) ELSE <<>>
    <3>1. e \in MonitorEvents
      BY <1>2
    <3>2. <<>> \in Seq(MonitorEvents)
      OBVIOUS
    <3>3. Filter(Append(<<>>, e), S) = IF e \in S THEN Append(Filter(<<>>, S), e) ELSE Filter(<<>>, S)
      BY <3>1, <3>2, FilterAppended
    <3>. QED BY <3>3, FilterEmpty
  <2>. QED BY <1>2, <1>6, <2>1, <2>2 DEF Left
<1>8. ASSUME NEW s \in Sims PROVE Story(s) /\ Handling(s)
  <2>1. CASE s = 0
    <3>1. published[0] = <<"IPS_START">> /\ counter[0] = 0 /\ runs[0].stage = "running"
      BY <1>2, <1>3 DEF Unborn
    <3>. QED BY <1>2, <1>3, <1>7, <2>1, <3>1 DEF Story, Handling
  <2>2. CASE s # 0
    <3>1. published[s] = <<>> /\ counter[s] = 0 /\ runs[s].stage = "none"
      BY <1>3, <2>2 DEF Unborn
    <3>. QED BY <1>3, <1>7, <2>2, <3>1 DEF Story, Handling
  <2>. QED BY <2>1, <2>2
<1>9. BirthInv
  <2>1. runs[0].stage = "running" /\ counter[0] = 0
    BY <1>2, <1>3 DEF Unborn
  <2>. QED BY <1>2, <1>6, <2>1 DEF BirthInv
<1>10. OverInv
  BY <1>3 DEF OverInv
<1>. QED BY <1>5, <1>8, <1>9, <1>10 DEF MonitorInv

-----------------------------------------------------------------------------
(* An event is published. *)
LEMMA OneMorePublished ==
  ASSUME MonitorInv, NEW s \in Sims, NEW type \in Types, Monitor(s, type),
         driver # "gone" => driver' # "gone" \/ (s = 0 /\ type = "IPS_END"),
         driver' # "gone" => driver # "gone",
         \A t \in Sims : t # s => runs'[t].stage = runs[t].stage,
         \/ /\ type = "IPS_START" /\ driver # "gone"
            /\ runs[s].stage = "none" /\ runs'[s].stage = "running"
         \/ /\ type = "IPS_CALL"
            /\ runs[s].stage = "running" /\ runs'[s].stage = "running"
         \/ /\ type = "IPS_END" /\ (s = 0 => driver' = "gone")
            /\ runs[s].stage = "running" /\ runs'[s].stage = "ended"
  PROVE  MonitorInv'
<1>1. PICK e : e = [sim |-> s, type |-> type]
  OBVIOUS
<1>2. /\ pinbox' = Append(pinbox, e) /\ published' = [published EXCEPT ![s] = Append(@, type)]
      /\ UNCHANGED <<batch, simMap, counter, bridge>>
  BY <1>1 DEF Monitor
<1>3. PICK u : u = Unhandled
  OBVIOUS
<1>4. PICK p : p = published[s]
  OBVIOUS
<1>5. /\ e \in MonitorEvents /\ e.sim = s /\ e.type = type /\ e \in OfRun(s)
      /\ \A t : t # s => e \notin OfRun(t)
  BY <1>1 DEF MonitorEvents, OfRun
<1>6. /\ u \in Seq(MonitorEvents) /\ p \in Seq(Types) /\ counter[s] \in Nat /\ 0 \in Sims
      /\ batch \in Seq(MonitorEvents) /\ pinbox \in Seq(MonitorEvents)
  BY <1>3, <1>4, UnhandledType DEF MonitorInv, MonitorType
<1>7. Unhandled' = Append(u, e)
  <2>1. Append(batch \o pinbox, e) = batch \o Append(pinbox, e)
    <3>1. e \in MonitorEvents
      BY <1>5
    <3>2. batch \in Seq(MonitorEvents)
      BY <1>6
    <3>3. pinbox \in Seq(MonitorEvents)
      BY <1>6
    <3>4. <<e>> \in Seq(MonitorEvents) /\ batch \o pinbox \in Seq(MonitorEvents)
      BY <3>1, <3>2, <3>3
    <3>5. Append(batch \o pinbox, e) = (batch \o pinbox) \o <<e>>
      BY <3>1, <3>4, AppendIsConcat
    <3>6. Append(pinbox, e) = pinbox \o <<e>>
      BY <3>1, <3>3, AppendIsConcat
    <3>7. (batch \o pinbox) \o <<e>> = batch \o (pinbox \o <<e>>)
      BY <3>2, <3>3, <3>4, ConcatAssociative
    <3>. QED BY <3>5, <3>6, <3>7
  <2>. QED BY <1>2, <1>3, <2>1 DEF Unhandled
<1>8. /\ Append(p, type) \in Seq(Types) /\ Len(Append(p, type)) = Len(p) + 1
      /\ DOMAIN Append(p, type) = 1..(Len(p) + 1) /\ DOMAIN p = 1..Len(p) /\ Len(p) \in Nat
      /\ Append(p, type)[Len(p) + 1] = type /\ \A i \in DOMAIN p : Append(p, type)[i] = p[i]
      /\ Append(p, type) # <<>> /\ \A i \in DOMAIN Append(p, type) : i \in DOMAIN p \/ i = Len(p) + 1
  BY <1>6, AppendParts
<1>9. /\ published'[s] = Append(p, type)
      /\ \A t \in Sims : t # s => published'[t] = published[t]
      /\ published' \in [Sims -> Seq(Types)]
  BY <1>2, <1>4, <1>8 DEF MonitorInv, MonitorType
<1>10. MonitorType'
  BY <1>2, <1>5, <1>6, <1>9 DEF MonitorInv, MonitorType
<1>11. /\ Left(s)' = Append(Left(s), e)
       /\ \A t : t # s => Left(t)' = Left(t)
  <2>1. \A t : Left(t)' = IF e \in OfRun(t) THEN Append(Left(t), e) ELSE Left(t)
    BY <1>3, <1>5, <1>6, <1>7, FilterAppended DEF Left
  <2>. QED BY <1>5, <2>1
<1>12. ASSUME NEW t \in Sims, t # s PROVE Story(t)' /\ Handling(t)'
  <2>1. Story(t) /\ Handling(t)
    BY DEF MonitorInv
  <2>2. published'[t] = published[t] /\ runs'[t].stage = runs[t].stage
    BY <1>9, <1>12
  <2>3. Story(t)'
    BY <2>1, <2>2 DEF Story
  <2>4. Left(t)' = Left(t) /\ UNCHANGED <<counter, simMap>>
    BY <1>2, <1>11, <1>12
  <2>5. Handling(t)'
    BY <2>1, <2>2, <2>4 DEF Handling
  <2>. QED BY <2>3, <2>5
<1>13. /\ p = <<>> <=> runs[s].stage = "none"
       /\ runs[s].stage = "ended" <=> \E i \in DOMAIN p : p[i] = "IPS_END"
       /\ \A i \in DOMAIN p : /\ p[i] = "IPS_START" <=> i = 1
                              /\ p[i] = "IPS_END" => i = Len(p)
  BY <1>4 DEF MonitorInv, Story
<1>14. runs[s].stage # "ended" /\ \A i \in DOMAIN p : p[i] # "IPS_END"
  BY <1>13
<1>15. (type = "IPS_START") <=> (Len(p) + 1 = 1)
  <2>1. p = <<>> <=> Len(p) = 0
    BY <1>6
  <2>. QED BY <1>8, <1>13, <2>1
<1>16. Story(s)'
  <2>1. Append(p, type) # <<>> /\ runs'[s].stage # "none"
    BY <1>8
  <2>2. \A i \in DOMAIN Append(p, type) :
           \/ i \in DOMAIN p /\ Append(p, type)[i] = p[i]
           \/ i = Len(p) + 1 /\ Append(p, type)[i] = type
    BY <1>8
  <2>3. Len(p) + 1 \in DOMAIN Append(p, type)
    BY <1>8
  <2>4. runs'[s].stage = "ended" <=> \E i \in DOMAIN Append(p, type) : Append(p, type)[i] = "IPS_END"
    BY <1>8, <1>14, <2>2, <2>3
  <2>5. \A i \in DOMAIN Append(p, type) :
          /\ Append(p, type)[i] = "IPS_START" <=> i = 1
          /\ Append(p, type)[i] = "IPS_END" => i = Len(Append(p, type))
    BY <1>8, <1>13, <1>14, <1>15, <2>2
  <2>. QED BY <1>9, <2>1, <2>4, <2>5 DEF Story
<1>17. Handling(s)'
  <2>1. PICK q : q = Left(s)
    OBVIOUS
  <2>2. /\ q \in Seq(MonitorEvents) /\ counter[s] + Len(q) = Len(p)
        /\ \A i \in DOMAIN q : q[i].type = p[counter[s] + i]
        /\ s \in simMap <=> counter[s] > 0 /\ p[counter[s]] # "IPS_END"
    BY <1>4, <2>1, UnhandledType DEF MonitorInv, Handling
  <2>3. /\ Len(Append(q, e)) = Len(q) + 1 /\ DOMAIN q = 1..Len(q) /\ Len(q) \in Nat
        /\ DOMAIN Append(q, e) = 1..(Len(q) + 1)
        /\ Append(q, e)[Len(q) + 1] = e /\ \A i \in DOMAIN q : Append(q, e)[i] = q[i]
        /\ \A i \in DOMAIN Append(q, e) : i \in DOMAIN q \/ i = Len(q) + 1
    BY <1>5, <2>2, AppendParts
  <2>8. counter[s] \in Nat /\ counter[s] + Len(q) = Len(p) /\ Len(p) \in Nat /\ Len(q) \in Nat
    BY <1>6, <1>8, <2>2, <2>3
  <2>4. counter[s] + Len(Append(q, e)) = Len(Append(p, type))
    <3>1. Len(Append(q, e)) = Len(q) + 1 /\ Len(Append(p, type)) = Len(p) + 1
      BY <1>8, <2>3
    <3>. QED BY <2>8, <3>1
  <2>5. ASSUME NEW i \in DOMAIN Append(q, e)
        PROVE  Append(q, e)[i].type = Append(p, type)[counter[s] + i]
    <3>1. CASE i \in DOMAIN q
      <4>1. counter[s] + i \in DOMAIN p
        BY <1>6, <1>8, <2>2, <2>3, <3>1
      <4>. QED BY <1>8, <2>2, <2>3, <3>1, <4>1
    <3>2. CASE i \notin DOMAIN q
      <4>1. i = Len(q) + 1
        BY <2>3, <3>2
      <4>2. counter[s] + i = Len(p) + 1
        BY <2>8, <4>1
      <4>. QED BY <1>5, <1>8, <2>3, <4>1, <4>2
    <3>. QED BY <3>1, <3>2
  <2>6. counter[s] > 0 => counter[s] \in DOMAIN p
    BY <1>6, <1>8, <2>2, <2>3
  <2>7. s \in simMap <=> counter[s] > 0 /\ Append(p, type)[counter[s]] # "IPS_END"
    BY <1>8, <2>2, <2>6
  <2>. QED BY <1>2, <1>9, <1>11, <2>1, <2>4, <2>5, <2>7 DEF Handling
<1>18. BirthInv'
  <2>. USE DEF BirthInv
  <2>1. BirthInv
    BY DEF MonitorInv
  <2>2. /\ DOMAIN Append(u, e) = 1..(Len(u) + 1) /\ DOMAIN u = 1..Len(u) /\ Len(u) \in Nat
        /\ Append(u, e)[Len(u) + 1] = e /\ \A i \in DOMAIN u : Append(u, e)[i] = u[i]
        /\ Append(u, e) # <<>> /\ \A i \in DOMAIN Append(u, e) : i \in DOMAIN u \/ i = Len(u) + 1
    BY <1>5, <1>6, AppendParts
  <2>3. (driver' # "gone" => runs'[0].stage = "running") /\ runs'[0].stage # "none"
    BY <1>6, <2>1
  <2>4. runs[0].stage = "running" => \A i \in DOMAIN u : ~(u[i].sim = 0 /\ u[i].type = "IPS_END")
    <3>. SUFFICES ASSUME runs[0].stage = "running", NEW i \in DOMAIN u, u[i].sim = 0, u[i].type = "IPS_END"
                  PROVE  FALSE
      OBVIOUS
    <3>1. \E k \in DOMAIN published[0] : published[0][k] = "IPS_END"
      BY <1>3, EventsAreToCome
    <3>2. runs[0].stage = "ended"
      BY <1>6, <3>1 DEF MonitorInv, Story
    <3>. QED BY <3>2
  <2>5. ASSUME NEW i \in DOMAIN Append(u, e), NEW j \in DOMAIN Append(u, e),
               Append(u, e)[i].sim = 0, Append(u, e)[i].type = "IPS_END",
               Append(u, e)[j].type = "IPS_START"
        PROVE  j < i
    <3>1. CASE i \in DOMAIN u /\ j \in DOMAIN u
      BY <1>3, <2>1, <2>2, <2>5, <3>1
    <3>2. CASE i \in DOMAIN u /\ j \notin DOMAIN u
      <4>1. j = Len(u) + 1 /\ type = "IPS_START"
        BY <1>5, <2>2, <2>5, <3>2
      <4>2. runs[0].stage = "running"
        BY <2>1, <4>1
      <4>. QED BY <2>2, <2>4, <2>5, <3>2, <4>2
    <3>3. CASE i \notin DOMAIN u
      <4>1. i = Len(u) + 1
        BY <2>2, <3>3
      <4>2. type = "IPS_END"
        BY <1>5, <2>2, <2>5, <4>1
      <4>3. j # Len(u) + 1
        BY <1>5, <2>2, <2>5, <4>2
      <4>. QED BY <2>2, <4>1, <4>3
    <3>. QED BY <3>1, <3>2, <3>3
  <2>6. ASSUME runs'[0].stage = "ended", counter[0] = Len(published'[0]),
               NEW j \in DOMAIN Append(u, e)
        PROVE  Append(u, e)[j].type # "IPS_START"
    <3>1. s # 0
      <4>. SUFFICES ASSUME s = 0 PROVE FALSE
        OBVIOUS
      <4>1. counter[s] + Len(Left(s)) = Len(p) /\ Len(Left(s)) \in Nat
        BY <1>4, UnhandledType DEF MonitorInv, Handling
      <4>2. counter[s] = Len(p) + 1
        BY <1>8, <1>9, <2>6
      <4>. QED BY <1>6, <1>8, <4>1, <4>2
    <3>2. runs[0].stage = "ended" /\ counter[0] = Len(published[0])
      BY <1>6, <1>9, <2>6, <3>1
    <3>3. \A i \in DOMAIN u : u[i].type # "IPS_START"
      BY <1>3, <2>1, <3>2
    <3>4. type # "IPS_START"
      BY <2>1, <3>2
    <3>. QED BY <1>5, <2>2, <3>3, <3>4
  <2>7. counter[0] = 0 => Append(u, e)[1].sim = 0
    <3>1. counter[0] = 0 => u # <<>> /\ u[1].sim = 0
      BY <1>3, <2>1
    <3>2. u # <<>> => 1 \in DOMAIN u
      BY <1>6
    <3>. QED BY <2>2, <3>1, <3>2
  <2>. QED BY <1>2, <1>7, <2>2, <2>3, <2>5, <2>6, <2>7
<1>19. OverInv'
  <2>1. bridge \notin {"joining", "done"}
    <3>. SUFFICES ASSUME bridge \in {"joining", "done"} PROVE FALSE
      OBVIOUS
    <3>1. \A t \in Sims : runs[t].stage # "running"
      BY DEF MonitorInv, OverInv
    <3>2. driver = "gone"
      BY <1>6, <3>1 DEF MonitorInv, BirthInv
    <3>. QED BY <3>1, <3>2
  <2>. QED BY <1>2, <2>1 DEF MonitorInv, OverInv
<1>. QED BY <1>10, <1>12, <1>16, <1>17, <1>18, <1>19 DEF MonitorInv

(* The bridge handles the first event that it has not handled. *)
LEMMA FirstEvent ==
  ASSUME MonitorInv, ProcessEvent
  PROVE  /\ Unhandled # <<>> /\ Unhandled \in Seq(MonitorEvents)
         /\ Head(batch) = Head(Unhandled) /\ Unhandled' = Tail(Unhandled)
         /\ batch' \in Seq(MonitorEvents) /\ pinbox' = pinbox
<1>1. batch # <<>> /\ batch' = Tail(batch) /\ pinbox' = pinbox
  BY DEF ProcessEvent
<1>2. batch \in Seq(MonitorEvents) /\ pinbox \in Seq(MonitorEvents)
  BY DEF MonitorInv, MonitorType
<1>3. PICK b : b = batch
  OBVIOUS
<1>4. PICK q : q = pinbox
  OBVIOUS
<1>5. /\ b \in Seq(MonitorEvents) /\ q \in Seq(MonitorEvents) /\ b # <<>>
      /\ Tail(b) \in Seq(MonitorEvents)
  BY <1>1, <1>2, <1>3, <1>4
<1>6. b \o q \in Seq(MonitorEvents) /\ b \o q # <<>> /\ Head(b) = Head(b \o q)
  BY <1>5
<1>7. Tail(b) \o q = Tail(b \o q)
  BY <1>5
<1>. QED BY <1>1, <1>3, <1>4, <1>5, <1>6, <1>7 DEF Unhandled

LEMMA EventHandled ==
  ASSUME MonitorInv, ProcessEvent, UNCHANGED <<runs, published, driver>>
  PROVE  MonitorInv'
<1>1. PICK u : u = Unhandled
  OBVIOUS
<1>2. PICK h : h = Head(u)
  OBVIOUS
<1>3. PICK s : s = h.sim
  OBVIOUS
<1>4. /\ u \in Seq(MonitorEvents) /\ u # <<>> /\ Unhandled' = Tail(u)
      /\ batch' \in Seq(MonitorEvents) /\ pinbox' = pinbox
      /\ Head(batch) = h /\ h = u[1] /\ 1 \in DOMAIN u /\ h \in MonitorEvents
  BY <1>1, <1>2, FirstEvent
<1>5. /\ s \in Sims /\ h.type \in Types /\ h \in OfRun(s)
      /\ \A t : t # s => h \notin OfRun(t)
  BY <1>3, <1>4 DEF MonitorEvents, OfRun
<1>6. PICK p : p = published[s]
  OBVIOUS
<1>7. PICK c : c = counter[s]
  OBVIOUS
<1>8. PICK r : r = Filter(Tail(u), OfRun(s))
  OBVIOUS
<1>9. /\ Left(s)' = r /\ r \in Seq(MonitorEvents) /\ Left(s) = <<h>> \o r
      /\ \A t : t # s => Left(t)' = Left(t)
  <2>1. Tail(u) \in Seq(MonitorEvents)
    BY <1>4
  <2>2. \A S : Filter(u, S) = IF h \in S THEN <<h>> \o Filter(Tail(u), S) ELSE Filter(Tail(u), S)
    BY <1>2, <1>4, FilterFirst
  <2>. QED BY <1>1, <1>4, <1>5, <1>8, <2>1, <2>2, FilterProperties DEF Left
<1>10. /\ c \in Nat /\ p \in Seq(Types) /\ Len(r) \in Nat /\ Len(p) \in Nat
       /\ c + Len(<<h>> \o r) = Len(p)
       /\ \A i \in DOMAIN (<<h>> \o r) : (<<h>> \o r)[i].type = p[c + i]
       /\ s \in simMap <=> c > 0 /\ p[c] # "IPS_END"
  <2>1. Handling(s) /\ counter[s] \in Nat /\ published[s] \in Seq(Types)
    BY <1>5 DEF MonitorInv, MonitorType
  <2>2. c \in Nat /\ p \in Seq(Types) /\ Len(r) \in Nat /\ Len(p) \in Nat
    BY <1>6, <1>7, <1>9, <2>1
  <2>3. PICK l : l = Left(s)
    OBVIOUS
  <2>4. /\ c + Len(l) = Len(p) /\ \A i \in DOMAIN l : l[i].type = p[c + i]
        /\ s \in simMap <=> c > 0 /\ p[c] # "IPS_END"
    BY <1>6, <1>7, <2>1, <2>3 DEF Handling
  <2>5. l = <<h>> \o r
    BY <1>9, <2>3
  <2>. QED BY <2>2, <2>4, <2>5
<1>11. /\ Len(<<h>> \o r) = Len(r) + 1 /\ DOMAIN (<<h>> \o r) = 1..(Len(r) + 1)
       /\ (<<h>> \o r)[1] = h /\ \A i \in 1..Len(r) : (<<h>> \o r)[i + 1] = r[i]
  <2>1. <<h>> \in Seq(MonitorEvents) /\ Len(<<h>>) = 1 /\ <<h>>[1] = h
    BY <1>4
  <2>. QED BY <1>9, <2>1, ConcatProperties
<1>12. c + 1 + Len(r) = Len(p) /\ c + 1 \in DOMAIN p /\ p[c + 1] = h.type
  <2>1. c + 1 + Len(r) = Len(p)
    BY <1>10, <1>11
  <2>2. c + 1 \in DOMAIN p
    BY <1>10, <2>1
  <2>3. 1 \in DOMAIN (<<h>> \o r)
    BY <1>10, <1>11
  <2>. QED BY <1>10, <1>11, <2>1, <2>2, <2>3
<1>13. \A i \in DOMAIN r : r[i].type = p[(c + 1) + i]
  <2>. SUFFICES ASSUME NEW i \in DOMAIN r PROVE r[i].type = p[(c + 1) + i]
    OBVIOUS
  <2>1. i \in 1..Len(r)
    BY <1>9
  <2>2. i + 1 \in DOMAIN (<<h>> \o r) /\ c + (i + 1) = (c + 1) + i
    BY <1>10, <1>11, <2>1
  <2>. QED BY <1>10, <1>11, <2>1, <2>2
<1>14. /\ runs[s].stage = "none" <=> p = <<>>
       /\ runs[s].stage = "ended" <=> \E i \in DOMAIN p : p[i] = "IPS_END"
       /\ \A i \in DOMAIN p : /\ p[i] = "IPS_START" <=> i = 1
                              /\ p[i] = "IPS_END" => i = Len(p)
  BY <1>5, <1>6 DEF MonitorInv, Story
<1>15. s \in Watched(h)
  <2>1. CASE h.type = "IPS_START"
    BY <1>3, <2>1 DEF Watched
  <2>2. CASE h.type # "IPS_START"
    <3>1. c > 0
      BY <1>10, <1>12, <1>14, <2>2
    <3>2. c \in DOMAIN p /\ c # Len(p)
      BY <1>10, <1>12, <3>1
    <3>. QED BY <1>10, <1>14, <3>1, <3>2 DEF Watched
  <2>. QED BY <2>1, <2>2
<1>16. /\ bridge \in {"polling", "done"} /\ counter' = [counter EXCEPT ![s] = @ + 1]
       /\ simMap' = Remaining(h)
       /\ bridge' \in {"joining", "done"} => Remaining(h) = {} \/ bridge' = bridge
       /\ bridge' \in {bridge, "done", "joining"}
  BY <1>3, <1>4, <1>15 DEF ProcessEvent, NoMore
<1>17. counter' \in [Sims -> Nat] /\ counter'[s] = c + 1 /\ \A t \in Sims : t # s => counter'[t] = counter[t]
  BY <1>5, <1>7, <1>10, <1>16 DEF MonitorInv, MonitorType
<1>18. /\ simMap' \subseteq Sims
       /\ \A t \in Sims : t # s => (t \in simMap' <=> t \in simMap)
       /\ s \in simMap' <=> h.type # "IPS_END"
  <2>1. simMap \subseteq Sims
    BY DEF MonitorInv, MonitorType
  <2>. QED BY <1>3, <1>5, <1>15, <1>16, <2>1 DEF Remaining, Watched
<1>19. MonitorType'
  BY <1>4, <1>17, <1>18 DEF MonitorInv, MonitorType
<1>20. ASSUME NEW t \in Sims PROVE Story(t)' /\ Handling(t)'
  <2>1. Story(t) /\ Handling(t)
    BY DEF MonitorInv
  <2>2. Story(t)'
    BY <2>1 DEF Story
  <2>3. CASE t = s
    <3>1. /\ counter'[s] = c + 1 /\ Left(s)' = r /\ published'[s] = p
      BY <1>6, <1>9, <1>17
    <3>2. s \in simMap' <=> c + 1 > 0 /\ p[c + 1] # "IPS_END"
      BY <1>10, <1>12, <1>18
    <3>. QED BY <1>12, <1>13, <2>2, <2>3, <3>1, <3>2 DEF Handling
  <2>4. CASE t # s
    <3>1. counter'[t] = counter[t] /\ Left(t)' = Left(t) /\ (t \in simMap' <=> t \in simMap)
      BY <1>9, <1>17, <1>18, <2>4
    <3>2. Handling(t)'
      BY <2>1, <3>1 DEF Handling
    <3>. QED BY <2>2, <3>2
  <2>. QED BY <2>3, <2>4
<1>21. /\ DOMAIN u = 1..Len(u) /\ Len(u) \in Nat /\ DOMAIN Tail(u) = 1..(Len(u) - 1)
       /\ \A i \in DOMAIN Tail(u) : i + 1 \in DOMAIN u /\ Tail(u)[i] = u[i + 1]
  BY <1>4
<1>22. counter'[0] > 0 /\ 0 \in Sims
  <2>1. counter[0] = 0 => s = 0
    BY <1>1, <1>3, <1>4 DEF MonitorInv, BirthInv
  <2>2. 0 \in Sims /\ counter[0] \in Nat
    BY SimsAreNumbers DEF MonitorInv, MonitorType
  <2>. QED BY <1>7, <1>10, <1>17, <2>1, <2>2
<1>23. BirthInv'
  <2>1. BirthInv
    BY DEF MonitorInv
  <2>2. ASSUME NEW i \in DOMAIN Tail(u), NEW j \in DOMAIN Tail(u), Tail(u)[i].sim = 0,
               Tail(u)[i].type = "IPS_END", Tail(u)[j].type = "IPS_START"
        PROVE  j < i
    <3>1. j + 1 < i + 1
      BY <1>1, <1>21, <2>1, <2>2 DEF BirthInv
    <3>. QED BY <1>21, <3>1
  <2>3. ASSUME runs[0].stage = "ended", counter'[0] = Len(published[0]), NEW j \in DOMAIN Tail(u)
        PROVE  Tail(u)[j].type # "IPS_START"
    <3>1. CASE s = 0
      <4>1. c + 1 = Len(p)
        BY <1>6, <1>17, <2>3, <3>1
      <4>2. \E i \in DOMAIN p : p[i] = "IPS_END" /\ i = Len(p)
        BY <1>14, <2>3, <3>1
      <4>3. u[1].sim = 0 /\ u[1].type = "IPS_END"
        BY <1>3, <1>4, <1>12, <3>1, <4>1, <4>2
      <4>4. j + 1 \in DOMAIN u /\ ~(j + 1 < 1)
        BY <1>21
      <4>. QED BY <1>1, <1>4, <1>21, <2>1, <4>3, <4>4 DEF BirthInv
    <3>2. CASE s # 0
      <4>1. counter[0] = Len(published[0])
        BY <1>17, <1>22, <2>3, <3>2
      <4>. QED BY <1>1, <1>21, <2>1, <2>3, <4>1 DEF BirthInv
    <3>. QED BY <3>1, <3>2
  <2>. QED BY <1>4, <1>22, <2>1, <2>2, <2>3 DEF BirthInv
<1>24. OverInv'
  <2>1. bridge' # "failed"
    BY <1>16 DEF MonitorInv, OverInv
  <2>2. bridge # "done"
    <3>1. bridge = "done" => Unhandled = <<>>
      BY DEF MonitorInv, OverInv
    <3>. QED BY <1>1, <1>4, <3>1
  <2>3. ASSUME simMap' = {}
        PROVE  Tail(u) = <<>> /\ \A t \in Sims : runs[t].stage # "running"
    <3>1. ASSUME NEW t \in Sims, counter'[t] > 0
          PROVE  /\ runs[t].stage = "ended" /\ Left(t)' = <<>>
                 /\ counter'[t] = Len(published[t])
      <4>1. PICK k : k = counter'[t]
        OBVIOUS
      <4>2. PICK q : q = Left(t)'
        OBVIOUS
      <4>3. PICK z : z = published[t]
        OBVIOUS
      <4>4. k \in Nat /\ k > 0 /\ k + Len(q) = Len(z) /\ z[k] = "IPS_END"
        BY <1>17, <1>20, <2>3, <3>1, <4>1, <4>2, <4>3 DEF Handling
      <4>5. z \in Seq(Types) /\ q \in Seq(MonitorEvents)
        <5>1. Unhandled' \in Seq(MonitorEvents)
          BY <1>4
        <5>. QED BY <4>2, <4>3, <5>1, FilterProperties DEF MonitorInv, MonitorType, Left
      <4>6. k \in DOMAIN z
        BY <4>4, <4>5
      <4>7. k = Len(z) /\ runs[t].stage = "ended"
        BY <4>3, <4>4, <4>6 DEF MonitorInv, Story
      <4>8. Len(q) = 0
        BY <4>4, <4>5, <4>7
      <4>9. q = <<>>
        BY <4>5, <4>8
      <4>. QED BY <4>1, <4>2, <4>3, <4>7, <4>9
    <3>2. \A j \in DOMAIN Tail(u) : Tail(u)[j].type # "IPS_START"
      <4>1. runs[0].stage = "ended" /\ counter'[0] = Len(published[0])
        BY <1>22, <3>1
      <4>. QED BY <1>4, <1>23, <4>1 DEF BirthInv
    <3>3. ASSUME NEW t \in Sims
          PROVE  Left(t)' = <<>> /\ runs[t].stage # "running"
      <4>1. CASE counter'[t] > 0
        BY <3>1, <4>1
      <4>2. CASE ~(counter'[t] > 0)
        <5>1. counter'[t] = 0
          BY <1>17, <4>2
        <5>2. PICK q : q = Left(t)'
          OBVIOUS
        <5>3. PICK z : z = published[t]
          OBVIOUS
        <5>4. 0 + Len(q) = Len(z) /\ \A i \in DOMAIN q : q[i].type = z[0 + i]
          BY <1>20, <5>1, <5>2, <5>3 DEF Handling
        <5>5. z \in Seq(Types) /\ q \in Seq(MonitorEvents)
              /\ \A x : Has(q, x) => Has(Tail(u), x)
          <6>1. Unhandled' \in Seq(MonitorEvents) /\ Unhandled' = Tail(u)
            BY <1>4
          <6>. QED BY <5>2, <5>3, <6>1, FilterProperties DEF MonitorInv, MonitorType, Left
        <5>6. q = <<>>
          <6>. SUFFICES ASSUME q # <<>> PROVE FALSE
            OBVIOUS
          <6>1. 1 \in DOMAIN q /\ 1 \in DOMAIN z /\ 0 + 1 = 1
            BY <5>4, <5>5
          <6>2. q[1].type = "IPS_START"
            BY <5>3, <5>4, <6>1 DEF MonitorInv, Story
          <6>. QED BY <3>2, <5>5, <6>1, <6>2 DEF Has
        <5>7. z = <<>>
          BY <5>4, <5>5, <5>6
        <5>. QED BY <5>2, <5>3, <5>6, <5>7 DEF MonitorInv, Story
      <4>. QED BY <4>1, <4>2
    <3>4. Tail(u) = <<>>
      <4>. SUFFICES ASSUME Tail(u) # <<>> PROVE FALSE
        OBVIOUS
      <4>1. PICK x : x = Tail(u)[1]
        OBVIOUS
      <4>2. Tail(u) \in Seq(MonitorEvents) /\ 1 \in DOMAIN Tail(u)
        BY <1>4
      <4>8. x \in MonitorEvents
        BY <4>1, <4>2
      <4>9. Has(Tail(u), x)
        BY <4>1, <4>2 DEF Has
      <4>3. x \in MonitorEvents /\ Has(Tail(u), x)
        BY <4>8, <4>9
      <4>4. x.sim \in Sims /\ x \in OfRun(x.sim)
        BY <4>3 DEF MonitorEvents, OfRun
      <4>5. PICK t \in Sims : x \in OfRun(t)
        BY <4>4
      <4>6. Has(Filter(Tail(u), OfRun(t)), x)
        BY <4>2, <4>3, <4>5, FilterProperties
      <4>7. Has(Left(t)', x)
        BY <1>4, <4>6 DEF Left
      <4>. QED BY <3>3, <4>7 DEF Has
    <3>. QED BY <3>3, <3>4
  <2>. QED BY <1>4, <1>16, <2>1, <2>2, <2>3 DEF OverInv
<1>. QED BY <1>19, <1>20, <1>23, <1>24 DEF MonitorInv

LEMMA NothingPublished ==
  ASSUME MonitorInv, UNCHANGED <<runs, published, simMap, counter>>,
         driver' # "gone" => driver # "gone",
         MonitorType', Unhandled' = Unhandled,
         bridge' = bridge \/ (bridge = "joining" /\ bridge' = "done")
  PROVE  MonitorInv'
<1>1. \A t : Left(t)' = Left(t)
  BY DEF Left
<1>2. ASSUME NEW t \in Sims PROVE Story(t)' /\ Handling(t)'
  <2>1. Story(t) /\ Handling(t)
    BY DEF MonitorInv
  <2>2. Story(t)'
    BY <2>1 DEF Story
  <2>3. Left(t)' = Left(t)
    BY <1>1
  <2>4. Handling(t)'
    BY <2>1, <2>3 DEF Handling
  <2>. QED BY <2>2, <2>4
<1>3. BirthInv'
  <2>1. BirthInv
    BY DEF MonitorInv
  <2>. QED BY <2>1 DEF BirthInv
<1>4. OverInv'
  <2>1. OverInv
    BY DEF MonitorInv
  <2>. QED BY <2>1 DEF OverInv
<1>. QED BY <1>2, <1>3, <1>4 DEF MonitorInv

LEMMA MonitorStep ==
  AnswersInv /\ CallersInv /\ MonitorInv /\ [Next]_vars => MonitorInv'
<1>. SUFFICES ASSUME AnswersInv, CallersInv, MonitorInv, [Next]_vars PROVE MonitorInv'
  OBVIOUS
<1>1. ASSUME UNCHANGED <<runs, published, simMap, counter, batch, pinbox>>,
             driver' # "gone" => driver # "gone",
             bridge' = bridge \/ (bridge = "joining" /\ bridge' = "done")
      PROVE  MonitorInv'
  <2>1. MonitorType' /\ Unhandled' = Unhandled
    BY <1>1 DEF MonitorInv, MonitorType, Unhandled
  <2>. QED BY <1>1, <2>1, NothingPublished
<1>2. CASE DriverStep
  <2>1. CASE CreateSimulation
    <3>1. PICK s : s = idx + 1
      OBVIOUS
    <3>2. /\ driver = "accept" /\ driver' = "select" /\ Monitor(s, "IPS_START")
          /\ runs' = [runs EXCEPT ![s] = [stage |-> "running", ok |-> TRUE, evaluation |-> {Caller}]]
      BY <2>1, <3>1 DEF CreateSimulation, Register, Accepting
    <3>3. s \in Sims /\ idx \in Nat
      <4>1. idx \in Nat /\ s <= Cardinality(Evaluations)
        BY <2>1, <3>1, RegisterCallers DEF AnswersInv, SweepType
      <4>2. Sims = 0..Cardinality(Evaluations) /\ Cardinality(Evaluations) \in Nat
        BY BridgesAssumption, FS_CardinalityType
      <4>. QED BY <3>1, <4>1, <4>2
    <3>4. runs[s].stage = "none"
      <4>1. s > idx
        BY <3>1, <3>3
      <4>. QED BY <3>3, <4>1 DEF AnswersInv, FreshInstance
    <3>5. /\ runs'[s].stage = "running" /\ \A t \in Sims : t # s => runs'[t].stage = runs[t].stage
          /\ "IPS_START" \in Types
      BY <3>2, <3>3 DEF AnswersInv, SweepType, Types
    <3>. QED BY <3>2, <3>3, <3>4, <3>5, OneMorePublished
  <2>2. CASE \/ Alone(Listen) \/ Alone(Select) \/ Alone(HandleEvent) \/ Alone(KeepWaiting)
             \/ Alone(TimeOut) \/ Alone(Accept)
    BY <1>1, <2>2 DEF Alone, portalVars, frameworkVars, Listen, Select, HandleEvent, KeepWaiting,
       TimeOut, Accept, EventsHandled
  <2>3. CASE \/ Alone(RecvFails) \/ Alone(AnswerStart) \/ Alone(AnswerEnd) \/ CreateFails
    BY <1>1, <2>3 DEF Alone, portalVars, frameworkVars, RecvFails, AnswerStart, AnswerEnd,
       CreateFails, Register, Accepting
  <2>. QED BY <1>2, <2>1, <2>2, <2>3 DEF DriverStep
<1>3. CASE LauncherStep
  BY <1>1, <1>3 DEF LauncherStep, Alone, portalVars, frameworkVars, SayStart, SayEnd, Call,
     LauncherFails, DakotaEnds, serverVars
<1>4. ASSUME NEW e \in Evaluations, ClientStep(e) PROVE MonitorInv'
  BY <1>1, <1>4 DEF ClientStep, Alone, portalVars, frameworkVars, Connect, SendParameters,
     ClientFails, ClientReturns, serverVars
<1>5. CASE ClientDeath
  BY <1>1, <1>5 DEF ClientDeath, Alone, portalVars, frameworkVars, ClientDies, serverVars
<1>6. CASE FrameworkStep
  <2>1. ASSUME NEW s \in Sims, RunCall(s) PROVE MonitorInv'
    <3>1. "IPS_CALL" \in Types
      BY DEF Types
    <3>. QED BY <2>1, <3>1, OneMorePublished DEF RunCall, dakotaVars
  <2>2. ASSUME NEW s \in Sims, NEW ok, End(s, ok),
               (UNCHANGED driver /\ s # 0) \/ (driver' = "gone" /\ s = 0)
        PROVE  MonitorInv'
    <3>1. /\ runs[s].stage = "running" /\ Monitor(s, "IPS_END")
          /\ runs' = [runs EXCEPT ![s].stage = "ended", ![s].ok = ok]
          /\ "IPS_END" \in Types
      BY <2>2 DEF End, Types
    <3>2. runs'[s] = [runs[s] EXCEPT !.stage = "ended", !.ok = ok] /\ \A t \in Sims : t # s => runs'[t] = runs[t]
      BY <3>1 DEF AnswersInv, SweepType
    <3>3. runs'[s].stage = "ended"
      BY <3>2 DEF AnswersInv, SweepType
    <3>. QED BY <2>2, <3>1, <3>2, <3>3, OneMorePublished
  <2>3. ASSUME NEW s \in Sims, s # 0, EndRun(s) PROVE MonitorInv'
    <3>1. PICK ok \in BOOLEAN : End(s, ok)
      BY <2>3 DEF EndRun
    <3>2. UNCHANGED driver
      BY <2>3 DEF EndRun
    <3>. QED BY <2>2, <2>3, <3>1, <3>2
  <2>4. CASE EndBridgeRun
    BY <2>2, <2>4, SimsAreNumbers DEF EndBridgeRun, DriverGone
  <2>. QED BY <1>6, <2>1, <2>3, <2>4 DEF FrameworkStep
<1>7. CASE PortalStep
  <2>0. UNCHANGED <<runs, published, driver>>
    BY <1>7 DEF PortalStep, dakotaVars, frameworkVars
  <2>1. CASE Fetch
    <3>1. /\ batch = <<>> /\ batch' = pinbox /\ pinbox' = <<>>
          /\ UNCHANGED <<simMap, counter, bridge>>
      BY <2>1 DEF Fetch
    <3>2. pinbox \in Seq(MonitorEvents) /\ <<>> \in Seq(MonitorEvents)
      BY DEF MonitorInv, MonitorType
    <3>3. Unhandled' = Unhandled
      BY <3>1, <3>2 DEF Unhandled
    <3>4. MonitorType'
      BY <2>0, <3>1, <3>2 DEF MonitorInv, MonitorType
    <3>. QED BY <2>0, <3>1, <3>3, <3>4, NothingPublished
  <2>2. CASE ProcessEvent
    BY <2>0, <2>2, EventHandled
  <2>3. CASE Join
    BY <1>1, <2>0, <2>3 DEF Join
  <2>. QED BY <1>7, <2>1, <2>2, <2>3 DEF PortalStep, BridgeStep
<1>8. CASE PostStep
  BY <1>1, <1>8 DEF PostStep, ChildStep, Post, ChildStops, bridgeVars, dakotaVars, frameworkVars
<1>9. CASE UNCHANGED vars
  BY <1>1, <1>9 DEF vars, dakotaVars, portalVars, frameworkVars
<1>. QED BY <1>2, <1>3, <1>4, <1>5, <1>6, <1>7, <1>8, <1>9 DEF Next

LEMMA MonitorStays == Spec => [](AnswersInv /\ CallersInv /\ MonitorInv)
<1>1. Init => AnswersInv /\ CallersInv /\ MonitorInv
  BY AnswersInitially, CallersInitially, MonitorInitially
<1>2. (AnswersInv /\ CallersInv /\ MonitorInv) /\ [Next]_vars
        => (AnswersInv /\ CallersInv /\ MonitorInv)'
  BY AnswersStep, CallersStep, MonitorStep
<1>. QED BY <1>1, <1>2, PTL DEF Spec

(* The bridge knows the run of every event it handles, and returns only    *)
(* when no run can publish any more (PortalBridge.step: the simulations in *)
(* sim_map, and the driver's own, which ends last of those that create).   *)
THEOREM RunsAreMonitored == Spec => []MonitoredToTheEnd
<1>1. MonitorInv => MonitoredToTheEnd
  <2>. SUFFICES ASSUME MonitorInv PROVE MonitoredToTheEnd
    OBVIOUS
  <2>1. Unhandled = <<>> => pinbox = <<>>
    BY DEF Unhandled, MonitorInv, MonitorType
  <2>. QED BY <2>1 DEF MonitorInv, OverInv, MonitoredToTheEnd, BridgeReturns
<1>. QED BY <1>1, MonitorStays, PTL

-----------------------------------------------------------------------------
(* What the portal gets.                                                   *)

Messages == [sim : Sims, type : Types, seqnum : Nat]

(* What the portal has or will get of s if no post is lost.                *)
Stream(s) == delivered[s] \o Got(s)

DeliveryType ==
  /\ pipe \in Seq(Messages) /\ delivered \in [Sims -> Seq(Messages)]
  /\ url \in BOOLEAN /\ child \in {"none", "up", "ended"}

Told(s) ==
  /\ \A i \in DOMAIN Stream(s) :
       /\ Stream(s)[i].seqnum < counter[s]
       /\ Stream(s)[i].type = published[s][Stream(s)[i].seqnum + 1]
  /\ \A i, j \in DOMAIN Stream(s) : i < j => Stream(s)[i].seqnum < Stream(s)[j].seqnum
  /\ site.portal /\ ~lost => Len(Stream(s)) = counter[s]

(* The child ends only when it has emptied the pipe or given up.           *)
ChildInv ==
  /\ gaveUp => lost
  /\ site.portal /\ ~lost => url
  /\ stop => bridge \in {"joining", "done"}
  /\ child = "ended" => lost \/ (stop /\ pipe = <<>>)
  /\ bridge = "done" => child = "ended" \/ ~url

DeliveryInv == DeliveryType /\ ChildInv /\ \A s \in Sims : Told(s)

LEMMA StreamType ==
  ASSUME DeliveryType
  PROVE  \A s \in Sims : /\ Got(s) \in Seq(Messages) /\ delivered[s] \in Seq(Messages)
                         /\ Stream(s) \in Seq(Messages)
<1>1. \A s : Got(s) \in Seq(Messages)
  BY FilterProperties DEF Got, DeliveryType
<1>. QED BY <1>1 DEF DeliveryType, Stream

LEMMA DeliveryInitially == Init => DeliveryInv
<1>. SUFFICES ASSUME Init PROVE DeliveryInv
  OBVIOUS
<1>1. /\ pipe = <<>> /\ delivered = [s \in Sims |-> <<>>] /\ child = "none" /\ ~stop /\ ~gaveUp
      /\ url = site.portal /\ ~lost /\ bridge = "polling" /\ counter = [s \in Sims |-> 0]
      /\ site \in Sites
  BY DEF Init, PortalInit
<1>2. site.portal \in BOOLEAN /\ <<>> \in Seq(Messages)
  <2>1. <<>> \in Seq(Messages)
    OBVIOUS
  <2>. QED BY <1>1, <2>1, BridgesAssumption
<1>3. DeliveryType
  BY <1>1, <1>2 DEF DeliveryType
<1>4. ASSUME NEW s \in Sims PROVE Told(s)
  <2>1. Got(s) = <<>>
    BY <1>1, FilterEmpty DEF Got
  <2>2. Stream(s) = <<>>
    BY <1>1, <2>1 DEF Stream
  <2>. QED BY <1>1, <2>2 DEF Told
<1>5. ChildInv
  BY <1>1 DEF ChildInv
<1>. QED BY <1>3, <1>4, <1>5 DEF DeliveryInv

(* What is told stays true when more is published.                         *)
LEMMA MoreToTell ==
  ASSUME MonitorInv, DeliveryInv, UNCHANGED <<delivered, pipe, counter, site>>,
         lost => lost',
         \A s \in Sims : \A i \in DOMAIN published[s] : published'[s][i] = published[s][i]
  PROVE  \A s \in Sims : Told(s)'
<1>. SUFFICES ASSUME NEW s \in Sims PROVE Told(s)'
  OBVIOUS
<1>1. PICK q : q = Stream(s)
  OBVIOUS
<1>2. Stream(s)' = q
  BY <1>1 DEF Stream, Got
<1>3. q \in Seq(Messages) /\ counter[s] \in Nat /\ published[s] \in Seq(Types)
  BY <1>1, StreamType DEF DeliveryInv, MonitorInv, MonitorType
<1>4. counter[s] <= Len(published[s])
  <2>1. counter[s] + Len(Left(s)) = Len(published[s]) /\ Len(Left(s)) \in Nat
    BY UnhandledType DEF MonitorInv, Handling
  <2>. QED BY <1>3, <2>1
<1>5. /\ \A i \in DOMAIN q : q[i].seqnum < counter[s] /\ q[i].type = published[s][q[i].seqnum + 1]
      /\ \A i, j \in DOMAIN q : i < j => q[i].seqnum < q[j].seqnum
      /\ site.portal /\ ~lost => Len(q) = counter[s]
  BY <1>1 DEF DeliveryInv, Told
<1>6. ASSUME NEW i \in DOMAIN q PROVE q[i].type = published'[s][q[i].seqnum + 1]
  <2>1. q[i] \in Messages
    BY <1>3
  <2>2. q[i].seqnum \in Nat /\ q[i].seqnum < counter[s]
    BY <1>5, <2>1 DEF Messages
  <2>3. q[i].seqnum + 1 \in DOMAIN published[s]
    BY <1>3, <1>4, <2>2
  <2>. QED BY <1>5, <2>3
<1>. QED BY <1>2, <1>5, <1>6 DEF Told

LEMMA NextInStory ==
  ASSUME MonitorInv, ProcessEvent, UNCHANGED <<runs, published, driver>>
  PROVE  LET event == Head(batch) IN
         /\ event.sim \in Sims /\ event.type \in Types /\ event.sim \in Watched(event)
         /\ published[event.sim][counter[event.sim] + 1] = event.type
         /\ counter[event.sim] + 1 \in DOMAIN published[event.sim]
<1>1. PICK h : h = Head(batch)
  OBVIOUS
<1>2. PICK s : s = h.sim
  OBVIOUS
<1>3. PICK u : u = Unhandled
  OBVIOUS
<1>4. u \in Seq(MonitorEvents) /\ u # <<>> /\ h = Head(u) /\ h \in MonitorEvents
  BY <1>1, <1>3, FirstEvent
<1>5. s \in Sims /\ h.type \in Types /\ h \in OfRun(s)
  BY <1>2, <1>4 DEF MonitorEvents, OfRun
<1>6. PICK q : q = Left(s)
  OBVIOUS
<1>7. q \in Seq(MonitorEvents) /\ 1 \in DOMAIN q /\ q[1] = h
  <2>1. PICK r : r = Filter(Tail(u), OfRun(s))
    OBVIOUS
  <2>2. r \in Seq(MonitorEvents)
    <3>1. Tail(u) \in Seq(MonitorEvents)
      BY <1>4
    <3>. QED BY <2>1, <3>1, FilterProperties
  <2>3. q = <<h>> \o r
    BY <1>3, <1>4, <1>5, <1>6, <2>1, FilterFirst DEF Left
  <2>. QED BY <1>4, <2>2, <2>3
<1>8. Handling(s) /\ counter[s] \in Nat /\ published[s] \in Seq(Types)
  BY <1>5 DEF MonitorInv, MonitorType
<1>9. counter[s] + Len(q) = Len(published[s]) /\ h.type = published[s][counter[s] + 1]
  BY <1>6, <1>7, <1>8 DEF Handling
<1>10. counter[s] + 1 \in DOMAIN published[s]
  <2>1. Len(q) \in Nat /\ Len(q) >= 1
    BY <1>7
  <2>. QED BY <1>8, <1>9, <2>1
<1>11. s \in Watched(h)
  <2>1. bridge' # "failed"
    BY EventHandled DEF MonitorInv, OverInv
  <2>. QED BY <1>1, <1>2, <2>1 DEF ProcessEvent
<1>. QED BY <1>1, <1>2, <1>5, <1>9, <1>10, <1>11

LEMMA EventTold ==
  ASSUME MonitorInv, DeliveryInv, ProcessEvent, UNCHANGED <<runs, published, driver, site>>
  PROVE  DeliveryInv'
<1>1. PICK h : h = Head(batch)
  OBVIOUS
<1>2. PICK s : s = h.sim
  OBVIOUS
<1>3. PICK c : c = counter[s]
  OBVIOUS
<1>4. /\ s \in Sims /\ h.type \in Types /\ s \in Watched(h)
      /\ published[s][c + 1] = h.type /\ c \in Nat
  BY <1>1, <1>2, <1>3, NextInStory DEF MonitorInv, MonitorType
<1>5. PICK m : m = [sim |-> s, type |-> h.type, seqnum |-> c]
  OBVIOUS
<1>6. /\ m \in Messages /\ m \in [sim : {s}, type : Types, seqnum : Nat]
      /\ \A t : t # s => m \notin [sim : {t}, type : Types, seqnum : Nat]
      /\ m.seqnum = c /\ m.type = h.type
  BY <1>4, <1>5 DEF Messages
<1>7. /\ Send(m) /\ counter' = [counter EXCEPT ![s] = @ + 1]
      /\ bridge' = (IF ~NoMore(Remaining(h)) THEN bridge
                    ELSE IF child' = "none" THEN "done" ELSE "joining")
      /\ stop' = (stop \/ bridge' = "joining")
      /\ UNCHANGED <<delivered, lost>> /\ batch # <<>>
  BY <1>1, <1>2, <1>3, <1>4, <1>5 DEF ProcessEvent
<1>8. bridge = "polling" /\ ~stop /\ (child = "ended" => lost)
  <2>1. bridge \in {"polling", "done"} /\ Unhandled # <<>>
    BY FirstEvent DEF ProcessEvent
  <2>2. bridge = "polling"
    BY <2>1 DEF MonitorInv, OverInv
  <2>. QED BY <2>2 DEF DeliveryInv, ChildInv
<1>9. counter'[s] = c + 1 /\ \A t \in Sims : t # s => counter'[t] = counter[t]
  BY <1>3, <1>4, <1>7 DEF MonitorInv, MonitorType
<1>10. /\ pipe' \in {pipe, Append(pipe, m)} /\ url' \in BOOLEAN /\ child' \in {"none", "up", "ended"}
       /\ gaveUp' => gaveUp
       /\ child' = "ended" => child = "ended"
       /\ site.portal /\ ~lost => url' /\ pipe' = Append(pipe, m)
       /\ child' = "none" => ~url'
  <2>1. CASE url
    <3>1. /\ child' = (IF child = "none" THEN "up" ELSE child)
          /\ pipe' = (IF child = "ended" THEN pipe ELSE Append(pipe, m))
          /\ url' = ~gaveUp /\ gaveUp' = FALSE
      BY <1>7, <2>1 DEF Send
    <3>2. url' \in BOOLEAN /\ (~lost => url')
      BY <3>1 DEF DeliveryInv, ChildInv
    <3>. QED BY <1>8, <3>1, <3>2 DEF DeliveryInv, DeliveryType
  <2>2. CASE ~url
    <3>1. UNCHANGED <<child, pipe, url, gaveUp>>
      BY <1>7, <2>2 DEF Send
    <3>. QED BY <2>2, <3>1 DEF DeliveryInv, DeliveryType, ChildInv
  <2>. QED BY <2>1, <2>2
<1>11. DeliveryType'
  <2>1. Append(pipe, m) \in Seq(Messages)
    BY <1>6 DEF DeliveryInv, DeliveryType
  <2>. QED BY <1>7, <1>10, <2>1 DEF DeliveryInv, DeliveryType
<1>12. ChildInv'
  <2>1. gaveUp' => lost
    BY <1>10 DEF DeliveryInv, ChildInv
  <2>2. bridge' \in {"polling", "done", "joining"} /\ (stop' => bridge' = "joining")
        /\ (bridge' = "done" => child' = "none")
    BY <1>7, <1>8
  <2>. QED BY <1>7, <1>8, <1>10, <2>1, <2>2 DEF ChildInv
<1>13. \A t \in Sims : t # s => Stream(t)' = Stream(t)
  <2>. SUFFICES ASSUME NEW t \in Sims, t # s PROVE Stream(t)' = Stream(t)
    OBVIOUS
  <2>1. Filter(Append(pipe, m), [sim : {t}, type : Types, seqnum : Nat])
          = Filter(pipe, [sim : {t}, type : Types, seqnum : Nat])
    BY <1>6, FilterAppended DEF DeliveryInv, DeliveryType
  <2>. QED BY <1>7, <1>10, <2>1 DEF Stream, Got
<1>14. PICK q : q = Stream(s)
  OBVIOUS
<1>15. q \in Seq(Messages)
  BY <1>4, <1>14, StreamType DEF DeliveryInv
<1>16. /\ Stream(s)' \in {q, Append(q, m)}
       /\ pipe' = Append(pipe, m) => Stream(s)' = Append(q, m)
  <2>1. PICK d : d = delivered[s]
    OBVIOUS
  <2>2. PICK g : g = Got(s)
    OBVIOUS
  <2>3. d \in Seq(Messages) /\ g \in Seq(Messages) /\ q = d \o g
    BY <1>4, <1>14, <2>1, <2>2, StreamType DEF DeliveryInv, Stream
  <2>4. Filter(Append(pipe, m), [sim : {s}, type : Types, seqnum : Nat]) = Append(g, m)
    <3>1. PICK S : S = [sim : {s}, type : Types, seqnum : Nat]
      OBVIOUS
    <3>2. g = Filter(pipe, S) /\ m \in S /\ m \in Messages
      BY <1>6, <2>2, <3>1 DEF Got
    <3>3. pipe \in Seq(Messages)
      BY DEF DeliveryInv, DeliveryType
    <3>4. Filter(Append(pipe, m), S) = Append(g, m)
      BY <3>2, <3>3, FilterAppended
    <3>. QED BY <3>1, <3>4
  <2>5. d \o Append(g, m) = Append(d \o g, m)
    BY <1>6, <2>3
  <2>6. CASE pipe' = Append(pipe, m)
    BY <1>7, <2>1, <2>3, <2>4, <2>5, <2>6 DEF Stream, Got
  <2>7. CASE pipe' = pipe
    <3>1. Stream(s)' = q
      BY <1>7, <1>14, <2>7 DEF Stream, Got
    <3>2. pipe # Append(pipe, m)
      BY <1>6, AppendParts DEF DeliveryInv, DeliveryType
    <3>. QED BY <2>7, <3>1, <3>2
  <2>. QED BY <1>10, <2>6, <2>7
<1>17. /\ \A i \in DOMAIN q : q[i].seqnum < c /\ q[i].type = published[s][q[i].seqnum + 1]
       /\ \A i, j \in DOMAIN q : i < j => q[i].seqnum < q[j].seqnum
       /\ site.portal /\ ~lost => Len(q) = c
  BY <1>3, <1>4, <1>14 DEF DeliveryInv, Told
<1>18. \A i \in DOMAIN q : q[i].seqnum \in Nat
  <2>. SUFFICES ASSUME NEW i \in DOMAIN q PROVE q[i].seqnum \in Nat
    OBVIOUS
  <2>1. q[i] \in Messages
    BY <1>15
  <2>. QED BY <2>1 DEF Messages
<1>19. Told(s)'
  <2>1. CASE Stream(s)' = q
    <3>1. ~(site.portal /\ ~lost)
      <4>. SUFFICES ASSUME site.portal /\ ~lost PROVE FALSE
        OBVIOUS
      <4>1. q = Append(q, m)
        BY <1>10, <1>16, <2>1
      <4>. QED BY <1>6, <1>15, <4>1, AppendParts
    <3>2. \A i \in DOMAIN q : q[i].seqnum < c + 1
      BY <1>4, <1>17, <1>18
    <3>. QED BY <1>7, <1>9, <1>17, <2>1, <3>1, <3>2 DEF Told
  <2>2. CASE Stream(s)' = Append(q, m)
    <3>1. /\ Len(q) \in Nat /\ Len(Append(q, m)) = Len(q) + 1
          /\ DOMAIN q = 1..Len(q) /\ DOMAIN Append(q, m) = 1..(Len(q) + 1)
          /\ Append(q, m)[Len(q) + 1] = m /\ \A i \in DOMAIN q : Append(q, m)[i] = q[i]
          /\ \A i \in DOMAIN Append(q, m) : i \in DOMAIN q \/ i = Len(q) + 1
      BY <1>6, <1>15, AppendParts
    <3>2. PICK a : a = Append(q, m)
      OBVIOUS
    <3>3. ASSUME NEW i \in DOMAIN a
          PROVE  a[i].seqnum < c + 1 /\ a[i].type = published[s][a[i].seqnum + 1]
      <4>1. CASE i \in DOMAIN q
        <5>1. a[i] = q[i] /\ q[i].seqnum \in Nat /\ q[i].seqnum < c
              /\ q[i].type = published[s][q[i].seqnum + 1]
          BY <1>17, <1>18, <3>1, <3>2, <4>1
        <5>. QED BY <1>4, <5>1
      <4>2. CASE i = Len(q) + 1
        <5>1. a[i] = m
          BY <3>1, <3>2, <4>2
        <5>2. c < c + 1
          BY <1>4
        <5>. QED BY <1>4, <1>6, <5>1, <5>2
      <4>. QED BY <3>1, <3>2, <3>3, <4>1, <4>2
    <3>4. ASSUME NEW i \in DOMAIN a, NEW j \in DOMAIN a, i < j
          PROVE  a[i].seqnum < a[j].seqnum
      <4>1. i \in DOMAIN q
        BY <3>1, <3>2, <3>4
      <4>2. CASE j \in DOMAIN q
        BY <1>17, <3>1, <3>2, <3>4, <4>1, <4>2
      <4>3. CASE j = Len(q) + 1
        <5>1. a[j] = m /\ a[i] = q[i]
          BY <3>1, <3>2, <4>1, <4>3
        <5>. QED BY <1>6, <1>17, <4>1, <5>1
      <4>. QED BY <3>1, <3>2, <4>2, <4>3
    <3>5. site.portal /\ ~lost => Len(a) = c + 1
      BY <1>17, <3>1, <3>2
    <3>. QED BY <1>7, <1>9, <2>2, <3>2, <3>3, <3>4, <3>5 DEF Told
  <2>. QED BY <1>16, <2>1, <2>2
<1>20. ASSUME NEW t \in Sims, t # s PROVE Told(t)'
  <2>1. PICK v : v = Stream(t)
    OBVIOUS
  <2>2. Stream(t)' = v /\ counter'[t] = counter[t]
    BY <1>9, <1>13, <1>20, <2>1
  <2>3. Told(t)
    BY DEF DeliveryInv
  <2>. QED BY <1>7, <2>1, <2>2, <2>3 DEF Told
<1>21. \A t \in Sims : Told(t)'
  BY <1>19, <1>20
<1>. QED BY <1>11, <1>12, <1>21 DEF DeliveryInv

LEMMA PostTold ==
  ASSUME MonitorInv, DeliveryInv, Post, UNCHANGED <<published, site>>
  PROVE  DeliveryInv'
<1>1. /\ child = "up" /\ pipe' = <<>>
      /\ UNCHANGED <<counter, bridge, url, stop>>
      /\ \/ /\ delivered' = [s \in Sims |-> delivered[s] \o Got(s)]
            /\ UNCHANGED <<child, gaveUp, lost>>
         \/ /\ lost' = TRUE /\ UNCHANGED delivered /\ child' \in {child, "ended"}
            /\ gaveUp' \in {gaveUp, TRUE}
  BY DEF Post, PostReaches, PostIsRejected, PostFails, bridgeVars
<1>2. <<>> \in Seq(Messages)
  OBVIOUS
<1>3. \A s \in Sims : Got(s) \in Seq(Messages) /\ delivered[s] \in Seq(Messages)
  BY StreamType DEF DeliveryInv
<1>4. delivered' \in [Sims -> Seq(Messages)]
  <2>1. \A s \in Sims : delivered[s] \o Got(s) \in Seq(Messages)
    BY <1>3
  <2>. QED BY <1>1, <2>1 DEF DeliveryInv, DeliveryType
<1>5. DeliveryType'
  BY <1>1, <1>2, <1>4 DEF DeliveryInv, DeliveryType
<1>6. ChildInv'
  <2>1. /\ ~stop' \/ bridge' \in {"joining", "done"}
        /\ bridge' = "done" => ~url'
    BY <1>1 DEF DeliveryInv, ChildInv
  <2>2. CASE UNCHANGED <<child, gaveUp, lost>>
    <3>1. child' = "up" /\ (gaveUp' => lost') /\ (site.portal /\ ~lost' => url)
      BY <1>1, <2>2 DEF DeliveryInv, ChildInv
    <3>. QED BY <1>1, <2>1, <3>1 DEF ChildInv
  <2>3. CASE lost' = TRUE
    BY <1>1, <2>1, <2>3 DEF ChildInv
  <2>. QED BY <1>1, <2>2, <2>3
<1>7. ASSUME NEW s \in Sims PROVE Told(s)'
  <2>1. PICK d : d = delivered[s]
    OBVIOUS
  <2>2. PICK g : g = Got(s)
    OBVIOUS
  <2>3. PICK q : q = d \o g
    OBVIOUS
  <2>4. d \in Seq(Messages) /\ g \in Seq(Messages) /\ q = Stream(s) /\ q \in Seq(Messages)
    BY <1>3, <2>1, <2>2, <2>3 DEF Stream
  <2>5. Got(s)' = <<>>
    BY <1>1, FilterEmpty DEF Got
  <2>6. /\ \A i \in DOMAIN q : q[i].seqnum < counter[s] /\ q[i].type = published[s][q[i].seqnum + 1]
        /\ \A i, j \in DOMAIN q : i < j => q[i].seqnum < q[j].seqnum
        /\ site.portal /\ ~lost => Len(q) = counter[s]
    BY <2>4 DEF DeliveryInv, Told
  <2>7. CASE delivered' = [r \in Sims |-> delivered[r] \o Got(r)] /\ UNCHANGED lost
    <3>1. Stream(s)' = q \o <<>>
      BY <2>1, <2>2, <2>3, <2>5, <2>7 DEF Stream
    <3>2. Stream(s)' = q
      BY <2>4, <3>1
    <3>. QED BY <1>1, <2>6, <2>7, <3>2 DEF Told
  <2>8. CASE lost' /\ UNCHANGED delivered
    <3>1. Stream(s)' = d
      BY <2>1, <2>4, <2>5, <2>8 DEF Stream
    <3>2. \A i \in DOMAIN d : i \in DOMAIN q /\ q[i] = d[i]
      <4>1. d \in Seq(Messages) /\ g \in Seq(Messages)
        BY <2>4
      <4>2. \A i \in DOMAIN d : i \in DOMAIN (d \o g) /\ (d \o g)[i] = d[i]
        BY <4>1, FirstPart
      <4>. QED BY <2>3, <4>2
    <3>. QED BY <1>1, <2>6, <2>8, <3>1, <3>2 DEF Told
  <2>. QED BY <1>1, <2>7, <2>8
<1>. QED BY <1>5, <1>6, <1>7 DEF DeliveryInv

LEMMA DeliveryStep ==
  AnswersInv /\ MonitorInv /\ DeliveryInv /\ [Next]_vars => DeliveryInv'
<1>. SUFFICES ASSUME AnswersInv, MonitorInv, DeliveryInv, [Next]_vars PROVE DeliveryInv'
  OBVIOUS
<1>1. ASSUME UNCHANGED <<delivered, pipe, counter, site, lost, gaveUp, url, stop, child, bridge>>,
             \A s \in Sims : \A i \in DOMAIN published[s] : published'[s][i] = published[s][i]
      PROVE  DeliveryInv'
  <2>1. \A s \in Sims : Told(s)'
    BY <1>1, MoreToTell
  <2>2. DeliveryType' /\ ChildInv'
    BY <1>1 DEF DeliveryInv, DeliveryType, ChildInv
  <2>. QED BY <2>1, <2>2 DEF DeliveryInv
<1>2. ASSUME NEW s, NEW type \in Types, Monitor(s, type) PROVE DeliveryInv'
  <2>1. /\ UNCHANGED <<delivered, pipe, counter, site, lost, gaveUp, url, stop, child, bridge>>
        /\ published' = [published EXCEPT ![s] = Append(@, type)]
    BY <1>2 DEF Monitor, childVars
  <2>2. ASSUME NEW t \in Sims, NEW i \in DOMAIN published[t] PROVE published'[t][i] = published[t][i]
    <3>1. published \in [Sims -> Seq(Types)] /\ published[t] \in Seq(Types)
      BY DEF MonitorInv, MonitorType
    <3>2. CASE t = s
      <4>1. published'[t] = Append(published[t], type)
        BY <2>1, <3>1, <3>2
      <4>. QED BY <3>1, <4>1, AppendParts
    <3>3. CASE t # s
      BY <2>1, <3>1, <3>3
    <3>. QED BY <3>2, <3>3
  <2>. QED BY <1>1, <2>1, <2>2
<1>3. ASSUME UNCHANGED portalVars, UNCHANGED <<published, site>> PROVE DeliveryInv'
  BY <1>1, <1>3 DEF portalVars
<1>4. "IPS_START" \in Types /\ "IPS_CALL" \in Types /\ "IPS_END" \in Types
  BY DEF Types
<1>5. CASE DriverStep
  <2>1. CASE CreateSimulation
    BY <1>2, <1>4, <2>1 DEF CreateSimulation
  <2>. QED BY <1>3, <1>5, <2>1 DEF DriverStep, Alone, CreateFails, frameworkVars
<1>6. CASE LauncherStep
  BY <1>3, <1>6 DEF LauncherStep, Alone, frameworkVars
<1>7. ASSUME NEW e \in Evaluations, ClientStep(e) PROVE DeliveryInv'
  BY <1>3, <1>7 DEF ClientStep, Alone, frameworkVars
<1>8. CASE ClientDeath
  BY <1>3, <1>8 DEF ClientDeath, Alone, frameworkVars
<1>9. CASE FrameworkStep
  BY <1>2, <1>4, <1>9 DEF FrameworkStep, RunCall, EndRun, EndBridgeRun, End
<1>10. CASE PortalStep
  <2>0. UNCHANGED <<runs, published, driver, site>>
    BY <1>10 DEF PortalStep, dakotaVars, frameworkVars
  <2>1. CASE Fetch
    BY <1>1, <2>0, <2>1 DEF Fetch, childVars
  <2>2. CASE ProcessEvent
    BY <2>0, <2>2, EventTold
  <2>3. CASE Join
    <3>1. /\ child = "ended" /\ bridge' = "done" /\ bridge = "joining"
          /\ url' = (url /\ ~gaveUp) /\ gaveUp' = FALSE
          /\ UNCHANGED <<counter, child, stop, pipe, delivered, lost>>
      BY <2>3 DEF Join
    <3>2. \A s \in Sims : Told(s)'
      BY <2>0, <3>1, MoreToTell
    <3>3. DeliveryType'
      BY <3>1 DEF DeliveryInv, DeliveryType
    <3>4. ChildInv'
      BY <2>0, <3>1 DEF DeliveryInv, ChildInv
    <3>. QED BY <3>2, <3>3, <3>4 DEF DeliveryInv
  <2>. QED BY <1>10, <2>1, <2>2, <2>3 DEF PortalStep, BridgeStep
<1>11. CASE PostStep
  <2>0. UNCHANGED <<published, site>>
    BY <1>11 DEF PostStep, frameworkVars
  <2>1. CASE Post
    BY <2>0, <2>1, PostTold
  <2>2. CASE ChildStops
    <3>1. /\ child = "up" /\ stop /\ pipe = <<>> /\ child' = "ended"
          /\ UNCHANGED <<counter, url, bridge, stop, pipe, gaveUp, delivered, lost>>
      BY <2>2 DEF ChildStops, Drained, bridgeVars
    <3>2. \A s \in Sims : Told(s)'
      BY <2>0, <3>1, MoreToTell
    <3>3. DeliveryType'
      BY <3>1 DEF DeliveryInv, DeliveryType
    <3>4. ChildInv'
      BY <2>0, <3>1 DEF DeliveryInv, ChildInv
    <3>. QED BY <3>2, <3>3, <3>4 DEF DeliveryInv
  <2>. QED BY <1>11, <2>1, <2>2 DEF PostStep, ChildStep
<1>12. CASE UNCHANGED vars
  BY <1>3, <1>12 DEF vars, frameworkVars
<1>. QED BY <1>5, <1>6, <1>7, <1>8, <1>9, <1>10, <1>11, <1>12 DEF Next

(* In whatever order events are fetched, handled and posted, and whoever   *)
(* dies: the portal gets the events of a run in order, under the run's own *)
(* numbers, and all of them when no post was lost (PortalBridge,           *)
(* process_event and send_post).                                           *)
THEOREM PortalIsTold == Spec => []PortalHearsAll
<1>1. MonitorInv /\ DeliveryInv => PortalHearsAll
  <2>. SUFFICES ASSUME MonitorInv, DeliveryInv, NEW s \in Sims
                PROVE  /\ \A i \in 1..Len(delivered[s]) :
                            /\ delivered[s][i].seqnum < Len(published[s])
                            /\ delivered[s][i].type = published[s][delivered[s][i].seqnum + 1]
                            /\ i > 1 => delivered[s][i].seqnum > delivered[s][i - 1].seqnum
                       /\ (site.portal /\ BridgeReturns /\ ~lost) => Len(delivered[s]) = Len(published[s])
    BY DEF PortalHearsAll
  <2>1. PICK d : d = delivered[s]
    OBVIOUS
  <2>2. PICK g : g = Got(s)
    OBVIOUS
  <2>3. PICK q : q = Stream(s)
    OBVIOUS
  <2>4. PICK c : c = counter[s]
    OBVIOUS
  <2>5. d \in Seq(Messages) /\ g \in Seq(Messages) /\ q = d \o g
    BY <2>1, <2>2, <2>3, StreamType DEF DeliveryInv, Stream
  <2>6. ASSUME NEW i \in DOMAIN d PROVE i \in DOMAIN q /\ q[i] = d[i] /\ d[i].seqnum \in Nat
    <3>1. d[i] \in Messages
      BY <2>5
    <3>. QED BY <2>5, <3>1, FirstPart DEF Messages
  <2>7. /\ \A i \in DOMAIN q : q[i].seqnum < c /\ q[i].type = published[s][q[i].seqnum + 1]
        /\ \A i, j \in DOMAIN q : i < j => q[i].seqnum < q[j].seqnum
        /\ site.portal /\ ~lost => Len(q) = c
    BY <2>3, <2>4 DEF DeliveryInv, Told
  <2>8. PICK n : n = Len(Left(s))
    OBVIOUS
  <2>9. c \in Nat /\ n \in Nat /\ Len(published[s]) \in Nat /\ c + n = Len(published[s])
    BY <2>4, <2>8, UnhandledType DEF MonitorInv, MonitorType, Handling
  <2>10. ASSUME NEW i \in 1..Len(d)
         PROVE  /\ d[i].seqnum < Len(published[s])
                /\ d[i].type = published[s][d[i].seqnum + 1]
                /\ i > 1 => d[i].seqnum > d[i - 1].seqnum
    <3>1. i \in DOMAIN d /\ i \in DOMAIN q /\ q[i] = d[i] /\ d[i].seqnum \in Nat
      BY <2>5, <2>6
    <3>2. d[i].seqnum < Len(published[s]) /\ d[i].type = published[s][d[i].seqnum + 1]
      <4>1. d[i].seqnum < c /\ d[i].type = published[s][d[i].seqnum + 1]
        BY <2>7, <3>1
      <4>. QED BY <2>9, <3>1, <4>1
    <3>3. ASSUME i > 1 PROVE d[i].seqnum > d[i - 1].seqnum
      <4>1. i - 1 \in DOMAIN d /\ i - 1 < i
        BY <2>5, <3>1, <3>3
      <4>2. i - 1 \in DOMAIN q /\ q[i - 1] = d[i - 1] /\ d[i - 1].seqnum \in Nat
        BY <2>6, <4>1
      <4>3. d[i - 1].seqnum < d[i].seqnum
        BY <2>7, <3>1, <4>1, <4>2
      <4>. QED BY <3>1, <4>2, <4>3
    <3>. QED BY <3>2, <3>3
  <2>11. ASSUME site.portal, BridgeReturns, ~lost PROVE Len(d) = Len(published[s])
    <3>1. Unhandled = <<>> /\ bridge = "done"
      BY <2>11 DEF BridgeReturns, MonitorInv, OverInv
    <3>2. pipe = <<>>
      BY <2>11, <3>1 DEF DeliveryInv, ChildInv
    <3>3. n = 0
      BY <2>8, <3>1, FilterEmpty DEF Left
    <3>4. g = <<>>
      BY <2>2, <3>2, FilterEmpty DEF Got
    <3>5. q = d
      BY <2>5, <3>4
    <3>. QED BY <2>7, <2>9, <2>11, <3>3, <3>5
  <2>. QED BY <2>1, <2>10, <2>11
<1>2. Init => AnswersInv /\ CallersInv /\ MonitorInv /\ DeliveryInv
  BY AnswersInitially, CallersInitially, MonitorInitially, DeliveryInitially
<1>3. (AnswersInv /\ CallersInv /\ MonitorInv /\ DeliveryInv) /\ [Next]_vars
        => (AnswersInv /\ CallersInv /\ MonitorInv /\ DeliveryInv)'
  BY AnswersStep, CallersStep, MonitorStep, DeliveryStep
<1>. QED BY <1>1, <1>2, <1>3, PTL DEF Spec

-----------------------------------------------------------------------------
(* Who is served, and until when.                                          *)

(* What goes wrong stays wrong. *)
Wrong ==
  \/ \E e \in Evaluations : Gone(e)
  \/ \E s \in Sims : runs[s].stage = "ended" /\ ~runs[s].ok
  \/ \E s \in 1 .. idx : runs[s].stage = "none"

TakenAnswered == \A e \in Evaluations : Taken(e) => answer[e] # NoAnswer

(* While the driver serves, it remembers every client it owes an answer.   *)
ClientInv(e) ==
  /\ client[e] # "idle" => e \in site.sweep
  /\ Taken(e) => client[e] # "idle"
  /\ client[e] = "failed" => driver \notin Serving /\ answer[e] = NoAnswer
  /\ client[e] = "returned" => answer[e] # NoAnswer
  /\ driver \in Serving /\ Taken(e) /\ answer[e] = NoAnswer => \E c \in cache : c.caller = e

(* It stops when it owes nothing, when the sweep is over, or broken.       *)
ServiceInv ==
  /\ driver \in Serving \cup {"done", "broken", "gone"}
  /\ driver = "init" => \A e \in Evaluations : ~Taken(e)
  /\ launcher # "start" => driver # "init"
  /\ driver = "broken" => Wrong
  /\ driver \in {"done", "gone"} => Wrong \/ TakenAnswered
  /\ launcher \in {"end", "wait_end", "returned"} =>
       driver \notin Serving \/ Wrong \/ \A e \in site.sweep : answer[e] # NoAnswer

SweepInv == site \in Sites /\ ServiceInv /\ \A e \in Evaluations : ClientInv(e)

LEMMA SweepInitially == Init => SweepInv
<1>. SUFFICES ASSUME Init PROVE SweepInv
  OBVIOUS
<1>1. /\ site \in Sites /\ driver = "init" /\ launcher = "start"
      /\ client = [e \in Evaluations |-> "idle"] /\ answer = [e \in Evaluations |-> NoAnswer]
      /\ runs = [s \in Sims |-> IF s = 0 THEN [Unborn EXCEPT !.stage = "running"] ELSE Unborn]
  BY DEF Init, DakotaInit
<1>2. \A s \in Sims : runs[s].evaluation = {}
  BY <1>1 DEF Unborn
<1>3. \A e \in Evaluations : ~Taken(e)
  BY <1>2 DEF Taken
<1>. QED BY <1>1, <1>3 DEF SweepInv, ServiceInv, ClientInv, Serving

LEMMA WrongStays ==
  ASSUME UNCHANGED <<runs, idx>>, \A e \in Evaluations : Gone(e) => Gone(e)'
  PROVE  Wrong => Wrong'
BY DEF Wrong

LEMMA DriverGoesOn ==
  ASSUME SweepInv, driver \in Serving, driver' \in Serving, driver' # "init",
         UNCHANGED <<runs, idx, client, answer, cache, site>>, launcher' \in {launcher, "dakota"}
  PROVE  SweepInv'
<1>1. (Wrong => Wrong') /\ \A e \in Evaluations : Taken(e)' <=> Taken(e)
  BY DEF Wrong, Gone, Taken
<1>. QED BY <1>1 DEF SweepInv, ServiceInv, ClientInv, Serving

LEMMA DriverLeaves ==
  ASSUME SweepInv, driver' \in {"done", "broken", "gone"}, UNCHANGED <<client, answer, site>>,
         \A e \in Evaluations : Taken(e)' => Taken(e),
         driver' = "broken" => Wrong',
         driver' \in {"done", "gone"} => Wrong' \/ TakenAnswered
  PROVE  SweepInv'
<1>1. driver' \notin Serving
  BY DEF Serving
<1>2. TakenAnswered => TakenAnswered'
  BY DEF TakenAnswered
<1>3. ServiceInv'
  BY <1>1, <1>2 DEF ServiceInv, Serving
<1>4. ASSUME NEW e \in Evaluations PROVE ClientInv(e)'
  <2>1. ClientInv(e)
    BY DEF SweepInv
  <2>. QED BY <1>1, <2>1 DEF ClientInv
<1>. QED BY <1>3, <1>4 DEF SweepInv

(* The launcher and the clients go on; the driver stays where it is.       *)
LEMMA OthersGoOn ==
  ASSUME SweepInv, UNCHANGED <<runs, idx, driver, answer, cache, site>>,
         \A e \in Evaluations :
           /\ Gone(e) => Gone(e)'
           /\ client[e] # "idle" => client'[e] # "idle"
           /\ client'[e] # "idle" => client[e] # "idle" \/ e \in site.sweep
           /\ client'[e] = "failed" => client[e] = "failed" \/ (driver \notin Serving /\ answer[e] = NoAnswer)
           /\ client'[e] = "returned" => client[e] = "returned" \/ answer[e] # NoAnswer,
         launcher' # "start" => driver # "init",
         launcher' \in {"end", "wait_end", "returned"} =>
           driver \notin Serving \/ Wrong \/ \A e \in site.sweep : answer[e] # NoAnswer
  PROVE  SweepInv'
<1>1. Wrong => Wrong'
  BY WrongStays
<1>2. \A e \in Evaluations : Taken(e)' <=> Taken(e)
  BY DEF Taken
<1>3. TakenAnswered => TakenAnswered'
  BY <1>2 DEF TakenAnswered
<1>4. ServiceInv'
  BY <1>1, <1>2, <1>3 DEF SweepInv, ServiceInv
<1>5. ASSUME NEW e \in Evaluations PROVE ClientInv(e)'
  <2>1. ClientInv(e)
    BY DEF SweepInv
  <2>. QED BY <1>2, <2>1 DEF ClientInv
<1>. QED BY <1>4, <1>5 DEF SweepInv

-----------------------------------------------------------------------------
(* The driver answers, and creates a run.                                  *)

LEMMA AnsweringSweep ==
  ASSUME AnswersInv, SweepInv, HandleEvent, UNCHANGED <<runs, site>>
  PROVE  SweepInv'
<1>0. driver = "events" /\ UNCHANGED <<idx, client, launcher>>
  BY DEF HandleEvent
<1>. DEFINE to == AnswerTo(Head(events))
<1>1. CASE driver' = "broken" /\ UNCHANGED <<answer, cache>> /\ \E c \in to : Gone(c.caller)
  <2>1. PICK c \in cache : Gone(c.caller)
    BY <1>1 DEF AnswerTo
  <2>2. c.caller \in Evaluations
    <3>1. c \in [instance : Nat, caller : Evaluations]
      BY DEF AnswersInv, SweepType
    <3>. QED BY <3>1
  <2>3. Gone(c.caller)'
    BY <1>0, <2>1 DEF Gone
  <2>4. Wrong'
    BY <2>2, <2>3 DEF Wrong
  <2>5. \A e \in Evaluations : Taken(e)' => Taken(e)
    BY DEF Taken
  <2>. QED BY <1>0, <1>1, <2>4, <2>5, DriverLeaves
<1>2. CASE /\ answer' = [e \in Evaluations |->
                           IF \E c \in to : c.caller = e THEN Result(Head(events)) ELSE answer[e]]
           /\ cache' = cache \ to /\ driver' = driver
  <2>. HIDE DEF to
  <2>1. Result(Head(events)) # NoAnswer
    BY DEF Result, NoAnswer
  <2>2. \A e \in Evaluations : answer[e] # NoAnswer => answer'[e] # NoAnswer
    BY <1>2, <2>1
  <2>3. (Wrong => Wrong') /\ \A e \in Evaluations : Taken(e)' <=> Taken(e)
    BY <1>0 DEF Wrong, Gone, Taken
  <2>4. site.sweep \subseteq Evaluations
    BY BridgesAssumption DEF SweepInv
  <2>5. driver \in Serving /\ driver # "init" /\ driver \notin {"done", "broken", "gone"}
    BY <1>0 DEF Serving
  <2>6. ServiceInv'
    BY <1>0, <1>2, <2>2, <2>3, <2>4, <2>5 DEF SweepInv, ServiceInv
  <2>7. ASSUME NEW e \in Evaluations PROVE ClientInv(e)'
    <3>1. ClientInv(e)
      BY DEF SweepInv
    <3>2. ASSUME Taken(e), answer'[e] = NoAnswer PROVE \E c \in cache' : c.caller = e
      <4>1. ~\E c \in to : c.caller = e
        BY <1>2, <2>1, <3>2
      <4>2. PICK c \in cache : c.caller = e
        BY <2>2, <2>5, <3>1, <3>2 DEF ClientInv
      <4>. QED BY <1>2, <4>1, <4>2
    <3>. QED BY <1>0, <1>2, <2>2, <2>3, <2>5, <3>1, <3>2 DEF ClientInv
  <2>. QED BY <2>6, <2>7 DEF SweepInv
<1>. QED BY <1>1, <1>2 DEF HandleEvent

LEMMA RegisterSweep ==
  ASSUME AnswersInv, CallersInv, SweepInv, CreateSimulation \/ CreateFails
  PROVE  SweepInv'
<1>1. PICK x : x = Caller
  OBVIOUS
<1>2. /\ driver = "accept" /\ x \notin Launcher /\ backlog' = Tail(backlog) /\ idx' = idx + 1
      /\ cache' = cache \cup {[instance |-> idx + 1, caller |-> x]}
      /\ UNCHANGED <<client, answer, launcher, site>>
  BY <1>1 DEF CreateSimulation, CreateFails, Register, Accepting, Monitor, frameworkVars
<1>3. x \in Evaluations /\ client[x] # "idle"
  BY <1>1, <1>2, Taking DEF CallersInv
<1>4. idx + 1 <= Cardinality(Evaluations) /\ idx \in Nat /\ Cardinality(Evaluations) \in Nat
  <2>1. Cardinality(Evaluations) \in Nat
    BY BridgesAssumption, FS_CardinalityType
  <2>. QED BY <1>2, <2>1, RegisterCallers DEF AnswersInv, SweepType
<1>5. idx + 1 \in Sims /\ \A s \in 1 .. idx : s \in Sims /\ s # idx + 1
  BY <1>4, BridgesAssumption
<1>6. runs[idx + 1].stage = "none"
  <2>1. idx + 1 > idx
    BY <1>4
  <2>. QED BY <1>5, <2>1 DEF AnswersInv, FreshInstance
<1>7. PICK n : n = idx + 1
  OBVIOUS
<1>8. 1 .. idx \subseteq 1 .. idx' /\ n \in 1 .. idx'
  BY <1>2, <1>4, <1>7
<1>9. CASE CreateFails
  <2>1. driver' = "broken" /\ runs' = runs
    BY <1>9 DEF CreateFails, Register, Accepting, frameworkVars
  <2>2. runs'[n].stage = "none"
    BY <1>6, <1>7, <2>1
  <2>3. Wrong'
    BY <1>8, <2>2 DEF Wrong
  <2>4. \A e \in Evaluations : Taken(e)' => Taken(e)
    BY <2>1 DEF Taken
  <2>. QED BY <1>2, <2>1, <2>3, <2>4, DriverLeaves
<1>10. CASE CreateSimulation
  <2>1. /\ driver' = "select"
        /\ runs' = [runs EXCEPT ![n] = [stage |-> "running", ok |-> TRUE, evaluation |-> {x}]]
    BY <1>1, <1>7, <1>10 DEF CreateSimulation, Register, Accepting
  <2>2. /\ \A s \in Sims : s # n => runs'[s] = runs[s]
        /\ runs'[n].evaluation = {x}
    BY <1>5, <1>7, <2>1 DEF AnswersInv, SweepType
  <2>3. Wrong => Wrong'
    <3>1. ASSUME NEW e \in Evaluations, Gone(e) PROVE Wrong'
      BY <1>2, <3>1 DEF Wrong, Gone
    <3>2. ASSUME NEW s \in Sims, runs[s].stage = "ended", ~runs[s].ok PROVE Wrong'
      <4>1. runs'[s] = runs[s]
        BY <1>6, <1>7, <2>2, <3>2
      <4>. QED BY <3>2, <4>1 DEF Wrong
    <3>3. ASSUME NEW s \in 1 .. idx, runs[s].stage = "none" PROVE Wrong'
      <4>1. runs'[s] = runs[s] /\ s \in 1 .. idx'
        BY <1>5, <1>7, <1>8, <2>2
      <4>. QED BY <3>3, <4>1 DEF Wrong
    <3>. QED BY <3>1, <3>2, <3>3 DEF Wrong
  <2>4. \A e \in Evaluations : Taken(e)' => Taken(e) \/ e = x
    BY <2>2 DEF Taken
  <2>5. ServiceInv'
    <3>1. driver \in Serving /\ driver' \in Serving /\ driver' # "init"
      BY <1>2, <2>1 DEF Serving
    <3>. QED BY <1>2, <2>1, <2>3, <3>1 DEF SweepInv, ServiceInv
  <2>6. ASSUME NEW e \in Evaluations PROVE ClientInv(e)'
    <3>1. ClientInv(e) /\ driver \in Serving /\ driver' \in Serving
      BY <1>2, <2>1 DEF SweepInv, Serving
    <3>2. \A c \in cache : c \in cache'
      BY <1>2
    <3>3. e = x => \E c \in cache' : c.caller = e
      <4>1. PICK c : c = [instance |-> idx + 1, caller |-> x]
        OBVIOUS
      <4>. QED BY <1>2, <4>1
    <3>. QED BY <1>2, <1>3, <2>4, <3>1, <3>2, <3>3 DEF ClientInv
  <2>. QED BY <1>2, <2>5, <2>6 DEF SweepInv
<1>. QED BY <1>9, <1>10

LEMMA InstancesAreRuns ==
  ASSUME AnswersInv, CallersInv
  PROVE  1 .. idx \subseteq Sims
<1>1. Called \subseteq Evaluations /\ IsFiniteSet(Evaluations)
  BY BridgesAssumption DEF Called
<1>2. Cardinality(Called) <= Cardinality(Evaluations) /\ Cardinality(Evaluations) \in Nat
  BY <1>1, FS_Subset, FS_CardinalityType
<1>3. idx <= Cardinality(Evaluations)
  BY <1>2, CalledIsFinite DEF AnswersInv, SweepType, CallersInv
<1>. QED BY <1>2, <1>3, BridgesAssumption DEF AnswersInv, SweepType

(* A run that ends keeps its parameters.                                   *)
LEMMA RunEnds ==
  ASSUME AnswersInv, CallersInv, NEW s \in Sims, NEW ok \in BOOLEAN, End(s, ok), UNCHANGED <<client, idx>>
  PROVE  (Wrong => Wrong') /\ \A e \in Evaluations : Taken(e)' <=> Taken(e)
<1>1. /\ runs[s].stage = "running"
      /\ runs' = [runs EXCEPT ![s].stage = "ended", ![s].ok = ok]
  BY DEF End
<1>2. \A t \in Sims : /\ runs'[t].evaluation = runs[t].evaluation
                      /\ t # s => runs'[t] = runs[t]
  BY <1>1 DEF AnswersInv, SweepType
<1>3. \A e \in Evaluations : Taken(e)' <=> Taken(e)
  BY <1>2 DEF Taken
<1>4. Wrong => Wrong'
  <2>1. ASSUME NEW e \in Evaluations, Gone(e) PROVE Wrong'
    BY <2>1 DEF Wrong, Gone
  <2>2. ASSUME NEW t \in Sims, runs[t].stage = "ended", ~runs[t].ok PROVE Wrong'
    <3>1. runs'[t] = runs[t]
      BY <1>1, <1>2, <2>2
    <3>. QED BY <2>2, <3>1 DEF Wrong
  <2>3. ASSUME NEW t \in 1 .. idx, runs[t].stage = "none" PROVE Wrong'
    <3>1. runs'[t] = runs[t]
      <4>1. t # s
        BY <1>1, <2>3
      <4>. QED BY <1>2, <4>1, InstancesAreRuns
    <3>. QED BY <2>3, <3>1 DEF Wrong
  <2>. QED BY <2>1, <2>2, <2>3 DEF Wrong
<1>. QED BY <1>3, <1>4

LEMMA SweepStep ==
  AnswersInv /\ CallersInv /\ SweepInv /\ [Next]_vars => SweepInv'
<1>. SUFFICES ASSUME AnswersInv, CallersInv, SweepInv, [Next]_vars PROVE SweepInv'
  OBVIOUS
<1>0. site.sweep \subseteq Evaluations /\ site.mortal \subseteq Evaluations
  BY BridgesAssumption DEF SweepInv
<1>1. ASSUME UNCHANGED <<runs, idx, driver, answer, cache, site, client, launcher>> PROVE SweepInv'
  BY <1>1, OthersGoOn DEF SweepInv, ServiceInv, Gone
<1>2. ASSUME DriverStep PROVE SweepInv'
  <2>1. CASE CreateSimulation \/ CreateFails
    BY <2>1, RegisterSweep
  <2>2. CASE ~(CreateSimulation \/ CreateFails)
    <3>0. UNCHANGED <<runs, site>> /\ \A e \in Evaluations : Taken(e)' => Taken(e)
      BY <1>2, <2>2 DEF DriverStep, Alone, frameworkVars, Taken
    <3>1. CASE Listen \/ Select \/ KeepWaiting \/ Accept \/ AnswerStart
      <4>1. /\ driver \in Serving /\ driver' \in Serving /\ driver' # "init"
            /\ UNCHANGED <<idx, client, answer, cache>> /\ launcher' \in {launcher, "dakota"}
        BY <3>1 DEF Listen, Select, KeepWaiting, Accept, AnswerStart, Accepting, EventsHandled, Serving
      <4>. QED BY <3>0, <4>1, DriverGoesOn
    <3>2. CASE HandleEvent
      BY <3>0, <3>2, AnsweringSweep
    <3>3. CASE TimeOut
      <4>1. /\ driver = "events" /\ cache = {} /\ driver' = "done" /\ UNCHANGED <<idx, client, answer>>
        BY <3>3 DEF TimeOut, EventsHandled, Idle
      <4>2. TakenAnswered
        BY <4>1 DEF SweepInv, ClientInv, Serving, TakenAnswered
      <4>. QED BY <3>0, <4>1, <4>2, DriverLeaves
    <3>4. CASE RecvFails
      <4>1. PICK x : x = Caller
        OBVIOUS
      <4>2. /\ driver = "accept" /\ backlog' = Tail(backlog) /\ driver' \in {"select", "broken"}
            /\ x \notin Launcher /\ client[x] = "lost"
            /\ UNCHANGED <<idx, client, answer, cache, launcher>>
        BY <3>4, <4>1 DEF RecvFails, Accepting
      <4>3. x \in Evaluations
        BY <4>1, <4>2, Taking
      <4>4. Wrong'
        <5>1. Gone(x)'
          BY <4>2 DEF Gone
        <5>. QED BY <4>3, <5>1 DEF Wrong
      <4>5. driver' = "select" => SweepInv'
        BY <3>0, <4>2, DriverGoesOn DEF Serving
      <4>6. driver' = "broken" => SweepInv'
        BY <3>0, <4>2, <4>4, DriverLeaves
      <4>. QED BY <4>2, <4>5, <4>6
    <3>5. CASE AnswerEnd
      <4>1. /\ driver = "accept" /\ backlog' = Tail(backlog) /\ driver' = "done" /\ Caller = "END"
            /\ UNCHANGED <<idx, client, answer>>
        BY <3>5 DEF AnswerEnd, Accepting
      <4>2. launcher = "wait_end"
        BY <4>1, Taking DEF CallersInv
      <4>3. Wrong \/ \A e \in site.sweep : answer[e] # NoAnswer
        BY <4>1, <4>2 DEF SweepInv, ServiceInv, Serving
      <4>4. (\A e \in site.sweep : answer[e] # NoAnswer) => TakenAnswered
        BY DEF SweepInv, ClientInv, TakenAnswered
      <4>5. Wrong => Wrong'
        BY <3>0, <4>1 DEF Wrong, Gone
      <4>. QED BY <3>0, <4>1, <4>3, <4>4, <4>5, DriverLeaves
    <3>. QED BY <1>2, <2>2, <3>1, <3>2, <3>3, <3>4, <3>5 DEF DriverStep, Alone
  <2>. QED BY <2>1, <2>2
<1>3. ASSUME LauncherStep PROVE SweepInv'
  <2>0. UNCHANGED <<runs, site>> /\ \A e \in Evaluations : Taken(e)' => Taken(e)
    BY <1>3 DEF LauncherStep, Alone, frameworkVars, Taken
  <2>1. CASE SayStart \/ SayEnd
    <3>1. /\ Listening /\ UNCHANGED <<idx, driver, answer, cache, client>>
          /\ \/ launcher' = "wait_start"
             \/ launcher = "end" /\ launcher' = "wait_end"
      BY <2>1 DEF SayStart, SayEnd, Call, serverVars
    <3>2. driver # "init"
      BY <3>1 DEF Listening
    <3>3. \A e \in Evaluations : Gone(e) => Gone(e)'
      BY <3>1 DEF Gone
    <3>4. launcher' \in {"end", "wait_end", "returned"} =>
            driver \notin Serving \/ Wrong \/ \A e \in site.sweep : answer[e] # NoAnswer
      BY <3>1 DEF SweepInv, ServiceInv
    <3>. QED BY <2>0, <3>1, <3>2, <3>3, <3>4, OthersGoOn
  <2>2. CASE LauncherFails
    <3>1. /\ driver' = "gone" /\ UNCHANGED <<idx, client, answer>> /\ NotServed
      BY <2>2 DEF LauncherFails
    <3>2. driver \notin {"select", "events", "accept"}
      BY <3>1 DEF NotServed, Listening
    <3>3. Wrong \/ TakenAnswered
      <4>1. CASE driver = "init"
        BY <4>1 DEF SweepInv, ServiceInv, TakenAnswered
      <4>2. CASE driver # "init"
        BY <3>2, <4>2 DEF SweepInv, ServiceInv, Serving
      <4>. QED BY <4>1, <4>2
    <3>4. Wrong => Wrong'
      BY <2>0, <3>1 DEF Wrong, Gone
    <3>. QED BY <2>0, <3>1, <3>3, <3>4, DriverLeaves
  <2>3. CASE DakotaEnds(site.sweep)
    <3>1. /\ launcher = "dakota" /\ launcher' = "end"
          /\ UNCHANGED <<idx, driver, answer, cache, client>>
          /\ \/ \A e \in site.sweep : Over(e)
             \/ \E e \in site.sweep : client[e] = "failed" \/ Gone(e) \/ answer[e].result = "FAIL"
      BY <2>3 DEF DakotaEnds, serverVars
    <3>2. driver # "init"
      BY <3>1 DEF SweepInv, ServiceInv
    <3>3. ASSUME NEW e \in site.sweep, client[e] = "failed" PROVE driver \notin Serving
      BY <1>0, <3>3 DEF SweepInv, ClientInv
    <3>4. ASSUME NEW e \in site.sweep, Gone(e) PROVE Wrong
      BY <1>0, <3>4 DEF Wrong
    <3>5. ASSUME NEW e \in site.sweep, answer[e].result = "FAIL" PROVE Wrong
      <4>1. answer[e] # NoAnswer
        BY <3>5 DEF NoAnswer
      <4>2. Answered(e)
        BY <1>0 DEF AnswersInv
      <4>. QED BY <3>5, <4>1, <4>2 DEF Answered, Wrong
    <3>6. driver \notin Serving \/ Wrong \/ \A e \in site.sweep : answer[e] # NoAnswer
      <4>1. CASE \A e \in site.sweep : Over(e)
        <5>1. ASSUME NEW e \in site.sweep PROVE driver \notin Serving \/ Wrong \/ answer[e] # NoAnswer
          BY <1>0, <3>3, <3>4, <4>1 DEF Over, SweepInv, ClientInv
        <5>. QED BY <5>1
      <4>. QED BY <3>1, <3>3, <3>4, <3>5, <4>1
    <3>7. \A e \in Evaluations : Gone(e) => Gone(e)'
      BY <3>1 DEF Gone
    <3>. QED BY <2>0, <3>1, <3>2, <3>6, <3>7, OthersGoOn
  <2>. QED BY <1>3, <2>1, <2>2, <2>3 DEF LauncherStep, Alone
<1>4. ASSUME NEW f \in Evaluations, NEW x, client' = [client EXCEPT ![f] = x],
             UNCHANGED <<runs, idx, driver, answer, cache, site, launcher>>,
             x # "idle", Gone(f) => x \in {"lost", "dead"}, f \in site.sweep,
             x = "failed" => driver \notin Serving /\ answer[f] = NoAnswer,
             x = "returned" => answer[f] # NoAnswer
      PROVE  SweepInv'
  <2>1. client'[f] = x /\ \A e \in Evaluations : e # f => client'[e] = client[e]
    BY <1>4 DEF CallersInv
  <2>2. \A e \in Evaluations : Gone(e) => Gone(e)'
    BY <1>4, <2>1 DEF Gone
  <2>3. \A e \in Evaluations :
          /\ client[e] # "idle" => client'[e] # "idle"
          /\ client'[e] # "idle" => client[e] # "idle" \/ e \in site.sweep
          /\ client'[e] = "failed" => client[e] = "failed" \/ (driver \notin Serving /\ answer[e] = NoAnswer)
          /\ client'[e] = "returned" => client[e] = "returned" \/ answer[e] # NoAnswer
    BY <1>4, <2>1
  <2>4. (launcher' # "start" => driver # "init")
        /\ (launcher' \in {"end", "wait_end", "returned"} =>
              driver \notin Serving \/ Wrong \/ \A e \in site.sweep : answer[e] # NoAnswer)
    BY <1>4 DEF SweepInv, ServiceInv
  <2>. QED BY <1>4, <2>2, <2>3, <2>4, OthersGoOn
<1>5. ASSUME NEW e \in Evaluations, ClientStep(e) PROVE SweepInv'
  <2>0. UNCHANGED <<runs, site, launcher>> /\ e \in site.sweep
    BY <1>5 DEF ClientStep, Alone, frameworkVars, Connect, SendParameters, ClientFails, ClientReturns
  <2>1. CASE Connect(e) \/ SendParameters(e)
    <3>1. PICK x \in {"connected", "waiting"} : client' = [client EXCEPT ![e] = x]
      BY <2>1 DEF Connect, SendParameters
    <3>2. ~Gone(e) /\ UNCHANGED <<idx, driver, answer, cache>>
      BY <2>1 DEF Connect, SendParameters, Gone, serverVars
    <3>. QED BY <1>4, <2>0, <3>1, <3>2
  <2>2. CASE ClientFails(e)
    <3>1. /\ \/ launcher = "dakota" /\ client[e] = "idle" /\ ~Listening
             \/ client[e] \in {"connected", "waiting"} /\ driver = "gone" /\ answer[e] = NoAnswer
          /\ client' = [client EXCEPT ![e] = "failed"] /\ UNCHANGED <<idx, driver, answer, cache>>
      BY <2>2 DEF ClientFails, serverVars
    <3>2. ~Gone(e)
      BY <3>1 DEF Gone
    <3>3. driver \notin Serving
      BY <3>1 DEF Listening, Serving, SweepInv, ServiceInv
    <3>4. answer[e] = NoAnswer
      <4>1. CASE client[e] = "idle"
        <5>1. ~Taken(e)
          BY <4>1 DEF SweepInv, ClientInv
        <5>2. Answered(e)
          BY DEF AnswersInv
        <5>. QED BY <5>1, <5>2 DEF Answered, Taken
      <4>. QED BY <3>1, <4>1
    <3>. QED BY <1>4, <2>0, <3>1, <3>2, <3>3, <3>4
  <2>3. CASE ClientReturns(e)
    <3>1. /\ client[e] = "waiting" /\ answer[e] # NoAnswer
          /\ client' = [client EXCEPT ![e] = "returned"] /\ UNCHANGED <<idx, driver, answer, cache>>
      BY <2>3 DEF ClientReturns, serverVars
    <3>2. ~Gone(e)
      BY <3>1 DEF Gone
    <3>. QED BY <1>4, <2>0, <3>1, <3>2
  <2>. QED BY <1>5, <2>1, <2>2, <2>3 DEF ClientStep, Alone
<1>6. CASE ClientDeath
  <2>1. PICK e \in site.mortal : ClientDies(e) /\ UNCHANGED <<runs, site>>
    BY <1>6 DEF ClientDeath, Alone, frameworkVars
  <2>2. PICK x \in {"dead", "lost"} : client' = [client EXCEPT ![e] = x]
    BY <2>1 DEF ClientDies
  <2>3. client[e] # "idle" /\ UNCHANGED <<idx, driver, answer, cache, launcher>>
    BY <2>1 DEF ClientDies, serverVars
  <2>4. e \in Evaluations /\ e \in site.sweep
    BY <1>0, <2>3 DEF SweepInv, ClientInv
  <2>. QED BY <1>4, <2>1, <2>2, <2>3, <2>4
<1>7. CASE FrameworkStep
  <2>1. ASSUME NEW s \in Sims, RunCall(s) PROVE SweepInv'
    BY <1>1, <2>1 DEF RunCall, Monitor, dakotaVars
  <2>2. ASSUME NEW s \in Sims, EndRun(s) PROVE SweepInv'
    <3>1. PICK ok \in BOOLEAN : End(s, ok)
      BY <2>2 DEF EndRun
    <3>2. UNCHANGED <<idx, client, driver, answer, cache, launcher, site>>
      BY <2>2 DEF EndRun, End, Monitor
    <3>3. (Wrong => Wrong') /\ \A e \in Evaluations : Taken(e)' <=> Taken(e)
      BY <3>1, <3>2, RunEnds
    <3>4. TakenAnswered => TakenAnswered'
      BY <3>2, <3>3 DEF TakenAnswered
    <3>5. ServiceInv'
      BY <3>2, <3>3, <3>4 DEF SweepInv, ServiceInv
    <3>6. ASSUME NEW e \in Evaluations PROVE ClientInv(e)'
      <4>1. ClientInv(e)
        BY DEF SweepInv
      <4>. QED BY <3>2, <3>3, <4>1 DEF ClientInv
    <3>. QED BY <3>2, <3>5, <3>6 DEF SweepInv
  <2>3. ASSUME EndBridgeRun PROVE SweepInv'
    <3>1. /\ driver \in {"done", "broken"} /\ driver' = "gone" /\ End(0, driver = "done")
          /\ UNCHANGED <<idx, client, answer, site>>
      BY <2>3 DEF EndBridgeRun, DriverGone, End, Monitor
    <3>2. 0 \in Sims /\ (driver = "done") \in BOOLEAN
      BY SimsAreNumbers
    <3>3. (Wrong => Wrong') /\ \A e \in Evaluations : Taken(e)' <=> Taken(e)
      BY <3>1, <3>2, RunEnds
    <3>4. Wrong \/ TakenAnswered
      BY <3>1 DEF SweepInv, ServiceInv
    <3>. QED BY <3>1, <3>3, <3>4, DriverLeaves
  <2>. QED BY <1>7, <2>1, <2>2, <2>3 DEF FrameworkStep
<1>8. CASE PortalStep \/ PostStep \/ UNCHANGED vars
  BY <1>1, <1>8 DEF PortalStep, PostStep, vars, dakotaVars, frameworkVars
<1>. QED BY <1>2, <1>3, <1>5, <1>6, <1>7, <1>8 DEF Next

(* A client whose parameters the driver has taken is abandoned only after  *)
(* something has gone wrong: neither the idle time-out nor END ends the    *)
(* service while an answer is owed (dakota_bridge.py, step).               *)
THEOREM TakenAreServed == Spec => []NobodyIsAbandoned
<1>1. SweepInv => NobodyIsAbandoned
  <2>. SUFFICES ASSUME SweepInv, NEW e \in Evaluations, client[e] = "failed", Taken(e)
                PROVE  WentWrong
    BY DEF NobodyIsAbandoned
  <2>1. driver \notin Serving /\ answer[e] = NoAnswer
    BY DEF SweepInv, ClientInv
  <2>2. Wrong
    BY <2>1 DEF SweepInv, ServiceInv, TakenAnswered
  <2>. QED BY <2>2 DEF Wrong, WentWrong
<1>2. Init => AnswersInv /\ CallersInv /\ SweepInv
  BY AnswersInitially, CallersInitially, SweepInitially
<1>3. (AnswersInv /\ CallersInv /\ SweepInv) /\ [Next]_vars => (AnswersInv /\ CallersInv /\ SweepInv)'
  BY AnswersStep, CallersStep, SweepStep
<1>. QED BY <1>1, <1>2, <1>3, PTL DEF Spec
=============================================================================
