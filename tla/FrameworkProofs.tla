---------------------------- MODULE FrameworkProofs ----------------------------
(***************************************************************************)
(* Proofs about module Framework: type correctness, that a blocked request *)
(* is never left behind when it could be served, that the request of a     *)
(* waiting component is in one place, and that cores and tasks are         *)
(* accounted for.                                                          *)
(*                                                                         *)
(* Then the calls: each is carried in one place at most, and whatever is   *)
(* carried while run() goes on is awaited by exactly one entry of          *)
(* outstanding_fwk_calls, outstanding_calls_list or the TaskManager's      *)
(* outstanding_calls (ips.py, taskManager.py).  CallInOnePlace counts      *)
(* carriers over all queues, so it is not inductive: CallInv adds that ids *)
(* are fresh, that entries do not share an id, that the call of a line     *)
(* stays with the components of that line (or the end of another           *)
(* simulation could take it away), and that a call is lost only with a     *)
(* component.  EarlyInv says what holds before the lines start.            *)
(*                                                                         *)
(* From the same invariants: the framework drives the lines as module      *)
(* SimulationRuns promises.  ProgressInv adds that the queue of an entry   *)
(* is the rest of its line, and when a simulation may have a verdict.      *)
(***************************************************************************)
EXTENDS Framework, TLAPS, FiniteSetTheorems, SequenceTheorems, CollectionTheorems

MethodNames == {"init", "step", "finalize"}

LEMMA InvocationsType ==
  ASSUME NEW k \in Lines
  PROVE  /\ Invocations(k) \in Seq(Target) /\ Invocations(k) # <<>>
         /\ Head(Invocations(k)) \in Target /\ Tail(Invocations(k)) \in Seq(Target)
<1>1. CASE k \in FwkComps
  <2>1. Invocations(k) = <<[comp |-> k, method |-> "step"], [comp |-> k, method |-> "finalize"]>>
    BY <1>1 DEF Invocations
  <2>2. k \in Components
    BY <1>1 DEF Components
  <2>. QED BY <2>1, <2>2 DEF Target
<1>2. CASE k \notin FwkComps
  <2>. DEFINE v == Visible[k]
              n == Len(v)
  <2>1. k \in Sims /\ v \in Seq(SimComps) /\ v # <<>>
    BY <1>2, SimulationAssumption DEF Lines
  <2>2. n \in Nat /\ n >= 1 /\ DOMAIN v = 1..n
    BY <2>1
  <2>3. Invocations(k) = [i \in 1..(3 * n) |->
          [comp |-> v[((i - 1) \div 3) + 1], method |-> Methods[((i - 1) % 3) + 1]]]
    BY <1>2 DEF Invocations
  <2>4. ASSUME NEW i \in 1..(3 * n)
        PROVE  [comp |-> v[((i - 1) \div 3) + 1], method |-> Methods[((i - 1) % 3) + 1]] \in Target
    <3>1. ((i - 1) \div 3) + 1 \in 1..n
      BY <2>2, SMT
    <3>2. (i - 1) % 3 \in 0..2
      BY <2>2, SMT
    <3>3. Methods[((i - 1) % 3) + 1] \in MethodNames
      BY <3>2 DEF Methods, MethodNames
    <3>4. v[((i - 1) \div 3) + 1] \in SimComps
      BY <2>1, <2>2, <3>1
    <3>. QED BY <3>3, <3>4 DEF Target, MethodNames, Components
  <2>5. Invocations(k) \in Seq(Target) /\ Len(Invocations(k)) = 3 * n
    BY <2>2, <2>3, <2>4
  <2>. QED BY <2>2, <2>5
<1>. QED BY <1>1, <1>2, Zenon
-----------------------------------------------------------------------------
(* Type correctness *)

LEMMA InitType == Init => TypeOK
<1>. SUFFICES ASSUME Init PROVE TypeOK
  OBVIOUS
<1>. USE ComponentAssumption, SimulationAssumption, ProgramAssumption DEF Init
<1>1. \A i \in DOMAIN SimList : SimList[i] \in Sims
  OBVIOUS
<1>2. LoopType
  BY DEF LoopType
<1>3. SimType
  BY <1>1 DEF SimType, Elements, Components
<1>4. ManagerType
  BY DEF ManagerType
<1>5. QueueType
  BY DEF QueueType
<1>6. ClientType
  BY DEF ClientType, Invocation, NoInvocation
<1>. QED BY <1>2, <1>3, <1>4, <1>5, <1>6 DEF TypeOK

LEMMA KillType ==
  ASSUME SimType, QueueType, NEW K, Kill(K)
  PROVE  registry' \subseteq Components /\ QueueType'
BY DEF SimType, QueueType, Kill

LEMMA TerminateAllType ==
  ASSUME SimType, QueueType, NEW how \in {"ended", "aborted"}, TerminateAll(how)
  PROVE  /\ phase' \in {"ended", "aborted"} /\ msgList' = <<>>
         /\ simMap' \subseteq Sims /\ registry' \subseteq Components /\ QueueType'
BY KillType DEF TerminateAll, SimType

LEMMA RespondType ==
  ASSUME LoopType, SimType, QueueType, msgList # <<>>,
         NEW c \in Components, NEW ok \in BOOLEAN, NEW val \in Nat, Respond(c, ok, val)
  PROVE  /\ phase' \in {"boot", "init", "loop", "ended", "aborted"} /\ msgList' \in Seq(Messages)
         /\ simMap' \subseteq Sims /\ registry' \subseteq Components /\ QueueType'
<1>1. CASE c \in registry
  <2>1. [ok |-> ok, val |-> val] \in Response
    BY DEF Response
  <2>2. svcResponseQ' = [svcResponseQ EXCEPT ![c] = Append(@, [ok |-> ok, val |-> val])]
    BY <1>1 DEF Respond
  <2>3. svcResponseQ' \in [Components -> Seq(Response)]
    BY <2>1, <2>2 DEF QueueType
  <2>4. Tail(msgList) \in Seq(Messages)
    BY HeadTailProperties DEF LoopType
  <2>5. /\ msgList' = Tail(msgList)
        /\ UNCHANGED <<phase, simMap, registry, state, invocationQ>>
    BY <1>1 DEF Respond
  <2>. QED BY <2>3, <2>4, <2>5 DEF LoopType, SimType, QueueType
<1>2. CASE c \notin registry
  <2>1. TerminateAll("aborted")
    BY <1>2 DEF Respond
  <2>2. "aborted" \in {"ended", "aborted"}
    OBVIOUS
  <2>3. /\ phase' \in {"ended", "aborted"} /\ msgList' = <<>>
        /\ simMap' \subseteq Sims /\ registry' \subseteq Components /\ QueueType'
    BY <2>1, <2>2, TerminateAllType
  <2>. QED BY <2>3
<1>. QED BY <1>1, <1>2

LEMMA MessageFields ==
  ASSUME NEW m \in Messages
  PROVE  /\ m.from \in Components
         /\ m.type = "init_call" => m.from \in SimComps /\ m.callee \in SimComps
         /\ m.type = "wait_call" => m \in Waits /\ m.call \in Nat
         /\ m.type = "init_task" => m \in Launches /\ m.from \in SimComps /\ m.cores \in Nat
         /\ m.type = "create_simulation" => m.sim \in Sims
         /\ m.type = "result" => m.call \in Nat /\ m.ok \in BOOLEAN
BY DEF Messages, Requests, Results, Waits, Launches, Components

LEMMA HeadOfBatch ==
  ASSUME LoopType, msgList # <<>>
  PROVE  Head(msgList) \in Messages /\ Tail(msgList) \in Seq(Messages)
BY HeadTailProperties DEF LoopType

LEMMA SendInvocation ==
  ASSUME QueueType, NEW c \in Components, NEW i \in Nat, NEW method \in MethodNames
  PROVE  [invocationQ EXCEPT ![c] = Append(@, [call |-> i, method |-> method])]
           \in [Components -> Seq(Invocation)]
<1>1. [call |-> i, method |-> method] \in Invocation
  BY DEF Invocation, MethodNames
<1>. QED BY <1>1 DEF QueueType

LEMMA SendResponse ==
  ASSUME QueueType, NEW c \in Components, NEW ok \in BOOLEAN, NEW val \in Nat
  PROVE  [svcResponseQ EXCEPT ![c] = Append(@, [ok |-> ok, val |-> val])]
           \in [Components -> Seq(Response)]
<1>1. [ok |-> ok, val |-> val] \in Response
  BY DEF Response
<1>. QED BY <1>1 DEF QueueType

LEMMA EntryType ==
  ASSUME NEW k \in Lines, NEW i \in Nat
  PROVE  Entry(k, i) \in SimCall
BY InvocationsType DEF Entry, SimCall

LEMMA BlockType ==
  ASSUME LoopType, NEW m \in Waits \cup Launches, msgList # <<>>, Block(m)
  PROVE  blockedMessages' \in Seq(Waits \cup Launches) /\ msgList' \in Seq(Messages)
BY HeadOfBatch DEF Block, LoopType

LEMMA HandleInitCallType == TypeOK /\ HandleInitCall => TypeOK'
<1>. SUFFICES ASSUME TypeOK, HandleInitCall PROVE TypeOK'
  OBVIOUS
<1>. USE DEF TypeOK
<1>. DEFINE m == Head(msgList)
<1>1. msgList # <<>> /\ m \in Messages /\ m.type = "init_call" /\ Tail(msgList) \in Seq(Messages)
  BY HeadOfBatch, Zenon DEF HandleInitCall, Working
<1>2. m.from \in SimComps /\ m.callee \in SimComps /\ m.from \in Components /\ m.callee \in Components
  BY <1>1, MessageFields DEF Components
<1>3. nextCallId \in Nat /\ nextCallId' \in Nat
  BY DEF HandleInitCall, ManagerType
<1>4. Managed(nextCallId, m.from) \subseteq [call : Nat, caller : SimComps]
  BY <1>2, <1>3 DEF Managed
<1>5. outstandingCalls' \subseteq [call : Nat, caller : SimComps]
  BY <1>4, Zenon DEF HandleInitCall, ManagerType
<1>6. /\ phase' \in {"boot", "init", "loop", "ended", "aborted"} /\ msgList' \in Seq(Messages)
      /\ simMap' \subseteq Sims /\ registry' \subseteq Components /\ QueueType'
  <2>1. CASE m.callee \in registry /\ m.from \in registry
    <3>1. "step" \in MethodNames
      BY DEF MethodNames
    <3>a. /\ invocationQ' = [invocationQ EXCEPT ![m.callee] =
                               Append(@, [call |-> nextCallId, method |-> "step"])]
          /\ svcResponseQ' = [svcResponseQ EXCEPT ![m.from] =
                                Append(@, [ok |-> TRUE, val |-> nextCallId])]
      BY <2>1, Zenon DEF HandleInitCall
    <3>2. invocationQ' \in [Components -> Seq(Invocation)]
      BY <1>2, <1>3, <3>1, <3>a, SendInvocation
    <3>3. svcResponseQ' \in [Components -> Seq(Response)]
      BY <1>2, <1>3, <3>a, SendResponse, Zenon
    <3>4. msgList' = Tail(msgList) /\ UNCHANGED <<phase, simMap, registry, state>>
      BY <2>1, Zenon DEF HandleInitCall
    <3>. QED BY <1>1, <3>2, <3>3, <3>4 DEF LoopType, SimType, QueueType
  <2>2. CASE m.callee \in registry /\ m.from \notin registry
    <3>1. TerminateAll("aborted")
      BY <2>2, Zenon DEF HandleInitCall
    <3>. QED BY <3>1, TerminateAllType
  <2>3. CASE m.callee \notin registry
    <3>1. Respond(m.from, FALSE, 0)
      BY <2>3, Zenon DEF HandleInitCall
    <3>. QED BY <3>1, <1>1, <1>2, RespondType
  <2>. QED BY <2>1, <2>2, <2>3
<1>. QED BY <1>3, <1>5, <1>6, Zenon
         DEF HandleInitCall, LoopType, SimType, ManagerType, ClientType, taskVars, clientVars

LEMMA HandleWaitCallType == TypeOK /\ HandleWaitCall => TypeOK'
<1>. SUFFICES ASSUME TypeOK, HandleWaitCall PROVE TypeOK'
  OBVIOUS
<1>. USE DEF TypeOK
<1>. DEFINE m == Head(msgList)
            done == {f \in finishedCalls : f.call = m.call}
<1>1. msgList # <<>> /\ m \in Messages /\ m.type = "wait_call" /\ Tail(msgList) \in Seq(Messages)
  BY HeadOfBatch DEF HandleWaitCall, Working
<1>2. m.from \in Components /\ m \in Waits /\ m.call \in Nat
  BY <1>1, MessageFields
<1>3. \A f \in done : f.ok \in BOOLEAN
  BY DEF ManagerType
<1>4. finishedCalls' \subseteq [call : Nat, caller : SimComps, ok : BOOLEAN]
  BY DEF HandleWaitCall, ManagerType
<1>5. /\ phase' \in {"boot", "init", "loop", "ended", "aborted"} /\ msgList' \in Seq(Messages)
      /\ simMap' \subseteq Sims /\ registry' \subseteq Components /\ QueueType'
      /\ blockedMessages' \in Seq(Waits \cup Launches)
  <2>1. CASE done # {}
    <3>1. PICK f \in done : Respond(m.from, f.ok, m.call)
      BY <2>1 DEF HandleWaitCall
    <3>2. UNCHANGED blockedMessages
      BY <2>1, Zenon DEF HandleWaitCall
    <3>. QED BY <3>1, <3>2, <1>1, <1>2, <1>3, RespondType DEF LoopType
  <2>2. CASE done = {} /\ ~m.block
    <3>1. Respond(m.from, FALSE, m.call) /\ UNCHANGED blockedMessages
      BY <2>2 DEF HandleWaitCall
    <3>. QED BY <3>1, <1>1, <1>2, RespondType DEF LoopType
  <2>3. CASE done = {} /\ m.block
    <3>1. Block(m) /\ UNCHANGED <<phase, simMap, registry, state, invocationQ, svcResponseQ>>
      BY <2>3 DEF HandleWaitCall
    <3>2. m \in Waits \cup Launches
      BY <1>2
    <3>. QED BY <3>1, <3>2, <1>1, BlockType DEF LoopType, SimType, QueueType
  <2>. QED BY <2>1, <2>2, <2>3
<1>. QED BY <1>4, <1>5, Zenon
         DEF HandleWaitCall, LoopType, SimType, ManagerType, ClientType, taskVars, clientVars

LEMMA HandleInitTaskType == TypeOK /\ HandleInitTask => TypeOK'
<1>. SUFFICES ASSUME TypeOK, HandleInitTask PROVE TypeOK'
  OBVIOUS
<1>. USE DEF TypeOK
<1>. DEFINE m == Head(msgList)
<1>1. msgList # <<>> /\ m \in Messages /\ m.type = "init_task" /\ Tail(msgList) \in Seq(Messages)
  BY HeadOfBatch DEF HandleInitTask, Working
<1>2. m.from \in Components /\ m.from \in SimComps /\ m \in Launches /\ m.cores \in Nat
  BY <1>1, MessageFields
<1>3. nextTaskId \in Nat /\ nextTaskId' \in Nat
  BY DEF HandleInitTask, ManagerType
<1>4. /\ availCores' \in Nat
      /\ currTaskTable' \subseteq [task : Nat, owner : SimComps, cores : Nat]
      /\ strayTasks' \subseteq [task : Nat, owner : BadCommand, cores : Nat]
  <2>1. CASE UNCHANGED <<availCores, currTaskTable, strayTasks>>
    BY <2>1 DEF ManagerType
  <2>2. CASE ~UNCHANGED <<availCores, currTaskTable, strayTasks>>
    <3>1. Grantable(m.cores) /\ availCores' = availCores - m.cores
      BY <2>2, Zenon DEF HandleInitTask
    <3>2. availCores' \in Nat
      BY <1>2, <3>1 DEF ManagerType, Grantable
    <3>3. CASE currTaskTable' = currTaskTable \cup {Lent(m)} /\ UNCHANGED strayTasks
      BY <1>2, <1>3, <3>2, <3>3 DEF ManagerType, Lent
    <3>4. CASE m.from \in BadCommand /\ strayTasks' = strayTasks \cup {Lent(m)}
               /\ UNCHANGED currTaskTable
      BY <1>2, <1>3, <3>2, <3>4 DEF ManagerType, Lent
    <3>. QED BY <2>2, <3>3, <3>4, Zenon DEF HandleInitTask
  <2>. QED BY <2>1, <2>2
<1>5. /\ phase' \in {"boot", "init", "loop", "ended", "aborted"} /\ msgList' \in Seq(Messages)
      /\ simMap' \subseteq Sims /\ registry' \subseteq Components /\ QueueType'
      /\ blockedMessages' \in Seq(Waits \cup Launches)
  <2>1. \/ Respond(m.from, TRUE, nextTaskId) /\ UNCHANGED blockedMessages
        \/ Respond(m.from, FALSE, 0) /\ UNCHANGED blockedMessages
        \/ Block(m) /\ UNCHANGED <<phase, simMap, registry, state, invocationQ, svcResponseQ>>
    BY Zenon DEF HandleInitTask
  <2>2. CASE Respond(m.from, TRUE, nextTaskId) /\ UNCHANGED blockedMessages
    BY <2>2, <1>1, <1>2, <1>3, RespondType, Zenon DEF LoopType
  <2>3. CASE Respond(m.from, FALSE, 0) /\ UNCHANGED blockedMessages
    BY <2>3, <1>1, <1>2, RespondType, Zenon DEF LoopType
  <2>4. CASE Block(m) /\ UNCHANGED <<phase, simMap, registry, state, invocationQ, svcResponseQ>>
    <3>1. m \in Waits \cup Launches
      BY <1>2
    <3>. QED BY <2>4, <3>1, <1>1, BlockType DEF LoopType, SimType, QueueType
  <2>. QED BY <2>1, <2>2, <2>3, <2>4
<1>. QED BY <1>3, <1>4, <1>5, Zenon
         DEF HandleInitTask, LoopType, SimType, ManagerType, ClientType, callVars, clientVars

LEMMA HandleFinishTaskType == TypeOK /\ HandleFinishTask => TypeOK'
<1>. SUFFICES ASSUME TypeOK, HandleFinishTask PROVE TypeOK'
  OBVIOUS
<1>. USE DEF TypeOK
<1>. DEFINE m == Head(msgList)
<1>1. msgList # <<>> /\ m \in Messages
  BY HeadOfBatch DEF HandleFinishTask, Working
<1>2. m.from \in Components
  BY <1>1, MessageFields
<1>3. Respond(m.from, TRUE, 0)
  BY DEF HandleFinishTask
<1>4. /\ availCores' \in Nat
      /\ currTaskTable' \subseteq [task : Nat, owner : SimComps, cores : Nat]
  BY DEF HandleFinishTask, Without, ManagerType
<1>5. /\ phase' \in {"boot", "init", "loop", "ended", "aborted"} /\ msgList' \in Seq(Messages)
      /\ simMap' \subseteq Sims /\ registry' \subseteq Components /\ QueueType'
  BY <1>1, <1>2, <1>3, RespondType
<1>. QED BY <1>4, <1>5
         DEF HandleFinishTask, LoopType, SimType, ManagerType, ClientType, callVars, clientVars

LEMMA HandleCreateSimType == TypeOK /\ HandleCreateSim => TypeOK'
<1>. SUFFICES ASSUME TypeOK, HandleCreateSim PROVE TypeOK'
  OBVIOUS
<1>. USE DEF TypeOK
<1>. DEFINE m == Head(msgList)
            members == MembersOf(m.sim)
            first == Head(Invocations(m.sim))
            fresh == \A c \in members : state[c] = "absent"
<1>1. msgList # <<>> /\ m \in Messages /\ m.type = "create_simulation" /\ Tail(msgList) \in Seq(Messages)
  BY HeadOfBatch, Zenon DEF HandleCreateSim, Working
<1>2. m.from \in Components /\ m.sim \in Sims /\ m.sim \in Lines
  BY <1>1, MessageFields DEF Lines
<1>3. members \subseteq Components
  BY DEF MembersOf, Components
<1>4. CASE m.from \in registry /\ fresh
  <2>1. /\ simMap' = simMap \cup {m.sim}
        /\ registry' = registry \cup members
        /\ state' = [c \in Components |-> IF c \in members THEN "idle" ELSE state[c]]
        /\ svcResponseQ' = [svcResponseQ EXCEPT ![m.from] = Append(@, [ok |-> TRUE, val |-> 0])]
        /\ msgList' = Tail(msgList)
        /\ UNCHANGED phase
    BY <1>4, Zenon DEF HandleCreateSim
  <2>2. SimType'
    BY <1>2, <1>3, <2>1, Zenon DEF SimType, HandleCreateSim
  <2>3. /\ state' \in [Components -> {"absent", "idle", "running", "waiting", "dead"}]
        /\ svcResponseQ' \in [Components -> Seq(Response)]
    BY <1>2, <2>1, SendResponse, Zenon DEF QueueType
  <2>4. CASE UNCHANGED <<nextCallId, simCalls, invocationQ>>
    BY <1>1, <2>1, <2>2, <2>3, <2>4, Zenon
       DEF HandleCreateSim, LoopType, ManagerType, QueueType, ClientType, taskVars, clientVars
  <2>5. CASE /\ nextCallId' = nextCallId + 1
             /\ simCalls' = simCalls \cup {Entry(m.sim, nextCallId)}
             /\ invocationQ' = [invocationQ EXCEPT ![first.comp] =
                                  Append(@, [call |-> nextCallId, method |-> first.method])]
    <3>1. nextCallId \in Nat /\ nextCallId' \in Nat
      BY <2>5 DEF ManagerType
    <3>2. first.comp \in Components /\ first.method \in MethodNames
      BY <1>2, InvocationsType DEF Target, MethodNames
    <3>3. invocationQ' \in [Components -> Seq(Invocation)]
      BY <2>5, <3>1, <3>2, SendInvocation, Zenon
    <3>4. simCalls' \subseteq SimCall
      BY <1>2, <2>5, <3>1, EntryType, Zenon DEF LoopType
    <3>. QED BY <1>1, <2>1, <2>2, <2>3, <3>1, <3>3, <3>4, Zenon
             DEF HandleCreateSim, LoopType, ManagerType, QueueType, ClientType, taskVars, clientVars
  <2>. QED BY <1>4, <2>4, <2>5, Zenon DEF HandleCreateSim
<1>5. CASE ~(m.from \in registry /\ fresh)
  <2>1. Respond(m.from, FALSE, 0) /\ UNCHANGED <<nextCallId, simCalls>>
    BY <1>5, Zenon DEF HandleCreateSim
  <2>2. /\ phase' \in {"boot", "init", "loop", "ended", "aborted"} /\ msgList' \in Seq(Messages)
        /\ simMap' \subseteq Sims /\ registry' \subseteq Components /\ QueueType'
    BY <1>1, <1>2, <2>1, RespondType
  <2>. QED BY <2>1, <2>2, Zenon
           DEF HandleCreateSim, LoopType, SimType, ManagerType, ClientType, taskVars, clientVars
<1>. QED BY <1>4, <1>5

LEMMA InvokeFrameworkCompsType == TypeOK /\ InvokeFrameworkComps => TypeOK'
<1>. SUFFICES ASSUME TypeOK, InvokeFrameworkComps PROVE TypeOK'
  OBVIOUS
<1>. USE DEF TypeOK
<1>1. Len(FwkList) \in Nat /\ DOMAIN FwkList = 1..Len(FwkList)
  BY ComponentAssumption
<1>2. \A i \in DOMAIN FwkList : FwkList[i] \in FwkComps /\ nextCallId + i - 1 \in Nat
  BY <1>1, ComponentAssumption DEF ManagerType
<1>3. fwkCalls' \subseteq [call : Nat, comp : FwkComps]
  BY <1>2 DEF InvokeFrameworkComps
<1>4. nextCallId' \in Nat
  BY <1>1 DEF InvokeFrameworkComps, ManagerType
<1>5. \A i \in DOMAIN FwkList : [call |-> nextCallId + i - 1, method |-> "init"] \in Invocation
  BY <1>2 DEF Invocation
<1>6. invocationQ' \in [Components -> Seq(Invocation)]
  <2>1. ASSUME NEW c \in Components
        PROVE  (IF \E i \in DOMAIN FwkList : FwkList[i] = c
                THEN LET i == CHOOSE i \in DOMAIN FwkList : FwkList[i] = c
                     IN Append(invocationQ[c], [call |-> nextCallId + i - 1, method |-> "init"])
                ELSE invocationQ[c]) \in Seq(Invocation)
    <3>1. invocationQ[c] \in Seq(Invocation)
      BY DEF QueueType
    <3>2. CASE \E i \in DOMAIN FwkList : FwkList[i] = c
      <4>. DEFINE k == CHOOSE i \in DOMAIN FwkList : FwkList[i] = c
      <4>1. k \in DOMAIN FwkList
        BY <3>2
      <4>2. Append(invocationQ[c], [call |-> nextCallId + k - 1, method |-> "init"]) \in Seq(Invocation)
        BY <1>5, <3>1, <4>1, AppendProperties
      <4>. QED BY <3>2, <4>2
    <3>. QED BY <3>1, <3>2
  <2>. QED BY <2>1 DEF InvokeFrameworkComps
<1>. QED BY <1>3, <1>4, <1>6, Zenon
         DEF InvokeFrameworkComps, LoopType, SimType, ManagerType, QueueType, ClientType,
             simVars, taskVars, clientVars

LEMMA GetMessageType == TypeOK /\ GetMessage => TypeOK'
<1>. SUFFICES ASSUME TypeOK, GetMessage PROVE TypeOK'
  OBVIOUS
<1>. USE DEF TypeOK
<1>1. Head(inQueue) \in Messages /\ inQueue' \in Seq(Messages)
  BY HeadTailProperties DEF GetMessage, LoopType
<1>2. blockedMessages \in Seq(Messages)
  BY SeqMonotonic DEF LoopType, Messages, Requests
<1>3. msgList' \in Seq(Messages)
  BY <1>1, <1>2, ConcatProperties DEF GetMessage, Batch
<1>4. blockedMessages' \in Seq(Waits \cup Launches)
  BY DEF GetMessage, StillBlocked
<1>. QED BY <1>1, <1>3, <1>4, Zenon
         DEF GetMessage, LoopType, SimType, ManagerType, QueueType, ClientType,
             simVars, callVars, taskVars, compVars, clientVars

LEMMA HandleInitResultType == TypeOK /\ HandleInitResult => TypeOK'
<1>. SUFFICES ASSUME TypeOK, HandleInitResult PROVE TypeOK'
  OBVIOUS
<1>. USE DEF TypeOK
<1>1. msgList # <<>> /\ Tail(msgList) \in Seq(Messages)
  BY HeadOfBatch DEF HandleInitResult, Working
<1>2. fwkCalls' \subseteq [call : Nat, comp : FwkComps]
  BY DEF HandleInitResult, LoopType
<1>3. CASE Head(msgList).ok
  <2>1. msgList' = Tail(msgList) /\ UNCHANGED <<phase, simMap, registry, state, invocationQ, svcResponseQ>>
    BY <1>3 DEF HandleInitResult
  <2>. QED BY <1>1, <1>2, <2>1, Zenon
           DEF HandleInitResult, LoopType, SimType, ManagerType, QueueType, ClientType,
               callVars, taskVars, clientVars
<1>4. CASE ~Head(msgList).ok
  <2>1. TerminateAll("aborted")
    BY <1>4 DEF HandleInitResult
  <2>2. /\ phase' \in {"ended", "aborted"} /\ msgList' = <<>>
        /\ simMap' \subseteq Sims /\ registry' \subseteq Components /\ QueueType'
    BY <2>1, TerminateAllType
  <2>. QED BY <1>2, <2>2
           DEF HandleInitResult, LoopType, SimType, ManagerType, ClientType,
               callVars, taskVars, clientVars
<1>. QED BY <1>3, <1>4

LEMMA StartLinesType == TypeOK /\ StartLines => TypeOK'
<1>. SUFFICES ASSUME TypeOK, StartLines PROVE TypeOK'
  OBVIOUS
<1>. USE DEF TypeOK
<1>1. FwkList \in Seq(Lines) /\ SimList \in Seq(Lines)
  BY ComponentAssumption, SimulationAssumption, SeqMonotonic DEF Lines
<1>2. InitialLines \in Seq(Lines)
  BY <1>1 DEF InitialLines
<1>3. Len(InitialLines) \in Nat /\ DOMAIN InitialLines = 1..Len(InitialLines)
  BY <1>2
<1>4. \A i \in DOMAIN InitialLines : InitialLines[i] \in Lines /\ nextCallId + i - 1 \in Nat
  BY <1>2, <1>3 DEF ManagerType
<1>5. nextCallId' \in Nat
  <2>1. nextCallId' = nextCallId + Len(InitialLines)
    BY Zenon DEF StartLines
  <2>. QED BY <1>3, <2>1 DEF ManagerType
<1>6. simCalls' \subseteq SimCall
  BY <1>4, EntryType, Zenon DEF StartLines
<1>7. \A i \in DOMAIN InitialLines :
        [call |-> nextCallId + i - 1, method |-> Head(Invocations(InitialLines[i])).method] \in Invocation
  BY <1>4, InvocationsType DEF Invocation, Target
<1>8. invocationQ' \in [Components -> Seq(Invocation)]
  <2>1. ASSUME NEW c \in Components
        PROVE  invocationQ'[c] \in Seq(Invocation)
    <3>. DEFINE mine == {i \in DOMAIN InitialLines : Head(Invocations(InitialLines[i])).comp = c}
                k == CHOOSE i \in mine : TRUE
    <3>1. invocationQ[c] \in Seq(Invocation)
      BY DEF QueueType
    <3>2. CASE mine = {}
      BY <3>1, <3>2, Zenon DEF StartLines
    <3>3. CASE mine # {}
      <4>1. k \in DOMAIN InitialLines
        BY <3>3
      <4>2. invocationQ'[c] = Append(invocationQ[c],
              [call |-> nextCallId + k - 1, method |-> Head(Invocations(InitialLines[k])).method])
        BY <3>3, Zenon DEF StartLines
      <4>3. PICK e : e = [call |-> nextCallId + k - 1, method |-> Head(Invocations(InitialLines[k])).method]
        BY Zenon
      <4>4. e \in Invocation
        BY <1>7, <4>1, <4>3
      <4>5. Append(invocationQ[c], e) \in Seq(Invocation)
        BY <3>1, <4>4, AppendProperties
      <4>. QED BY <4>2, <4>3, <4>5, Zenon
    <3>. QED BY <3>2, <3>3
  <2>2. invocationQ' = [c \in Components |-> invocationQ'[c]]
    BY DEF StartLines
  <2>. QED BY <2>1, <2>2
<1>. QED BY <1>5, <1>6, <1>8, Zenon
         DEF StartLines, LoopType, SimType, ManagerType, QueueType, ClientType,
             simVars, taskVars, clientVars

LEMMA HandleReturnCallType == TypeOK /\ HandleReturnCall => TypeOK'
<1>. SUFFICES ASSUME TypeOK, HandleReturnCall PROVE TypeOK'
  OBVIOUS
<1>. USE DEF TypeOK
<1>. DEFINE m == Head(msgList)
<1>1. msgList # <<>> /\ m \in Messages /\ m.type = "result" /\ Tail(msgList) \in Seq(Messages)
  BY HeadOfBatch DEF HandleReturnCall, Working
<1>2. m.call \in Nat /\ m.ok \in BOOLEAN
  BY <1>1, MessageFields
<1>3. PICK o \in outstandingCalls :
        /\ outstandingCalls' = outstandingCalls \ {o}
        /\ finishedCalls' = finishedCalls \cup Finished(m.call, o.caller, m.ok)
  BY DEF HandleReturnCall
<1>4. o.caller \in SimComps
  BY DEF ManagerType
<1>5. Finished(m.call, o.caller, m.ok) \subseteq [call : Nat, caller : SimComps, ok : BOOLEAN]
  BY <1>2, <1>4 DEF Finished
<1>. QED BY <1>1, <1>3, <1>5
         DEF HandleReturnCall, LoopType, SimType, ManagerType, QueueType, ClientType,
             simVars, taskVars, compVars, clientVars

LEMMA HandleLineResultType == TypeOK /\ HandleLineResult => TypeOK'
<1>. SUFFICES ASSUME TypeOK, HandleLineResult PROVE TypeOK'
  OBVIOUS
<1>. USE DEF TypeOK
<1>1. msgList # <<>> /\ Tail(msgList) \in Seq(Messages)
  BY HeadOfBatch DEF HandleLineResult, Working
<1>2. nextCallId \in Nat /\ nextCallId' \in Nat
  BY DEF HandleLineResult, ManagerType
<1>3. PICK e \in simCalls :
        /\ e.queue # <<>>
        /\ simCalls' = (simCalls \ {e}) \cup
             {[call |-> nextCallId, line |-> e.line, inv |-> Pop(e.queue).inv,
               queue |-> Pop(e.queue).queue]}
        /\ invocationQ' = [invocationQ EXCEPT ![Pop(e.queue).inv.comp] =
                             Append(@, [call |-> nextCallId, method |-> Pop(e.queue).inv.method])]
  BY Zenon DEF HandleLineResult
<1>4. e.line \in Lines /\ e.queue \in Seq(Target)
  BY DEF LoopType, SimCall
<1>5. Pop(e.queue).inv \in Target /\ Pop(e.queue).queue \in Seq(Target)
  BY <1>3, <1>4, HeadTailProperties DEF Pop
<1>6. simCalls' \subseteq SimCall
  BY <1>2, <1>3, <1>4, <1>5 DEF LoopType, SimCall
<1>7. Pop(e.queue).inv.comp \in Components /\ Pop(e.queue).inv.method \in MethodNames
  BY <1>5 DEF Target, MethodNames
<1>8. invocationQ' \in [Components -> Seq(Invocation)]
  BY <1>2, <1>3, <1>7, SendInvocation
<1>. QED BY <1>1, <1>2, <1>6, <1>8, Zenon
         DEF HandleLineResult, LoopType, SimType, ManagerType, QueueType, ClientType,
             simVars, taskVars, clientVars

LEMMA CompsOfCardinality ==
  ASSUME NEW s
  PROVE  Cardinality(CompsOf(s)) \in Nat
<1>1. CompsOf(s) \subseteq SimComps
  BY DEF CompsOf
<1>. QED BY <1>1, ComponentAssumption, FS_Subset, FS_CardinalityType

LEMMA HandleLastResultType == TypeOK /\ HandleLastResult => TypeOK'
<1>. SUFFICES ASSUME TypeOK, HandleLastResult PROVE TypeOK'
  OBVIOUS
<1>. USE DEF TypeOK
<1>. DEFINE ok == Head(msgList).ok
<1>1. msgList # <<>> /\ Tail(msgList) \in Seq(Messages)
  BY HeadOfBatch DEF HandleLastResult, Working
<1>2. simCalls' \subseteq SimCall
  BY DEF HandleLastResult, LoopType
<1>3. PICK e \in simCalls :
        \/ /\ e.line \in simMap
           /\ nextCallId' = nextCallId + Cardinality(CompsOf(e.line)) * (IF ok THEN 1 ELSE 2)
           /\ simEnd' = [simEnd EXCEPT ![e.line] = IF ok THEN "ok" ELSE "error"]
           /\ simMap' = simMap \ {e.line}
           /\ Kill(MembersOf(e.line))
        \/ UNCHANGED <<nextCallId, simVars, state, invocationQ, svcResponseQ>>
  BY DEF HandleLastResult
<1>4. nextCallId' \in Nat /\ SimType' /\ QueueType'
  <2>1. CASE UNCHANGED <<nextCallId, simVars, state, invocationQ, svcResponseQ>>
    BY <2>1 DEF ManagerType, SimType, QueueType, simVars
  <2>2. CASE /\ nextCallId' = nextCallId + Cardinality(CompsOf(e.line)) * (IF ok THEN 1 ELSE 2)
             /\ simEnd' = [simEnd EXCEPT ![e.line] = IF ok THEN "ok" ELSE "error"]
             /\ simMap' = simMap \ {e.line}
             /\ Kill(MembersOf(e.line))
    <3>1. nextCallId' \in Nat
      BY <2>2, CompsOfCardinality DEF ManagerType
    <3>2. registry' \subseteq Components /\ QueueType'
      BY <2>2, KillType
    <3>. QED BY <2>2, <3>1, <3>2, Zenon DEF SimType
  <2>. QED BY <1>3, <2>1, <2>2
<1>. QED BY <1>1, <1>2, <1>4
         DEF HandleLastResult, LoopType, ManagerType, ClientType, taskVars, clientVars

LEMMA EndRunType == TypeOK /\ EndRun => TypeOK'
<1>. SUFFICES ASSUME TypeOK, EndRun PROVE TypeOK'
  OBVIOUS
<1>. USE DEF TypeOK
<1>1. TerminateAll("ended")
  BY DEF EndRun
<1>2. /\ phase' \in {"ended", "aborted"} /\ msgList' = <<>>
      /\ simMap' \subseteq Sims /\ registry' \subseteq Components /\ QueueType'
  BY <1>1, TerminateAllType
<1>. QED BY <1>2
         DEF EndRun, LoopType, SimType, ManagerType, ClientType, callVars, taskVars, clientVars

LEMMA StartMethodType ==
  ASSUME TypeOK, NEW c \in Components, StartMethod(c)
  PROVE  TypeOK'
<1>. USE DEF TypeOK
<1>1. Head(invocationQ[c]) \in Invocation /\ Tail(invocationQ[c]) \in Seq(Invocation)
  BY HeadTailProperties DEF StartMethod, QueueType
<1>. QED BY <1>1, Zenon
         DEF StartMethod, LoopType, SimType, ManagerType, QueueType, ClientType,
             loopVars, simVars, callVars, taskVars

LEMMA ReturnMethodType ==
  ASSUME TypeOK, NEW c \in Components, NEW ok \in BOOLEAN, ReturnMethod(c, ok)
  PROVE  TypeOK'
<1>. USE DEF TypeOK
<1>1. current[c].call \in Nat
  BY DEF ClientType, Invocation
<1>2. Result(c, current[c].call, ok) \in Messages
  BY <1>1 DEF Result, Messages, Results
<1>3. inQueue' \in Seq(Messages)
  BY <1>2, AppendProperties DEF ReturnMethod, LoopType
<1>. QED BY <1>3
         DEF ReturnMethod, LoopType, SimType, ManagerType, QueueType, ClientType,
             simVars, callVars, taskVars, clientVars

LEMMA InvokeServiceType ==
  ASSUME TypeOK, NEW c \in Components, NEW m \in Requests, InvokeService(c, m),
         taskMap' \in [Components -> SUBSET Nat], requests' \in [Components -> Nat]
  PROVE  TypeOK'
<1>. USE DEF TypeOK
<1>1. inQueue' \in Seq(Messages)
  BY AppendProperties DEF InvokeService, LoopType, Messages
<1>. QED BY <1>1, Zenon
         DEF InvokeService, LoopType, SimType, ManagerType, QueueType, ClientType,
             simVars, callVars, taskVars

LEMMA ServiceUseType ==
  ASSUME TypeOK, NEW c \in Components,
         \/ CallNonblocking(c) \/ WaitForCall(c) \/ PollCall(c)
         \/ LaunchTask(c) \/ EndTask(c) \/ CreateSimulation(c)
  PROVE  TypeOK'
<1>. USE DEF TypeOK
<1>1. c \in SimComps
  BY Zenon DEF CallNonblocking, WaitForCall, PollCall, LaunchTask, EndTask, CreateSimulation,
         InvokeService
<1>2. callTargets[c] \subseteq Nat /\ taskMap[c] \subseteq Nat /\ TaskCores[c] \subseteq Nat
  BY <1>1, ProgramAssumption DEF ClientType
<1>3. taskMap' \in [Components -> SUBSET Nat]
  <2>1. CASE EndTask(c)
    BY <2>1 DEF EndTask, ClientType
  <2>2. CASE UNCHANGED taskMap
    BY <2>2 DEF ClientType
  <2>. QED BY <2>1, <2>2
           DEF CallNonblocking, WaitForCall, PollCall, LaunchTask, CreateSimulation
<1>4. requests' \in [Components -> Nat]
  <2>1. CASE UNCHANGED requests
    BY <2>1 DEF ClientType
  <2>2. CASE Spend(c)
    BY <2>2 DEF Spend, ClientType
  <2>. QED BY <2>1, <2>2
           DEF CallNonblocking, WaitForCall, PollCall, LaunchTask, EndTask, CreateSimulation
<1>5. \E m \in Requests : InvokeService(c, m)
  <2>1. CASE CallNonblocking(c)
    <3>1. \A d \in SimComps : InitCall(c, d) \in Requests
      BY <1>1 DEF InitCall, Requests
    <3>. QED BY <2>1, <3>1 DEF CallNonblocking
  <2>2. CASE WaitForCall(c) \/ PollCall(c)
    <3>1. \A i \in callTargets[c], b \in BOOLEAN : WaitCall(c, i, b) \in Requests
      BY <1>1, <1>2 DEF WaitCall, Requests, Waits
    <3>. QED BY <2>2, <3>1 DEF WaitForCall, PollCall
  <2>3. CASE LaunchTask(c)
    <3>1. \A n \in TaskCores[c], b \in BlockModes : InitTask(c, n, b) \in Requests
      BY <1>1, <1>2, ProgramAssumption DEF InitTask, Requests, Launches
    <3>. QED BY <2>3, <3>1 DEF LaunchTask
  <2>4. CASE EndTask(c)
    <3>1. \A t \in taskMap[c] : FinishTask(c, t) \in Requests
      BY <1>1, <1>2 DEF FinishTask, Requests
    <3>. QED BY <2>4, <3>1 DEF EndTask
  <2>5. CASE CreateSimulation(c)
    <3>1. \A s \in Sims, sub \in BOOLEAN : CreateSim(c, s, sub) \in Requests
      BY <1>1 DEF CreateSim, Requests
    <3>. QED BY <2>5, <3>1 DEF CreateSimulation
  <2>. QED BY <2>1, <2>2, <2>3, <2>4, <2>5
<1>. QED BY <1>3, <1>4, <1>5, InvokeServiceType

LEMMA ReceiveResponseType ==
  ASSUME TypeOK, NEW c \in Components, ReceiveResponse(c)
  PROVE  TypeOK'
<1>. USE DEF TypeOK
<1>. DEFINE r == Head(svcResponseQ[c])
<1>0. svcResponseQ[c] \in Seq(Response) /\ svcResponseQ[c] # <<>>
  BY DEF ReceiveResponse, QueueType
<1>1. r.val \in Nat /\ Tail(svcResponseQ[c]) \in Seq(Response)
  <2>1. r \in Response /\ Tail(svcResponseQ[c]) \in Seq(Response)
    BY <1>0, HeadTailProperties
  <2>. QED BY <2>1 DEF Response
<1>2. callTargets' \in [Components -> SUBSET Nat]
  BY <1>1 DEF ReceiveResponse, ClientType
<1>3. taskMap' \in [Components -> SUBSET Nat] /\ unstarted' \subseteq Nat
  <2>1. \/ Started(c, r.val) \/ NotStarted(c, r.val) \/ UNCHANGED <<taskMap, unstarted>>
    BY Zenon DEF ReceiveResponse
  <2>. QED BY <1>1, <2>1 DEF Started, NotStarted, ClientType
<1>. QED BY <1>1, <1>2, <1>3, Zenon
         DEF ReceiveResponse, LoopType, SimType, ManagerType, QueueType, ClientType,
             loopVars, simVars, callVars, taskVars

LEMMA ComponentStepType ==
  ASSUME TypeOK, NEW c \in Components, ComponentStep(c)
  PROVE  TypeOK'
BY StartMethodType, ReceiveResponseType, ReturnMethodType, ServiceUseType DEF ComponentStep

LEMMA NextType == TypeOK /\ [Next]_vars => TypeOK'
<1>. SUFFICES ASSUME TypeOK, [Next]_vars PROVE TypeOK'
  OBVIOUS
<1>1. CASE FrameworkStep
  BY <1>1, InvokeFrameworkCompsType, GetMessageType, HandleInitResultType, StartLinesType,
     HandleInitCallType, HandleWaitCallType, HandleInitTaskType, HandleFinishTaskType,
     HandleCreateSimType, HandleReturnCallType, HandleLineResultType, HandleLastResultType,
     EndRunType DEF FrameworkStep
<1>2. CASE \E c \in Components : ComponentStep(c)
  BY <1>2, ComponentStepType
<1>3. CASE UNCHANGED vars
  BY <1>3, Zenon DEF TypeOK, LoopType, SimType, ManagerType, QueueType, ClientType,
              vars, loopVars, simVars, callVars, taskVars, compVars, clientVars
<1>. QED BY <1>1, <1>2, <1>3 DEF Next, Stopped

(* The state of the framework and of its components keeps its type: queues *)
(* hold only requests that component programs can make and results, the    *)
(* blocked list only waits and launches, and the cores never go negative.  *)
THEOREM TypeCorrect == Spec => []TypeOK
<1>1. Init => TypeOK
  BY InitType
<1>2. TypeOK /\ [Next]_vars => TypeOK'
  BY NextType
<1>. QED BY <1>1, <1>2, PTL DEF Spec
-----------------------------------------------------------------------------
(* No lost wakeup *)

(* NoLostWakeup is not inductive: a result or a finish_task behind a       *)
(* message that has just been blocked could serve it.  RetriesComeLast     *)
(* says that there is none.                                                *)
WakeupInv == RetriesComeLast /\ NoLostWakeup

(* A step that serves nobody leaves blocked messages blocked. *)
LEMMA StayBlocked ==
  ASSUME TypeOK, TypeOK', NoLostWakeup, UNCHANGED blockedMessages,
         finishedCalls' \subseteq finishedCalls, availCores' <= availCores
  PROVE  NoLostWakeup'
<1>1. ASSUME NEW m \in Waits \cup Launches, ~CanServe(m)
      PROVE  ~CanServe(m)'
  <2>1. CASE m.type = "wait_call"
    BY <1>1, <2>1 DEF CanServe
  <2>2. CASE m.type = "init_task"
    <3>1. m.cores \in Nat /\ availCores \in Nat /\ availCores' \in Nat
      BY <2>2 DEF Waits, Launches, TypeOK, ManagerType
    <3>. QED BY <1>1, <2>2, <3>1 DEF CanServe
  <2>. QED BY <2>1, <2>2 DEF Waits, Launches
<1>2. \A i \in DOMAIN blockedMessages : blockedMessages[i] \in Waits \cup Launches
  BY DEF TypeOK, LoopType
<1>3. \A i \in DOMAIN blockedMessages : ~CanServe(blockedMessages[i])
  BY DEF NoLostWakeup
<1>. QED BY <1>1, <1>2, <1>3 DEF NoLostWakeup, CanServe

LEMMA NextInBatch ==
  ASSUME TypeOK, RetriesComeLast, msgList # <<>>, msgList' = Tail(msgList)
  PROVE  \A i \in DOMAIN msgList' : Blockable(msgList'[i])
<1>1. msgList \in Seq(Messages)
  BY DEF TypeOK, LoopType
<1>2. /\ Tail(msgList) \in Seq(Messages) /\ Len(Tail(msgList)) = Len(msgList) - 1
      /\ \A i \in 1..Len(Tail(msgList)) : Tail(msgList)[i] = msgList[i + 1]
  BY <1>1, HeadTailProperties
<1>3. DOMAIN msgList = 1..Len(msgList) /\ DOMAIN Tail(msgList) = 1..Len(Tail(msgList))
      /\ Len(msgList) \in Nat
  BY <1>1, <1>2
<1>4. ASSUME NEW i \in DOMAIN Tail(msgList)
      PROVE  Blockable(Tail(msgList)[i])
  <2>1. i + 1 \in DOMAIN msgList /\ i + 1 > 1 /\ Tail(msgList)[i] = msgList[i + 1]
    BY <1>2, <1>3
  <2>. QED BY <2>1 DEF RetriesComeLast
<1>. QED BY <1>4

LEMMA BatchGoesOn ==
  ASSUME TypeOK, RetriesComeLast, msgList # <<>>, msgList' = Tail(msgList) \/ msgList' = <<>>
  PROVE  RetriesComeLast'
<1>1. CASE msgList' = Tail(msgList)
  <2>1. \A i \in DOMAIN msgList' : Blockable(msgList'[i])
    BY <1>1, NextInBatch
  <2>. QED BY <2>1 DEF RetriesComeLast, Blockable
<1>2. CASE msgList' = <<>>
  BY <1>2 DEF RetriesComeLast
<1>. QED BY <1>1, <1>2

(* While a message that is not a wait or a launch is handled, nothing has *)
(* been blocked again yet.                                                *)
LEMMA NothingBlocked ==
  ASSUME TypeOK, RetriesComeLast, msgList # <<>>, ~Blockable(Head(msgList))
  PROVE  blockedMessages = <<>>
<1>1. 1 \in DOMAIN msgList /\ Head(msgList) = msgList[1]
  BY DEF TypeOK, LoopType
<1>. QED BY <1>1 DEF RetriesComeLast

LEMMA RespondBatch ==
  ASSUME NEW c, NEW ok, NEW val, Respond(c, ok, val)
  PROVE  msgList' = Tail(msgList) \/ msgList' = <<>>
BY DEF Respond, TerminateAll

LEMMA BlockWakeup ==
  ASSUME TypeOK, WakeupInv, NEW m \in Waits \cup Launches, msgList # <<>>, Block(m), ~CanServe(m),
         UNCHANGED <<finishedCalls, availCores>>
  PROVE  WakeupInv'
<1>1. RetriesComeLast'
  BY BatchGoesOn DEF Block, WakeupInv
<1>2. blockedMessages \in Seq(Waits \cup Launches)
  BY DEF TypeOK, LoopType
<1>. DEFINE b == Append(blockedMessages, m)
<1>3. /\ b \in Seq(Waits \cup Launches)
      /\ \A i \in DOMAIN b : b[i] = m \/ (i \in DOMAIN blockedMessages /\ b[i] = blockedMessages[i])
  BY <1>2, AppendProperties
<1>4. \A i \in DOMAIN b : ~CanServe(b[i])
  BY <1>3 DEF NoLostWakeup, WakeupInv
<1>5. NoLostWakeup'
  BY <1>4 DEF NoLostWakeup, CanServe, Block
<1>. QED BY <1>1, <1>5 DEF WakeupInv

(* Most steps leave the blocked list alone and free nothing. *)
LEMMA QuietWakeup ==
  ASSUME TypeOK, TypeOK', WakeupInv, UNCHANGED blockedMessages,
         \/ UNCHANGED msgList
         \/ msgList # <<>> /\ (msgList' = Tail(msgList) \/ msgList' = <<>>),
         finishedCalls' \subseteq finishedCalls, availCores' <= availCores
  PROVE  WakeupInv'
<1>1. NoLostWakeup'
  BY StayBlocked DEF WakeupInv
<1>2. CASE UNCHANGED msgList
  BY <1>1, <1>2 DEF WakeupInv, RetriesComeLast, Blockable
<1>3. CASE msgList # <<>> /\ (msgList' = Tail(msgList) \/ msgList' = <<>>)
  BY <1>1, <1>3, BatchGoesOn DEF WakeupInv
<1>. QED BY <1>2, <1>3

LEMMA GetMessageWakeup ==
  ASSUME TypeOK, WakeupInv, GetMessage
  PROVE  WakeupInv'
<1>1. NoLostWakeup'
  BY DEF GetMessage, StillBlocked, NoLostWakeup
<1>2. Head(inQueue) \in Messages /\ <<Head(inQueue)>> \in Seq(Messages)
  BY HeadTailProperties DEF GetMessage, TypeOK, LoopType
<1>3. blockedMessages \in Seq(Messages) /\ blockedMessages \in Seq(Waits \cup Launches)
  BY SeqMonotonic DEF TypeOK, LoopType, Messages, Requests
<1>. DEFINE b == <<Head(inQueue)>> \o blockedMessages
<1>4. ASSUME NEW i \in DOMAIN b, i > 1
      PROVE  Blockable(b[i])
  <2>1. i - 1 \in DOMAIN blockedMessages /\ b[i] = blockedMessages[i - 1]
    BY <1>2, <1>3, <1>4
  <2>2. blockedMessages[i - 1] \in Waits \cup Launches
    BY <1>3, <2>1
  <2>. QED BY <2>1, <2>2 DEF Blockable, Waits, Launches
<1>5. msgList' = b /\ blockedMessages' = <<>>
  BY DEF GetMessage, Batch, StillBlocked
<1>6. RetriesComeLast'
  BY <1>4, <1>5 DEF RetriesComeLast, Blockable
<1>. QED BY <1>1, <1>6 DEF WakeupInv

(* A message that could serve a blocked one is handled with nothing blocked. *)
LEMMA FreeingWakeup ==
  ASSUME TypeOK, WakeupInv, msgList # <<>>, ~Blockable(Head(msgList)), UNCHANGED blockedMessages,
         msgList' = Tail(msgList) \/ msgList' = <<>>
  PROVE  WakeupInv'
<1>1. blockedMessages' = <<>>
  BY NothingBlocked DEF WakeupInv
<1>2. NoLostWakeup'
  BY <1>1 DEF NoLostWakeup
<1>. QED BY <1>2, BatchGoesOn DEF WakeupInv

LEMMA HandleWaitCallWakeup ==
  ASSUME TypeOK, TypeOK', WakeupInv, HandleWaitCall
  PROVE  WakeupInv'
<1>. DEFINE m == Head(msgList)
            done == {f \in finishedCalls : f.call = m.call}
<1>1. msgList # <<>> /\ m \in Messages /\ m.type = "wait_call"
  BY HeadOfBatch DEF TypeOK, HandleWaitCall, Working
<1>2. m \in Waits /\ UNCHANGED availCores /\ finishedCalls' \subseteq finishedCalls
      /\ availCores \in Nat
  BY <1>1, MessageFields, Zenon DEF HandleWaitCall, taskVars, TypeOK, ManagerType
<1>3. \/ UNCHANGED blockedMessages /\ \E ok, val : Respond(m.from, ok, val)
      \/ done = {} /\ Block(m) /\ UNCHANGED finishedCalls
  BY DEF HandleWaitCall
<1>4. CASE UNCHANGED blockedMessages /\ \E ok, val : Respond(m.from, ok, val)
  <2>1. msgList' = Tail(msgList) \/ msgList' = <<>>
    BY <1>4, RespondBatch
  <2>. QED BY <1>1, <1>2, <1>4, <2>1, QuietWakeup
<1>5. CASE done = {} /\ Block(m) /\ UNCHANGED finishedCalls
  <2>1. ~CanServe(m)
    BY <1>1, <1>5 DEF CanServe
  <2>. QED BY <1>1, <1>2, <1>5, <2>1, BlockWakeup
<1>. QED BY <1>3, <1>4, <1>5

LEMMA HandleInitTaskWakeup ==
  ASSUME TypeOK, TypeOK', WakeupInv, HandleInitTask
  PROVE  WakeupInv'
<1>. DEFINE m == Head(msgList)
<1>1. msgList # <<>> /\ m \in Messages /\ m.type = "init_task"
  BY HeadOfBatch DEF TypeOK, HandleInitTask, Working
<1>2. m \in Launches /\ UNCHANGED finishedCalls /\ m.cores \in Nat /\ availCores \in Nat
  BY <1>1, MessageFields DEF HandleInitTask, callVars, TypeOK, ManagerType
<1>3. \/ /\ UNCHANGED blockedMessages /\ \E ok, val : Respond(m.from, ok, val)
         /\ availCores' = availCores - m.cores \/ UNCHANGED availCores
      \/ ~Grantable(m.cores) /\ Block(m) /\ UNCHANGED availCores
  BY DEF HandleInitTask
<1>4. CASE /\ UNCHANGED blockedMessages /\ \E ok, val : Respond(m.from, ok, val)
           /\ availCores' = availCores - m.cores \/ UNCHANGED availCores
  <2>1. msgList' = Tail(msgList) \/ msgList' = <<>>
    BY <1>4, RespondBatch
  <2>2. availCores' <= availCores
    BY <1>2, <1>4
  <2>. QED BY <1>1, <1>2, <1>4, <2>1, <2>2, QuietWakeup
<1>5. CASE ~Grantable(m.cores) /\ Block(m) /\ UNCHANGED availCores
  <2>1. ~CanServe(m)
    BY <1>1, <1>5 DEF CanServe, Grantable
  <2>. QED BY <1>1, <1>2, <1>5, <2>1, BlockWakeup
<1>. QED BY <1>3, <1>4, <1>5

LEMMA FrameworkStepWakeup ==
  ASSUME TypeOK, TypeOK', WakeupInv, FrameworkStep
  PROVE  WakeupInv'
<1>0. availCores \in Nat
  BY DEF TypeOK, ManagerType
<1>1. CASE InvokeFrameworkComps \/ StartLines
  <2>1. UNCHANGED <<msgList, blockedMessages, finishedCalls, availCores>>
    BY <1>1, Zenon DEF InvokeFrameworkComps, StartLines, taskVars
  <2>. QED BY <1>0, <2>1, QuietWakeup
<1>2. CASE HandleInitCall
  <2>1. msgList # <<>> /\ (msgList' = Tail(msgList) \/ msgList' = <<>>)
    BY <1>2, RespondBatch, Zenon DEF HandleInitCall, Working, TerminateAll
  <2>2. UNCHANGED <<blockedMessages, finishedCalls, availCores>>
    BY <1>2, Zenon DEF HandleInitCall, taskVars
  <2>. QED BY <1>0, <2>1, <2>2, QuietWakeup
<1>3. CASE HandleCreateSim
  <2>0. msgList # <<>> /\ (msgList' = Tail(msgList) \/ \E c, ok, val : Respond(c, ok, val))
    BY <1>3, Zenon DEF HandleCreateSim, Working
  <2>1. msgList # <<>> /\ (msgList' = Tail(msgList) \/ msgList' = <<>>)
    BY <2>0, RespondBatch
  <2>2. UNCHANGED <<blockedMessages, finishedCalls, availCores>>
    BY <1>3, Zenon DEF HandleCreateSim, taskVars
  <2>. QED BY <1>0, <2>1, <2>2, QuietWakeup
<1>4. CASE HandleInitResult
  BY <1>0, <1>4, QuietWakeup DEF HandleInitResult, Working, TerminateAll, callVars, taskVars
<1>5. CASE HandleLineResult \/ HandleLastResult
  <2>1. /\ msgList # <<>> /\ (msgList' = Tail(msgList) \/ msgList' = <<>>)
        /\ UNCHANGED <<blockedMessages, finishedCalls, availCores>>
    BY <1>5, Zenon DEF HandleLineResult, HandleLastResult, Working, taskVars
  <2>. QED BY <1>0, <2>1, QuietWakeup
<1>6. CASE EndRun
  <2>1. UNCHANGED <<msgList, blockedMessages, finishedCalls, availCores>>
    BY <1>6 DEF EndRun, TerminateAll, callVars, taskVars
  <2>. QED BY <1>0, <2>1, QuietWakeup
<1>7. CASE HandleReturnCall
  BY <1>7, FreeingWakeup DEF HandleReturnCall, Working, Blockable
<1>8. CASE HandleFinishTask
  <2>1. \E c, ok, val : Respond(c, ok, val)
    BY <1>8 DEF HandleFinishTask
  <2>2. msgList' = Tail(msgList) \/ msgList' = <<>>
    BY <2>1, RespondBatch
  <2>. QED BY <1>8, <2>2, FreeingWakeup DEF HandleFinishTask, Working, Blockable
<1>. QED BY <1>1, <1>2, <1>3, <1>4, <1>5, <1>6, <1>7, <1>8,
            GetMessageWakeup, HandleWaitCallWakeup, HandleInitTaskWakeup DEF FrameworkStep

LEMMA ComponentStepWakeup ==
  ASSUME TypeOK, TypeOK', WakeupInv, NEW c \in Components, ComponentStep(c)
  PROVE  WakeupInv'
<1>1. UNCHANGED <<msgList, blockedMessages, finishedCalls, availCores>>
  BY Zenon DEF ComponentStep, StartMethod, ReceiveResponse, ReturnMethod, CallNonblocking, WaitForCall,
         PollCall, LaunchTask, EndTask, CreateSimulation, InvokeService, loopVars, callVars, taskVars
<1>2. availCores \in Nat
  BY DEF TypeOK, ManagerType
<1>. QED BY <1>1, <1>2, QuietWakeup

LEMMA NextWakeup == TypeOK /\ TypeOK' /\ WakeupInv /\ [Next]_vars => WakeupInv'
<1>. SUFFICES ASSUME TypeOK, TypeOK', WakeupInv, [Next]_vars PROVE WakeupInv'
  OBVIOUS
<1>1. CASE UNCHANGED vars
  BY <1>1 DEF vars, loopVars, callVars, taskVars, WakeupInv, RetriesComeLast, Blockable,
              NoLostWakeup, CanServe
<1>. QED BY <1>1, FrameworkStepWakeup, ComponentStepWakeup DEF Next, Stopped

LEMMA InitWakeup == Init => WakeupInv
BY DEF Init, WakeupInv, RetriesComeLast, NoLostWakeup

(* A request stays blocked only while it cannot be served: no interleaving *)
(* of results, releases and retries leaves one behind.                     *)
THEOREM NoWakeupIsLost == Spec => []NoLostWakeup
<1>1. Init => WakeupInv
  BY InitWakeup
<1>2. TypeOK /\ TypeOK' /\ WakeupInv /\ [Next]_vars => WakeupInv'
  BY NextWakeup
<1>3. WakeupInv => NoLostWakeup
  BY DEF WakeupInv
<1>. QED BY <1>1, <1>2, <1>3, TypeCorrect, PTL DEF Spec
-----------------------------------------------------------------------------
(* The end of a simulation *)

(* A request or its response ends no simulation, unless it ends the run. *)
LEMMA RespondKeepsSims ==
  ASSUME NEW c, NEW ok, NEW val, Respond(c, ok, val), phase' = "loop"
  PROVE  simMap' = simMap
BY DEF Respond, TerminateAll

(* Only the last result of its line ends a simulation while run() goes on. *)
LEMMA OnlyLastResultEnds ==
  ASSUME [Next]_vars, phase' = "loop", ~HandleLastResult
  PROVE  simMap \subseteq simMap'
<1>1. CASE HandleInitCall
  BY <1>1, RespondKeepsSims, Zenon DEF HandleInitCall, TerminateAll
<1>2. CASE HandleWaitCall
  BY <1>2, RespondKeepsSims, Zenon DEF HandleWaitCall
<1>3. CASE HandleInitTask
  BY <1>3, RespondKeepsSims, Zenon DEF HandleInitTask
<1>4. CASE HandleFinishTask
  BY <1>4, RespondKeepsSims DEF HandleFinishTask
<1>5. CASE HandleCreateSim
  BY <1>5, RespondKeepsSims, Zenon DEF HandleCreateSim, TerminateAll
<1>6. CASE InvokeFrameworkComps \/ GetMessage \/ StartLines \/ HandleReturnCall \/ HandleLineResult
  <2>1. CASE InvokeFrameworkComps \/ GetMessage \/ StartLines
    BY <2>1, Zenon DEF InvokeFrameworkComps, GetMessage, StartLines, simVars
  <2>2. CASE HandleReturnCall
    BY <2>2 DEF HandleReturnCall, simVars
  <2>3. CASE HandleLineResult
    BY <2>3 DEF HandleLineResult, simVars
  <2>. QED BY <1>6, <2>1, <2>2, <2>3
<1>7. CASE HandleInitResult \/ EndRun
  BY <1>7 DEF HandleInitResult, EndRun, TerminateAll
<1>8. CASE \E c \in Components : ComponentStep(c)
  <2>1. PICK c \in Components : ComponentStep(c)
    BY <1>8
  <2>2. CASE StartMethod(c) \/ ReceiveResponse(c) \/ \E ok \in BOOLEAN : ReturnMethod(c, ok)
    BY <2>2 DEF StartMethod, ReceiveResponse, ReturnMethod, loopVars, simVars
  <2>3. CASE \/ CallNonblocking(c) \/ WaitForCall(c) \/ PollCall(c)
             \/ LaunchTask(c) \/ EndTask(c) \/ CreateSimulation(c)
    BY <2>3, Zenon DEF CallNonblocking, WaitForCall, PollCall, LaunchTask, EndTask, CreateSimulation,
                InvokeService, loopVars, simVars
  <2>. QED BY <2>1, <2>2, <2>3 DEF ComponentStep
<1>9. CASE UNCHANGED vars
  BY <1>9 DEF vars, simVars
<1>. QED BY <1>1, <1>2, <1>3, <1>4, <1>5, <1>6, <1>7, <1>8, <1>9 DEF Next, FrameworkStep, Stopped

(* terminate_sim takes the components of one simulation and no others. *)
LEMMA KillIsContained ==
  ASSUME TypeOK, NEW s \in Sims, Kill(MembersOf(s)), NEW c \in registry, LineOf(c) # s
  PROVE  /\ c \in registry'
         /\ state'[c] = state[c] /\ invocationQ'[c] = invocationQ[c]
         /\ svcResponseQ'[c] = svcResponseQ[c]
<1>1. c \in Components
  BY DEF TypeOK, SimType
<1>2. c \notin MembersOf(s)
  BY ComponentAssumption DEF LineOf, MembersOf
<1>. QED BY <1>1, <1>2 DEF Kill

(* As long as run() goes on, the end of a simulation leaves the components *)
(* of all others registered, at work and with their messages.              *)
THEOREM EndsAreContained == Spec => EndIsContained
<1>1. TypeOK /\ [Next]_vars =>
        \A s \in simMap \ simMap' : phase' = "loop" =>
           \A c \in registry : LineOf(c) # s =>
              /\ c \in registry'
              /\ state'[c] = state[c] /\ invocationQ'[c] = invocationQ[c]
              /\ svcResponseQ'[c] = svcResponseQ[c]
  <2>. SUFFICES ASSUME TypeOK, [Next]_vars, NEW s \in simMap \ simMap', phase' = "loop",
                       NEW c \in registry, LineOf(c) # s
                PROVE  /\ c \in registry'
                       /\ state'[c] = state[c] /\ invocationQ'[c] = invocationQ[c]
                       /\ svcResponseQ'[c] = svcResponseQ[c]
    OBVIOUS
  <2>1. HandleLastResult
    BY OnlyLastResultEnds
  <2>2. Kill(MembersOf(s))
    BY <2>1 DEF HandleLastResult, simVars
  <2>3. s \in Sims
    BY DEF TypeOK, SimType
  <2>. QED BY <2>2, <2>3, KillIsContained
<1>2. Spec => []TypeOK
  BY TypeCorrect
<1>. QED BY <1>1, <1>2, PTL DEF Spec, EndIsContained

-----------------------------------------------------------------------------
(* Requests and responses *)

RequestsOf(c) == {m \in Messages : m.type # "result" /\ m.from = c}

(* The requests of c that are in the framework, and the responses to it. *)
Outstanding(c) ==
  Occurs(inQueue, RequestsOf(c)) + Occurs(msgList, RequestsOf(c))
    + Occurs(blockedMessages, RequestsOf(c)) + Len(svcResponseQ[c])

(* RequestInOnePlace is about registered components; a component that gets *)
(* an entry later must have nothing under way when it does.                *)
RegistryInv ==
  \A c \in Components :
    IF c \in registry THEN state[c] \in {"idle", "running", "waiting"}
                      ELSE state[c] \in {"absent", "dead"}
OneRequest(c) == Outstanding(c) = AtMostOne(state[c] = "waiting")
RequestInv == RegistryInv /\ \A c \in Components : state[c] # "dead" => OneRequest(c)

LEMMA QueueTypes ==
  ASSUME TypeOK
  PROVE  /\ inQueue \in Seq(Messages) /\ msgList \in Seq(Messages)
         /\ blockedMessages \in Seq(Messages)
         /\ \A c \in Components : svcResponseQ[c] \in Seq(Response)
<1>1. blockedMessages \in Seq(Messages)
  BY SeqMonotonic DEF TypeOK, LoopType, Messages, Requests
<1>. QED BY <1>1 DEF TypeOK, LoopType, QueueType

LEMMA FromIsPlaces ==
  ASSUME NEW q \in Seq(Messages), NEW c
  PROVE  From(c, q) = Places(q, RequestsOf(c))
<1>1. \A i \in DOMAIN q : q[i] \in Messages
  OBVIOUS
<1>. QED BY <1>1 DEF From, Places, RequestsOf

LEMMA OutstandingIsNumber ==
  ASSUME TypeOK, NEW c \in Components
  PROVE  /\ Occurs(inQueue, RequestsOf(c)) \in Nat /\ Occurs(msgList, RequestsOf(c)) \in Nat
         /\ Occurs(blockedMessages, RequestsOf(c)) \in Nat /\ Len(svcResponseQ[c]) \in Nat
         /\ Outstanding(c) \in Nat
<1>1. Len(svcResponseQ[c]) \in Nat
  BY QueueTypes
<1>2. /\ Occurs(inQueue, RequestsOf(c)) \in Nat /\ Occurs(msgList, RequestsOf(c)) \in Nat
      /\ Occurs(blockedMessages, RequestsOf(c)) \in Nat
  BY QueueTypes, PlacesFinite
<1>. QED BY <1>1, <1>2 DEF Outstanding

(* The head of the batch is one request of its sender, or none of anybody. *)
LEMMA HeadHandled ==
  ASSUME TypeOK, msgList # <<>>, NEW c \in Components
  PROVE  Occurs(msgList, RequestsOf(c)) = Occurs(Tail(msgList), RequestsOf(c))
           + AtMostOne(Head(msgList).type # "result" /\ Head(msgList).from = c)
<1>1. Head(msgList) \in Messages /\ msgList \in Seq(Messages)
  BY HeadOfBatch DEF TypeOK, LoopType
<1>2. Head(msgList) \in RequestsOf(c)
        <=> Head(msgList).type # "result" /\ Head(msgList).from = c
  BY <1>1 DEF RequestsOf
<1>3. Occurs(msgList, RequestsOf(c)) = Occurs(Tail(msgList), RequestsOf(c))
           + AtMostOne(Head(msgList) \in RequestsOf(c))
  BY <1>1, OccursAtHead
<1>. QED BY <1>2, <1>3 DEF AtMostOne

(* Answering a request puts a response in the place of the request. *)
LEMMA AnswerKeeps ==
  ASSUME TypeOK, msgList # <<>>, Head(msgList).type # "result",
         NEW r \in Response,
         svcResponseQ' = [svcResponseQ EXCEPT ![Head(msgList).from] = Append(@, r)],
         msgList' = Tail(msgList), UNCHANGED <<inQueue, blockedMessages>>
  PROVE  \A c \in Components : Outstanding(c)' = Outstanding(c)
<1>. TAKE c \in Components
<1>0. Head(msgList).from \in Components
  BY HeadOfBatch, MessageFields DEF TypeOK
<1>1. Occurs(msgList, RequestsOf(c)) = Occurs(Tail(msgList), RequestsOf(c))
           + AtMostOne(Head(msgList).type # "result" /\ Head(msgList).from = c)
  BY HeadHandled
<1>2. Occurs(Tail(msgList), RequestsOf(c)) \in Nat
  BY HeadOfBatch, PlacesFinite DEF TypeOK
<1>3. svcResponseQ[c] \in Seq(Response) /\ svcResponseQ \in [Components -> Seq(Response)]
  BY DEF TypeOK, QueueType
<1>4. Len(svcResponseQ'[c]) = Len(svcResponseQ[c])
           + AtMostOne(Head(msgList).type # "result" /\ Head(msgList).from = c)
  <2>1. CASE Head(msgList).from = c
    <3>1. svcResponseQ'[c] = Append(svcResponseQ[c], r)
      BY <1>3, <2>1
    <3>. QED BY <1>3, <2>1, <3>1 DEF AtMostOne
  <2>2. CASE Head(msgList).from # c
    BY <1>3, <2>2 DEF AtMostOne
  <2>. QED BY <2>1, <2>2
<1>5. Outstanding(c)' = Occurs(inQueue, RequestsOf(c)) + Occurs(Tail(msgList), RequestsOf(c))
         + Occurs(blockedMessages, RequestsOf(c)) + Len(svcResponseQ'[c])
  BY DEF Outstanding
<1>6. Outstanding(c) = Occurs(inQueue, RequestsOf(c)) + Occurs(msgList, RequestsOf(c))
         + Occurs(blockedMessages, RequestsOf(c)) + Len(svcResponseQ[c])
  BY DEF Outstanding
<1>7. AtMostOne(Head(msgList).type # "result" /\ Head(msgList).from = c) \in Nat
  BY DEF AtMostOne
<1>8. /\ Occurs(inQueue, RequestsOf(c)) \in Nat /\ Occurs(msgList, RequestsOf(c)) \in Nat
      /\ Occurs(blockedMessages, RequestsOf(c)) \in Nat /\ Len(svcResponseQ[c]) \in Nat
  BY OutstandingIsNumber
<1>. QED BY ONLY <1>1, <1>2, <1>4, <1>5, <1>6, <1>7, <1>8

LEMMA BlockKeeps ==
  ASSUME TypeOK, msgList # <<>>, Block(Head(msgList)), UNCHANGED <<inQueue, svcResponseQ>>
  PROVE  \A c \in Components : Outstanding(c)' = Outstanding(c)
<1>. TAKE c \in Components
<1>. DEFINE one == AtMostOne(Head(msgList).type # "result" /\ Head(msgList).from = c)
<1>0. Head(msgList) \in Messages /\ blockedMessages \in Seq(Messages)
  BY HeadOfBatch, QueueTypes DEF TypeOK
<1>1. Occurs(msgList, RequestsOf(c)) = Occurs(Tail(msgList), RequestsOf(c)) + one
  BY HeadHandled
<1>2. Occurs(Tail(msgList), RequestsOf(c)) \in Nat
  BY HeadOfBatch, PlacesFinite DEF TypeOK
<1>3. Head(msgList) \in RequestsOf(c)
        <=> Head(msgList).type # "result" /\ Head(msgList).from = c
  BY <1>0 DEF RequestsOf
<1>4. Occurs(Append(blockedMessages, Head(msgList)), RequestsOf(c))
        = Occurs(blockedMessages, RequestsOf(c)) + AtMostOne(Head(msgList) \in RequestsOf(c))
  BY <1>0, OccursAppended
<1>5. Outstanding(c)' = Occurs(inQueue, RequestsOf(c)) + Occurs(Tail(msgList), RequestsOf(c))
         + Occurs(Append(blockedMessages, Head(msgList)), RequestsOf(c)) + Len(svcResponseQ[c])
  BY DEF Outstanding, Block
<1>. QED BY <1>1, <1>2, <1>3, <1>4, <1>5, OutstandingIsNumber DEF Outstanding, AtMostOne

LEMMA BatchKeeps ==
  ASSUME TypeOK, GetMessage
  PROVE  \A c \in Components : Outstanding(c)' = Outstanding(c)
<1>. TAKE c \in Components
<1>. DEFINE R == RequestsOf(c)
<1>1. inQueue # <<>> /\ inQueue \in Seq(Messages) /\ blockedMessages \in Seq(Messages)
  BY QueueTypes DEF GetMessage
<1>2. Head(inQueue) \in Messages /\ <<Head(inQueue)>> \in Seq(Messages)
      /\ Tail(inQueue) \in Seq(Messages) /\ <<>> \in Seq(Messages)
      /\ <<Head(inQueue)>> = Append(<<>>, Head(inQueue))
  BY <1>1
<1>3. Occurs(inQueue, R) = Occurs(Tail(inQueue), R) + AtMostOne(Head(inQueue) \in R)
  BY <1>1, OccursAtHead
<1>4. Occurs(<<Head(inQueue)>>, R) = Occurs(<<>>, R) + AtMostOne(Head(inQueue) \in R)
  BY <1>2, OccursOfOne
<1>5. Occurs(Batch, R) = Occurs(<<Head(inQueue)>>, R) + Occurs(blockedMessages, R)
  <2>1. PICK h : h = <<Head(inQueue)>>
    OBVIOUS
  <2>2. Occurs(h \o blockedMessages, R) = Occurs(h, R) + Occurs(blockedMessages, R)
    BY <1>1, <1>2, <2>1, OccursConcatenated, Zenon
  <2>. QED BY <2>1, <2>2 DEF Batch
<1>6. Occurs(<<>>, R) = 0 /\ Occurs(msgList, R) = 0
  BY OccursInNone DEF GetMessage
<1>7. Occurs(Tail(inQueue), R) \in Nat /\ Occurs(blockedMessages, R) \in Nat
  BY <1>1, <1>2, PlacesFinite
<1>8. Outstanding(c)' = Occurs(Tail(inQueue), R) + Occurs(Batch, R) + Occurs(<<>>, R)
                          + Len(svcResponseQ[c])
  BY DEF Outstanding, GetMessage, StillBlocked, compVars
<1>9. Outstanding(c) = Occurs(inQueue, R) + Occurs(msgList, R) + Occurs(blockedMessages, R)
                          + Len(svcResponseQ[c])
  BY DEF Outstanding
<1>. HIDE DEF R
<1>. QED BY <1>3, <1>4, <1>5, <1>6, <1>7, <1>8, <1>9, OutstandingIsNumber DEF AtMostOne

LEMMA ResultKeeps ==
  ASSUME TypeOK, msgList # <<>>, Head(msgList).type = "result", msgList' = Tail(msgList),
         UNCHANGED <<inQueue, blockedMessages>>, NEW c \in Components,
         svcResponseQ'[c] = svcResponseQ[c]
  PROVE  Outstanding(c)' = Outstanding(c)
<1>1. Occurs(msgList, RequestsOf(c)) = Occurs(Tail(msgList), RequestsOf(c))
           + AtMostOne(Head(msgList).type # "result" /\ Head(msgList).from = c)
  BY HeadHandled
<1>2. Occurs(Tail(msgList), RequestsOf(c)) \in Nat
  BY HeadOfBatch, PlacesFinite DEF TypeOK
<1>3. Outstanding(c)' = Occurs(inQueue, RequestsOf(c)) + Occurs(Tail(msgList), RequestsOf(c))
         + Occurs(blockedMessages, RequestsOf(c)) + Len(svcResponseQ[c])
  BY DEF Outstanding
<1>. QED BY <1>1, <1>2, <1>3 DEF Outstanding, AtMostOne

(* A component that has nothing under way has nothing in any list. *)
LEMMA NothingUnderWay ==
  ASSUME TypeOK, NEW c \in Components, Outstanding(c) = 0
  PROVE  /\ Occurs(inQueue, RequestsOf(c)) = 0 /\ Occurs(msgList, RequestsOf(c)) = 0
         /\ Occurs(blockedMessages, RequestsOf(c)) = 0 /\ svcResponseQ[c] = <<>>
<1>1. /\ Occurs(inQueue, RequestsOf(c)) = 0 /\ Occurs(msgList, RequestsOf(c)) = 0
      /\ Occurs(blockedMessages, RequestsOf(c)) = 0 /\ Len(svcResponseQ[c]) = 0
  BY OutstandingIsNumber DEF Outstanding
<1>2. svcResponseQ[c] \in Seq(Response)
  BY QueueTypes
<1>. QED BY <1>1, <1>2

(* Killing processes keeps the ledger of the others and of absent ones. *)
LEMMA KillKeeps ==
  ASSUME TypeOK, RequestInv, NEW K, Kill(K), UNCHANGED <<inQueue, blockedMessages>>,
         \/ K = Components /\ msgList' = <<>>
         \/ msgList # <<>> /\ Head(msgList).type = "result" /\ msgList' = Tail(msgList)
  PROVE  RequestInv'
<1>1. RegistryInv'
  BY DEF RequestInv, RegistryInv, Kill
<1>2. ASSUME NEW c \in Components, state'[c] # "dead", c \in K
      PROVE  OneRequest(c)'
  <2>1. c \notin registry /\ state[c] = "absent" /\ state'[c] = "absent"
    BY <1>2 DEF RequestInv, RegistryInv, Kill
  <2>2. Outstanding(c) = 0
    BY <2>1 DEF RequestInv, OneRequest, AtMostOne
  <2>3. /\ Occurs(inQueue, RequestsOf(c)) = 0 /\ Occurs(msgList, RequestsOf(c)) = 0
        /\ Occurs(blockedMessages, RequestsOf(c)) = 0
    BY <2>2, NothingUnderWay
  <2>4. Occurs(msgList', RequestsOf(c)) = 0
    <3>1. CASE msgList' = <<>>
      BY <3>1, OccursInNone
    <3>2. CASE msgList # <<>> /\ Head(msgList).type = "result" /\ msgList' = Tail(msgList)
      <4>1. Occurs(msgList, RequestsOf(c)) = Occurs(Tail(msgList), RequestsOf(c))
               + AtMostOne(Head(msgList).type # "result" /\ Head(msgList).from = c)
        BY <3>2, HeadHandled
      <4>2. Occurs(Tail(msgList), RequestsOf(c)) \in Nat
        BY <3>2, HeadOfBatch, PlacesFinite DEF TypeOK
      <4>. QED BY <2>3, <3>2, <4>1, <4>2 DEF AtMostOne
    <3>. QED BY <3>1, <3>2
  <2>5. svcResponseQ'[c] = <<>>
    BY <1>2 DEF Kill
  <2>6. Outstanding(c)' = Occurs(inQueue, RequestsOf(c)) + Occurs(msgList', RequestsOf(c))
                            + Occurs(blockedMessages, RequestsOf(c)) + Len(svcResponseQ'[c])
    BY DEF Outstanding
  <2>7. Outstanding(c)' = 0
    BY <2>3, <2>4, <2>5, <2>6
  <2>. QED BY <2>1, <2>7 DEF OneRequest, AtMostOne
<1>3. ASSUME NEW c \in Components, state'[c] # "dead", c \notin K
      PROVE  OneRequest(c)'
  <2>1. state'[c] = state[c] /\ svcResponseQ'[c] = svcResponseQ[c]
    BY <1>3 DEF Kill
  <2>2. msgList # <<>> /\ Head(msgList).type = "result" /\ msgList' = Tail(msgList)
    BY <1>3
  <2>3. Outstanding(c)' = Outstanding(c)
    BY <2>1, <2>2, ResultKeeps
  <2>. QED BY <1>3, <2>1, <2>3 DEF RequestInv, OneRequest
<1>. QED BY <1>1, <1>2, <1>3 DEF RequestInv

(* The requests of c are counted in its name only. *)
LEMMA SendKeeps ==
  ASSUME TypeOK, NEW m \in Messages, inQueue' = Append(inQueue, m),
         UNCHANGED <<msgList, blockedMessages, svcResponseQ>>
  PROVE  \A c \in Components :
           Outstanding(c)' = Outstanding(c) + AtMostOne(m.type # "result" /\ m.from = c)
<1>. TAKE c \in Components
<1>1. m \in RequestsOf(c) <=> m.type # "result" /\ m.from = c
  BY DEF RequestsOf
<1>2. Occurs(inQueue', RequestsOf(c)) = Occurs(inQueue, RequestsOf(c)) + AtMostOne(m \in RequestsOf(c))
  BY QueueTypes, OccursAppended
<1>3. Outstanding(c)' = Occurs(inQueue', RequestsOf(c)) + Occurs(msgList, RequestsOf(c))
         + Occurs(blockedMessages, RequestsOf(c)) + Len(svcResponseQ[c])
  BY DEF Outstanding
<1>4. Outstanding(c) = Occurs(inQueue, RequestsOf(c)) + Occurs(msgList, RequestsOf(c))
         + Occurs(blockedMessages, RequestsOf(c)) + Len(svcResponseQ[c])
  BY DEF Outstanding
<1>5. AtMostOne(m \in RequestsOf(c)) = AtMostOne(m.type # "result" /\ m.from = c)
      /\ AtMostOne(m \in RequestsOf(c)) \in Nat
  BY <1>1 DEF AtMostOne
<1>6. /\ Occurs(inQueue, RequestsOf(c)) \in Nat /\ Occurs(msgList, RequestsOf(c)) \in Nat
      /\ Occurs(blockedMessages, RequestsOf(c)) \in Nat /\ Len(svcResponseQ[c]) \in Nat
  BY OutstandingIsNumber
<1>. QED BY <1>2, <1>3, <1>4, <1>5, <1>6

(* What a component asks for, it asks in its own name; a task to be ended  *)
(* leaves its task_map.                                                    *)
LEMMA ServiceSends ==
  ASSUME TypeOK, NEW c \in Components,
         \/ CallNonblocking(c) \/ WaitForCall(c) \/ PollCall(c)
         \/ LaunchTask(c) \/ EndTask(c) \/ CreateSimulation(c)
  PROVE  \E m \in Requests :
           /\ m.from = c /\ m.type # "result" /\ InvokeService(c, m)
           /\ \/ UNCHANGED taskMap /\ m.type # "finish_task"
              \/ /\ m = FinishTask(c, m.task) /\ m.task \in taskMap[c]
                 /\ taskMap' = [taskMap EXCEPT ![c] = @ \ {m.task}]
<1>1. c \in SimComps
  BY Zenon DEF CallNonblocking, WaitForCall, PollCall, LaunchTask, EndTask, CreateSimulation,
         InvokeService
<1>2. callTargets[c] \subseteq Nat /\ taskMap[c] \subseteq Nat /\ TaskCores[c] \subseteq Nat
  BY <1>1, ProgramAssumption DEF TypeOK, ClientType
<1>3. CASE CallNonblocking(c)
  <2>1. \A d \in SimComps : InitCall(c, d) \in Requests /\ InitCall(c, d).from = c
                             /\ InitCall(c, d).type \notin {"result", "finish_task"}
    BY <1>1 DEF InitCall, Requests
  <2>. QED BY <1>1, <1>3, <2>1 DEF CallNonblocking
<1>4. CASE WaitForCall(c) \/ PollCall(c)
  <2>1. \A i \in callTargets[c], b \in BOOLEAN :
          WaitCall(c, i, b) \in Requests /\ WaitCall(c, i, b).from = c
          /\ WaitCall(c, i, b).type \notin {"result", "finish_task"}
    BY <1>1, <1>2 DEF WaitCall, Requests, Waits
  <2>. QED BY <1>1, <1>4, <2>1 DEF WaitForCall, PollCall
<1>5. CASE LaunchTask(c)
  <2>1. \A n \in TaskCores[c], b \in BlockModes :
          InitTask(c, n, b) \in Requests /\ InitTask(c, n, b).from = c
          /\ InitTask(c, n, b).type \notin {"result", "finish_task"}
    BY <1>1, <1>2, ProgramAssumption DEF InitTask, Requests, Launches
  <2>. QED BY <1>1, <1>5, <2>1 DEF LaunchTask
<1>6. CASE EndTask(c)
  <2>1. \A t \in taskMap[c] : FinishTask(c, t) \in Requests /\ FinishTask(c, t).from = c
                             /\ FinishTask(c, t).type # "result" /\ FinishTask(c, t).task = t
    BY <1>1, <1>2 DEF FinishTask, Requests
  <2>. QED BY <1>1, <1>6, <2>1, Zenon DEF EndTask
<1>7. CASE CreateSimulation(c)
  <2>1. \A s \in Sims, sub \in BOOLEAN :
          CreateSim(c, s, sub) \in Requests /\ CreateSim(c, s, sub).from = c
          /\ CreateSim(c, s, sub).type \notin {"result", "finish_task"}
    BY <1>1 DEF CreateSim, Requests
  <2>. QED BY <1>1, <1>7, <2>1 DEF CreateSimulation
<1>. QED BY <1>3, <1>4, <1>5, <1>6, <1>7

LEMMA KeptRequests ==
  ASSUME RequestInv, UNCHANGED <<registry, state>>,
         \A c \in Components : Outstanding(c)' = Outstanding(c)
  PROVE  RequestInv'
<1>1. RegistryInv'
  BY DEF RequestInv, RegistryInv
<1>2. ASSUME NEW c \in Components, state'[c] # "dead" PROVE OneRequest(c)'
  <2>1. Outstanding(c)' = AtMostOne(state[c] = "waiting")
    BY <1>2 DEF RequestInv, OneRequest
  <2>. QED BY <2>1 DEF OneRequest
<1>. QED BY <1>1, <1>2 DEF RequestInv

LEMMA RespondRequests ==
  ASSUME TypeOK, RequestInv, msgList # <<>>, Head(msgList).type # "result",
         NEW ok \in BOOLEAN, NEW val \in Nat, Respond(Head(msgList).from, ok, val),
         UNCHANGED <<inQueue, blockedMessages>>
  PROVE  RequestInv'
<1>1. CASE Head(msgList).from \in registry
  <2>1. [ok |-> ok, val |-> val] \in Response
    BY DEF Response
  <2>2. /\ svcResponseQ' = [svcResponseQ EXCEPT ![Head(msgList).from] =
                              Append(@, [ok |-> ok, val |-> val])]
        /\ msgList' = Tail(msgList) /\ UNCHANGED <<registry, state>>
    BY <1>1 DEF Respond
  <2>3. \A c \in Components : Outstanding(c)' = Outstanding(c)
    BY <2>1, <2>2, AnswerKeeps, Zenon
  <2>. QED BY <2>2, <2>3, KeptRequests
<1>2. CASE Head(msgList).from \notin registry
  <2>1. Kill(Components) /\ msgList' = <<>>
    BY <1>2 DEF Respond, TerminateAll
  <2>. QED BY <2>1, KillKeeps
<1>. QED BY <1>1, <1>2

LEMMA QuietRequests ==
  ASSUME RequestInv,
         UNCHANGED <<inQueue, msgList, blockedMessages, svcResponseQ, registry, state>>
  PROVE  RequestInv'
<1>1. \A c \in Components : Outstanding(c)' = Outstanding(c)
  BY DEF Outstanding
<1>. QED BY <1>1, KeptRequests

LEMMA FrameworkStepRequests ==
  ASSUME TypeOK, RequestInv, FrameworkStep
  PROVE  RequestInv'
<1>. DEFINE m == Head(msgList)
<1>1. CASE InvokeFrameworkComps \/ StartLines
  <2>1. UNCHANGED <<inQueue, msgList, blockedMessages, svcResponseQ, registry, state>>
    BY <1>1, Zenon DEF InvokeFrameworkComps, StartLines, simVars
  <2>. QED BY <2>1, QuietRequests
<1>2. CASE GetMessage
  <2>1. UNCHANGED <<registry, state>>
    BY <1>2 DEF GetMessage, simVars, compVars
  <2>. QED BY <1>2, <2>1, BatchKeeps, KeptRequests
<1>3. CASE HandleInitResult
  <2>1. msgList # <<>> /\ m.type = "result" /\ UNCHANGED <<inQueue, blockedMessages>>
    BY <1>3 DEF HandleInitResult, Working
  <2>2. CASE TerminateAll("aborted")
    BY <2>1, <2>2, KillKeeps DEF TerminateAll
  <2>3. CASE msgList' = Tail(msgList) /\ UNCHANGED <<registry, state, svcResponseQ>>
    BY <2>1, <2>3, ResultKeeps, KeptRequests
  <2>. QED BY <1>3, <2>2, <2>3 DEF HandleInitResult
<1>4. CASE HandleInitCall
  <2>1. msgList # <<>> /\ m.type # "result" /\ UNCHANGED <<inQueue, blockedMessages>>
        /\ nextCallId \in Nat
    BY <1>4, Zenon DEF HandleInitCall, Working, TypeOK, ManagerType
  <2>2. CASE /\ svcResponseQ' = [svcResponseQ EXCEPT ![m.from] =
                                 Append(@, [ok |-> TRUE, val |-> nextCallId])]
             /\ msgList' = Tail(msgList) /\ UNCHANGED <<registry, state>>
    <3>1. [ok |-> TRUE, val |-> nextCallId] \in Response
      BY <2>1 DEF Response
    <3>2. \A c \in Components : Outstanding(c)' = Outstanding(c)
      BY <2>1, <2>2, <3>1, AnswerKeeps, Zenon
    <3>. QED BY <2>2, <3>2, KeptRequests
  <2>3. CASE TerminateAll("aborted")
    BY <2>1, <2>3, KillKeeps DEF TerminateAll
  <2>4. CASE Respond(m.from, FALSE, 0)
    BY <2>1, <2>4, RespondRequests
  <2>. QED BY <1>4, <2>2, <2>3, <2>4, Zenon DEF HandleInitCall
<1>5. CASE HandleWaitCall
  <2>1. msgList # <<>> /\ m.type # "result" /\ UNCHANGED inQueue /\ m.call \in Nat
    <3>1. msgList # <<>> /\ m.type = "wait_call" /\ UNCHANGED inQueue
      BY <1>5 DEF HandleWaitCall, Working
    <3>. QED BY <3>1, HeadOfBatch, MessageFields DEF TypeOK
  <2>2. CASE Block(m) /\ UNCHANGED <<registry, state, svcResponseQ>>
    BY <2>1, <2>2, BlockKeeps, KeptRequests
  <2>3. CASE UNCHANGED blockedMessages /\ \E ok \in BOOLEAN : Respond(m.from, ok, m.call)
    BY <2>1, <2>3, RespondRequests
  <2>4. \A f \in finishedCalls : f.ok \in BOOLEAN
    BY DEF TypeOK, ManagerType
  <2>. QED BY <1>5, <2>2, <2>3, <2>4 DEF HandleWaitCall
<1>6. CASE HandleInitTask
  <2>1. msgList # <<>> /\ m.type # "result" /\ UNCHANGED inQueue /\ nextTaskId \in Nat
    BY <1>6 DEF HandleInitTask, Working, TypeOK, ManagerType
  <2>2. CASE Block(m) /\ UNCHANGED <<registry, state, svcResponseQ>>
    BY <2>1, <2>2, BlockKeeps, KeptRequests
  <2>3. CASE UNCHANGED blockedMessages /\ Respond(m.from, TRUE, nextTaskId)
    BY <2>1, <2>3, RespondRequests
  <2>4. CASE UNCHANGED blockedMessages /\ Respond(m.from, FALSE, 0)
    BY <2>1, <2>4, RespondRequests
  <2>. QED BY <1>6, <2>2, <2>3, <2>4 DEF HandleInitTask
<1>7. CASE HandleFinishTask
  <2>1. msgList # <<>> /\ m.type # "result" /\ UNCHANGED <<inQueue, blockedMessages>>
        /\ Respond(m.from, TRUE, 0)
    BY <1>7 DEF HandleFinishTask, Working
  <2>. QED BY <2>1, RespondRequests
<1>8. CASE HandleCreateSim
  <2>1. msgList # <<>> /\ m.type # "result" /\ UNCHANGED <<inQueue, blockedMessages>>
    BY <1>8, Zenon DEF HandleCreateSim, Working
  <2>2. CASE Respond(m.from, FALSE, 0)
    BY <2>1, <2>2, RespondRequests
  <2>3. CASE /\ \A c \in MembersOf(m.sim) : state[c] = "absent"
             /\ registry' = registry \cup MembersOf(m.sim)
             /\ state' = [c \in Components |->
                            IF c \in MembersOf(m.sim) THEN "idle" ELSE state[c]]
             /\ svcResponseQ' = [svcResponseQ EXCEPT ![m.from] = Append(@, [ok |-> TRUE, val |-> 0])]
             /\ msgList' = Tail(msgList)
    <3>1. [ok |-> TRUE, val |-> 0] \in Response
      BY DEF Response
    <3>2. \A c \in Components : Outstanding(c)' = Outstanding(c)
      BY <2>1, <2>3, <3>1, AnswerKeeps, Zenon
    <3>3. RegistryInv'
      BY <2>3 DEF RequestInv, RegistryInv
    <3>4. ASSUME NEW c \in Components, state'[c] # "dead" PROVE OneRequest(c)'
      <4>1. state[c] # "dead" /\ (state[c] = "waiting" <=> state'[c] = "waiting")
        BY <2>3, <3>4
      <4>2. Outstanding(c)' = AtMostOne(state[c] = "waiting")
        BY <3>2, <4>1 DEF RequestInv, OneRequest
      <4>. QED BY <4>1, <4>2 DEF OneRequest, AtMostOne
    <3>. QED BY <3>3, <3>4 DEF RequestInv
  <2>. QED BY <1>8, <2>2, <2>3, Zenon DEF HandleCreateSim
<1>9. CASE HandleReturnCall \/ HandleLineResult
  <2>1. msgList # <<>> /\ m.type = "result" /\ msgList' = Tail(msgList)
        /\ UNCHANGED <<inQueue, blockedMessages, registry, state, svcResponseQ>>
    BY <1>9, Zenon DEF HandleReturnCall, HandleLineResult, Working, simVars, compVars
  <2>. QED BY <2>1, ResultKeeps, KeptRequests
<1>10. CASE HandleLastResult
  <2>1. msgList # <<>> /\ m.type = "result" /\ msgList' = Tail(msgList)
        /\ UNCHANGED <<inQueue, blockedMessages>>
    BY <1>10 DEF HandleLastResult, Working
  <2>2. CASE \E K : Kill(K)
    BY <2>1, <2>2, KillKeeps
  <2>3. CASE UNCHANGED <<registry, state, svcResponseQ>>
    BY <2>1, <2>3, ResultKeeps, KeptRequests
  <2>. QED BY <1>10, <2>2, <2>3 DEF HandleLastResult, simVars
<1>11. CASE EndRun
  BY <1>11, KillKeeps DEF EndRun, TerminateAll
<1>. QED BY <1>1, <1>2, <1>3, <1>4, <1>5, <1>6, <1>7, <1>8, <1>9, <1>10, <1>11 DEF FrameworkStep

LEMMA ComponentStepRequests ==
  ASSUME TypeOK, RequestInv, NEW c \in Components, ComponentStep(c)
  PROVE  RequestInv'
<1>0. state \in [Components -> {"absent", "idle", "running", "waiting", "dead"}]
  BY DEF TypeOK, QueueType
<1>1. CASE StartMethod(c)
  <2>1. UNCHANGED <<inQueue, msgList, blockedMessages, svcResponseQ, registry>>
        /\ state[c] = "idle" /\ state' = [state EXCEPT ![c] = "running"]
    BY <1>1 DEF StartMethod, loopVars, simVars
  <2>2. \A d \in Components : Outstanding(d)' = Outstanding(d)
    BY <2>1 DEF Outstanding
  <2>. QED BY <1>0, <2>1, <2>2 DEF RequestInv, RegistryInv, OneRequest, AtMostOne
<1>2. CASE \E ok \in BOOLEAN : ReturnMethod(c, ok)
  <2>1. PICK ok \in BOOLEAN : ReturnMethod(c, ok)
    BY <1>2
  <2>2. Result(c, current[c].call, ok) \in Messages /\ Result(c, current[c].call, ok).type = "result"
    BY DEF Result, Messages, Results, TypeOK, ClientType, Invocation
  <2>3. UNCHANGED <<msgList, blockedMessages, svcResponseQ, registry>>
        /\ inQueue' = Append(inQueue, Result(c, current[c].call, ok))
        /\ state[c] = "running" /\ state' = [state EXCEPT ![c] = "idle"]
    BY <2>1 DEF ReturnMethod, simVars
  <2>4. \A d \in Components : Outstanding(d)' = Outstanding(d)
    <3>. TAKE d \in Components
    <3>1. Outstanding(d)' = Outstanding(d) + 0
      BY <2>2, <2>3, SendKeeps DEF AtMostOne
    <3>. QED BY <3>1, OutstandingIsNumber
  <2>. QED BY <1>0, <2>3, <2>4 DEF RequestInv, RegistryInv, OneRequest, AtMostOne
<1>3. CASE \/ CallNonblocking(c) \/ WaitForCall(c) \/ PollCall(c)
           \/ LaunchTask(c) \/ EndTask(c) \/ CreateSimulation(c)
  <2>1. PICK m \in Requests : m.from = c /\ m.type # "result" /\ InvokeService(c, m)
    BY <1>3, ServiceSends
  <2>2. UNCHANGED <<msgList, blockedMessages, svcResponseQ, registry>>
        /\ inQueue' = Append(inQueue, m) /\ m \in Messages
        /\ state[c] = "running" /\ state' = [state EXCEPT ![c] = "waiting"]
    BY <2>1 DEF InvokeService, simVars, Messages
  <2>3. \A d \in Components : Outstanding(d)' = Outstanding(d) + AtMostOne(m.from = d)
    BY <2>1, <2>2, SendKeeps DEF AtMostOne
  <2>4. RegistryInv'
    BY <1>0, <2>2 DEF RequestInv, RegistryInv
  <2>5. ASSUME NEW d \in Components, state'[d] # "dead" PROVE OneRequest(d)'
    <3>1. OneRequest(d)
      BY <1>0, <2>2, <2>5 DEF RequestInv
    <3>2. CASE d = c
      <4>1. state'[d] = "waiting" /\ Outstanding(d) = 0
        BY <1>0, <2>2, <3>1, <3>2 DEF OneRequest, AtMostOne
      <4>2. Outstanding(d)' = 1
        BY <2>1, <2>3, <3>2, <4>1 DEF AtMostOne
      <4>. QED BY <4>1, <4>2 DEF OneRequest, AtMostOne
    <3>3. CASE d # c
      <4>1. state'[d] = state[d]
        BY <1>0, <2>2, <3>3
      <4>2. Outstanding(d)' = Outstanding(d) + 0
        BY <2>1, <2>3, <3>3 DEF AtMostOne
      <4>. QED BY <3>1, <4>1, <4>2, OutstandingIsNumber DEF OneRequest
    <3>. QED BY <3>2, <3>3
  <2>. QED BY <2>4, <2>5 DEF RequestInv
<1>4. CASE ReceiveResponse(c)
  <2>1. UNCHANGED <<inQueue, msgList, blockedMessages, registry>>
        /\ svcResponseQ[c] # <<>> /\ svcResponseQ' = [svcResponseQ EXCEPT ![c] = Tail(@)]
        /\ state[c] = "waiting" /\ state' = [state EXCEPT ![c] = "running"]
    BY <1>4 DEF ReceiveResponse, loopVars, simVars
  <2>2. RegistryInv'
    BY <1>0, <2>1 DEF RequestInv, RegistryInv
  <2>3. ASSUME NEW d \in Components, state'[d] # "dead" PROVE OneRequest(d)'
    <3>1. OneRequest(d)
      BY <1>0, <2>1, <2>3 DEF RequestInv
    <3>2. svcResponseQ \in [Components -> Seq(Response)]
      BY DEF TypeOK, QueueType
    <3>3. CASE d = c
      <4>1. Len(svcResponseQ'[d]) = Len(svcResponseQ[d]) - 1
        BY <2>1, <3>2, <3>3
      <4>2. Outstanding(d)' = Occurs(inQueue, RequestsOf(d)) + Occurs(msgList, RequestsOf(d))
                               + Occurs(blockedMessages, RequestsOf(d)) + Len(svcResponseQ'[d])
        BY <2>1 DEF Outstanding
      <4>3. Outstanding(d) = Occurs(inQueue, RequestsOf(d)) + Occurs(msgList, RequestsOf(d))
                               + Occurs(blockedMessages, RequestsOf(d)) + Len(svcResponseQ[d])
        BY DEF Outstanding
      <4>4. Outstanding(d) = 1 /\ state'[d] = "running"
        BY <1>0, <2>1, <3>1, <3>3 DEF OneRequest, AtMostOne
      <4>5. Outstanding(d)' = 0
        BY <4>1, <4>2, <4>3, <4>4, OutstandingIsNumber
      <4>. QED BY <4>4, <4>5 DEF OneRequest, AtMostOne
    <3>4. CASE d # c
      <4>1. state'[d] = state[d] /\ svcResponseQ'[d] = svcResponseQ[d]
        BY <1>0, <2>1, <3>2, <3>4
      <4>2. Outstanding(d)' = Outstanding(d)
        BY <2>1, <4>1 DEF Outstanding
      <4>. QED BY <3>1, <4>1, <4>2 DEF OneRequest
    <3>. QED BY <3>3, <3>4
  <2>. QED BY <2>2, <2>3 DEF RequestInv
<1>. QED BY <1>1, <1>2, <1>3, <1>4 DEF ComponentStep

LEMMA InitRequests == Init => RequestInv
<1>. SUFFICES ASSUME Init PROVE RequestInv
  OBVIOUS
<1>1. RegistryInv
  BY DEF Init, RegistryInv
<1>2. ASSUME NEW c \in Components PROVE OneRequest(c)
  <2>1. inQueue = <<>> /\ msgList = <<>> /\ blockedMessages = <<>> /\ svcResponseQ[c] = <<>>
        /\ state[c] # "waiting"
    BY DEF Init
  <2>2. Outstanding(c) = 0
    BY <2>1, OccursInNone DEF Outstanding
  <2>. QED BY <2>1, <2>2 DEF OneRequest, AtMostOne
<1>. QED BY <1>1, <1>2 DEF RequestInv

LEMMA RequestsStay == Spec => []RequestInv
<1>1. TypeOK /\ RequestInv /\ [Next]_vars => RequestInv'
  <2>. SUFFICES ASSUME TypeOK, RequestInv, [Next]_vars PROVE RequestInv'
    OBVIOUS
  <2>1. CASE UNCHANGED vars
    BY <2>1, QuietRequests DEF vars, loopVars, simVars, compVars
  <2>. QED BY <2>1, FrameworkStepRequests, ComponentStepRequests DEF Next, Stopped
<1>. QED BY <1>1, InitRequests, TypeCorrect, PTL DEF Spec

(* A waiting component's request is in exactly one list, or its response   *)
(* is on its way, and no other component has either, on any run: run() may *)
(* move requests between its lists, abort and terminate simulations while  *)
(* they are under way.                                                     *)
THEOREM RequestsAreKept == Spec => []RequestInOnePlace
<1>1. TypeOK /\ RequestInv => RequestInOnePlace
  <2>. SUFFICES ASSUME TypeOK, RequestInv, NEW c \in registry
                PROVE  Cardinality(From(c, inQueue)) + Cardinality(From(c, msgList))
                         + Cardinality(From(c, blockedMessages)) + Len(svcResponseQ[c])
                       = IF state[c] = "waiting" THEN 1 ELSE 0
    BY DEF RequestInOnePlace
  <2>1. c \in Components /\ state[c] # "dead"
    BY DEF TypeOK, SimType, RequestInv, RegistryInv
  <2>2. /\ From(c, inQueue) = Places(inQueue, RequestsOf(c))
        /\ From(c, msgList) = Places(msgList, RequestsOf(c))
        /\ From(c, blockedMessages) = Places(blockedMessages, RequestsOf(c))
    BY QueueTypes, FromIsPlaces
  <2>3. OneRequest(c)
    BY <2>1 DEF RequestInv
  <2>. QED BY <2>2, <2>3 DEF OneRequest, Outstanding, Occurs, AtMostOne
<1>. QED BY <1>1, TypeCorrect, RequestsStay, PTL

-----------------------------------------------------------------------------
(* Tasks and cores *)

(* The requests that are in a list. *)
UnderWay == {m \in Elements(inQueue) \cup Elements(msgList) \cup Elements(blockedMessages) :
               m.type # "result"}

(* The program of a component waits on the request that is in a list. *)
PendingInv == \A m \in UnderWay : state[m.from] # "dead" => pending[m.from] = m

LEMMA UnderWayTypes ==
  ASSUME TypeOK, NEW m \in UnderWay
  PROVE  m \in Messages /\ m.from \in Components /\ m.type # "result"
<1>1. m \in Messages
  BY QueueTypes DEF UnderWay, Elements
<1>. QED BY <1>1, MessageFields DEF UnderWay

(* A request in a list is the only one of a waiting component. *)
LEMMA UnderWayIsWaiting ==
  ASSUME TypeOK, RequestInv, NEW m \in UnderWay, state[m.from] # "dead"
  PROVE  state[m.from] = "waiting" /\ svcResponseQ[m.from] = <<>>
<1>. DEFINE c == m.from
            R == RequestsOf(c)
<1>1. c \in Components /\ m \in R
  BY UnderWayTypes DEF RequestsOf
<1>2. /\ Occurs(inQueue, R) \in Nat /\ Occurs(msgList, R) \in Nat
      /\ Occurs(blockedMessages, R) \in Nat /\ Len(svcResponseQ[c]) \in Nat
  BY <1>1, OutstandingIsNumber
<1>3. Occurs(inQueue, R) # 0 \/ Occurs(msgList, R) # 0 \/ Occurs(blockedMessages, R) # 0
  <2>1. m \in Elements(inQueue) \/ m \in Elements(msgList) \/ m \in Elements(blockedMessages)
    BY DEF UnderWay
  <2>2. \/ \E i \in DOMAIN inQueue : inQueue[i] = m
        \/ \E i \in DOMAIN msgList : msgList[i] = m
        \/ \E i \in DOMAIN blockedMessages : blockedMessages[i] = m
    BY <2>1 DEF Elements
  <2>3. \/ \E i \in DOMAIN inQueue : inQueue[i] \in R
        \/ \E i \in DOMAIN msgList : msgList[i] \in R
        \/ \E i \in DOMAIN blockedMessages : blockedMessages[i] \in R
    BY <1>1, <2>2
  <2>. HIDE DEF R
  <2>4. /\ Occurs(inQueue, R) = 0 <=> \A i \in DOMAIN inQueue : inQueue[i] \notin R
        /\ Occurs(msgList, R) = 0 <=> \A i \in DOMAIN msgList : msgList[i] \notin R
        /\ Occurs(blockedMessages, R) = 0
             <=> \A i \in DOMAIN blockedMessages : blockedMessages[i] \notin R
    BY QueueTypes, NoOccurrence
  <2>. QED BY <2>3, <2>4
<1>4. Outstanding(c) = Occurs(inQueue, R) + Occurs(msgList, R) + Occurs(blockedMessages, R)
                         + Len(svcResponseQ[c])
  BY DEF Outstanding
<1>5. Outstanding(c) = AtMostOne(state[c] = "waiting")
  BY <1>1 DEF RequestInv, OneRequest
<1>6. state[c] = "waiting"
  <2>1. CASE state[c] # "waiting"
    <3>1. Outstanding(c) = 0
      BY <1>5, <2>1 DEF AtMostOne
    <3>. HIDE DEF R
    <3>. QED BY <1>2, <1>3, <1>4, <3>1
  <2>. QED BY <2>1
<1>7. Len(svcResponseQ[c]) = 0
  <2>1. Outstanding(c) = 1
    BY <1>5, <1>6 DEF AtMostOne
  <2>. HIDE DEF R
  <2>. QED BY <1>2, <1>3, <1>4, <2>1
<1>. QED BY <1>1, <1>6, <1>7, QueueTypes

(* A response is for a waiting component that has nothing in the lists. *)
LEMMA RespondedIsWaiting ==
  ASSUME TypeOK, RequestInv, NEW c \in Components, state[c] # "dead", svcResponseQ[c] # <<>>
  PROVE  state[c] = "waiting" /\ Len(svcResponseQ[c]) = 1 /\ \A m \in UnderWay : m.from # c
<1>1. Len(svcResponseQ[c]) \in Nat \ {0}
  BY QueueTypes
<1>2. Outstanding(c) = AtMostOne(state[c] = "waiting")
  BY DEF RequestInv, OneRequest
<1>3. state[c] = "waiting" /\ Len(svcResponseQ[c]) = 1
  <2>1. Outstanding(c) <= 1 /\ (Outstanding(c) = 1 => state[c] = "waiting")
    BY <1>2 DEF AtMostOne
  <2>2. Outstanding(c) = Occurs(inQueue, RequestsOf(c)) + Occurs(msgList, RequestsOf(c))
             + Occurs(blockedMessages, RequestsOf(c)) + Len(svcResponseQ[c])
    BY DEF Outstanding
  <2>3. /\ Occurs(inQueue, RequestsOf(c)) \in Nat /\ Occurs(msgList, RequestsOf(c)) \in Nat
        /\ Occurs(blockedMessages, RequestsOf(c)) \in Nat
    BY OutstandingIsNumber
  <2>4. Outstanding(c) >= Len(svcResponseQ[c]) /\ Outstanding(c) \in Nat
    BY <1>1, <2>2, <2>3
  <2>5. Outstanding(c) = 1 /\ Len(svcResponseQ[c]) = 1
    <3>1. PICK k : k = Len(svcResponseQ[c])
      OBVIOUS
    <3>2. PICK n : n = Outstanding(c)
      OBVIOUS
    <3>3. k \in Nat /\ k # 0 /\ n \in Nat /\ n <= 1 /\ n >= k
      BY <1>1, <2>1, <2>4, <3>1, <3>2
    <3>4. n = 1 /\ k = 1
      BY ONLY <3>3
    <3>. QED BY <3>1, <3>2, <3>4
  <2>. QED BY <2>1, <2>5
<1>. QED BY <1>3, UnderWayIsWaiting

(* The framework takes requests out of its lists and puts none in. *)
LEMMA ElementsOfTail ==
  ASSUME NEW T, NEW q \in Seq(T), q # <<>>
  PROVE  Elements(Tail(q)) \subseteq Elements(q) /\ Head(q) \in Elements(q)
<1>1. /\ Len(q) \in Nat \ {0} /\ DOMAIN q = 1..Len(q)
      /\ DOMAIN Tail(q) = 1..(Len(q) - 1)
      /\ \A i \in 1..(Len(q) - 1) : Tail(q)[i] = q[i + 1]
      /\ Head(q) = q[1]
  OBVIOUS
<1>2. \A i \in DOMAIN Tail(q) : i + 1 \in DOMAIN q /\ Tail(q)[i] = q[i + 1]
  BY <1>1
<1>3. 1 \in DOMAIN q
  BY <1>1
<1>. QED BY <1>1, <1>2, <1>3 DEF Elements

LEMMA ElementsOfAppend ==
  ASSUME NEW T, NEW q \in Seq(T), NEW e \in T
  PROVE  Elements(Append(q, e)) = Elements(q) \cup {e}
<1>. DEFINE p == Append(q, e)
            n == Len(q)
<1>1. /\ n \in Nat /\ DOMAIN q = 1..n /\ DOMAIN p = 1..(n + 1)
      /\ p[n + 1] = e /\ \A i \in 1..n : p[i] = q[i]
  OBVIOUS
<1>2. n + 1 \in DOMAIN p /\ \A i \in DOMAIN q : i \in DOMAIN p /\ p[i] = q[i]
  BY <1>1
<1>3. \A i \in DOMAIN p : i = n + 1 \/ i \in DOMAIN q
  BY <1>1
<1>. HIDE DEF p
<1>4. Elements(p) = Elements(q) \cup {e}
  BY <1>1, <1>2, <1>3 DEF Elements
<1>. QED BY <1>4 DEF p

LEMMA ElementsOfConcat ==
  ASSUME NEW T, NEW p \in Seq(T), NEW q \in Seq(T)
  PROVE  Elements(p \o q) \subseteq Elements(p) \cup Elements(q)
<1>. DEFINE r == p \o q
            n == Len(p)
            k == Len(q)
<1>1. /\ n \in Nat /\ k \in Nat /\ DOMAIN p = 1..n /\ DOMAIN q = 1..k
      /\ DOMAIN r = 1..(n + k)
      /\ \A i \in 1..n : r[i] = p[i]
      /\ \A i \in 1..k : r[n + i] = q[i]
  OBVIOUS
<1>2. ASSUME NEW i \in DOMAIN r
      PROVE  r[i] \in Elements(p) \cup Elements(q)
  <2>1. CASE i <= n
    BY <1>1, <2>1 DEF Elements
  <2>2. CASE i > n
    <3>1. i - n \in DOMAIN q /\ r[i] = q[i - n]
      <4>1. i - n \in 1..k /\ n + (i - n) = i
        BY <1>1, <2>2
      <4>. QED BY <1>1, <4>1
    <3>. QED BY <3>1 DEF Elements
  <2>. QED BY <1>1, <2>1, <2>2
<1>. QED BY <1>2 DEF Elements

LEMMA OnlyTakenOut ==
  ASSUME TypeOK, UNCHANGED inQueue,
         msgList' = <<>> \/ (msgList # <<>> /\ msgList' = Tail(msgList)) \/ UNCHANGED msgList,
         \/ UNCHANGED blockedMessages
         \/ msgList # <<>> /\ blockedMessages' = Append(blockedMessages, Head(msgList))
  PROVE  UnderWay' \subseteq UnderWay
<1>1. Elements(msgList') \subseteq Elements(msgList)
  <2>1. Elements(<<>>) = {}
    BY DEF Elements
  <2>. QED BY <2>1, QueueTypes, ElementsOfTail
<1>2. Elements(blockedMessages') \subseteq Elements(blockedMessages) \cup Elements(msgList)
  <2>1. CASE msgList # <<>> /\ blockedMessages' = Append(blockedMessages, Head(msgList))
    <3>1. Head(msgList) \in Messages /\ Head(msgList) \in Elements(msgList)
      BY <2>1, QueueTypes, ElementsOfTail
    <3>. QED BY <2>1, <3>1, QueueTypes, ElementsOfAppend
  <2>. QED BY <2>1
<1>3. UnderWay' = {m \in Elements(inQueue) \cup Elements(msgList') \cup Elements(blockedMessages') :
                     m.type # "result"}
  BY DEF UnderWay
<1>. QED BY <1>1, <1>2, <1>3 DEF UnderWay

(* A step of the framework takes requests away and revives nobody. *)
LEMMA RespondTakesOut ==
  ASSUME NEW c, NEW ok, NEW val, Respond(c, ok, val)
  PROVE  msgList' = <<>> \/ msgList' = Tail(msgList)
BY DEF Respond, TerminateAll

LEMMA FrameworkTakesOut ==
  ASSUME TypeOK, FrameworkStep
  PROVE  UnderWay' \subseteq UnderWay /\ UNCHANGED clientVars
<1>. DEFINE Taken == msgList' = <<>> \/ (msgList # <<>> /\ msgList' = Tail(msgList))
<1>1. CASE InvokeFrameworkComps \/ StartLines \/ EndRun
  <2>1. UNCHANGED <<inQueue, blockedMessages>> /\ (UNCHANGED msgList \/ msgList' = <<>>)
        /\ UNCHANGED clientVars
    BY <1>1, Zenon DEF InvokeFrameworkComps, StartLines, EndRun, TerminateAll
  <2>. QED BY <2>1, OnlyTakenOut
<1>2. CASE GetMessage
  <2>1. inQueue # <<>> /\ inQueue \in Seq(Messages) /\ blockedMessages \in Seq(Messages)
    BY <1>2, QueueTypes DEF GetMessage
  <2>2. Head(inQueue) \in Elements(inQueue) /\ Elements(Tail(inQueue)) \subseteq Elements(inQueue)
    BY <2>1, ElementsOfTail
  <2>3. <<Head(inQueue)>> \in Seq(Messages) /\ Elements(<<Head(inQueue)>>) = {Head(inQueue)}
    BY <2>1 DEF Elements
  <2>4. Elements(Batch) \subseteq Elements(<<Head(inQueue)>>) \cup Elements(blockedMessages)
    <3>1. PICK h : h = <<Head(inQueue)>>
      OBVIOUS
    <3>2. Elements(h \o blockedMessages) \subseteq Elements(h) \cup Elements(blockedMessages)
      BY <2>1, <2>3, <3>1, ElementsOfConcat
    <3>. QED BY <3>1, <3>2 DEF Batch
  <2>5. Elements(<<>>) = {}
    BY DEF Elements
  <2>6. UnderWay' = {m \in Elements(Tail(inQueue)) \cup Elements(Batch) \cup Elements(<<>>) :
                       m.type # "result"}
    BY <1>2 DEF UnderWay, GetMessage, StillBlocked
  <2>7. UnderWay' \subseteq UnderWay
    BY <2>2, <2>3, <2>4, <2>5, <2>6 DEF UnderWay
  <2>. QED BY <1>2, <2>7 DEF GetMessage, compVars
<1>3. CASE HandleInitResult \/ HandleReturnCall \/ HandleLineResult \/ HandleLastResult
  <2>1. Taken /\ UNCHANGED <<inQueue, blockedMessages, clientVars>>
    BY <1>3, Zenon DEF HandleInitResult, HandleReturnCall, HandleLineResult, HandleLastResult, Working,
                TerminateAll, compVars
  <2>. QED BY <2>1, OnlyTakenOut
<1>4. CASE HandleInitCall
  <2>1. Taken /\ UNCHANGED <<inQueue, blockedMessages, clientVars>>
    BY <1>4, RespondTakesOut, Zenon DEF HandleInitCall, Working, TerminateAll
  <2>. QED BY <2>1, OnlyTakenOut
<1>5. CASE HandleFinishTask
  <2>1. Taken /\ UNCHANGED <<inQueue, blockedMessages, clientVars>>
    BY <1>5, RespondTakesOut DEF HandleFinishTask, Working
  <2>. QED BY <2>1, OnlyTakenOut
<1>6. CASE HandleCreateSim
  <2>1. Taken /\ UNCHANGED <<inQueue, blockedMessages, clientVars>>
    BY <1>6, RespondTakesOut, Zenon DEF HandleCreateSim, Working
  <2>. QED BY <2>1, OnlyTakenOut
<1>7. CASE HandleWaitCall
  <2>1. Taken /\ UNCHANGED <<inQueue, clientVars>>
        /\ \/ UNCHANGED blockedMessages
           \/ msgList # <<>> /\ blockedMessages' = Append(blockedMessages, Head(msgList))
    <3>1. msgList # <<>> /\ UNCHANGED <<inQueue, clientVars>>
      BY <1>7 DEF HandleWaitCall, Working
    <3>2. CASE UNCHANGED blockedMessages /\ \E c, ok, val : Respond(c, ok, val)
      BY <3>1, <3>2, RespondTakesOut
    <3>3. CASE Block(Head(msgList))
      BY <3>1, <3>3 DEF Block
    <3>. QED BY <1>7, <3>2, <3>3 DEF HandleWaitCall
  <2>. QED BY <2>1, OnlyTakenOut
<1>8. CASE HandleInitTask
  <2>1. Taken /\ UNCHANGED <<inQueue, clientVars>>
        /\ \/ UNCHANGED blockedMessages
           \/ msgList # <<>> /\ blockedMessages' = Append(blockedMessages, Head(msgList))
    <3>1. msgList # <<>> /\ UNCHANGED <<inQueue, clientVars>>
      BY <1>8 DEF HandleInitTask, Working
    <3>2. CASE UNCHANGED blockedMessages /\ \E c, ok, val : Respond(c, ok, val)
      BY <3>1, <3>2, RespondTakesOut
    <3>3. CASE Block(Head(msgList))
      BY <3>1, <3>3 DEF Block
    <3>. QED BY <1>8, <3>2, <3>3 DEF HandleInitTask
  <2>. QED BY <2>1, OnlyTakenOut
<1>. QED BY <1>1, <1>2, <1>3, <1>4, <1>5, <1>6, <1>7, <1>8 DEF FrameworkStep

LEMMA RespondRevivesNobody ==
  ASSUME TypeOK, NEW c, NEW ok, NEW val, Respond(c, ok, val)
  PROVE  \A d \in Components : state'[d] # "dead" => state[d] # "dead"
BY DEF Respond, TerminateAll, Kill

LEMMA FrameworkRevivesNobody ==
  ASSUME TypeOK, FrameworkStep
  PROVE  \A d \in Components : state'[d] # "dead" => state[d] # "dead"
<1>1. CASE InvokeFrameworkComps \/ StartLines \/ GetMessage \/ HandleReturnCall \/ HandleLineResult
  BY <1>1, Zenon DEF InvokeFrameworkComps, StartLines, GetMessage, HandleReturnCall, HandleLineResult,
              compVars
<1>2. CASE HandleInitResult \/ HandleLastResult \/ EndRun
  BY <1>2 DEF HandleInitResult, HandleLastResult, EndRun, TerminateAll, Kill
<1>3. CASE HandleInitCall
  BY <1>3, RespondRevivesNobody, Zenon DEF HandleInitCall, TerminateAll, Kill
<1>4. CASE HandleWaitCall
  BY <1>4, RespondRevivesNobody DEF HandleWaitCall
<1>5. CASE HandleInitTask
  BY <1>5, RespondRevivesNobody DEF HandleInitTask
<1>6. CASE HandleFinishTask
  BY <1>6, RespondRevivesNobody DEF HandleFinishTask
<1>7. CASE HandleCreateSim
  BY <1>7, RespondRevivesNobody, Zenon DEF HandleCreateSim
<1>. QED BY <1>1, <1>2, <1>3, <1>4, <1>5, <1>6, <1>7 DEF FrameworkStep

LEMMA FrameworkStepPending ==
  ASSUME TypeOK, PendingInv, FrameworkStep
  PROVE  PendingInv'
<1>1. UnderWay' \subseteq UnderWay /\ pending' = pending
  BY FrameworkTakesOut DEF clientVars
<1>2. ASSUME NEW m \in UnderWay', state'[m.from] # "dead"
      PROVE  pending'[m.from] = m
  <2>1. m \in UnderWay /\ m.from \in Components
    BY <1>1, UnderWayTypes
  <2>2. state[m.from] # "dead"
    BY <1>2, <2>1, FrameworkRevivesNobody
  <2>. QED BY <1>1, <2>1, <2>2 DEF PendingInv
<1>. QED BY <1>2 DEF PendingInv

(* A request is added to those under way, or a result is, which is none. *)
LEMMA SentIsUnderWay ==
  ASSUME TypeOK, NEW m \in Messages, inQueue' = Append(inQueue, m),
         UNCHANGED <<msgList, blockedMessages>>
  PROVE  UnderWay' = UnderWay \cup (IF m.type = "result" THEN {} ELSE {m})
<1>1. Elements(inQueue') = Elements(inQueue) \cup {m}
  BY QueueTypes, ElementsOfAppend
<1>2. UnderWay' = {d \in Elements(inQueue') \cup Elements(msgList) \cup Elements(blockedMessages) :
                     d.type # "result"}
  BY DEF UnderWay
<1>. QED BY <1>1, <1>2 DEF UnderWay

LEMMA ComponentStepPending ==
  ASSUME TypeOK, RequestInv, PendingInv, NEW c \in Components, ComponentStep(c)
  PROVE  PendingInv'
<1>0. /\ state \in [Components -> {"absent", "idle", "running", "waiting", "dead"}]
      /\ pending \in [Components -> Requests \cup {NoRequest}]
  BY DEF TypeOK, QueueType, ClientType
<1>1. CASE StartMethod(c)
  <2>1. /\ UNCHANGED <<inQueue, msgList, blockedMessages, pending>>
        /\ state[c] = "idle" /\ state' = [state EXCEPT ![c] = "running"]
    BY <1>1 DEF StartMethod, loopVars
  <2>2. UnderWay' = UnderWay
    BY <2>1 DEF UnderWay
  <2>3. \A d \in Components : state'[d] # "dead" => state[d] # "dead"
    BY <1>0, <2>1
  <2>. QED BY <2>1, <2>2, <2>3, UnderWayTypes DEF PendingInv
<1>2. CASE \E ok \in BOOLEAN : ReturnMethod(c, ok)
  <2>1. PICK ok \in BOOLEAN : ReturnMethod(c, ok)
    BY <1>2
  <2>2. Result(c, current[c].call, ok) \in Messages /\ Result(c, current[c].call, ok).type = "result"
    BY DEF Result, Messages, Results, TypeOK, ClientType, Invocation
  <2>3. UNCHANGED <<msgList, blockedMessages, pending>>
        /\ inQueue' = Append(inQueue, Result(c, current[c].call, ok))
        /\ state[c] = "running" /\ state' = [state EXCEPT ![c] = "idle"]
    BY <2>1 DEF ReturnMethod, clientVars
  <2>4. UnderWay' = UnderWay
    BY <2>2, <2>3, SentIsUnderWay
  <2>5. \A d \in Components : state'[d] # "dead" => state[d] # "dead"
    BY <1>0, <2>3
  <2>. QED BY <2>3, <2>4, <2>5, UnderWayTypes DEF PendingInv
<1>3. CASE \/ CallNonblocking(c) \/ WaitForCall(c) \/ PollCall(c)
           \/ LaunchTask(c) \/ EndTask(c) \/ CreateSimulation(c)
  <2>1. PICK m \in Requests : m.from = c /\ m.type # "result" /\ InvokeService(c, m)
    BY <1>3, ServiceSends
  <2>2. UNCHANGED <<msgList, blockedMessages>>
        /\ inQueue' = Append(inQueue, m) /\ m \in Messages
        /\ state[c] = "running" /\ state' = [state EXCEPT ![c] = "waiting"]
        /\ pending' = [pending EXCEPT ![c] = m]
    BY <2>1 DEF InvokeService, Messages
  <2>3. UnderWay' = UnderWay \cup {m}
    BY <2>1, <2>2, SentIsUnderWay
  <2>4. ASSUME NEW d \in UnderWay, state'[d.from] # "dead"
        PROVE  pending'[d.from] = d
    <3>1. d.from \in Components
      BY UnderWayTypes
    <3>2. d.from # c
      <4>1. CASE d.from = c
        BY <2>2, <4>1, UnderWayIsWaiting
      <4>. QED BY <4>1
    <3>. QED BY <1>0, <2>2, <2>4, <3>1, <3>2 DEF PendingInv
  <2>5. pending'[c] = m
    BY <1>0, <2>2
  <2>. QED BY <2>1, <2>3, <2>4, <2>5 DEF PendingInv
<1>4. CASE ReceiveResponse(c)
  <2>1. UNCHANGED <<inQueue, msgList, blockedMessages>> /\ svcResponseQ[c] # <<>>
        /\ state[c] = "waiting" /\ state' = [state EXCEPT ![c] = "running"]
        /\ pending' = [pending EXCEPT ![c] = NoRequest]
    BY <1>4 DEF ReceiveResponse, loopVars
  <2>2. UnderWay' = UnderWay
    BY <2>1 DEF UnderWay
  <2>3. ASSUME NEW d \in UnderWay, state'[d.from] # "dead"
        PROVE  pending'[d.from] = d
    <3>1. d.from \in Components
      BY UnderWayTypes
    <3>2. d.from # c
      BY <2>1, RespondedIsWaiting
    <3>. QED BY <1>0, <2>1, <2>3, <3>1, <3>2 DEF PendingInv
  <2>. QED BY <2>2, <2>3 DEF PendingInv
<1>. QED BY <1>1, <1>2, <1>3, <1>4 DEF ComponentStep

(* The cores that the tasks of T have. *)
CoresOfTasks(T) == SumFunctionOnSet([t \in T |-> t.cores], T)

OwnsTask(c, i) == \E r \in currTaskTable : r.task = i /\ r.owner = c

(* The books of the TaskManager and of the ResourceManager. *)
TableInv ==
  /\ IsFiniteSet(currTaskTable) /\ IsFiniteSet(strayTasks)
  /\ availCores + CoresOfTasks(currTaskTable) + CoresOfTasks(strayTasks) = TotalCores
  /\ \A r \in currTaskTable \cup strayTasks : r.task < nextTaskId
  /\ \A r, s \in currTaskTable : r.task = s.task => r = s

(* A component owns the tasks it knows, and the one it is about to be told *)
(* of; a finish_task is for a task of its sender, who has forgotten it.    *)
KnownInv ==
  \A c \in Components : state[c] # "dead" => \A i \in taskMap[c] : OwnsTask(c, i)
Granted(c) == /\ svcResponseQ[c] # <<>> /\ pending[c].type = "init_task"
              /\ Head(svcResponseQ[c]).ok
GrantInv ==
  \A c \in Components :
    (state[c] # "dead" /\ Granted(c)) => OwnsTask(c, Head(svcResponseQ[c]).val)
FinishOK(m) ==
  /\ m.task < nextTaskId
  /\ \A r \in currTaskTable : r.task = m.task => r.owner = m.from
  /\ state[m.from] # "dead" => m.task \notin taskMap[m.from]
FinishInv == \A m \in UnderWay : m.type = "finish_task" => FinishOK(m)
TaskInv == TableInv /\ KnownInv /\ GrantInv /\ FinishInv

LEMMA TasksTyped ==
  ASSUME TypeOK
  PROVE  /\ \A r \in currTaskTable : r.task \in Nat /\ r.owner \in SimComps /\ r.cores \in Nat
         /\ \A r \in strayTasks : r.task \in Nat /\ r.cores \in Nat
         /\ nextTaskId \in Nat /\ availCores \in Nat
         /\ taskMap \in [Components -> SUBSET Nat]
         /\ pending \in [Components -> Requests \cup {NoRequest}]
         /\ svcResponseQ \in [Components -> Seq(Response)]
         /\ state \in [Components -> {"absent", "idle", "running", "waiting", "dead"}]
BY DEF TypeOK, ManagerType, ClientType, QueueType

LEMMA CoresOfOneMore ==
  ASSUME NEW T, IsFiniteSet(T), \A t \in T : t.cores \in Int, NEW r, r \notin T, r.cores \in Int
  PROVE  CoresOfTasks(T \cup {r}) = CoresOfTasks(T) + r.cores
<1>. DEFINE U == T \cup {r}
            f == [t \in U |-> t.cores]
            g == [t \in T |-> t.cores]
<1>1. IsFiniteSet(U) /\ U \ {r} = T /\ r \in U
  BY FS_AddElement
<1>2. \A t \in U : f[t] \in Int
  OBVIOUS
<1>3. \A t \in T : f[t] = g[t]
  OBVIOUS
<1>4. f[r] = r.cores
  OBVIOUS
<1>5. SumFunctionOnSet(f, U) = CoresOfTasks(U) /\ SumFunctionOnSet(g, T) = CoresOfTasks(T)
  BY DEF CoresOfTasks
<1>. HIDE DEF f, g, U
<1>6. SumFunctionOnSet(f, U) = f[r] + SumFunctionOnSet(f, U \ {r})
      /\ SumFunctionOnSet(f, U \ {r}) \in Int
  BY <1>1, <1>2, SumRemove
<1>7. SumFunctionOnSet(f, T) = SumFunctionOnSet(g, T)
  BY <1>3, SumEqual
<1>8. CoresOfTasks(U) = CoresOfTasks(T) + r.cores
  <2>1. SumFunctionOnSet(f, U \ {r}) = CoresOfTasks(T)
    BY <1>1, <1>5, <1>7
  <2>2. CoresOfTasks(U) = r.cores + CoresOfTasks(T) /\ CoresOfTasks(T) \in Int
    BY <1>4, <1>5, <1>6, <2>1
  <2>. QED BY <2>2
<1>. QED BY <1>8 DEF U

LEMMA CoresAreNumber ==
  ASSUME NEW T, IsFiniteSet(T), \A t \in T : t.cores \in Int
  PROVE  CoresOfTasks(T) \in Int
<1>. DEFINE g == [t \in T |-> t.cores]
<1>1. \A t \in T : g[t] \in Int
  OBVIOUS
<1>. HIDE DEF g
<1>2. SumFunctionOnSet(g, T) \in Int
  BY <1>1, SumRemove
<1>. QED BY <1>2 DEF g, CoresOfTasks

(* No new entry in the table, and no grant for a component. *)
LEMMA NothingGranted ==
  ASSUME TypeOK, TaskInv, TableInv', UNCHANGED <<currTaskTable, taskMap, pending>>,
         nextTaskId <= nextTaskId', nextTaskId' \in Nat,
         UnderWay' \subseteq UnderWay,
         \A c \in Components : state'[c] # "dead" => state[c] # "dead",
         \A c \in Components : Granted(c)' => svcResponseQ'[c] = svcResponseQ[c]
  PROVE  TaskInv'
<1>2. KnownInv'
  BY DEF TaskInv, KnownInv, OwnsTask
<1>3. GrantInv'
  BY DEF TaskInv, GrantInv, OwnsTask, Granted
<1>4. FinishInv'
  <2>. SUFFICES ASSUME NEW m \in UnderWay', m.type = "finish_task" PROVE FinishOK(m)'
    BY DEF FinishInv
  <2>1. m \in UnderWay /\ m.from \in Components /\ m.task \in Nat
    <3>1. m \in UnderWay /\ m \in Messages /\ m.from \in Components
      BY UnderWayTypes
    <3>2. m.task \in Nat
      BY <3>1 DEF Messages, Requests, Results, Waits, Launches
    <3>. QED BY <3>1, <3>2
  <2>2. FinishOK(m)
    BY <2>1 DEF TaskInv, FinishInv
  <2>3. m.task < nextTaskId'
    BY <2>1, <2>2, TasksTyped DEF FinishOK
  <2>4. \A r \in currTaskTable' : r.task = m.task => r.owner = m.from
    BY <2>2 DEF FinishOK
  <2>5. state'[m.from] # "dead" => m.task \notin taskMap'[m.from]
    BY <2>1, <2>2 DEF FinishOK
  <2>. QED BY <2>3, <2>4, <2>5 DEF FinishOK
<1>. QED BY <1>2, <1>3, <1>4 DEF TaskInv

(* Nothing new for the managers either. *)
LEMMA QuietTasks ==
  ASSUME TypeOK, TaskInv,
         UNCHANGED <<currTaskTable, strayTasks, availCores, taskMap, pending>>,
         nextTaskId <= nextTaskId', nextTaskId' \in Nat,
         UnderWay' \subseteq UnderWay,
         \A c \in Components : state'[c] # "dead" => state[c] # "dead",
         \A c \in Components : Granted(c)' => svcResponseQ'[c] = svcResponseQ[c]
  PROVE  TaskInv'
<1>1. CoresOfTasks(currTaskTable)' = CoresOfTasks(currTaskTable)
      /\ CoresOfTasks(strayTasks)' = CoresOfTasks(strayTasks)
  BY DEF CoresOfTasks
<1>2. \A r \in currTaskTable \cup strayTasks : r.task < nextTaskId'
  BY TasksTyped DEF TaskInv, TableInv
<1>3. TableInv'
  BY <1>1, <1>2 DEF TaskInv, TableInv
<1>. QED BY <1>3, NothingGranted

(* An answer that is no grant. *)
LEMMA RespondGrants ==
  ASSUME TypeOK, RequestInv, PendingInv, msgList # <<>>, Head(msgList).type # "result",
         NEW ok \in BOOLEAN, NEW val, Respond(Head(msgList).from, ok, val),
         ~ok \/ Head(msgList).type # "init_task", UNCHANGED pending
  PROVE  \A c \in Components : Granted(c)' => svcResponseQ'[c] = svcResponseQ[c]
<1>. SUFFICES ASSUME NEW c \in Components, Granted(c)' PROVE svcResponseQ'[c] = svcResponseQ[c]
  OBVIOUS
<1>. DEFINE m == Head(msgList)
<1>1. m \in UnderWay
  BY QueueTypes, ElementsOfTail DEF UnderWay
<1>2. CASE m.from \notin registry
  <2>1. svcResponseQ'[c] = <<>>
    BY <1>2 DEF Respond, TerminateAll, Kill
  <2>. QED BY <2>1 DEF Granted
<1>3. CASE m.from \in registry
  <2>1. svcResponseQ' = [svcResponseQ EXCEPT ![m.from] = Append(@, [ok |-> ok, val |-> val])]
    BY <1>3, Zenon DEF Respond
  <2>2. m.from \in Components /\ state[m.from] # "dead"
    BY <1>3 DEF TypeOK, SimType, RequestInv, RegistryInv
  <2>3. svcResponseQ[m.from] = <<>> /\ pending[m.from] = m
    BY <1>1, <2>2, UnderWayIsWaiting DEF PendingInv
  <2>4. CASE c = m.from
    <3>1. svcResponseQ'[c] = Append(<<>>, [ok |-> ok, val |-> val])
      BY <2>1, <2>3, <2>4, TasksTyped
    <3>2. svcResponseQ'[c] = <<[ok |-> ok, val |-> val]>>
      BY <3>1
    <3>3. Head(svcResponseQ'[c]).ok = ok
      BY <3>2
    <3>4. pending'[c] = m
      BY <2>3, <2>4
    <3>. QED BY <3>3, <3>4 DEF Granted
  <2>5. CASE c # m.from
    BY <2>1, <2>5, TasksTyped
  <2>. QED BY <2>4, <2>5
<1>. QED BY <1>2, <1>3

LEMMA AnswerGrants ==
  ASSUME TypeOK, RequestInv, PendingInv, msgList # <<>>, UNCHANGED pending,
         Head(msgList).type \notin {"result", "init_task"}, Head(msgList).from \in registry,
         NEW r, svcResponseQ' = [svcResponseQ EXCEPT ![Head(msgList).from] = Append(@, r)]
  PROVE  \A c \in Components : Granted(c)' => svcResponseQ'[c] = svcResponseQ[c]
<1>. DEFINE m == Head(msgList)
<1>1. m \in UnderWay /\ state[m.from] # "dead"
  BY QueueTypes, ElementsOfTail, Zenon DEF UnderWay, RequestInv, RegistryInv, TypeOK, SimType
<1>2. pending[m.from] = m
  BY <1>1 DEF PendingInv
<1>3. \A c \in Components : c # m.from => svcResponseQ'[c] = svcResponseQ[c]
  BY TasksTyped
<1>4. \A c \in Components : c = m.from => ~Granted(c)'
  BY <1>2 DEF Granted
<1>. QED BY <1>3, <1>4

(* An attempt is granted, or lent cores that its entry never gets, or neither. *)
LEMMA InitTaskOutcomes ==
  ASSUME HandleInitTask
  PROVE  \/ /\ availCores' = availCores - Head(msgList).cores
            /\ currTaskTable' = currTaskTable \cup {Lent(Head(msgList))}
            /\ Respond(Head(msgList).from, TRUE, nextTaskId)
            /\ UNCHANGED strayTasks
         \/ /\ availCores' = availCores - Head(msgList).cores
            /\ strayTasks' = strayTasks \cup {Lent(Head(msgList))}
            /\ Respond(Head(msgList).from, FALSE, 0)
            /\ UNCHANGED currTaskTable
         \/ /\ Respond(Head(msgList).from, FALSE, 0) \/ UNCHANGED <<registry, state, svcResponseQ>>
            /\ UNCHANGED <<availCores, currTaskTable, strayTasks>>
BY Zenon DEF HandleInitTask

(* TaskManager.init_task *)
LEMMA InitTaskTasks ==
  ASSUME TypeOK, TypeOK', RequestInv, PendingInv, TaskInv, HandleInitTask
  PROVE  TaskInv'
<1>. DEFINE m == Head(msgList)
            r == Lent(m)
<1>0. /\ UnderWay' \subseteq UnderWay /\ UNCHANGED <<pending, taskMap>>
      /\ \A c \in Components : state'[c] # "dead" => state[c] # "dead"
      /\ nextTaskId' = nextTaskId + 1 /\ nextTaskId \in Nat
      /\ msgList # <<>> /\ m \in Messages /\ m.type = "init_task"
  <2>1. FrameworkStep
    BY DEF FrameworkStep
  <2>2. nextTaskId' = nextTaskId + 1 /\ msgList # <<>> /\ m.type = "init_task"
    BY DEF HandleInitTask, Working
  <2>3. m \in Messages
    BY <2>2, HeadOfBatch DEF TypeOK
  <2>. QED BY <2>1, <2>2, <2>3, FrameworkTakesOut, FrameworkRevivesNobody, TasksTyped DEF clientVars
<1>1. m.from \in SimComps /\ m.from \in Components /\ m.cores \in Nat
  BY <1>0, MessageFields
<1>11. r.task = nextTaskId /\ r.owner = m.from /\ r.cores = m.cores
  BY DEF Lent
<1>12. /\ IsFiniteSet(currTaskTable) /\ IsFiniteSet(strayTasks)
       /\ \A s \in currTaskTable \cup strayTasks :
             s.task \in Nat /\ s.task < nextTaskId /\ s.cores \in Int
  BY <1>0, TasksTyped DEF TaskInv, TableInv
<1>13. /\ CoresOfTasks(currTaskTable) \in Int /\ CoresOfTasks(strayTasks) \in Int
       /\ availCores \in Nat
       /\ availCores + CoresOfTasks(currTaskTable) + CoresOfTasks(strayTasks) = TotalCores
  BY <1>12, CoresAreNumber, TasksTyped DEF TaskInv, TableInv
<1>14. r \notin currTaskTable /\ r \notin strayTasks
  BY <1>0, <1>11, <1>12
<1>2. ASSUME Respond(m.from, FALSE, 0) \/ UNCHANGED svcResponseQ
      PROVE  \A c \in Components : Granted(c)' => svcResponseQ'[c] = svcResponseQ[c]
  <2>1. CASE UNCHANGED svcResponseQ
    BY <2>1
  <2>2. CASE Respond(m.from, FALSE, 0)
    BY <1>0, <2>2, RespondGrants
  <2>. QED BY <1>2, <2>1, <2>2
<1>3. nextTaskId <= nextTaskId' /\ nextTaskId' \in Nat
  BY <1>0
<1>. HIDE DEF r
<1>4. CASE /\ UNCHANGED <<currTaskTable, strayTasks, availCores>>
           /\ Respond(m.from, FALSE, 0) \/ UNCHANGED svcResponseQ
  BY <1>0, <1>2, <1>3, <1>4, QuietTasks
<1>5. CASE /\ availCores' = availCores - m.cores /\ UNCHANGED currTaskTable
           /\ strayTasks' = strayTasks \cup {r} /\ Respond(m.from, FALSE, 0)
  <2>1. IsFiniteSet(strayTasks')
    BY <1>5, <1>12, FS_AddElement
  <2>2. CoresOfTasks(strayTasks \cup {r}) = CoresOfTasks(strayTasks) + r.cores
    BY <1>1, <1>11, <1>12, <1>14, CoresOfOneMore
  <2>3. CoresOfTasks(strayTasks)' = CoresOfTasks(strayTasks \cup {r})
        /\ CoresOfTasks(currTaskTable)' = CoresOfTasks(currTaskTable)
    BY <1>5 DEF CoresOfTasks
  <2>4. availCores' + CoresOfTasks(currTaskTable) + CoresOfTasks(strayTasks \cup {r}) = TotalCores
    BY <1>1, <1>5, <1>11, <1>13, <2>2
  <2>5. \A s \in currTaskTable' \cup strayTasks' : s.task < nextTaskId'
    BY <1>0, <1>5, <1>11, <1>12
  <2>6. TableInv'
    BY <1>5, <2>1, <2>3, <2>4, <2>5 DEF TaskInv, TableInv
  <2>. QED BY <1>0, <1>2, <1>3, <1>5, <2>6, NothingGranted
<1>6. CASE /\ availCores' = availCores - m.cores /\ UNCHANGED strayTasks
           /\ currTaskTable' = currTaskTable \cup {r} /\ Respond(m.from, TRUE, nextTaskId)
  <2>1. Respond(m.from, TRUE, nextTaskId)
    BY <1>6
  <2>4. r \in currTaskTable' /\ currTaskTable \subseteq currTaskTable'
        /\ \A s \in currTaskTable' : s = r \/ s \in currTaskTable
    BY <1>6
  <2>5. TableInv'
    <3>1. IsFiniteSet(currTaskTable')
      BY <1>6, <1>12, FS_AddElement
    <3>2. CoresOfTasks(currTaskTable \cup {r}) = CoresOfTasks(currTaskTable) + r.cores
      BY <1>1, <1>11, <1>12, <1>14, CoresOfOneMore
    <3>3. availCores' + CoresOfTasks(currTaskTable \cup {r}) + CoresOfTasks(strayTasks) = TotalCores
      BY <1>1, <1>6, <1>11, <1>13, <3>2
    <3>4. CoresOfTasks(currTaskTable)' = CoresOfTasks(currTaskTable \cup {r})
          /\ CoresOfTasks(strayTasks)' = CoresOfTasks(strayTasks)
      BY <1>6 DEF CoresOfTasks
    <3>5. \A s \in currTaskTable' \cup strayTasks' : s.task < nextTaskId'
      BY <1>0, <1>6, <1>11, <1>12
    <3>6. \A s, u \in currTaskTable' : s.task = u.task => s = u
      <4>1. \A s, u \in currTaskTable : s.task = u.task => s = u
        BY DEF TaskInv, TableInv
      <4>2. \A s \in currTaskTable : s.task # r.task
        BY <1>0, <1>11, <1>12
      <4>. QED BY <2>4, <4>1, <4>2
    <3>. QED BY <1>6, <1>12, <3>1, <3>3, <3>4, <3>5, <3>6 DEF TableInv
  <2>6. \A c, i : OwnsTask(c, i) => OwnsTask(c, i)'
    BY <2>4 DEF OwnsTask
  <2>7. KnownInv'
    BY <1>0, <2>6 DEF TaskInv, KnownInv
  <2>8. GrantInv'
    <3>. SUFFICES ASSUME NEW c \in Components, state'[c] # "dead", Granted(c)'
                  PROVE  OwnsTask(c, Head(svcResponseQ[c]).val)'
      BY DEF GrantInv
    <3>1. CASE m.from \notin registry
      <4>1. svcResponseQ'[c] = <<>>
        BY <2>1, <3>1 DEF Respond, TerminateAll, Kill
      <4>. QED BY <4>1 DEF Granted
    <3>2. CASE m.from \in registry /\ c # m.from
      <4>1. svcResponseQ' = [svcResponseQ EXCEPT ![m.from] =
                               Append(@, [ok |-> TRUE, val |-> nextTaskId])]
        BY <2>1, <3>2, Zenon DEF Respond
      <4>2. svcResponseQ'[c] = svcResponseQ[c]
        BY <3>2, <4>1, TasksTyped
      <4>3. Granted(c) /\ state[c] # "dead"
        BY <1>0, <4>2 DEF Granted
      <4>4. OwnsTask(c, Head(svcResponseQ[c]).val)
        BY <4>3 DEF TaskInv, GrantInv
      <4>. QED BY <4>2, <4>4, <2>4 DEF OwnsTask
    <3>3. CASE m.from \in registry /\ c = m.from
      <4>1. svcResponseQ' = [svcResponseQ EXCEPT ![m.from] =
                               Append(@, [ok |-> TRUE, val |-> nextTaskId])]
        BY <2>1, <3>3, Zenon DEF Respond
      <4>2. m \in UnderWay /\ state[m.from] # "dead"
        BY <1>0, <3>3, QueueTypes, ElementsOfTail DEF UnderWay
      <4>3. svcResponseQ[c] = <<>>
        BY <3>3, <4>2, UnderWayIsWaiting
      <4>4. svcResponseQ'[c] = Append(<<>>, [ok |-> TRUE, val |-> nextTaskId])
        BY <3>3, <4>1, <4>3, TasksTyped
      <4>5. Head(svcResponseQ'[c]).val = nextTaskId
        BY <4>4
      <4>. QED BY <1>11, <2>4, <3>3, <4>5 DEF OwnsTask
    <3>. QED BY <3>1, <3>2, <3>3
  <2>9. FinishInv'
    <3>. SUFFICES ASSUME NEW n \in UnderWay', n.type = "finish_task" PROVE FinishOK(n)'
      BY DEF FinishInv
    <3>1. n \in UnderWay /\ n.from \in Components /\ n \in Messages
      BY <1>0, UnderWayTypes
    <3>2. n.task \in Nat
      BY <3>1 DEF Messages, Requests, Results, Waits, Launches
    <3>3. FinishOK(n)
      BY <3>1 DEF TaskInv, FinishInv
    <3>4. n.task < nextTaskId' /\ n.task # r.task
      BY <1>0, <1>11, <3>2, <3>3 DEF FinishOK
    <3>5. \A s \in currTaskTable' : s.task = n.task => s.owner = n.from
      BY <2>4, <3>3, <3>4 DEF FinishOK
    <3>6. state'[n.from] # "dead" => n.task \notin taskMap'[n.from]
      BY <1>0, <3>1, <3>3 DEF FinishOK
    <3>. QED BY <3>4, <3>5, <3>6 DEF FinishOK
  <2>. QED BY <2>5, <2>7, <2>8, <2>9 DEF TaskInv
<1>. QED BY <1>4, <1>5, <1>6, InitTaskOutcomes DEF r

(* TaskManager.finish_task *)
LEMMA FinishTaskTasks ==
  ASSUME TypeOK, RequestInv, PendingInv, TaskInv, HandleFinishTask
  PROVE  TaskInv'
<1>. DEFINE m == Head(msgList)
<1>0. /\ UnderWay' \subseteq UnderWay /\ UNCHANGED <<pending, taskMap, nextTaskId, strayTasks>>
      /\ \A c \in Components : state'[c] # "dead" => state[c] # "dead"
      /\ msgList # <<>> /\ m.type = "finish_task" /\ Respond(m.from, TRUE, 0)
  <2>1. FrameworkStep
    BY DEF FrameworkStep
  <2>2. UNCHANGED <<nextTaskId, strayTasks>> /\ msgList # <<>> /\ m.type = "finish_task" /\ Respond(m.from, TRUE, 0)
    BY DEF HandleFinishTask, Working
  <2>. QED BY <2>1, <2>2, FrameworkTakesOut, FrameworkRevivesNobody DEF clientVars
<1>1. PICK r \in currTaskTable : /\ r.task = m.task /\ availCores' = availCores + r.cores
                                 /\ currTaskTable' = currTaskTable \ {r}
  BY DEF HandleFinishTask, Without
<1>2. m \in UnderWay /\ m.from \in Components
  <2>1. m \in UnderWay
    BY <1>0, QueueTypes, ElementsOfTail DEF UnderWay
  <2>. QED BY <2>1, UnderWayTypes
<1>3. r.owner = m.from /\ (state[m.from] # "dead" => r.task \notin taskMap[m.from])
  BY <1>0, <1>1, <1>2 DEF TaskInv, FinishInv, FinishOK
<1>4. /\ IsFiniteSet(currTaskTable) /\ IsFiniteSet(strayTasks)
      /\ \A s \in currTaskTable : s.cores \in Nat /\ s.task \in Nat
      /\ \A s \in currTaskTable \cup strayTasks : s.task < nextTaskId
      /\ \A s \in strayTasks : s.cores \in Nat
      /\ \A s, u \in currTaskTable : s.task = u.task => s = u
  BY TasksTyped DEF TaskInv, TableInv
(* Only the task of the message is gone, and nobody else had it. *)
<1>5. ASSUME NEW c, NEW i, OwnsTask(c, i), i # r.task \/ c # r.owner
      PROVE  OwnsTask(c, i)'
  <2>1. PICK s \in currTaskTable : s.task = i /\ s.owner = c
    BY <1>5 DEF OwnsTask
  <2>2. s \in currTaskTable'
    BY <1>1, <1>5, <2>1
  <2>. QED BY <2>1, <2>2 DEF OwnsTask
<1>6. TableInv'
  <2>1. IsFiniteSet(currTaskTable \ {r})
    BY <1>4, FS_Subset
  <2>2. CoresOfTasks((currTaskTable \ {r}) \cup {r}) = CoresOfTasks(currTaskTable \ {r}) + r.cores
    BY <1>4, <2>1, CoresOfOneMore
  <2>3. (currTaskTable \ {r}) \cup {r} = currTaskTable
    OBVIOUS
  <2>4. CoresOfTasks(currTaskTable) = CoresOfTasks(currTaskTable \ {r}) + r.cores
    BY <2>2, <2>3
  <2>5. CoresOfTasks(currTaskTable \ {r}) \in Int /\ CoresOfTasks(strayTasks) \in Int
        /\ availCores \in Nat /\ r.cores \in Nat
    BY <1>4, <2>1, CoresAreNumber, TasksTyped
  <2>6. availCores + CoresOfTasks(currTaskTable) + CoresOfTasks(strayTasks) = TotalCores
    BY DEF TaskInv, TableInv
  <2>7. availCores' + CoresOfTasks(currTaskTable \ {r}) + CoresOfTasks(strayTasks) = TotalCores
    BY <1>1, <2>4, <2>5, <2>6
  <2>8. CoresOfTasks(currTaskTable)' = CoresOfTasks(currTaskTable \ {r})
        /\ CoresOfTasks(strayTasks)' = CoresOfTasks(strayTasks)
    BY <1>0, <1>1 DEF CoresOfTasks
  <2>9. IsFiniteSet(currTaskTable') /\ IsFiniteSet(strayTasks')
    BY <1>0, <1>1, <1>4, <2>1
  <2>10. \A s \in currTaskTable' \cup strayTasks' : s.task < nextTaskId'
    BY <1>0, <1>1, <1>4
  <2>11. \A s, u \in currTaskTable' : s.task = u.task => s = u
    BY <1>1, <1>4
  <2>. QED BY <2>7, <2>8, <2>9, <2>10, <2>11 DEF TableInv
<1>7. KnownInv'
  <2>. SUFFICES ASSUME NEW c \in Components, state'[c] # "dead", NEW i \in taskMap'[c]
                PROVE  OwnsTask(c, i)'
    BY DEF KnownInv
  <2>1. state[c] # "dead" /\ i \in taskMap[c]
    BY <1>0
  <2>2. OwnsTask(c, i)
    BY <2>1 DEF TaskInv, KnownInv
  <2>3. i # r.task \/ c # r.owner
    BY <1>3, <2>1
  <2>. QED BY <1>5, <2>2, <2>3
<1>8. GrantInv'
  <2>. SUFFICES ASSUME NEW c \in Components, state'[c] # "dead", Granted(c)'
                PROVE  OwnsTask(c, Head(svcResponseQ[c]).val)'
    BY DEF GrantInv
  <2>1. svcResponseQ'[c] = svcResponseQ[c]
    BY <1>0, RespondGrants
  <2>2. Granted(c) /\ state[c] # "dead"
    BY <1>0, <2>1 DEF Granted
  <2>3. OwnsTask(c, Head(svcResponseQ[c]).val)
    BY <2>2 DEF TaskInv, GrantInv
  <2>4. c # m.from
    BY <1>2, <2>2, RespondedIsWaiting DEF Granted
  <2>5. OwnsTask(c, Head(svcResponseQ'[c]).val)
    BY <2>1, <2>3
  <2>. QED BY <1>3, <1>5, <2>4, <2>5
<1>9. FinishInv'
  <2>. SUFFICES ASSUME NEW n \in UnderWay', n.type = "finish_task" PROVE FinishOK(n)'
    BY DEF FinishInv
  <2>1. n \in UnderWay /\ n.from \in Components
    BY <1>0, UnderWayTypes
  <2>2. FinishOK(n)
    BY <2>1 DEF TaskInv, FinishInv
  <2>. QED BY <1>0, <1>1, <2>1, <2>2 DEF FinishOK
<1>. QED BY <1>6, <1>7, <1>8, <1>9 DEF TaskInv

(* The other steps of the framework launch and finish no task. *)
LEMMA FrameworkStepTasks ==
  ASSUME TypeOK, TypeOK', RequestInv, PendingInv, TaskInv, FrameworkStep
  PROVE  TaskInv'
<1>. DEFINE m == Head(msgList)
            NoGrant == \A c \in Components : Granted(c)' => svcResponseQ'[c] = svcResponseQ[c]
<1>0. /\ UnderWay' \subseteq UnderWay /\ UNCHANGED <<pending, taskMap>>
      /\ \A c \in Components : state'[c] # "dead" => state[c] # "dead"
      /\ nextTaskId \in Nat
  BY FrameworkTakesOut, FrameworkRevivesNobody, TasksTyped DEF clientVars
<1>1. ASSUME NoGrant, UNCHANGED taskVars
      PROVE  TaskInv'
  <2>1. UNCHANGED <<currTaskTable, strayTasks, availCores, nextTaskId>>
    BY <1>1 DEF taskVars
  <2>2. nextTaskId <= nextTaskId' /\ nextTaskId' \in Nat
    BY <1>0, <2>1
  <2>. QED BY <1>0, <1>1, <2>1, <2>2, QuietTasks
<1>2. CASE InvokeFrameworkComps \/ StartLines \/ GetMessage \/ HandleReturnCall \/ HandleLineResult
  BY <1>1, <1>2, Zenon DEF InvokeFrameworkComps, StartLines, GetMessage, HandleReturnCall,
                    HandleLineResult, compVars
<1>3. CASE HandleInitResult \/ HandleLastResult \/ EndRun
  <2>1. UNCHANGED taskVars
    BY <1>3 DEF HandleInitResult, HandleLastResult, EndRun
  <2>2. \A c \in Components : svcResponseQ'[c] = svcResponseQ[c] \/ svcResponseQ'[c] = <<>>
    BY <1>3 DEF HandleInitResult, HandleLastResult, EndRun, TerminateAll, Kill
  <2>. QED BY <1>1, <2>1, <2>2 DEF Granted
<1>4. CASE HandleInitCall
  <2>1. UNCHANGED taskVars /\ msgList # <<>> /\ m.type = "init_call"
    BY <1>4, Zenon DEF HandleInitCall, Working
  <2>2. CASE Respond(m.from, FALSE, 0)
    BY <1>0, <1>1, <2>1, <2>2, RespondGrants
  <2>3. CASE TerminateAll("aborted")
    BY <1>1, <2>1, <2>3 DEF TerminateAll, Kill, Granted
  <2>4. CASE m.callee \in registry /\ m.from \in registry
    <3>1. svcResponseQ' = [svcResponseQ EXCEPT ![m.from] =
                             Append(@, [ok |-> TRUE, val |-> nextCallId])]
      BY <2>4, <1>4, Zenon DEF HandleInitCall
    <3>. QED BY <1>0, <1>1, <2>1, <2>4, <3>1, AnswerGrants, Zenon
  <2>. QED BY <1>4, <2>2, <2>3, <2>4, Zenon DEF HandleInitCall
<1>5. CASE HandleWaitCall
  <2>1. UNCHANGED taskVars /\ msgList # <<>> /\ m.type = "wait_call"
    BY <1>5 DEF HandleWaitCall, Working
  <2>2. CASE \E ok \in BOOLEAN : Respond(m.from, ok, m.call)
    BY <1>0, <1>1, <2>1, <2>2, RespondGrants
  <2>3. CASE UNCHANGED svcResponseQ
    BY <1>1, <2>1, <2>3
  <2>4. \A f \in finishedCalls : f.ok \in BOOLEAN
    BY DEF TypeOK, ManagerType
  <2>. QED BY <1>5, <2>2, <2>3, <2>4 DEF HandleWaitCall
<1>6. CASE HandleCreateSim
  <2>1. UNCHANGED taskVars /\ msgList # <<>> /\ m.type = "create_simulation"
    BY <1>6, Zenon DEF HandleCreateSim, Working
  <2>2. CASE Respond(m.from, FALSE, 0)
    BY <1>0, <1>1, <2>1, <2>2, RespondGrants
  <2>3. CASE ~Respond(m.from, FALSE, 0)
    <3>1. m.from \in registry
          /\ svcResponseQ' = [svcResponseQ EXCEPT ![m.from] = Append(@, [ok |-> TRUE, val |-> 0])]
      BY <1>6, <2>3, Zenon DEF HandleCreateSim
    <3>. QED BY <1>0, <1>1, <2>1, <3>1, AnswerGrants, Zenon
  <2>. QED BY <2>2, <2>3
<1>. QED BY <1>2, <1>3, <1>4, <1>5, <1>6, InitTaskTasks, FinishTaskTasks DEF FrameworkStep

LEMMA ComponentStepTasks ==
  ASSUME TypeOK, RequestInv, PendingInv, TaskInv, NEW c \in Components, ComponentStep(c)
  PROVE  TaskInv'
<1>0. UNCHANGED <<currTaskTable, strayTasks, availCores, nextTaskId>> /\ nextTaskId \in Nat
      /\ nextTaskId <= nextTaskId'
  <2>1. UNCHANGED taskVars
    BY Zenon DEF ComponentStep, StartMethod, ReceiveResponse, ReturnMethod, CallNonblocking, WaitForCall,
           PollCall, LaunchTask, EndTask, CreateSimulation, InvokeService
  <2>. QED BY <2>1, TasksTyped DEF taskVars
<1>1. TableInv'
  <2>1. CoresOfTasks(currTaskTable)' = CoresOfTasks(currTaskTable)
        /\ CoresOfTasks(strayTasks)' = CoresOfTasks(strayTasks)
    BY <1>0 DEF CoresOfTasks
  <2>. QED BY <1>0, <2>1 DEF TaskInv, TableInv
<1>2. CASE StartMethod(c)
  <2>1. /\ UNCHANGED <<inQueue, msgList, blockedMessages, pending, taskMap, svcResponseQ>>
        /\ state[c] = "idle" /\ state' = [state EXCEPT ![c] = "running"]
    BY <1>2 DEF StartMethod, loopVars
  <2>2. UnderWay' \subseteq UnderWay
    BY <2>1 DEF UnderWay
  <2>3. \A d \in Components : state'[d] # "dead" => state[d] # "dead"
    BY <2>1, TasksTyped
  <2>. QED BY <1>0, <2>1, <2>2, <2>3, QuietTasks
<1>3. CASE \E ok \in BOOLEAN : ReturnMethod(c, ok)
  <2>1. PICK ok \in BOOLEAN : ReturnMethod(c, ok)
    BY <1>3
  <2>2. Result(c, current[c].call, ok) \in Messages /\ Result(c, current[c].call, ok).type = "result"
    BY DEF Result, Messages, Results, TypeOK, ClientType, Invocation
  <2>3. UNCHANGED <<msgList, blockedMessages, pending, taskMap, svcResponseQ>>
        /\ inQueue' = Append(inQueue, Result(c, current[c].call, ok))
        /\ state[c] = "running" /\ state' = [state EXCEPT ![c] = "idle"]
    BY <2>1 DEF ReturnMethod, clientVars
  <2>4. UnderWay' \subseteq UnderWay
    BY <2>2, <2>3, SentIsUnderWay
  <2>5. \A d \in Components : state'[d] # "dead" => state[d] # "dead"
    BY <2>3, TasksTyped
  <2>. QED BY <1>0, <2>3, <2>4, <2>5, QuietTasks
<1>4. CASE \/ CallNonblocking(c) \/ WaitForCall(c) \/ PollCall(c)
           \/ LaunchTask(c) \/ EndTask(c) \/ CreateSimulation(c)
  <2>1. PICK m \in Requests :
               /\ m.from = c /\ m.type # "result" /\ InvokeService(c, m)
               /\ \/ UNCHANGED taskMap /\ m.type # "finish_task"
                  \/ /\ m = FinishTask(c, m.task) /\ m.task \in taskMap[c]
                     /\ taskMap' = [taskMap EXCEPT ![c] = @ \ {m.task}]
    BY <1>4, ServiceSends
  <2>2. UNCHANGED <<msgList, blockedMessages, svcResponseQ>>
        /\ inQueue' = Append(inQueue, m) /\ m \in Messages
        /\ state[c] = "running" /\ state' = [state EXCEPT ![c] = "waiting"]
        /\ pending' = [pending EXCEPT ![c] = m]
    BY <2>1 DEF InvokeService, Messages
  <2>3. UnderWay' = UnderWay \cup {m}
    BY <2>1, <2>2, SentIsUnderWay
  <2>4. \A d \in Components : /\ state'[d] # "dead" => state[d] # "dead"
                              /\ taskMap'[d] \subseteq taskMap[d]
    BY <2>1, <2>2, TasksTyped
  <2>5. KnownInv'
    BY <1>0, <2>4 DEF TaskInv, KnownInv, OwnsTask
  <2>6. svcResponseQ[c] = <<>>
    <3>1. CASE svcResponseQ[c] # <<>>
      BY <2>2, <3>1, RespondedIsWaiting
    <3>. QED BY <3>1
  <2>7. GrantInv'
    <3>1. \A d \in Components : Granted(d)' => Granted(d)
      BY <2>2, <2>6, TasksTyped DEF Granted
    <3>. QED BY <1>0, <2>2, <2>4, <3>1 DEF TaskInv, GrantInv, OwnsTask
  <2>8. ASSUME NEW n \in UnderWay, n.type = "finish_task" PROVE FinishOK(n)'
    <3>1. n.from \in Components
      BY UnderWayTypes
    <3>2. FinishOK(n)
      BY <2>8 DEF TaskInv, FinishInv
    <3>. QED BY <1>0, <2>4, <3>1, <3>2 DEF FinishOK
  <2>9. ASSUME m.type = "finish_task" PROVE FinishOK(m)'
    <3>1. m.task \in taskMap[c] /\ taskMap' = [taskMap EXCEPT ![c] = @ \ {m.task}]
      BY <2>1, <2>9
    <3>2. m.task \notin taskMap'[c]
      BY <3>1, TasksTyped
    <3>3. OwnsTask(c, m.task)
      BY <2>2, <3>1 DEF TaskInv, KnownInv
    <3>4. PICK r \in currTaskTable : r.task = m.task /\ r.owner = c
      BY <3>3 DEF OwnsTask
    <3>5. m.task < nextTaskId /\ \A s \in currTaskTable : s.task = m.task => s.owner = m.from
      BY <2>1, <3>4 DEF TaskInv, TableInv
    <3>. QED BY <1>0, <2>1, <3>2, <3>5 DEF FinishOK
  <2>10. FinishInv'
    BY <2>3, <2>8, <2>9 DEF FinishInv
  <2>. QED BY <1>1, <2>5, <2>7, <2>10 DEF TaskInv
<1>5. CASE ReceiveResponse(c)
  <2>. DEFINE r == Head(svcResponseQ[c])
  <2>1. /\ UNCHANGED <<inQueue, msgList, blockedMessages>> /\ svcResponseQ[c] # <<>>
        /\ state[c] = "waiting" /\ state' = [state EXCEPT ![c] = "running"]
        /\ pending' = [pending EXCEPT ![c] = NoRequest]
        /\ svcResponseQ' = [svcResponseQ EXCEPT ![c] = Tail(@)]
    BY <1>5 DEF ReceiveResponse, loopVars
  <2>0. \/ /\ r.ok /\ pending[c].type = "init_task"
           /\ taskMap' = [taskMap EXCEPT ![c] = @ \cup {r.val}]
        \/ UNCHANGED taskMap
    BY <1>5, Zenon DEF ReceiveResponse, Started, NotStarted
  <2>2. UnderWay' = UnderWay
    BY <2>1 DEF UnderWay
  <2>3. \A d \in Components : /\ state'[d] # "dead" => state[d] # "dead"
                              /\ d # c => /\ taskMap'[d] = taskMap[d] /\ pending'[d] = pending[d]
                                          /\ svcResponseQ'[d] = svcResponseQ[d]
    BY <2>0, <2>1, TasksTyped
  <2>4. KnownInv'
    <3>. SUFFICES ASSUME NEW d \in Components, state'[d] # "dead", NEW i \in taskMap'[d]
                  PROVE  OwnsTask(d, i)'
      BY DEF KnownInv
    <3>1. OwnsTask(d, i)
      <4>1. CASE i \in taskMap[d]
        BY <2>3, <4>1 DEF TaskInv, KnownInv
      <4>2. CASE i \notin taskMap[d]
        <5>1. d = c /\ i = r.val /\ r.ok /\ pending[c].type = "init_task"
          BY <2>0, <2>3, <4>2, TasksTyped
        <5>2. Granted(c)
          BY <2>1, <5>1 DEF Granted
        <5>. QED BY <2>1, <5>1, <5>2 DEF TaskInv, GrantInv
      <4>. QED BY <4>1, <4>2
    <3>. QED BY <1>0, <3>1 DEF OwnsTask
  <2>5. GrantInv'
    <3>1. \A d \in Components : d = c => ~Granted(d)'
      BY <2>1, TasksTyped DEF Granted, NoRequest
    <3>2. \A d \in Components : Granted(d)' => Granted(d) /\ d # c
      BY <2>3, <3>1 DEF Granted
    <3>. QED BY <1>0, <2>3, <3>2 DEF TaskInv, GrantInv, OwnsTask
  <2>6. FinishInv'
    <3>. SUFFICES ASSUME NEW n \in UnderWay', n.type = "finish_task" PROVE FinishOK(n)'
      BY DEF FinishInv
    <3>1. n \in UnderWay /\ n.from \in Components /\ n.from # c
      BY <2>1, <2>2, UnderWayTypes, RespondedIsWaiting
    <3>2. FinishOK(n)
      BY <3>1 DEF TaskInv, FinishInv
    <3>. QED BY <1>0, <2>3, <3>1, <3>2 DEF FinishOK
  <2>. QED BY <1>1, <2>4, <2>5, <2>6 DEF TaskInv
<1>. QED BY <1>2, <1>3, <1>4, <1>5 DEF ComponentStep

LEMMA InitTasks == Init => PendingInv /\ TaskInv
<1>. SUFFICES ASSUME Init PROVE PendingInv /\ TaskInv
  OBVIOUS
<1>1. UnderWay = {}
  BY DEF Init, UnderWay, Elements
<1>2. currTaskTable = {} /\ strayTasks = {} /\ availCores = TotalCores /\ TotalCores \in Nat
      /\ \A c \in Components : svcResponseQ[c] = <<>> /\ taskMap[c] = {}
  BY ProgramAssumption DEF Init
<1>3. CoresOfTasks({}) = 0
  BY SumOfNone DEF CoresOfTasks
<1>4. TableInv
  BY <1>2, <1>3, FS_EmptySet DEF TableInv
<1>. QED BY <1>1, <1>2, <1>4 DEF PendingInv, TaskInv, KnownInv, GrantInv, Granted, FinishInv

LEMMA TasksStay == Spec => [](PendingInv /\ TaskInv)
<1>1. TypeOK /\ TypeOK' /\ RequestInv /\ PendingInv /\ TaskInv /\ [Next]_vars
        => (PendingInv /\ TaskInv)'
  <2>. SUFFICES ASSUME TypeOK, TypeOK', RequestInv, PendingInv, TaskInv, [Next]_vars
                PROVE  PendingInv' /\ TaskInv'
    OBVIOUS
  <2>1. CASE UNCHANGED vars
    <3>1. UNCHANGED <<inQueue, msgList, blockedMessages, currTaskTable, strayTasks, availCores,
                      nextTaskId, taskMap, pending, svcResponseQ, state>>
      BY <2>1 DEF vars, loopVars, taskVars, compVars, clientVars
    <3>2. UnderWay' = UnderWay
      BY <3>1 DEF UnderWay
    <3>3. PendingInv'
      BY <3>1, <3>2 DEF PendingInv
    <3>4. nextTaskId <= nextTaskId' /\ nextTaskId' \in Nat
      BY <3>1, TasksTyped
    <3>. QED BY <3>1, <3>2, <3>3, <3>4, QuietTasks
  <2>. QED BY <2>1, FrameworkStepPending, ComponentStepPending, FrameworkStepTasks,
              ComponentStepTasks DEF Next, Stopped
<1>. QED BY <1>1, InitTasks, TypeCorrect, RequestsStay, PTL DEF Spec

(* A task that was started is in its owner's hands, and a component that   *)
(* has asked for the end of its task is only answered when it has ended.   *)
HandsInv ==
  \A c \in Components :
    /\ state[c] # "dead" => \A r \in currTaskTable :
                              (r.owner = c /\ r.task \notin unstarted) => InHand(r)
    /\ (state[c] = "waiting" /\ pending[c].type = "finish_task") =>
         /\ pending[c].task \in Nat /\ pending[c].task < nextTaskId
         /\ svcResponseQ[c] # <<>> => \A r \in currTaskTable : r.task # pending[c].task

(* What a step of the framework does to a component that waits: it is      *)
(* killed, or left alone, or its own request is at the head and answered.  *)
Answered(c) == /\ state'[c] = "waiting" /\ svcResponseQ[c] = <<>>
               /\ msgList # <<>> /\ pending[c] = Head(msgList)
LeftAlone(c) == state'[c] = "waiting" /\ svcResponseQ'[c] = svcResponseQ[c]
Served(c) == /\ state'[c] = "waiting" => state[c] = "waiting"
             /\ state[c] = "waiting" => state'[c] = "dead" \/ LeftAlone(c) \/ Answered(c)

LEMMA KillServes ==
  ASSUME TypeOK, RequestInv, NEW K, Kill(K), NEW c \in Components
  PROVE  Served(c)
<1>1. /\ state'[c] = IF c \in K /\ c \in registry THEN "dead" ELSE state[c]
      /\ svcResponseQ'[c] = IF c \in K THEN <<>> ELSE svcResponseQ[c]
  BY DEF Kill
<1>2. state[c] = "waiting" => c \in registry
  BY DEF RequestInv, RegistryInv
<1>. QED BY <1>1, <1>2 DEF Served, LeftAlone

LEMMA AnswerServes ==
  ASSUME TypeOK, RequestInv, PendingInv, msgList # <<>>, Head(msgList).type # "result",
         Head(msgList).from \in registry, NEW r,
         svcResponseQ' = [svcResponseQ EXCEPT ![Head(msgList).from] = Append(@, r)],
         NEW c \in Components, state'[c] = state[c] \/ (state[c] = "absent" /\ state'[c] = "idle")
  PROVE  Served(c)
<1>. DEFINE m == Head(msgList)
<1>1. m \in UnderWay /\ state[m.from] # "dead"
  BY QueueTypes, ElementsOfTail, Zenon DEF UnderWay, RequestInv, RegistryInv, TypeOK, SimType
<1>2. svcResponseQ[m.from] = <<>> /\ pending[m.from] = m
  BY <1>1, UnderWayIsWaiting DEF PendingInv
<1>3. CASE c = m.from
  BY <1>2, <1>3 DEF Served, LeftAlone, Answered
<1>4. CASE c # m.from
  <2>1. svcResponseQ'[c] = svcResponseQ[c]
    BY <1>4, TasksTyped
  <2>. QED BY <2>1 DEF Served, LeftAlone
<1>. QED BY <1>3, <1>4

LEMMA RespondServes ==
  ASSUME TypeOK, RequestInv, PendingInv, msgList # <<>>, Head(msgList).type # "result",
         NEW ok, NEW val, Respond(Head(msgList).from, ok, val), NEW c \in Components
  PROVE  Served(c)
<1>1. CASE Head(msgList).from \in registry
  <2>1. UNCHANGED state
        /\ svcResponseQ' = [svcResponseQ EXCEPT ![Head(msgList).from] =
                              Append(@, [ok |-> ok, val |-> val])]
    BY <1>1, Zenon DEF Respond
  <2>. QED BY <1>1, <2>1, AnswerServes
<1>2. CASE Head(msgList).from \notin registry
  <2>1. Kill(Components)
    BY <1>2, Zenon DEF Respond, TerminateAll
  <2>. QED BY <2>1, KillServes
<1>. QED BY <1>1, <1>2

LEMMA QuietServes ==
  ASSUME UNCHANGED <<state, svcResponseQ>>, NEW c
  PROVE  Served(c)
BY DEF Served, LeftAlone

LEMMA FrameworkServes ==
  ASSUME TypeOK, RequestInv, PendingInv, FrameworkStep, NEW c \in Components
  PROVE  Served(c)
<1>1. CASE InvokeFrameworkComps \/ StartLines \/ GetMessage \/ HandleReturnCall \/ HandleLineResult
  BY <1>1, QuietServes, Zenon DEF InvokeFrameworkComps, StartLines, GetMessage, HandleReturnCall,
                                  HandleLineResult, compVars
<1>2. CASE HandleInitResult \/ HandleLastResult \/ EndRun
  BY <1>2, QuietServes, KillServes, Zenon DEF HandleInitResult, HandleLastResult, EndRun, TerminateAll
<1>3. CASE HandleInitCall
  <2>1. msgList # <<>> /\ Head(msgList).type # "result"
    BY <1>3, Zenon DEF HandleInitCall, Working
  <2>2. CASE Respond(Head(msgList).from, FALSE, 0)
    BY <2>1, <2>2, RespondServes
  <2>3. CASE TerminateAll("aborted")
    BY <2>3, KillServes DEF TerminateAll
  <2>4. CASE /\ Head(msgList).from \in registry /\ UNCHANGED state
             /\ svcResponseQ' = [svcResponseQ EXCEPT ![Head(msgList).from] =
                                   Append(@, [ok |-> TRUE, val |-> nextCallId])]
    BY <2>1, <2>4, AnswerServes
  <2>. QED BY <1>3, <2>2, <2>3, <2>4, Zenon DEF HandleInitCall
<1>4. CASE HandleWaitCall \/ HandleInitTask \/ HandleFinishTask
  <2>1. msgList # <<>> /\ Head(msgList).type # "result"
    BY <1>4 DEF HandleWaitCall, HandleInitTask, HandleFinishTask, Working
  <2>2. (\E ok, val : Respond(Head(msgList).from, ok, val)) \/ UNCHANGED <<state, svcResponseQ>>
    BY <1>4, Zenon DEF HandleWaitCall, HandleInitTask, HandleFinishTask
  <2>. QED BY <2>1, <2>2, RespondServes, QuietServes
<1>5. CASE HandleCreateSim
  <2>1. msgList # <<>> /\ Head(msgList).type # "result"
    BY <1>5, Zenon DEF HandleCreateSim, Working
  <2>2. CASE Respond(Head(msgList).from, FALSE, 0)
    BY <2>1, <2>2, RespondServes
  <2>3. CASE ~Respond(Head(msgList).from, FALSE, 0)
    <3>1. /\ Head(msgList).from \in registry
          /\ svcResponseQ' = [svcResponseQ EXCEPT ![Head(msgList).from] =
                                Append(@, [ok |-> TRUE, val |-> 0])]
          /\ \A d \in MembersOf(Head(msgList).sim) : state[d] = "absent"
          /\ state' = [d \in Components |->
                         IF d \in MembersOf(Head(msgList).sim) THEN "idle" ELSE state[d]]
      BY <1>5, <2>3, Zenon DEF HandleCreateSim
    <3>2. state'[c] = state[c] \/ (state[c] = "absent" /\ state'[c] = "idle")
      BY <3>1
    <3>. QED BY <2>1, <3>1, <3>2, AnswerServes
  <2>. QED BY <2>2, <2>3
<1>. QED BY <1>1, <1>2, <1>3, <1>4, <1>5 DEF FrameworkStep

(* Entries that stay in the table stay in their owners' hands. *)
LEMMA KeptInHand ==
  ASSUME TypeOK, RequestInv, PendingInv, HandsInv, FrameworkStep,
         NEW r \in currTaskTable, r.owner \in Components,
         state'[r.owner] # "dead", r.task \notin unstarted'
  PROVE  InHand(r)'
<1>. DEFINE c == r.owner
<1>1. UNCHANGED <<pending, taskMap, unstarted>> /\ state[c] # "dead"
  BY FrameworkTakesOut, FrameworkRevivesNobody DEF clientVars
<1>2. InHand(r)
  BY <1>1 DEF HandsInv
<1>3. CASE r.task \in taskMap[c]
  BY <1>1, <1>3 DEF InHand
<1>4. CASE state[c] = "waiting"
  <2>1. LeftAlone(c) \/ Answered(c)
    BY <1>4, FrameworkServes DEF Served
  <2>2. state'[c] = "waiting" /\ (svcResponseQ[c] # <<>> => svcResponseQ'[c] = svcResponseQ[c])
    BY <2>1 DEF LeftAlone, Answered
  <2>. QED BY <1>1, <1>2, <2>2 DEF InHand
<1>. QED BY <1>2, <1>3, <1>4 DEF InHand

(* A component that had asked for an end, and whose answer, if it was there, was true. *)
LEMMA AskedForEnd ==
  ASSUME TypeOK, RequestInv, PendingInv, TaskInv, HandsInv, FrameworkStep,
         nextTaskId <= nextTaskId', nextTaskId' \in Nat,
         NEW c \in Components, state'[c] = "waiting", pending'[c].type = "finish_task"
  PROVE  /\ pending'[c] = pending[c] /\ pending[c].task \in Nat
         /\ pending[c].task < nextTaskId /\ pending[c].task < nextTaskId'
         /\ svcResponseQ'[c] # <<>> =>
              \/ \A r \in currTaskTable : r.task # pending[c].task
              \/ msgList # <<>> /\ pending[c] = Head(msgList)
<1>1. UNCHANGED pending /\ state[c] = "waiting" /\ (LeftAlone(c) \/ Answered(c))
  BY FrameworkTakesOut, FrameworkServes DEF clientVars, Served
<1>2. pending[c].task \in Nat /\ pending[c].task < nextTaskId /\ nextTaskId \in Nat
  BY <1>1, TasksTyped DEF HandsInv
<1>3. pending[c].task < nextTaskId'
  <2>1. PICK t : t = pending[c].task
    OBVIOUS
  <2>. QED BY <1>2, <2>1
<1>4. ASSUME svcResponseQ'[c] # <<>>
      PROVE  \/ \A r \in currTaskTable : r.task # pending[c].task
             \/ msgList # <<>> /\ pending[c] = Head(msgList)
  <2>1. CASE LeftAlone(c)
    BY <1>1, <1>4, <2>1 DEF LeftAlone, HandsInv
  <2>2. CASE Answered(c)
    BY <2>2 DEF Answered
  <2>. QED BY <1>1, <2>1, <2>2
<1>. QED BY <1>1, <1>2, <1>3, <1>4

(* No task is finished, and none is launched. *)
LEMMA SameTableHands ==
  ASSUME TypeOK, RequestInv, PendingInv, TaskInv, HandsInv, FrameworkStep,
         UNCHANGED currTaskTable, nextTaskId <= nextTaskId', nextTaskId' \in Nat,
         msgList # <<>> => (Head(msgList).type # "finish_task" \/ UNCHANGED svcResponseQ)
  PROVE  HandsInv'
<1>. SUFFICES ASSUME NEW c \in Components
              PROVE  /\ state'[c] # "dead" => \A r \in currTaskTable' :
                          (r.owner = c /\ r.task \notin unstarted') => InHand(r)'
                     /\ (state'[c] = "waiting" /\ pending'[c].type = "finish_task") =>
                          /\ pending'[c].task \in Nat /\ pending'[c].task < nextTaskId'
                          /\ svcResponseQ'[c] # <<>> =>
                               \A r \in currTaskTable' : r.task # pending'[c].task
  BY DEF HandsInv
<1>1. ASSUME state'[c] # "dead", NEW r \in currTaskTable', r.owner = c, r.task \notin unstarted'
      PROVE  InHand(r)'
  BY <1>1, KeptInHand
<1>2. ASSUME state'[c] = "waiting", pending'[c].type = "finish_task"
      PROVE  /\ pending'[c].task \in Nat /\ pending'[c].task < nextTaskId'
             /\ svcResponseQ'[c] # <<>> => \A r \in currTaskTable' : r.task # pending'[c].task
  <2>1. /\ pending'[c] = pending[c] /\ pending[c].task \in Nat
        /\ pending[c].task < nextTaskId'
        /\ svcResponseQ'[c] # <<>> =>
             \/ \A r \in currTaskTable : r.task # pending[c].task
             \/ msgList # <<>> /\ pending[c] = Head(msgList)
    BY <1>2, AskedForEnd
  <2>2. state[c] = "waiting"
    BY <1>2, FrameworkServes DEF Served
  <2>3. (svcResponseQ'[c] # <<>> /\ msgList # <<>> /\ pending[c] = Head(msgList))
           => \A r \in currTaskTable : r.task # pending[c].task
    BY <1>2, <2>1, <2>2 DEF HandsInv
  <2>. QED BY <2>1, <2>3
<1>. QED BY <1>1, <1>2

LEMMA InitTaskHands ==
  ASSUME TypeOK, TypeOK', RequestInv, PendingInv, TaskInv, HandsInv, HandleInitTask
  PROVE  HandsInv'
<1>. DEFINE m == Head(msgList)
<1>0. /\ FrameworkStep /\ msgList # <<>> /\ m.type = "init_task"
      /\ nextTaskId \in Nat /\ nextTaskId' = nextTaskId + 1
  BY TasksTyped DEF FrameworkStep, HandleInitTask, Working
<1>1. nextTaskId <= nextTaskId' /\ nextTaskId' \in Nat
  BY <1>0
<1>2. CASE UNCHANGED currTaskTable
  BY <1>0, <1>1, <1>2, SameTableHands
<1>3. CASE /\ currTaskTable' = currTaskTable \cup {Lent(m)}
           /\ Respond(m.from, TRUE, nextTaskId)
  <2>. SUFFICES ASSUME NEW c \in Components
                PROVE  /\ state'[c] # "dead" => \A r \in currTaskTable' :
                            (r.owner = c /\ r.task \notin unstarted') => InHand(r)'
                       /\ (state'[c] = "waiting" /\ pending'[c].type = "finish_task") =>
                            /\ pending'[c].task \in Nat /\ pending'[c].task < nextTaskId'
                            /\ svcResponseQ'[c] # <<>> =>
                                 \A r \in currTaskTable' : r.task # pending'[c].task
    BY DEF HandsInv
  <2>1. PICK l : l = Lent(m)
    OBVIOUS
  <2>11. l.task = nextTaskId /\ l.owner = m.from
    BY <2>1 DEF Lent
  <2>2. m \in UnderWay /\ m.from \in Components
    <3>1. m \in UnderWay
      BY <1>0, QueueTypes, ElementsOfTail DEF UnderWay
    <3>. QED BY <3>1, UnderWayTypes
  <2>3. UNCHANGED pending
    BY <1>0, FrameworkTakesOut DEF clientVars
  <2>4. ASSUME state'[m.from] # "dead" PROVE InHand(l)'
    <3>1. state[m.from] # "dead"
      BY <1>0, <2>2, <2>4, FrameworkRevivesNobody
    <3>2. state[m.from] = "waiting" /\ svcResponseQ[m.from] = <<>> /\ pending[m.from] = m
      BY <2>2, <3>1, UnderWayIsWaiting DEF PendingInv
    <3>3. m.from \in registry
      BY <2>2, <3>2 DEF RequestInv, RegistryInv
    <3>4. /\ UNCHANGED state
          /\ svcResponseQ' = [svcResponseQ EXCEPT ![m.from] =
                                Append(@, [ok |-> TRUE, val |-> nextTaskId])]
      BY <1>3, <3>3, Zenon DEF Respond
    <3>5. svcResponseQ'[m.from] = Append(<<>>, [ok |-> TRUE, val |-> nextTaskId])
      BY <2>2, <3>2, <3>4, TasksTyped
    <3>6. svcResponseQ'[m.from] = <<[ok |-> TRUE, val |-> nextTaskId]>>
      BY <3>5
    <3>7. svcResponseQ'[m.from] # <<>>
          /\ Head(svcResponseQ'[m.from]) = [ok |-> TRUE, val |-> nextTaskId]
      BY <3>6
    <3>8. state'[m.from] = "waiting" /\ pending'[m.from].type = "init_task"
      BY <1>0, <2>3, <3>2, <3>4
    <3>. QED BY <2>11, <3>7, <3>8 DEF InHand
  <2>5. ASSUME state'[c] # "dead", NEW r \in currTaskTable', r.owner = c, r.task \notin unstarted'
        PROVE  InHand(r)'
    <3>1. CASE r \in currTaskTable
      BY <1>0, <2>5, <3>1, KeptInHand
    <3>2. CASE r = l
      BY <2>4, <2>5, <2>11, <3>2
    <3>. QED BY <1>3, <2>1, <2>5, <3>1, <3>2
  <2>6. ASSUME state'[c] = "waiting", pending'[c].type = "finish_task"
        PROVE  /\ pending'[c].task \in Nat /\ pending'[c].task < nextTaskId'
               /\ svcResponseQ'[c] # <<>> => \A r \in currTaskTable' : r.task # pending'[c].task
    <3>1. /\ pending'[c] = pending[c] /\ pending[c].task \in Nat
          /\ pending[c].task < nextTaskId /\ pending[c].task < nextTaskId'
          /\ svcResponseQ'[c] # <<>> =>
               \/ \A r \in currTaskTable : r.task # pending[c].task
               \/ msgList # <<>> /\ pending[c] = Head(msgList)
      BY <1>0, <1>1, <2>6, AskedForEnd
    <3>2. pending[c] # Head(msgList)
      BY <1>0, <2>6, <3>1
    <3>3. pending[c].task # nextTaskId
      <4>1. PICK t : t = pending[c].task
        OBVIOUS
      <4>. QED BY <1>0, <3>1, <4>1
    <3>. QED BY <1>3, <2>1, <2>11, <3>1, <3>2, <3>3
  <2>. QED BY <2>5, <2>6
<1>. QED BY <1>2, <1>3, InitTaskOutcomes

LEMMA FinishTaskHands ==
  ASSUME TypeOK, TypeOK', RequestInv, PendingInv, TaskInv, HandsInv, HandleFinishTask
  PROVE  HandsInv'
<1>. DEFINE m == Head(msgList)
<1>0. /\ FrameworkStep /\ msgList # <<>> /\ m.type = "finish_task"
      /\ nextTaskId \in Nat /\ nextTaskId' = nextTaskId
  BY TasksTyped DEF FrameworkStep, HandleFinishTask, Working
<1>1. nextTaskId <= nextTaskId' /\ nextTaskId' \in Nat
  BY <1>0
<1>2. PICK t \in currTaskTable : t.task = m.task /\ currTaskTable' = currTaskTable \ {t}
  BY DEF HandleFinishTask, Without
<1>3. \A r \in currTaskTable' : r \in currTaskTable /\ r.task # m.task
  BY <1>2 DEF TaskInv, TableInv
<1>. SUFFICES ASSUME NEW c \in Components
              PROVE  /\ state'[c] # "dead" => \A r \in currTaskTable' :
                          (r.owner = c /\ r.task \notin unstarted') => InHand(r)'
                     /\ (state'[c] = "waiting" /\ pending'[c].type = "finish_task") =>
                          /\ pending'[c].task \in Nat /\ pending'[c].task < nextTaskId'
                          /\ svcResponseQ'[c] # <<>> =>
                               \A r \in currTaskTable' : r.task # pending'[c].task
  BY DEF HandsInv
<1>4. ASSUME state'[c] # "dead", NEW r \in currTaskTable', r.owner = c, r.task \notin unstarted'
      PROVE  InHand(r)'
  BY <1>0, <1>3, <1>4, KeptInHand
<1>5. ASSUME state'[c] = "waiting", pending'[c].type = "finish_task"
      PROVE  /\ pending'[c].task \in Nat /\ pending'[c].task < nextTaskId'
             /\ svcResponseQ'[c] # <<>> => \A r \in currTaskTable' : r.task # pending'[c].task
  <2>1. /\ pending'[c] = pending[c] /\ pending[c].task \in Nat
        /\ pending[c].task < nextTaskId'
        /\ svcResponseQ'[c] # <<>> =>
             \/ \A r \in currTaskTable : r.task # pending[c].task
             \/ msgList # <<>> /\ pending[c] = Head(msgList)
    BY <1>0, <1>1, <1>5, AskedForEnd
  <2>. QED BY <1>3, <2>1
<1>. QED BY <1>4, <1>5

(* Only the tasks in c's own hands can change hands in a step of c. *)
LEMMA OwnHands ==
  ASSUME HandsInv, NEW c \in Components, UNCHANGED <<currTaskTable, nextTaskId>>,
         unstarted \subseteq unstarted',
         \A d \in Components : d # c =>
            /\ state'[d] = state[d] /\ pending'[d] = pending[d]
            /\ taskMap'[d] = taskMap[d] /\ svcResponseQ'[d] = svcResponseQ[d],
         state[c] # "dead",
         \A r \in currTaskTable :
            (r.owner = c /\ r.task \notin unstarted' /\ InHand(r)) => InHand(r)',
         (state'[c] = "waiting" /\ pending'[c].type = "finish_task") =>
            /\ pending'[c].task \in Nat /\ pending'[c].task < nextTaskId
            /\ svcResponseQ'[c] = <<>>
  PROVE  HandsInv'
<1>. SUFFICES ASSUME NEW d \in Components
              PROVE  /\ state'[d] # "dead" => \A r \in currTaskTable' :
                          (r.owner = d /\ r.task \notin unstarted') => InHand(r)'
                     /\ (state'[d] = "waiting" /\ pending'[d].type = "finish_task") =>
                          /\ pending'[d].task \in Nat /\ pending'[d].task < nextTaskId'
                          /\ svcResponseQ'[d] # <<>> =>
                               \A r \in currTaskTable' : r.task # pending'[d].task
  BY DEF HandsInv
<1>1. CASE d = c
  <2>1. \A r \in currTaskTable : (r.owner = c /\ r.task \notin unstarted') => InHand(r)
    BY DEF HandsInv
  <2>. QED BY <1>1, <2>1
<1>2. CASE d # c
  <2>1. \A r \in currTaskTable : r.owner = d => (InHand(r)' <=> InHand(r))
    BY <1>2 DEF InHand
  <2>. QED BY <1>2, <2>1 DEF HandsInv
<1>. QED BY <1>1, <1>2

LEMMA FrameworkStepHands ==
  ASSUME TypeOK, TypeOK', RequestInv, PendingInv, TaskInv, HandsInv, FrameworkStep
  PROVE  HandsInv'
<1>0. nextTaskId \in Nat
  BY TasksTyped
<1>1. CASE InvokeFrameworkComps \/ StartLines \/ GetMessage \/ EndRun
  <2>1. UNCHANGED taskVars /\ (msgList = <<>> \/ UNCHANGED svcResponseQ)
    BY <1>1, Zenon DEF InvokeFrameworkComps, StartLines, GetMessage, EndRun
  <2>. QED BY <1>0, <2>1, SameTableHands DEF taskVars
<1>2. CASE HandleInitResult \/ HandleReturnCall \/ HandleLineResult \/ HandleLastResult
           \/ HandleInitCall \/ HandleWaitCall \/ HandleCreateSim
  <2>1. UNCHANGED taskVars /\ Head(msgList).type # "finish_task"
    BY <1>2, Zenon DEF HandleInitResult, HandleReturnCall, HandleLineResult, HandleLastResult,
                HandleInitCall, HandleWaitCall, HandleCreateSim, Working
  <2>. QED BY <1>0, <2>1, SameTableHands DEF taskVars
<1>. QED BY <1>1, <1>2, InitTaskHands, FinishTaskHands DEF FrameworkStep

LEMMA ComponentStepHands ==
  ASSUME TypeOK, RequestInv, PendingInv, TaskInv, HandsInv, NEW c \in Components, ComponentStep(c)
  PROVE  HandsInv'
<1>0. UNCHANGED <<currTaskTable, nextTaskId>>
  <2>1. UNCHANGED taskVars
    BY Zenon DEF ComponentStep, StartMethod, ReceiveResponse, ReturnMethod, CallNonblocking, WaitForCall,
           PollCall, LaunchTask, EndTask, CreateSimulation, InvokeService
  <2>. QED BY <2>1 DEF taskVars
<1>1. CASE StartMethod(c) \/ \E ok \in BOOLEAN : ReturnMethod(c, ok)
  <2>1. /\ UNCHANGED <<pending, taskMap, svcResponseQ, unstarted>> /\ state[c] \in {"idle", "running"}
        /\ \E s \in {"idle", "running"} : state' = [state EXCEPT ![c] = s]
    BY <1>1 DEF StartMethod, ReturnMethod, clientVars
  <2>2. state'[c] \in {"idle", "running"} /\ \A d \in Components : d # c => state'[d] = state[d]
    BY <2>1, TasksTyped
  <2>3. \A r \in currTaskTable : (r.owner = c /\ InHand(r)) => InHand(r)'
    BY <2>1 DEF InHand
  <2>. QED BY <1>0, <2>1, <2>2, <2>3, OwnHands
<1>2. CASE \/ CallNonblocking(c) \/ WaitForCall(c) \/ PollCall(c)
           \/ LaunchTask(c) \/ EndTask(c) \/ CreateSimulation(c)
  <2>1. PICK m \in Requests :
               /\ m.from = c /\ m.type # "result" /\ InvokeService(c, m)
               /\ \/ UNCHANGED taskMap /\ m.type # "finish_task"
                  \/ /\ m = FinishTask(c, m.task) /\ m.task \in taskMap[c]
                     /\ taskMap' = [taskMap EXCEPT ![c] = @ \ {m.task}]
    BY <1>2, ServiceSends
  <2>2. UNCHANGED <<svcResponseQ, unstarted>>
        /\ state[c] = "running" /\ state' = [state EXCEPT ![c] = "waiting"]
        /\ pending' = [pending EXCEPT ![c] = m]
    BY <2>1 DEF InvokeService
  <2>3. svcResponseQ[c] = <<>>
    <3>1. CASE svcResponseQ[c] # <<>>
      BY <2>2, <3>1, RespondedIsWaiting
    <3>. QED BY <3>1
  <2>4. state'[c] = "waiting" /\ pending'[c] = m
        /\ \A d \in Components : d # c => /\ state'[d] = state[d] /\ pending'[d] = pending[d]
                                          /\ taskMap'[d] = taskMap[d]
    BY <2>1, <2>2, TasksTyped
  <2>5. ASSUME NEW r \in currTaskTable, r.owner = c, InHand(r)
        PROVE  InHand(r)'
    <3>1. r.task \in taskMap[c]
      BY <2>2, <2>5 DEF InHand
    <3>2. r.task \in taskMap'[c] \/ (m = FinishTask(c, m.task) /\ r.task = m.task)
      BY <2>1, <3>1, TasksTyped
    <3>. QED BY <2>4, <2>5, <3>2 DEF InHand
  <2>6. ASSUME m.type = "finish_task"
        PROVE  m.task \in Nat /\ m.task < nextTaskId
    <3>1. m.task \in taskMap[c] /\ m.task \in Nat
      BY <2>1, <2>6, TasksTyped
    <3>2. OwnsTask(c, m.task)
      BY <2>2, <3>1 DEF TaskInv, KnownInv
    <3>3. m.task < nextTaskId
      BY <3>2 DEF OwnsTask, TaskInv, TableInv
    <3>. QED BY <3>1, <3>3
  <2>. QED BY <1>0, <2>2, <2>3, <2>4, <2>5, <2>6, OwnHands
<1>3. CASE ReceiveResponse(c)
  <2>. DEFINE a == Head(svcResponseQ[c])
  <2>1. /\ svcResponseQ[c] # <<>> /\ state[c] = "waiting"
        /\ state' = [state EXCEPT ![c] = "running"]
        /\ pending' = [pending EXCEPT ![c] = NoRequest]
        /\ svcResponseQ' = [svcResponseQ EXCEPT ![c] = Tail(@)]
    BY <1>3 DEF ReceiveResponse
  <2>2. \/ /\ taskMap' = [taskMap EXCEPT ![c] = @ \cup {a.val}] /\ UNCHANGED unstarted
        \/ /\ unstarted' = unstarted \cup {a.val} /\ UNCHANGED taskMap
        \/ /\ ~(a.ok /\ pending[c].type = "init_task") /\ UNCHANGED <<taskMap, unstarted>>
    BY <1>3, Zenon DEF ReceiveResponse, Started, NotStarted
  <2>3. state'[c] = "running" /\ unstarted \subseteq unstarted'
        /\ \A d \in Components : d # c => /\ state'[d] = state[d] /\ pending'[d] = pending[d]
                                          /\ taskMap'[d] = taskMap[d]
                                          /\ svcResponseQ'[d] = svcResponseQ[d]
    BY <2>1, <2>2, TasksTyped
  <2>4. ASSUME NEW r \in currTaskTable, r.owner = c, r.task \notin unstarted', InHand(r)
        PROVE  InHand(r)'
    <3>1. taskMap[c] \subseteq taskMap'[c]
      BY <2>2, TasksTyped
    <3>2. CASE r.task \in taskMap[c]
      BY <2>4, <3>1, <3>2 DEF InHand
    <3>3. CASE pending[c].type = "init_task" /\ a = [ok |-> TRUE, val |-> r.task]
      <4>1. r.task \in taskMap'[c]
        BY <2>2, <2>4, <3>3, TasksTyped
      <4>. QED BY <2>4, <4>1 DEF InHand
    <3>4. CASE pending[c] = FinishTask(c, r.task)
      <4>1. pending[c].type = "finish_task" /\ pending[c].task = r.task
        BY <3>4 DEF FinishTask
      <4>. QED BY <2>1, <4>1 DEF HandsInv
    <3>. QED BY <2>4, <3>2, <3>3, <3>4 DEF InHand
  <2>. QED BY <1>0, <2>1, <2>3, <2>4, OwnHands
<1>. QED BY <1>1, <1>2, <1>3 DEF ComponentStep

LEMMA HandsStay == Spec => []HandsInv
<1>1. Init => HandsInv
  BY DEF Init, HandsInv
<1>2. TypeOK /\ TypeOK' /\ RequestInv /\ PendingInv /\ TaskInv /\ HandsInv /\ [Next]_vars
        => HandsInv'
  <2>. SUFFICES ASSUME TypeOK, TypeOK', RequestInv, PendingInv, TaskInv, HandsInv, [Next]_vars
                PROVE  HandsInv'
    OBVIOUS
  <2>1. CASE UNCHANGED vars
    <3>1. UNCHANGED <<currTaskTable, nextTaskId, taskMap, unstarted, pending, svcResponseQ, state>>
      BY <2>1 DEF vars, taskVars, compVars, clientVars
    <3>2. \A r : InHand(r)' <=> InHand(r)
      BY <3>1 DEF InHand
    <3>. QED BY <3>1, <3>2 DEF HandsInv
  <2>. QED BY <2>1, FrameworkStepHands, ComponentStepHands DEF Next, Stopped
<1>. QED BY <1>1, <1>2, TypeCorrect, RequestsStay, TasksStay, PTL DEF Spec

(* Cores are neither lost nor lent twice, a running task is the            *)
(* component's own, and the task of a living component can be finished     *)
(* unless it never started: for any programs, launches and failures,       *)
(* across blocked launches and terminated simulations.                     *)
THEOREM CoresAreAccounted == Spec => []CoresAccounted
<1>1. TypeOK /\ RequestInv /\ TaskInv /\ HandsInv => CoresAccounted
  <2>. SUFFICES ASSUME TypeOK, RequestInv, TaskInv, HandsInv PROVE CoresAccounted
    OBVIOUS
  <2>1. CoresOf(currTaskTable) = CoresOfTasks(currTaskTable)
        /\ CoresOf(strayTasks) = CoresOfTasks(strayTasks)
    BY DEF CoresOf, SumFunction, CoresOfTasks
  <2>2. availCores + CoresOfTasks(currTaskTable) + CoresOfTasks(strayTasks) = TotalCores
    BY DEF TaskInv, TableInv
  <2>3. \A c \in registry : c \in Components /\ state[c] # "dead"
    BY DEF TypeOK, SimType, RequestInv, RegistryInv
  <2>4. \A c \in registry : \A t \in taskMap[c] : \E r \in currTaskTable : r.task = t /\ r.owner = c
    BY <2>3 DEF TaskInv, KnownInv, OwnsTask
  <2>5. \A r \in currTaskTable : (r.owner \in registry /\ r.task \notin unstarted) => InHand(r)
    BY <2>3 DEF HandsInv
  <2>. QED BY <2>1, <2>2, <2>4, <2>5 DEF CoresAccounted
<1>. QED BY <1>1, TypeCorrect, RequestsStay, TasksStay, HandsStay, PTL

-----------------------------------------------------------------------------
(* Calls *)

Invoking(i) == {v \in Invocation : v.call = i}
ResultsOf(i) == {m \in Messages : m.type = "result" /\ m.call = i}
AtWork(c) == state[c] \in {"running", "waiting"}

(* How often call i is with component c, and in the system. *)
Busy(c, i) == Occurs(invocationQ[c], Invoking(i)) + AtMostOne(AtWork(c) /\ current[c].call = i)
AllBusy(i) == SumFunctionOnSet([c \in Components |-> Busy(c, i)], Components)
Carried(i) == AllBusy(i) + Occurs(inQueue, ResultsOf(i)) + Occurs(msgList, ResultsOf(i))

LEMMA ComponentsFinite == IsFiniteSet(Components)
<1>1. IsFiniteSet(DOMAIN FwkList)
  <2>1. DOMAIN FwkList = 1..Len(FwkList) /\ Len(FwkList) \in Nat
    BY ComponentAssumption
  <2>. QED BY <2>1, FS_Interval
<1>2. IsFiniteSet({FwkList[i] : i \in DOMAIN FwkList})
  BY <1>1, ImageFinite
<1>3. IsFiniteSet(FwkComps)
  BY <1>2 DEF FwkComps, Elements
<1>. QED BY <1>3, ComponentAssumption, FS_Union, Zenon DEF Components

LEMMA BusyIsNumber ==
  ASSUME TypeOK, NEW c \in Components, NEW i
  PROVE  Busy(c, i) \in Nat /\ Occurs(invocationQ[c], Invoking(i)) \in Nat
<1>1. invocationQ[c] \in Seq(Invocation)
  BY DEF TypeOK, QueueType
<1>2. Occurs(invocationQ[c], Invoking(i)) \in Nat
  BY <1>1, PlacesFinite
<1>. QED BY <1>2 DEF Busy, AtMostOne

LEMMA CarriedIsNumber ==
  ASSUME TypeOK, NEW i
  PROVE  /\ AllBusy(i) \in Nat /\ Carried(i) \in Nat
         /\ Occurs(inQueue, ResultsOf(i)) \in Nat /\ Occurs(msgList, ResultsOf(i)) \in Nat
<1>. DEFINE b == [c \in Components |-> Busy(c, i)]
<1>1. \A c \in Components : b[c] \in Nat
  BY BusyIsNumber
<1>2. Occurs(inQueue, ResultsOf(i)) \in Nat /\ Occurs(msgList, ResultsOf(i)) \in Nat
  BY QueueTypes, PlacesFinite
<1>3. SumFunctionOnSet(b, Components) \in Nat
  <2>. HIDE DEF b
  <2>. QED BY <1>1, ComponentsFinite, SumOfNats
<1>4. AllBusy(i) \in Nat
  BY <1>3 DEF AllBusy
<1>. QED BY <1>2, <1>4 DEF Carried

(* A call with one component is with the system. *)
LEMMA BusyIsCarried ==
  ASSUME TypeOK, NEW i, NEW c \in Components
  PROVE  Busy(c, i) <= AllBusy(i)
<1>. DEFINE b == [d \in Components |-> Busy(d, i)]
<1>1. \A d \in Components : b[d] \in Nat
  BY BusyIsNumber
<1>2. b[c] = Busy(c, i) /\ SumFunctionOnSet(b, Components) = AllBusy(i)
  BY DEF AllBusy
<1>. HIDE DEF b
<1>3. b[c] <= SumFunctionOnSet(b, Components)
  BY <1>1, ComponentsFinite, SumOfNats
<1>. QED BY <1>2, <1>3

(* What one component gets or gives up, the system gets or gives up. *)
LEMMA SameBusy ==
  ASSUME NEW i, \A c \in Components : Busy(c, i)' = Busy(c, i)
  PROVE  AllBusy(i)' = AllBusy(i)
<1>1. [c \in Components |-> Busy(c, i)'] = [c \in Components |-> Busy(c, i)]
  OBVIOUS
<1>. QED BY <1>1 DEF AllBusy

LEMMA OneBusier ==
  ASSUME TypeOK, NEW i, NEW x \in Components, NEW k \in Int,
         Busy(x, i)' = Busy(x, i) + k,
         \A c \in Components \ {x} : Busy(c, i)' = Busy(c, i)
  PROVE  AllBusy(i)' = AllBusy(i) + k
<1>1. PICK b : b = [c \in Components |-> Busy(c, i)]
  OBVIOUS
<1>2. PICK h : h = [c \in Components |-> Busy(c, i)']
  BY Zenon
<1>3. \A c \in Components : b[c] \in Int
  BY <1>1, BusyIsNumber
<1>4. b[x] \in Int /\ h[x] = b[x] + k
  BY <1>1, <1>2, <1>3
<1>4a. h[x] \in Int
  <2>1. PICK n : n = b[x]
    OBVIOUS
  <2>. QED BY <1>4, <2>1
<1>5. \A c \in Components \ {x} : h[c] = b[c]
  BY <1>1, <1>2
<1>6. SumFunctionOnSet(h, Components) = SumFunctionOnSet(b, Components) - b[x] + h[x]
  BY <1>3, <1>4a, <1>5, ComponentsFinite, SumOneChanged
<1>7. AllBusy(i) = SumFunctionOnSet(b, Components)
  BY <1>1 DEF AllBusy
<1>8. AllBusy(i)' = SumFunctionOnSet(h, Components)
  BY <1>2 DEF AllBusy
<1>9. AllBusy(i) \in Nat
  BY CarriedIsNumber
<1>. QED BY <1>4, <1>6, <1>7, <1>8, <1>9

LEMMA LessBusy ==
  ASSUME TypeOK, TypeOK', NEW i, \A c \in Components : Busy(c, i)' <= Busy(c, i)
  PROVE  AllBusy(i)' <= AllBusy(i)
<1>1. PICK b : b = [c \in Components |-> Busy(c, i)]
  OBVIOUS
<1>2. PICK h : h = [c \in Components |-> Busy(c, i)']
  OBVIOUS
<1>3. \A c \in Components : b[c] \in Int
  BY <1>1, BusyIsNumber
<1>4. \A c \in Components : Busy(c, i)' \in Nat
  <2>. TAKE c \in Components
  <2>1. invocationQ'[c] \in Seq(Invocation)
    BY DEF TypeOK, QueueType
  <2>2. Occurs(invocationQ'[c], Invoking(i)) \in Nat
    BY <2>1, PlacesFinite
  <2>. QED BY <2>2 DEF Busy, AtMostOne
<1>5. \A c \in Components : h[c] \in Int /\ h[c] <= b[c]
  BY <1>1, <1>2, <1>4
<1>6. SumFunctionOnSet(h, Components) <= SumFunctionOnSet(b, Components)
  BY <1>3, <1>5, ComponentsFinite, SumMonotone
<1>7. AllBusy(i) = SumFunctionOnSet(b, Components)
  BY <1>1 DEF AllBusy
<1>8. AllBusy(i)' = SumFunctionOnSet(h, Components)
  BY <1>2 DEF AllBusy
<1>. QED BY <1>6, <1>7, <1>8

-----------------------------------------------------------------------------
(* Who awaits which call *)

Awaiting == fwkCalls \cup simCalls \cup outstandingCalls
Live == phase \in {"boot", "init", "loop"}

(* An id is given out once, is carried in one place at most, and as long   *)
(* as run() goes on somebody awaits what is carried.                       *)
IdsInv ==
  /\ \A i \in Nat : Carried(i) <= AtMostOne(i < nextCallId)
  /\ \A e \in Awaiting : e.call < nextCallId
  /\ \A e, f \in Awaiting : e.call = f.call => e = f
  /\ Live => \A i \in Nat : Carried(i) # 0 => \E e \in Awaiting : e.call = i

(* Before the lines are started, only framework components have worked.    *)
Asleep(c) == invocationQ[c] = <<>> /\ state[c] \in {"idle", "absent"}
Team(k) == {c \in Components : LineOf(c) = k}
EarlyInv ==
  /\ phase \in {"boot", "init"} =>
       /\ UnderWay = {} /\ simCalls = {} /\ outstandingCalls = {}
       /\ \A c \in SimComps : Asleep(c)
       /\ \A i \in DOMAIN InitialLines : Team(InitialLines[i]) \subseteq registry
  /\ phase \in {"boot", "loop"} => fwkCalls = {}
  /\ ~(phase \in {"init", "loop"}) => msgList = <<>>
  /\ Live => FwkComps \subseteq registry

(* A line is driven by one entry, whose call is with the line's own        *)
(* components, and nobody else, until its result is sent.                  *)
TargetsOf(k) == {t \in Target : t.comp \in Team(k)}
Driven(e) ==
  /\ Team(e.line) \subseteq registry
  /\ e.inv \in TargetsOf(e.line) /\ e.queue \in Seq(TargetsOf(e.line))
  /\ Carried(e.call) = 1
  /\ \A c \in Components : Busy(c, e.call) # 0 => c \in Team(e.line)
LineInv ==
  /\ \A c \in Components \ registry : invocationQ[c] = <<>>
  /\ phase = "loop" => /\ \A e \in simCalls : Driven(e)
                       /\ \A e, f \in simCalls : e.line = f.line => e = f

(* A call between components is lost only with a component. *)
SomeDead == \E c \in Components : state[c] = "dead"
LostInv == \A o \in outstandingCalls : Carried(o.call) = 0 => SomeDead

-----------------------------------------------------------------------------
(* Before the lines are started *)

LEMMA InitEarly == Init => EarlyInv
<1>. SUFFICES ASSUME Init PROVE EarlyInv
  OBVIOUS
<1>1. UnderWay = {}
  BY DEF Init, UnderWay, Elements
<1>2. \A i \in DOMAIN InitialLines : Team(InitialLines[i]) \subseteq registry
  <2>. SUFFICES ASSUME NEW i \in DOMAIN InitialLines, NEW c \in Components,
                       LineOf(c) = InitialLines[i]
                PROVE  c \in registry
    BY DEF Team
  <2>1. CASE c \in FwkComps
    BY <2>1 DEF Init
  <2>2. CASE c \notin FwkComps
    <3>1. c \in SimComps /\ SimOf[c] = InitialLines[i]
      BY <2>2 DEF LineOf, Components
    <3>2. SimOf[c] \in Sims
      BY <3>1, SimulationAssumption
    <3>3. InitialLines[i] \notin FwkComps
      BY <3>1, <3>2, ComponentAssumption
    <3>4. \E j \in DOMAIN SimList : InitialLines[i] = SimList[j]
      <4>1. i \in 1..(Len(FwkList) + Len(SimList))
            /\ Len(FwkList) \in Nat /\ Len(SimList) \in Nat
            /\ DOMAIN FwkList = 1..Len(FwkList) /\ DOMAIN SimList = 1..Len(SimList)
            /\ (i <= Len(FwkList) => InitialLines[i] = FwkList[i])
            /\ (i > Len(FwkList) => InitialLines[i] = SimList[i - Len(FwkList)])
        BY ComponentAssumption, SimulationAssumption DEF InitialLines
      <4>2. CASE i <= Len(FwkList)
        <5>1. FwkList[i] \in FwkComps
          BY <4>1, <4>2 DEF FwkComps, Elements
        <5>. QED BY <3>3, <4>1, <4>2, <5>1
      <4>3. CASE i > Len(FwkList)
        <5>1. i - Len(FwkList) \in DOMAIN SimList
          BY <4>1, <4>3
        <5>. QED BY <4>1, <4>3, <5>1
      <4>. QED BY <4>1, <4>2, <4>3
    <3>5. SimOf[c] \in simMap
      BY <3>1, <3>4 DEF Init, Elements
    <3>. QED BY <3>1, <3>5 DEF Init
  <2>. QED BY <2>1, <2>2
<1>3. \A c \in SimComps : Asleep(c)
  BY DEF Init, Asleep, Components
<1>. QED BY <1>1, <1>2, <1>3 DEF Init, EarlyInv

LEMMA HeadIsUnderWay ==
  ASSUME TypeOK, msgList # <<>>, Head(msgList).type # "result"
  PROVE  Head(msgList) \in UnderWay
<1>1. Head(msgList) \in Elements(msgList)
  BY QueueTypes, ElementsOfTail
<1>. QED BY <1>1 DEF UnderWay

(* Requests are handled in the loop. *)
LEMMA RequestsInLoop ==
  ASSUME TypeOK, EarlyInv, msgList # <<>>, Head(msgList).type # "result"
  PROVE  phase = "loop" /\ fwkCalls = {}
<1>1. UnderWay # {}
  BY HeadIsUnderWay
<1>. QED BY <1>1 DEF EarlyInv, TypeOK, LoopType

(* What EarlyInv says of the loop, and what happens when run() is over. *)
LEMMA LoopEarly ==
  ASSUME phase' = "loop", fwkCalls' = {}, FwkComps \subseteq registry'
  PROVE  EarlyInv'
BY DEF EarlyInv, Live

LEMMA OverEarly ==
  ASSUME phase' \in {"ended", "aborted"}, msgList' = <<>>
  PROVE  EarlyInv'
BY DEF EarlyInv, Live

LEMMA RespondEarly ==
  ASSUME TypeOK, EarlyInv, msgList # <<>>, Head(msgList).type # "result", UNCHANGED fwkCalls,
         NEW c, NEW ok, NEW val, Respond(c, ok, val)
  PROVE  EarlyInv'
<1>1. phase = "loop" /\ fwkCalls = {} /\ FwkComps \subseteq registry
  BY RequestsInLoop DEF EarlyInv, Live
<1>2. CASE c \in registry
  BY <1>1, <1>2, LoopEarly DEF Respond
<1>3. CASE c \notin registry
  BY <1>1, <1>3, OverEarly DEF Respond, TerminateAll
<1>. QED BY <1>2, <1>3

LEMMA FrameworkStepEarly ==
  ASSUME TypeOK, EarlyInv, FrameworkStep
  PROVE  EarlyInv'
<1>. DEFINE m == Head(msgList)
<1>0. UnderWay' \subseteq UnderWay
  BY FrameworkTakesOut
<1>1. CASE InvokeFrameworkComps
  <2>1. phase = "boot" /\ phase' = "init"
        /\ UNCHANGED <<msgList, simCalls, outstandingCalls, registry, state>>
    BY <1>1 DEF InvokeFrameworkComps, simVars
  <2>2. \A c \in SimComps : invocationQ'[c] = invocationQ[c]
    <3>. SUFFICES ASSUME NEW c \in SimComps PROVE invocationQ'[c] = invocationQ[c]
      OBVIOUS
    <3>1. c \in Components /\ ~ \E i \in DOMAIN FwkList : FwkList[i] = c
      BY ComponentAssumption DEF Components, FwkComps, Elements
    <3>. QED BY <1>1, <3>1 DEF InvokeFrameworkComps
  <2>. QED BY <1>0, <2>1, <2>2 DEF EarlyInv, Live, Asleep
<1>2. CASE StartLines
  <2>1. phase = "init" /\ phase' = "loop" /\ fwkCalls = {} /\ UNCHANGED <<fwkCalls, registry>>
    BY <1>2, Zenon DEF StartLines, simVars
  <2>. QED BY <2>1, LoopEarly DEF EarlyInv, Live
<1>3. CASE GetMessage
  <2>1. phase \in {"init", "loop"}
        /\ UNCHANGED <<phase, fwkCalls, simCalls, outstandingCalls, registry, state, invocationQ>>
    BY <1>3 DEF GetMessage, simVars, callVars, compVars
  <2>. QED BY <1>0, <2>1 DEF EarlyInv, Live, Asleep
<1>4. CASE HandleInitResult
  <2>1. CASE TerminateAll("aborted")
    BY <2>1, OverEarly DEF TerminateAll
  <2>2. CASE UNCHANGED <<phase, registry, state, invocationQ>>
    <3>1. phase = "init" /\ UNCHANGED <<simCalls, outstandingCalls>>
      BY <1>4 DEF HandleInitResult, callVars
    <3>. QED BY <1>0, <2>2, <3>1 DEF EarlyInv, Live, Asleep
  <2>. QED BY <1>4, <2>1, <2>2 DEF HandleInitResult
<1>5. CASE HandleInitCall
  <2>1. msgList # <<>> /\ m.type # "result" /\ UNCHANGED fwkCalls
    BY <1>5, Zenon DEF HandleInitCall, Working
  <2>2. phase = "loop" /\ fwkCalls = {} /\ FwkComps \subseteq registry
    BY <2>1, RequestsInLoop DEF EarlyInv, Live
  <2>3. CASE UNCHANGED <<phase, registry>>
    BY <2>1, <2>2, <2>3, LoopEarly
  <2>4. CASE TerminateAll("aborted")
    BY <2>4, OverEarly DEF TerminateAll
  <2>5. CASE Respond(m.from, FALSE, 0)
    BY <2>1, <2>5, RespondEarly, Zenon
  <2>. QED BY <1>5, <2>3, <2>4, <2>5, Zenon DEF HandleInitCall
<1>6. CASE HandleWaitCall
  <2>1. msgList # <<>> /\ m.type # "result" /\ UNCHANGED fwkCalls
    BY <1>6 DEF HandleWaitCall, Working
  <2>2. phase = "loop" /\ fwkCalls = {} /\ FwkComps \subseteq registry
    BY <2>1, RequestsInLoop DEF EarlyInv, Live
  <2>3. CASE UNCHANGED <<phase, registry>>
    BY <2>1, <2>2, <2>3, LoopEarly
  <2>4. CASE \E ok, val : Respond(m.from, ok, val)
    BY <2>1, <2>4, RespondEarly
  <2>. QED BY <1>6, <2>3, <2>4, Zenon DEF HandleWaitCall
<1>7. CASE HandleInitTask
  <2>1. msgList # <<>> /\ m.type # "result" /\ UNCHANGED fwkCalls
    BY <1>7 DEF HandleInitTask, Working
  <2>2. phase = "loop" /\ fwkCalls = {} /\ FwkComps \subseteq registry
    BY <2>1, RequestsInLoop DEF EarlyInv, Live
  <2>3. CASE UNCHANGED <<phase, registry>>
    BY <2>1, <2>2, <2>3, LoopEarly
  <2>4. CASE \E ok, val : Respond(m.from, ok, val)
    BY <2>1, <2>4, RespondEarly
  <2>. QED BY <1>7, <2>3, <2>4 DEF HandleInitTask
<1>8. CASE HandleFinishTask
  <2>1. msgList # <<>> /\ m.type # "result" /\ UNCHANGED fwkCalls /\ Respond(m.from, TRUE, 0)
    BY <1>8, Zenon DEF HandleFinishTask, Working
  <2>. QED BY <2>1, RespondEarly
<1>9. CASE HandleCreateSim
  <2>1. msgList # <<>> /\ m.type # "result" /\ UNCHANGED fwkCalls
    BY <1>9, Zenon DEF HandleCreateSim, Working
  <2>2. phase = "loop" /\ fwkCalls = {} /\ FwkComps \subseteq registry
    BY <2>1, RequestsInLoop DEF EarlyInv, Live
  <2>3. CASE UNCHANGED phase /\ registry' = registry \cup MembersOf(m.sim)
    BY <2>1, <2>2, <2>3, LoopEarly
  <2>4. CASE Respond(m.from, FALSE, 0)
    BY <2>1, <2>4, RespondEarly
  <2>. QED BY <1>9, <2>3, <2>4, Zenon DEF HandleCreateSim
<1>10. CASE HandleReturnCall \/ HandleLineResult
  <2>1. phase = "loop" /\ UNCHANGED <<phase, fwkCalls, registry>>
    BY <1>10, Zenon DEF HandleReturnCall, HandleLineResult, simVars, compVars
  <2>. QED BY <2>1, LoopEarly DEF EarlyInv, Live
<1>11. CASE HandleLastResult
  <2>1. phase = "loop" /\ UNCHANGED <<phase, fwkCalls>>
    BY <1>11 DEF HandleLastResult
  <2>2. FwkComps \subseteq registry'
    <3>1. FwkComps \subseteq registry
      BY <2>1 DEF EarlyInv, Live
    <3>2. \A s : MembersOf(s) \cap FwkComps = {}
      BY ComponentAssumption DEF MembersOf
    <3>. QED BY <1>11, <3>1, <3>2 DEF HandleLastResult, Kill, simVars
  <2>. QED BY <2>1, <2>2, LoopEarly DEF EarlyInv
<1>12. CASE EndRun
  BY <1>12, OverEarly DEF EndRun, TerminateAll
<1>. QED BY <1>1, <1>2, <1>3, <1>4, <1>5, <1>6, <1>7, <1>8, <1>9, <1>10, <1>11, <1>12 DEF FrameworkStep

LEMMA ComponentStepEarly ==
  ASSUME TypeOK, EarlyInv, NEW c \in Components, ComponentStep(c)
  PROVE  EarlyInv'
<1>0. /\ state \in [Components -> {"absent", "idle", "running", "waiting", "dead"}]
      /\ invocationQ \in [Components -> Seq(Invocation)]
  BY DEF TypeOK, QueueType
<1>1. UNCHANGED <<phase, msgList, fwkCalls, simCalls, outstandingCalls, registry>>
  BY Zenon DEF ComponentStep, StartMethod, ReceiveResponse, ReturnMethod, CallNonblocking, WaitForCall,
         PollCall, LaunchTask, EndTask, CreateSimulation, InvokeService, loopVars, simVars, callVars
<1>2. ~(phase \in {"boot", "init"}) => EarlyInv'
  BY <1>1 DEF EarlyInv, Live
<1>3. ASSUME phase \in {"boot", "init"} PROVE EarlyInv'
  <2>1. c \notin SimComps
    <3>1. \A d \in SimComps : Asleep(d)
      BY <1>3 DEF EarlyInv
    <3>. QED BY <3>1, Zenon DEF Asleep, ComponentStep, StartMethod, ReceiveResponse, ReturnMethod,
           CallNonblocking, WaitForCall, PollCall, LaunchTask, EndTask, CreateSimulation, InvokeService
  <2>2. StartMethod(c) \/ ReceiveResponse(c) \/ \E ok \in BOOLEAN : ReturnMethod(c, ok)
    BY <2>1, Zenon DEF ComponentStep, CallNonblocking, WaitForCall, PollCall, LaunchTask, EndTask,
                CreateSimulation, InvokeService
  <2>3. \A d \in SimComps : Asleep(d)'
    <3>1. \A d \in SimComps : d # c /\ d \in Components
      BY <2>1 DEF Components
    <3>2. \A d \in SimComps : state'[d] = state[d] /\ invocationQ'[d] = invocationQ[d]
      BY <1>0, <2>2, <3>1 DEF StartMethod, ReceiveResponse, ReturnMethod
    <3>3. \A d \in SimComps : Asleep(d)
      BY <1>3 DEF EarlyInv
    <3>. QED BY <3>2, <3>3 DEF Asleep
  <2>4. UnderWay' = UnderWay
    <3>1. CASE StartMethod(c) \/ ReceiveResponse(c)
      BY <3>1 DEF StartMethod, ReceiveResponse, loopVars, UnderWay
    <3>2. CASE \E ok \in BOOLEAN : ReturnMethod(c, ok)
      <4>1. PICK ok \in BOOLEAN : ReturnMethod(c, ok)
        BY <3>2
      <4>2. Result(c, current[c].call, ok) \in Messages
            /\ Result(c, current[c].call, ok).type = "result"
        BY DEF Result, Messages, Results, TypeOK, ClientType, Invocation
      <4>3. UNCHANGED <<msgList, blockedMessages>>
            /\ inQueue' = Append(inQueue, Result(c, current[c].call, ok))
        BY <4>1 DEF ReturnMethod
      <4>4. UnderWay' = UnderWay \cup {}
        BY <4>2, <4>3, SentIsUnderWay
      <4>. QED BY <4>4
    <3>. QED BY <2>2, <3>1, <3>2
  <2>. QED BY <1>1, <1>3, <2>3, <2>4 DEF EarlyInv, Live
<1>. QED BY <1>2, <1>3

LEMMA EarlyStays == Spec => []EarlyInv
<1>1. TypeOK /\ EarlyInv /\ [Next]_vars => EarlyInv'
  <2>. SUFFICES ASSUME TypeOK, EarlyInv, [Next]_vars PROVE EarlyInv'
    OBVIOUS
  <2>1. CASE UNCHANGED vars
    <3>1. UnderWay' = UnderWay
      BY <2>1 DEF vars, loopVars, UnderWay
    <3>2. UNCHANGED <<phase, msgList, fwkCalls, simCalls, outstandingCalls, registry, state, invocationQ>>
      BY <2>1 DEF vars, loopVars, simVars, callVars, compVars
    <3>. QED BY <3>1, <3>2 DEF EarlyInv, Live, Asleep
  <2>. QED BY <2>1, FrameworkStepEarly, ComponentStepEarly DEF Next, Stopped
<1>. QED BY <1>1, InitEarly, TypeCorrect, PTL DEF Spec

-----------------------------------------------------------------------------
(* Carriers come and go *)

LEMMA ResultAtHead ==
  ASSUME TypeOK, msgList # <<>>, NEW i
  PROVE  Occurs(msgList, ResultsOf(i)) = Occurs(Tail(msgList), ResultsOf(i))
           + AtMostOne(Head(msgList).type = "result" /\ Head(msgList).call = i)
<1>1. Head(msgList) \in Messages /\ msgList \in Seq(Messages)
  BY HeadOfBatch DEF TypeOK, LoopType
<1>2. Head(msgList) \in ResultsOf(i)
        <=> Head(msgList).type = "result" /\ Head(msgList).call = i
  BY <1>1 DEF ResultsOf
<1>3. Occurs(msgList, ResultsOf(i)) = Occurs(Tail(msgList), ResultsOf(i))
           + AtMostOne(Head(msgList) \in ResultsOf(i))
  BY <1>1, OccursAtHead
<1>. QED BY <1>2, <1>3 DEF AtMostOne

LEMMA ResultSent ==
  ASSUME TypeOK, NEW m \in Messages, inQueue' = Append(inQueue, m), NEW i
  PROVE  Occurs(inQueue', ResultsOf(i)) = Occurs(inQueue, ResultsOf(i))
           + AtMostOne(m.type = "result" /\ m.call = i)
<1>1. m \in ResultsOf(i) <=> m.type = "result" /\ m.call = i
  BY DEF ResultsOf
<1>2. Occurs(inQueue', ResultsOf(i)) = Occurs(inQueue, ResultsOf(i)) + AtMostOne(m \in ResultsOf(i))
  BY QueueTypes, OccursAppended
<1>. QED BY <1>1, <1>2 DEF AtMostOne

(* The call whose result is at the head of the batch, if it is a result. *)
Returning == {i \in Nat : Head(msgList).type = "result" /\ Head(msgList).call = i}

(* Handling the head of the batch takes a result away, or nothing. *)
LEMMA HeadTaken ==
  ASSUME TypeOK, msgList # <<>>, msgList' = Tail(msgList), UNCHANGED inQueue, NEW i \in Nat,
         NEW k \in Int, AllBusy(i)' = AllBusy(i) + k
  PROVE  Carried(i)' = Carried(i) + k - AtMostOne(i \in Returning)
<1>1. Occurs(msgList, ResultsOf(i)) = Occurs(msgList', ResultsOf(i)) + AtMostOne(i \in Returning)
  <2>1. Occurs(msgList, ResultsOf(i)) = Occurs(msgList', ResultsOf(i))
           + AtMostOne(Head(msgList).type = "result" /\ Head(msgList).call = i)
    BY ResultAtHead
  <2>2. AtMostOne(Head(msgList).type = "result" /\ Head(msgList).call = i)
          = AtMostOne(i \in Returning)
    BY DEF AtMostOne, Returning
  <2>. QED BY <2>1, <2>2
<1>2. Occurs(msgList', ResultsOf(i)) \in Nat
  BY HeadOfBatch, PlacesFinite DEF TypeOK
<1>3. Carried(i)' = AllBusy(i)' + Occurs(inQueue, ResultsOf(i)) + Occurs(msgList', ResultsOf(i))
  BY DEF Carried
<1>4. Carried(i) = AllBusy(i) + Occurs(inQueue, ResultsOf(i)) + Occurs(msgList, ResultsOf(i))
  BY DEF Carried
<1>5. AtMostOne(i \in Returning) \in Nat
  BY DEF AtMostOne
<1>6. AllBusy(i) \in Nat /\ Occurs(inQueue, ResultsOf(i)) \in Nat
  BY CarriedIsNumber
<1>. QED BY ONLY <1>1, <1>2, <1>3, <1>4, <1>5, <1>6, k \in Int, AllBusy(i)' = AllBusy(i) + k

(* Whoever is not touched stays as busy as before. *)
LEMMA UntouchedBusy ==
  ASSUME NEW c, invocationQ'[c] = invocationQ[c], (AtWork(c)' <=> AtWork(c)), current'[c] = current[c],
         NEW i
  PROVE  Busy(c, i)' = Busy(c, i)
<1>1. Busy(c, i)' = Occurs(invocationQ'[c], Invoking(i))
                      + AtMostOne(AtWork(c)' /\ current'[c].call = i)
  BY DEF Busy
<1>. QED BY <1>1 DEF Busy

(* An invocation makes its callee busy with one more call. *)
LEMMA InvokedBusy ==
  ASSUME TypeOK, NEW c \in Components, NEW v \in Invocation,
         invocationQ'[c] = Append(invocationQ[c], v), (AtWork(c)' <=> AtWork(c)),
         current'[c] = current[c], NEW i
  PROVE  Busy(c, i)' = Busy(c, i) + AtMostOne(v.call = i)
<1>1. invocationQ[c] \in Seq(Invocation)
  BY DEF TypeOK, QueueType
<1>2. v \in Invoking(i) <=> v.call = i
  BY DEF Invoking
<1>3. Occurs(invocationQ'[c], Invoking(i)) = Occurs(invocationQ[c], Invoking(i))
                                               + AtMostOne(v \in Invoking(i))
  BY <1>1, OccursAppended
<1>4. Busy(c, i)' = Occurs(invocationQ'[c], Invoking(i))
                      + AtMostOne(AtWork(c)' /\ current'[c].call = i)
  BY DEF Busy
<1>5. Occurs(invocationQ[c], Invoking(i)) \in Nat
  BY BusyIsNumber
<1>6. AtMostOne(AtWork(c) /\ current[c].call = i) \in Nat /\ AtMostOne(v.call = i) \in Nat
      /\ AtMostOne(v \in Invoking(i)) = AtMostOne(v.call = i)
  BY <1>2 DEF AtMostOne
<1>. QED BY <1>3, <1>4, <1>5, <1>6 DEF Busy

LEMMA Invoked ==
  ASSUME TypeOK, NEW d \in Components, NEW v \in Invocation,
         invocationQ'[d] = Append(invocationQ[d], v),
         \A c \in Components \ {d} : invocationQ'[c] = invocationQ[c],
         \A c \in Components : (AtWork(c)' <=> AtWork(c)), UNCHANGED current, NEW i
  PROVE  /\ AllBusy(i)' = AllBusy(i) + AtMostOne(v.call = i)
         /\ Busy(d, i)' = Busy(d, i) + AtMostOne(v.call = i)
         /\ \A c \in Components \ {d} : Busy(c, i)' = Busy(c, i)
<1>0. invocationQ \in [Components -> Seq(Invocation)]
  BY DEF TypeOK, QueueType
<1>1. Busy(d, i)' = Busy(d, i) + AtMostOne(v.call = i)
  <2>1. invocationQ'[d] = Append(invocationQ[d], v)
    BY <1>0
  <2>2. (AtWork(d)' <=> AtWork(d))
    OBVIOUS
  <2>3. current'[d] = current[d]
    OBVIOUS
  <2>. QED BY <2>1, <2>2, <2>3, InvokedBusy
<1>2. \A c \in Components \ {d} : Busy(c, i)' = Busy(c, i)
  <2>. SUFFICES ASSUME NEW c \in Components \ {d} PROVE Busy(c, i)' = Busy(c, i)
    OBVIOUS
  <2>1. invocationQ'[c] = invocationQ[c]
    BY <1>0
  <2>2. (AtWork(c)' <=> AtWork(c))
    OBVIOUS
  <2>3. current'[c] = current[c]
    OBVIOUS
  <2>. QED BY <2>1, <2>2, <2>3, UntouchedBusy
<1>3. AtMostOne(v.call = i) \in Int
  BY DEF AtMostOne
<1>. QED BY <1>1, <1>2, <1>3, OneBusier

(* Killing relieves components, and only those that have an entry. *)
LEMMA KillBusy ==
  ASSUME TypeOK, NEW K, Kill(K), UNCHANGED current, NEW c \in Components, NEW i
  PROVE  /\ Busy(c, i)' <= Busy(c, i)
         /\ c \notin K => Busy(c, i)' = Busy(c, i)
         /\ (c \notin registry /\ invocationQ[c] = <<>>) => Busy(c, i)' = Busy(c, i)
<1>1. Busy(c, i)' = Occurs(invocationQ'[c], Invoking(i))
                      + AtMostOne(AtWork(c)' /\ current'[c].call = i)
  BY DEF Busy
<1>2. AtWork(c)' => AtWork(c)
  BY DEF Kill, AtWork
<1>3. AtMostOne(AtWork(c)' /\ current'[c].call = i) <= AtMostOne(AtWork(c) /\ current[c].call = i)
      /\ AtMostOne(AtWork(c)' /\ current'[c].call = i) \in Nat
      /\ AtMostOne(AtWork(c) /\ current[c].call = i) \in Nat
  BY <1>2 DEF AtMostOne
<1>4. Occurs(invocationQ[c], Invoking(i)) \in Nat /\ Busy(c, i) \in Nat
  BY BusyIsNumber
<1>5. invocationQ'[c] = <<>> \/ invocationQ'[c] = invocationQ[c]
  BY DEF Kill
<1>6. Occurs(invocationQ'[c], Invoking(i)) <= Occurs(invocationQ[c], Invoking(i))
      /\ Occurs(invocationQ'[c], Invoking(i)) \in Nat
  BY <1>4, <1>5, OccursInNone
<1>7. Busy(c, i)' <= Busy(c, i)
  BY <1>1, <1>3, <1>4, <1>6 DEF Busy
<1>8. ASSUME c \notin K \/ (c \notin registry /\ invocationQ[c] = <<>>)
      PROVE  Busy(c, i)' = Busy(c, i)
  <2>1. invocationQ'[c] = invocationQ[c] /\ state'[c] = state[c]
    BY <1>8 DEF Kill
  <2>2. (AtWork(c)' <=> AtWork(c))
    BY <2>1 DEF AtWork
  <2>3. current'[c] = current[c]
    OBVIOUS
  <2>. QED BY <2>1, <2>2, <2>3, UntouchedBusy
<1>. QED BY <1>7, <1>8

LEMMA KillFrees ==
  ASSUME TypeOK, TypeOK', NEW K, Kill(K), UNCHANGED current, NEW i
  PROVE  AllBusy(i)' <= AllBusy(i)
<1>1. \A c \in Components : Busy(c, i)' <= Busy(c, i)
  BY KillBusy
<1>. QED BY <1>1, LessBusy

(* A component moves what it carries, and drops nothing. *)
LEMMA ComponentCarries ==
  ASSUME TypeOK, NEW c \in Components, ComponentStep(c), NEW i
  PROVE  /\ Carried(i)' = Carried(i)
         /\ \A d \in Components : Busy(d, i)' <= Busy(d, i)
<1>0. /\ state \in [Components -> {"absent", "idle", "running", "waiting", "dead"}]
      /\ invocationQ \in [Components -> Seq(Invocation)]
      /\ current \in [Components -> Invocation]
  BY DEF TypeOK, QueueType, ClientType
<1>. DEFINE sent == AtMostOne((\E ok \in BOOLEAN : ReturnMethod(c, ok)) /\ current[c].call = i)
<1>1. sent \in Nat
  BY DEF AtMostOne
<1>2. \A d \in Components \ {c} : Busy(d, i)' = Busy(d, i)
  <2>. SUFFICES ASSUME NEW d \in Components \ {c} PROVE Busy(d, i)' = Busy(d, i)
    OBVIOUS
  <2>1. invocationQ'[d] = invocationQ[d] /\ state'[d] = state[d] /\ current'[d] = current[d]
    BY <1>0, Zenon DEF ComponentStep, StartMethod, ReceiveResponse, ReturnMethod, CallNonblocking,
       WaitForCall, PollCall, LaunchTask, EndTask, CreateSimulation, InvokeService, clientVars
  <2>2. (AtWork(d)' <=> AtWork(d))
    BY <2>1 DEF AtWork
  <2>. QED BY <2>1, <2>2, UntouchedBusy
<1>3. UNCHANGED msgList
  BY Zenon DEF ComponentStep, StartMethod, ReceiveResponse, ReturnMethod, CallNonblocking, WaitForCall,
         PollCall, LaunchTask, EndTask, CreateSimulation, InvokeService, loopVars
<1>4. Busy(c, i) \in Nat /\ Occurs(invocationQ[c], Invoking(i)) \in Nat
  BY BusyIsNumber
<1>5. Busy(c, i)' = Busy(c, i) - sent
      /\ Occurs(inQueue', ResultsOf(i)) = Occurs(inQueue, ResultsOf(i)) + sent
  <2>0. Busy(c, i)' = Occurs(invocationQ'[c], Invoking(i))
                      + AtMostOne(AtWork(c)' /\ current'[c].call = i)
    BY DEF Busy
  <2>1. CASE StartMethod(c)
    <3>1. /\ state[c] = "idle" /\ state'[c] = "running" /\ UNCHANGED inQueue
          /\ invocationQ[c] # <<>> /\ invocationQ'[c] = Tail(invocationQ[c])
          /\ current'[c] = Head(invocationQ[c])
      BY <1>0, <2>1 DEF StartMethod, loopVars
    <3>2. Head(invocationQ[c]) \in Invoking(i) <=> Head(invocationQ[c]).call = i
      BY <1>0, <3>1 DEF Invoking
    <3>3. Occurs(invocationQ[c], Invoking(i)) = Occurs(Tail(invocationQ[c]), Invoking(i))
            + AtMostOne(Head(invocationQ[c]) \in Invoking(i))
      BY <1>0, <3>1, OccursAtHead
    <3>4. ~AtWork(c) /\ AtWork(c)'
      BY <3>1 DEF AtWork
    <3>5. ~ \E ok \in BOOLEAN : ReturnMethod(c, ok)
      BY <3>1 DEF ReturnMethod
    <3>6. sent = 0
      BY <3>5 DEF AtMostOne
    <3>7. AtMostOne(AtWork(c)' /\ current'[c].call = i)
            = AtMostOne(Head(invocationQ[c]) \in Invoking(i))
          /\ AtMostOne(AtWork(c) /\ current[c].call = i) = 0
      BY <3>1, <3>2, <3>4 DEF AtMostOne
    <3>8. Busy(c, i) = Occurs(invocationQ[c], Invoking(i))
      BY <1>4, <3>7 DEF Busy
    <3>9. Busy(c, i)' = Busy(c, i)
      BY <2>0, <3>1, <3>3, <3>7, <3>8
    <3>10. Occurs(inQueue', ResultsOf(i)) = Occurs(inQueue, ResultsOf(i))
      BY <3>1
    <3>. QED BY <1>4, <3>6, <3>9, <3>10, CarriedIsNumber
  <2>2. CASE \E ok \in BOOLEAN : ReturnMethod(c, ok)
    <3>1. PICK ok \in BOOLEAN : ReturnMethod(c, ok)
      BY <2>2
    <3>2. Result(c, current[c].call, ok) \in Messages
          /\ Result(c, current[c].call, ok).type = "result"
          /\ Result(c, current[c].call, ok).call = current[c].call
      BY <1>0 DEF Result, Messages, Results, Invocation
    <3>3. /\ state[c] = "running" /\ state'[c] = "idle"
          /\ inQueue' = Append(inQueue, Result(c, current[c].call, ok))
          /\ UNCHANGED <<invocationQ, current>>
      BY <1>0, <3>1 DEF ReturnMethod, clientVars
    <3>4. AtWork(c) /\ ~AtWork(c)'
      BY <3>3 DEF AtWork
    <3>5. sent = AtMostOne(current[c].call = i)
      BY <2>2 DEF AtMostOne
    <3>6. Occurs(inQueue', ResultsOf(i)) = Occurs(inQueue, ResultsOf(i)) + sent
      <4>1. Occurs(inQueue', ResultsOf(i)) = Occurs(inQueue, ResultsOf(i))
              + AtMostOne(Result(c, current[c].call, ok).type = "result"
                          /\ Result(c, current[c].call, ok).call = i)
        BY <3>2, <3>3, ResultSent
      <4>. QED BY <3>2, <3>5, <4>1 DEF AtMostOne
    <3>7. AtMostOne(AtWork(c)' /\ current'[c].call = i) = 0
          /\ AtMostOne(AtWork(c) /\ current[c].call = i) = sent
      BY <3>4, <3>5 DEF AtMostOne
    <3>8. Busy(c, i) = Occurs(invocationQ[c], Invoking(i)) + sent
      BY <3>7 DEF Busy
    <3>9. Busy(c, i)' = Occurs(invocationQ[c], Invoking(i)) + 0
      BY <2>0, <3>3, <3>7
    <3>. HIDE DEF sent
    <3>. QED BY <1>1, <1>4, <3>6, <3>8, <3>9
  <2>3. CASE \/ ReceiveResponse(c) \/ CallNonblocking(c) \/ WaitForCall(c) \/ PollCall(c)
             \/ LaunchTask(c) \/ EndTask(c) \/ CreateSimulation(c)
    <3>1. (AtWork(c)' <=> AtWork(c)) /\ UNCHANGED <<invocationQ, current>>
      <4>1. CASE ReceiveResponse(c)
        BY <1>0, <4>1 DEF AtWork, ReceiveResponse
      <4>2. CASE ~ReceiveResponse(c)
        <5>1. PICK m \in Requests : InvokeService(c, m)
          BY <2>3, <4>2, ServiceSends
        <5>. QED BY <1>0, <5>1 DEF AtWork, InvokeService
      <4>. QED BY <4>1, <4>2
    <3>2. Busy(c, i)' = Busy(c, i)
      BY <3>1, UntouchedBusy
    <3>3. ~ \E ok \in BOOLEAN : ReturnMethod(c, ok)
      BY <1>0, <2>3, Zenon DEF ReturnMethod, ReceiveResponse, CallNonblocking, WaitForCall, PollCall,
                 LaunchTask, EndTask, CreateSimulation, InvokeService
    <3>4. sent = 0
      BY <3>3 DEF AtMostOne
    <3>5. Occurs(inQueue', ResultsOf(i)) = Occurs(inQueue, ResultsOf(i))
      <4>1. CASE ReceiveResponse(c)
        BY <4>1 DEF ReceiveResponse, loopVars
      <4>2. CASE ~ReceiveResponse(c)
        <5>1. PICK m \in Requests : m.type # "result" /\ InvokeService(c, m)
          BY <2>3, <4>2, ServiceSends
        <5>2. m \in Messages /\ inQueue' = Append(inQueue, m)
          BY <5>1 DEF InvokeService, Messages
        <5>3. Occurs(inQueue', ResultsOf(i)) = Occurs(inQueue, ResultsOf(i))
                + AtMostOne(m.type = "result" /\ m.call = i)
          BY <5>2, ResultSent
        <5>. QED BY <5>1, <5>3, CarriedIsNumber DEF AtMostOne
      <4>. QED BY <4>1, <4>2
    <3>. QED BY <1>4, <3>2, <3>4, <3>5, CarriedIsNumber
  <2>. QED BY <2>1, <2>2, <2>3 DEF ComponentStep
<1>. HIDE DEF sent
<1>6. AllBusy(i)' = AllBusy(i) - sent
  <2>1. PICK k \in Int : k = 0 - sent
    BY <1>1
  <2>2. Busy(c, i)' = Busy(c, i) + k
    BY <1>1, <1>4, <1>5, <2>1
  <2>3. AllBusy(i)' = AllBusy(i) + k
    BY <1>2, <2>2, OneBusier
  <2>. QED BY <1>1, <2>1, <2>3, CarriedIsNumber
<1>7. Carried(i)' = Carried(i)
  <2>1. Carried(i)' = AllBusy(i)' + Occurs(inQueue', ResultsOf(i)) + Occurs(msgList, ResultsOf(i))
    BY <1>3 DEF Carried
  <2>. QED BY <1>1, <1>5, <1>6, <2>1, CarriedIsNumber DEF Carried
<1>8. \A d \in Components : Busy(d, i)' <= Busy(d, i)
  <2>. SUFFICES ASSUME NEW d \in Components PROVE Busy(d, i)' <= Busy(d, i)
    OBVIOUS
  <2>1. Busy(d, i) \in Nat
    BY BusyIsNumber
  <2>. QED BY <1>1, <1>2, <1>5, <2>1
<1>. QED BY <1>7, <1>8

-----------------------------------------------------------------------------
(* The ledger of calls *)

CallInv == IdsInv /\ LineInv /\ LostInv

LEMMA AwaitingTypes ==
  ASSUME TypeOK
  PROVE  /\ \A e \in Awaiting : e.call \in Nat
         /\ nextCallId \in Nat
         /\ fwkCalls \cap simCalls = {} /\ fwkCalls \cap outstandingCalls = {}
         /\ simCalls \cap outstandingCalls = {}
<1>1. /\ \A e \in fwkCalls : e.call \in Nat /\ DOMAIN e = {"call", "comp"}
      /\ \A e \in simCalls : e.call \in Nat /\ DOMAIN e = {"call", "line", "inv", "queue"}
      /\ \A e \in outstandingCalls : e.call \in Nat /\ DOMAIN e = {"call", "caller"}
      /\ nextCallId \in Nat
  BY DEF TypeOK, LoopType, ManagerType, SimCall
<1>2. /\ "comp" \notin {"call", "line", "inv", "queue"} /\ "comp" \notin {"call", "caller"}
      /\ "line" \notin {"call", "caller"}
  OBVIOUS
<1>. QED BY <1>1, <1>2 DEF Awaiting

(* The same numbers one step later. *)
LEMMA BusyNext ==
  ASSUME TypeOK', NEW i
  PROVE  /\ AllBusy(i)' \in Nat
         /\ \A c \in Components : Busy(c, i)' \in Nat
<1>1. \A c \in Components : Busy(c, i)' \in Nat
  <2>. TAKE c \in Components
  <2>1. Busy(c, i)' = Occurs(invocationQ'[c], Invoking(i))
                        + AtMostOne(AtWork(c)' /\ current'[c].call = i)
    BY DEF Busy
  <2>2. invocationQ'[c] \in Seq(Invocation)
    BY DEF TypeOK, QueueType
  <2>3. Occurs(invocationQ'[c], Invoking(i)) \in Nat
    BY <2>2, PlacesFinite
  <2>. QED BY <2>1, <2>3 DEF AtMostOne
<1>2. PICK b : b = [c \in Components |-> Busy(c, i)']
  OBVIOUS
<1>3. \A c \in Components : b[c] \in Nat
  BY <1>1, <1>2
<1>4. SumFunctionOnSet(b, Components) \in Nat
  BY <1>3, ComponentsFinite, SumOfNats
<1>5. AllBusy(i)' \in Nat
  BY <1>2, <1>4 DEF AllBusy
<1>. QED BY <1>1, <1>5

LEMMA CarriedNext ==
  ASSUME TypeOK', NEW i
  PROVE  Carried(i)' \in Nat
<1>5. AllBusy(i)' \in Nat
  BY BusyNext
<1>6. inQueue' \in Seq(Messages) /\ msgList' \in Seq(Messages)
  BY DEF TypeOK, LoopType
<1>7. Occurs(inQueue', ResultsOf(i)) \in Nat /\ Occurs(msgList', ResultsOf(i)) \in Nat
  BY <1>6, PlacesFinite
<1>8. Carried(i)' = AllBusy(i)' + Occurs(inQueue', ResultsOf(i)) + Occurs(msgList', ResultsOf(i))
  BY DEF Carried
<1>. QED BY <1>5, <1>7, <1>8

(* A step that hands out ids for new entries N, carries new calls once and *)
(* removes an entry only with its call.                                    *)
LEMMA IdsStep ==
  ASSUME TypeOK, TypeOK', IdsInv, nextCallId <= nextCallId',
         NEW N, Awaiting' \subseteq Awaiting \cup N,
         \A e \in N : e.call \in Nat /\ nextCallId <= e.call /\ e.call < nextCallId',
         \A e, f \in N : e.call = f.call => e = f,
         \A i \in Nat : i < nextCallId => Carried(i)' <= Carried(i),
         \A i \in Nat : i >= nextCallId => Carried(i)' <= AtMostOne(i < nextCallId'),
         Live' => /\ Live
                  /\ \A e \in Awaiting \ Awaiting' : Carried(e.call)' = 0
                  /\ \A i \in Nat : (i >= nextCallId /\ Carried(i)' # 0) =>
                                       \E e \in Awaiting' : e.call = i
  PROVE  IdsInv'
<1>0. /\ nextCallId \in Nat /\ nextCallId' \in Nat
      /\ \A e \in Awaiting : e.call \in Nat /\ e.call < nextCallId
  BY AwaitingTypes DEF IdsInv, TypeOK, ManagerType
<1>1. ASSUME NEW i \in Nat PROVE Carried(i)' <= AtMostOne(i < nextCallId')
  <2>1. Carried(i)' \in Nat
    BY CarriedNext
  <2>2. CASE i < nextCallId
    <3>1. Carried(i)' <= Carried(i) /\ Carried(i) <= AtMostOne(i < nextCallId)
      BY <2>2 DEF IdsInv
    <3>2. i < nextCallId'
      BY <1>0, <2>2
    <3>3. Carried(i) \in Nat
      BY CarriedIsNumber
    <3>. QED BY <2>1, <2>2, <3>1, <3>2, <3>3 DEF AtMostOne
  <2>3. CASE ~(i < nextCallId)
    BY <1>0, <2>3
  <2>. QED BY <2>2, <2>3
<1>2. \A e \in Awaiting' : e.call < nextCallId'
  BY <1>0
<1>3. \A e, f \in Awaiting' : e.call = f.call => e = f
  <2>. SUFFICES ASSUME NEW e \in Awaiting', NEW f \in Awaiting', e.call = f.call PROVE e = f
    OBVIOUS
  <2>1. (e \in Awaiting \/ e \in N) /\ (f \in Awaiting \/ f \in N)
    OBVIOUS
  <2>2. CASE e \in Awaiting /\ f \in Awaiting
    BY <2>2 DEF IdsInv
  <2>3. CASE e \in N /\ f \in N
    BY <2>3
  <2>4. CASE (e \in Awaiting /\ f \in N) \/ (f \in Awaiting /\ e \in N)
    BY <1>0, <2>4
  <2>. QED BY <2>1, <2>2, <2>3, <2>4
<1>4. ASSUME Live', NEW i \in Nat, Carried(i)' # 0
      PROVE  \E e \in Awaiting' : e.call = i
  <2>1. CASE i < nextCallId
    <3>1. Carried(i) # 0
      <4>1. Carried(i) \in Nat /\ Carried(i)' <= Carried(i)
        BY <2>1, CarriedIsNumber
      <4>2. Carried(i)' \in Nat
        BY CarriedNext
      <4>. QED BY <1>4, <4>1, <4>2
    <3>2. PICK e \in Awaiting : e.call = i
      BY <1>4, <3>1 DEF IdsInv
    <3>3. e \in Awaiting'
      BY <1>4, <3>2
    <3>. QED BY <3>2, <3>3
  <2>2. CASE ~(i < nextCallId)
    BY <1>0, <1>4, <2>2
  <2>. QED BY <2>1, <2>2
<1>. QED BY <1>1, <1>2, <1>3, <1>4 DEF IdsInv

LEMMA DrivenOn ==
  ASSUME NEW e, Driven(e), Team(e.line) \subseteq registry', Carried(e.call)' = Carried(e.call),
         \A c \in Components : Busy(c, e.call)' # 0 => Busy(c, e.call) # 0
  PROVE  Driven(e)'
BY DEF Driven

(* Nobody is born busy, and nobody who is not busy is carried. *)
LEMMA BusyStaysZero ==
  ASSUME TypeOK, TypeOK', NEW c \in Components, NEW i, Busy(c, i)' <= Busy(c, i), Busy(c, i)' # 0
  PROVE  Busy(c, i) # 0
<1>1. Busy(c, i) \in Nat
  BY BusyIsNumber
<1>2. Busy(c, i)' \in Nat
  BY BusyNext
<1>. QED BY <1>1, <1>2

(* Steps that neither add nor remove an entry, and drop no carrier. *)
LEMMA CalmCalls ==
  ASSUME TypeOK, TypeOK', CallInv, nextCallId <= nextCallId',
         UNCHANGED <<phase, fwkCalls, simCalls, outstandingCalls>>, registry \subseteq registry',
         \A i \in Nat : Carried(i)' = Carried(i),
         \A c \in Components, i \in Nat : Busy(c, i)' <= Busy(c, i),
         \A c \in Components \ registry' : invocationQ'[c] = <<>>,
         \A c \in Components : state[c] = "dead" => state'[c] = "dead"
  PROVE  CallInv'
<1>0. /\ Awaiting' = Awaiting /\ Live' = Live
      /\ \A e \in Awaiting : e.call \in Nat /\ nextCallId \in Nat
  BY AwaitingTypes DEF Awaiting, Live
<1>1. IdsInv'
  <2>1. \A i \in Nat : i >= nextCallId => Carried(i) = 0
    <3>. SUFFICES ASSUME NEW i \in Nat, i >= nextCallId PROVE Carried(i) = 0
      OBVIOUS
    <3>1. ~(i < nextCallId) /\ Carried(i) <= AtMostOne(i < nextCallId)
      BY AwaitingTypes DEF CallInv, IdsInv
    <3>. QED BY <3>1, CarriedIsNumber DEF AtMostOne
  <2>2. IdsInv
    BY DEF CallInv
  <2>3. \A i \in Nat : i < nextCallId => Carried(i)' <= Carried(i)
    BY CarriedIsNumber
  <2>4. \A i \in Nat : i >= nextCallId => Carried(i)' <= AtMostOne(i < nextCallId')
    BY <2>1 DEF AtMostOne
  <2>5. Live' => /\ Live
                 /\ \A e \in Awaiting \ Awaiting' : Carried(e.call)' = 0
                 /\ \A i \in Nat : (i >= nextCallId /\ Carried(i)' # 0) =>
                                     \E e \in Awaiting' : e.call = i
    BY <1>0, <2>1
  <2>6. Awaiting' \subseteq Awaiting \cup {}
    BY <1>0
  <2>7. /\ \A e \in {} : e.call \in Nat /\ nextCallId <= e.call /\ e.call < nextCallId'
        /\ \A e, f \in {} : e.call = f.call => e = f
    OBVIOUS
  <2>. QED BY <2>2, <2>3, <2>4, <2>5, <2>6, <2>7, IdsStep
<1>2. LineInv'
  <2>1. \A e \in simCalls : phase = "loop" => Driven(e)'
    <3>. SUFFICES ASSUME NEW e \in simCalls, phase = "loop" PROVE Driven(e)'
      OBVIOUS
    <3>1. Driven(e) /\ e.call \in Nat
      BY <1>0 DEF CallInv, LineInv, Awaiting
    <3>2. Team(e.line) \subseteq registry'
      BY <3>1 DEF Driven
    <3>3. Carried(e.call)' = Carried(e.call)
      BY <3>1
    <3>4. \A c \in Components : Busy(c, e.call)' # 0 => Busy(c, e.call) # 0
      BY <3>1, BusyStaysZero
    <3>. QED BY <3>1, <3>2, <3>3, <3>4, DrivenOn
  <2>. QED BY <2>1 DEF CallInv, LineInv
<1>3. LostInv'
  <2>. SUFFICES ASSUME NEW o \in outstandingCalls, Carried(o.call)' = 0 PROVE SomeDead'
    BY DEF LostInv
  <2>1. o.call \in Nat
    BY <1>0 DEF Awaiting
  <2>2. SomeDead
    BY <2>1 DEF CallInv, LostInv
  <2>. QED BY <2>2 DEF SomeDead
<1>. QED BY <1>1, <1>2, <1>3 DEF CallInv

(* The end of run(): whatever is still carried is lost. *)
LEMMA OverCalls ==
  ASSUME TypeOK, TypeOK', EarlyInv, CallInv, phase \in {"init", "loop"},
         NEW how \in {"ended", "aborted"}, TerminateAll(how),
         UNCHANGED <<inQueue, current, fwkCalls, simCalls>>,
         \/ UNCHANGED outstandingCalls /\ nextCallId <= nextCallId'
         \/ /\ \E c : outstandingCalls' = outstandingCalls \cup Managed(nextCallId, c)
            /\ nextCallId' = nextCallId + 1
  PROVE  CallInv'
<1>0. /\ ~Live' /\ Kill(Components) /\ msgList' = <<>>
      /\ \A e \in Awaiting : e.call \in Nat /\ nextCallId \in Nat
  BY AwaitingTypes DEF Live, TerminateAll
<1>1. \A i \in Nat : Carried(i)' <= Carried(i)
  <2>. SUFFICES ASSUME NEW i \in Nat PROVE Carried(i)' <= Carried(i)
    OBVIOUS
  <2>1. AllBusy(i)' <= AllBusy(i)
    BY <1>0, KillFrees
  <2>2. Occurs(msgList', ResultsOf(i)) = 0
    BY <1>0, OccursInNone
  <2>3. Carried(i)' = AllBusy(i)' + Occurs(inQueue, ResultsOf(i)) + Occurs(msgList', ResultsOf(i))
    BY DEF Carried
  <2>5. AllBusy(i)' \in Nat
    BY BusyNext
  <2>. QED BY <2>1, <2>2, <2>3, <2>5, CarriedIsNumber DEF Carried
<1>2. IdsInv'
  <2>1. PICK N : /\ outstandingCalls' = outstandingCalls \cup N
                 /\ \A e \in N : e.call = nextCallId /\ nextCallId' = nextCallId + 1
                 /\ \A e, f \in N : e = f
                 /\ nextCallId <= nextCallId'
    <3>1. CASE UNCHANGED outstandingCalls /\ nextCallId <= nextCallId'
      <4>1. PICK Z : Z = {}
        OBVIOUS
      <4>2. outstandingCalls' = outstandingCalls \cup Z /\ \A e \in Z : FALSE
        BY <3>1, <4>1
      <4>. QED BY <3>1, <4>2
    <3>2. CASE /\ \E c : outstandingCalls' = outstandingCalls \cup Managed(nextCallId, c)
               /\ nextCallId' = nextCallId + 1
      <4>1. PICK c : outstandingCalls' = outstandingCalls \cup Managed(nextCallId, c)
        BY <3>2
      <4>2. Managed(nextCallId, c) = {[call |-> nextCallId, caller |-> c]}
        BY DEF Managed
      <4>3. nextCallId <= nextCallId'
        BY <3>2, AwaitingTypes
      <4>. QED BY <3>2, <4>1, <4>2, <4>3
    <3>. QED BY <3>1, <3>2
  <2>2. Awaiting' \subseteq Awaiting \cup N
    BY <2>1 DEF Awaiting
  <2>3. nextCallId \in Nat
    BY AwaitingTypes
  <2>4. \A e \in N : e.call \in Nat /\ nextCallId <= e.call /\ e.call < nextCallId'
    BY <2>1, <2>3
  <2>5. \A e, f \in N : e.call = f.call => e = f
    BY <2>1
  <2>6. \A i \in Nat : i >= nextCallId => Carried(i)' <= AtMostOne(i < nextCallId')
    <3>. SUFFICES ASSUME NEW i \in Nat, i >= nextCallId
                  PROVE  Carried(i)' <= AtMostOne(i < nextCallId')
      OBVIOUS
    <3>1. ~(i < nextCallId) /\ Carried(i) <= AtMostOne(i < nextCallId)
      BY <2>3 DEF CallInv, IdsInv
    <3>2. Carried(i)' \in Nat /\ Carried(i) \in Nat
      BY CarriedNext, CarriedIsNumber
    <3>. QED BY <1>1, <3>1, <3>2 DEF AtMostOne
  <2>7. \A i \in Nat : i < nextCallId => Carried(i)' <= Carried(i)
    BY <1>1
  <2>8. IdsInv /\ nextCallId <= nextCallId'
    BY <2>1 DEF CallInv
  <2>9. Live' => /\ Live
                 /\ \A e \in Awaiting \ Awaiting' : Carried(e.call)' = 0
                 /\ \A i \in Nat : (i >= nextCallId /\ Carried(i)' # 0) =>
                                     \E e \in Awaiting' : e.call = i
    BY <1>0
  <2>. QED BY <2>2, <2>4, <2>5, <2>6, <2>7, <2>8, <2>9, IdsStep
<1>3. LineInv'
  BY <1>0 DEF Kill, LineInv, Live
<1>4. SomeDead'
  <2>1. 1 \in DOMAIN FwkList /\ FwkList[1] \in FwkComps
    BY ComponentAssumption DEF FwkComps, Elements
  <2>2. FwkList[1] \in Components /\ FwkList[1] \in registry
    BY <2>1 DEF Components, EarlyInv, Live
  <2>. QED BY <1>0, <2>2 DEF Kill, SomeDead
<1>. QED BY <1>2, <1>3, <1>4 DEF CallInv, LostInv

(* A request is answered or blocked: nothing is carried further. *)
LEMMA QuietHead ==
  ASSUME TypeOK, TypeOK', CallInv, msgList # <<>>, Head(msgList).type # "result",
         msgList' = Tail(msgList), UNCHANGED <<phase, inQueue, fwkCalls, simCalls, outstandingCalls>>,
         UNCHANGED <<invocationQ, current, registry, state>>, nextCallId <= nextCallId'
  PROVE  CallInv'
<1>1. \A c \in Components, i \in Nat : Busy(c, i)' = Busy(c, i)
  <2>. SUFFICES ASSUME NEW c \in Components, NEW i \in Nat PROVE Busy(c, i)' = Busy(c, i)
    OBVIOUS
  <2>1. (AtWork(c)' <=> AtWork(c))
    BY DEF AtWork
  <2>. QED BY <2>1, UntouchedBusy
<1>2. \A i \in Nat : Carried(i)' = Carried(i)
  <2>. SUFFICES ASSUME NEW i \in Nat PROVE Carried(i)' = Carried(i)
    OBVIOUS
  <2>1. AllBusy(i)' = AllBusy(i) + 0
    <3>1. AllBusy(i)' = AllBusy(i)
      BY <1>1, SameBusy
    <3>. QED BY <3>1, CarriedIsNumber
  <2>2. Carried(i)' = Carried(i) + 0 - AtMostOne(i \in Returning)
    BY <2>1, HeadTaken
  <2>3. i \notin Returning
    BY DEF Returning
  <2>. QED BY <2>2, <2>3, CarriedIsNumber DEF AtMostOne
<1>3. \A c \in Components, i \in Nat : Busy(c, i)' <= Busy(c, i)
  BY <1>1, BusyIsNumber
<1>4. \A c \in Components \ registry' : invocationQ'[c] = <<>>
  BY DEF CallInv, LineInv
<1>. QED BY <1>2, <1>3, <1>4, CalmCalls

LEMMA RespondCalls ==
  ASSUME TypeOK, TypeOK', EarlyInv, CallInv, msgList # <<>>, Head(msgList).type # "result",
         NEW c, NEW ok, NEW val, Respond(c, ok, val),
         UNCHANGED <<inQueue, current, fwkCalls, simCalls, outstandingCalls>>,
         nextCallId <= nextCallId'
  PROVE  CallInv'
<1>1. CASE c \in registry
  BY <1>1, QuietHead DEF Respond
<1>2. CASE c \notin registry
  <2>1. TerminateAll("aborted") /\ phase = "loop"
    BY <1>2, RequestsInLoop DEF Respond
  <2>. QED BY <2>1, OverCalls
<1>. QED BY <1>1, <1>2

LEMMA ComponentStepCalls ==
  ASSUME TypeOK, TypeOK', CallInv, NEW c \in Components, ComponentStep(c)
  PROVE  CallInv'
<1>1. UNCHANGED <<phase, fwkCalls, simCalls, outstandingCalls, nextCallId, registry>>
  BY Zenon DEF ComponentStep, StartMethod, ReceiveResponse, ReturnMethod, CallNonblocking, WaitForCall,
         PollCall, LaunchTask, EndTask, CreateSimulation, InvokeService, loopVars, simVars, callVars
<1>2. nextCallId <= nextCallId'
  BY <1>1, AwaitingTypes
<1>3. /\ state \in [Components -> {"absent", "idle", "running", "waiting", "dead"}]
      /\ invocationQ \in [Components -> Seq(Invocation)]
  BY DEF TypeOK, QueueType
<1>4. \A d \in Components : state[d] = "dead" => state'[d] = "dead"
  BY <1>3, Zenon DEF ComponentStep, StartMethod, ReceiveResponse, ReturnMethod, CallNonblocking, WaitForCall,
         PollCall, LaunchTask, EndTask, CreateSimulation, InvokeService
<1>5. \A d \in Components \ registry' : invocationQ'[d] = <<>>
  <2>. SUFFICES ASSUME NEW d \in Components \ registry PROVE invocationQ'[d] = <<>>
    BY <1>1
  <2>1. invocationQ[d] = <<>>
    BY DEF CallInv, LineInv
  <2>2. invocationQ'[d] = invocationQ[d] \/ (d = c /\ StartMethod(c))
    BY <1>3, Zenon DEF ComponentStep, StartMethod, ReceiveResponse, ReturnMethod, CallNonblocking,
         WaitForCall, PollCall, LaunchTask, EndTask, CreateSimulation, InvokeService
  <2>. QED BY <2>1, <2>2 DEF StartMethod
<1>. QED BY <1>1, <1>2, <1>4, <1>5, ComponentCarries, CalmCalls

(* The invocations of a line are for its own components. *)
LEMMA InvocationsTeam ==
  ASSUME NEW k \in Lines
  PROVE  /\ Head(Invocations(k)) \in TargetsOf(k)
         /\ Tail(Invocations(k)) \in Seq(TargetsOf(k))
<1>0. Invocations(k) \in Seq(Target) /\ Invocations(k) # <<>>
  BY InvocationsType
<1>1. \A i \in DOMAIN Invocations(k) : Invocations(k)[i].comp \in Team(k)
  <2>1. CASE k \in FwkComps
    <3>1. Invocations(k) = <<[comp |-> k, method |-> "step"], [comp |-> k, method |-> "finalize"]>>
      BY <2>1 DEF Invocations
    <3>2. k \in Team(k)
      BY <2>1 DEF Team, LineOf, Components
    <3>. QED BY <3>1, <3>2
  <2>2. CASE k \notin FwkComps
    <3>. DEFINE v == Visible[k]
                n == Len(v)
    <3>1. k \in Sims /\ v \in Seq(SimComps) /\ v # <<>> /\ \A j \in DOMAIN v : SimOf[v[j]] = k
      BY <2>2, SimulationAssumption DEF Lines
    <3>2. n \in Nat /\ n >= 1 /\ DOMAIN v = 1..n
      BY <3>1
    <3>3. Invocations(k) = [i \in 1..(3 * n) |->
            [comp |-> v[((i - 1) \div 3) + 1], method |-> Methods[((i - 1) % 3) + 1]]]
      BY <2>2 DEF Invocations
    <3>4. \A j \in 1..n : v[j] \in Team(k)
      <4>. SUFFICES ASSUME NEW j \in 1..n PROVE v[j] \in Team(k)
        OBVIOUS
      <4>1. v[j] \in SimComps /\ SimOf[v[j]] = k
        BY <3>1, <3>2
      <4>. QED BY <4>1, ComponentAssumption DEF Team, LineOf, Components
    <3>5. ASSUME NEW i \in 1..(3 * n) PROVE ((i - 1) \div 3) + 1 \in 1..n
      BY <3>2, SMT
    <3>6. DOMAIN Invocations(k) = 1..(3 * n)
      BY <3>3
    <3>7. ASSUME NEW i \in 1..(3 * n) PROVE Invocations(k)[i].comp = v[((i - 1) \div 3) + 1]
      BY <3>3
    <3>. QED BY <3>4, <3>5, <3>6, <3>7
  <2>. QED BY <2>1, <2>2
<1>2. Invocations(k) \in Seq(TargetsOf(k))
  <2>1. \A i \in DOMAIN Invocations(k) : Invocations(k)[i] \in TargetsOf(k)
    BY <1>0, <1>1 DEF TargetsOf
  <2>. QED BY <1>0, <2>1
<1>. QED BY <1>0, <1>2

LEMMA EntryDriven ==
  ASSUME NEW k \in Lines, NEW i
  PROVE  /\ Entry(k, i).line = k /\ Entry(k, i).call = i
         /\ Entry(k, i).inv = Head(Invocations(k))
         /\ Entry(k, i).inv \in TargetsOf(k) /\ Entry(k, i).queue \in Seq(TargetsOf(k))
BY InvocationsTeam DEF Entry

LEMMA CarriedAtLeast ==
  ASSUME TypeOK, NEW i
  PROVE  /\ \A c \in Components : Busy(c, i) <= Carried(i)
         /\ (msgList # <<>> /\ Head(msgList).type = "result" /\ Head(msgList).call = i)
              => Carried(i) >= 1
<1>1. /\ AllBusy(i) \in Nat /\ Occurs(inQueue, ResultsOf(i)) \in Nat
      /\ Occurs(msgList, ResultsOf(i)) \in Nat
      /\ Carried(i) = AllBusy(i) + Occurs(inQueue, ResultsOf(i)) + Occurs(msgList, ResultsOf(i))
  BY CarriedIsNumber DEF Carried
<1>2. ASSUME NEW c \in Components PROVE Busy(c, i) <= Carried(i)
  <2>1. Busy(c, i) <= AllBusy(i) /\ Busy(c, i) \in Nat
    BY BusyIsCarried, BusyIsNumber
  <2>. QED BY <1>1, <2>1
<1>3. ASSUME msgList # <<>>, Head(msgList).type = "result", Head(msgList).call = i
      PROVE  Carried(i) >= 1
  <2>1. Occurs(msgList, ResultsOf(i)) = Occurs(Tail(msgList), ResultsOf(i))
           + AtMostOne(Head(msgList).type = "result" /\ Head(msgList).call = i)
    BY <1>3, ResultAtHead
  <2>2. Occurs(Tail(msgList), ResultsOf(i)) \in Nat
    BY <1>3, HeadOfBatch, PlacesFinite DEF TypeOK
  <2>. QED BY <1>1, <1>3, <2>1, <2>2 DEF AtMostOne
<1>. QED BY <1>2, <1>3

LEMMA FreshIsNotCarried ==
  ASSUME TypeOK, IdsInv, NEW i \in Nat, i >= nextCallId
  PROVE  Carried(i) = 0 /\ \A c \in Components : Busy(c, i) = 0
<1>1. ~(i < nextCallId) /\ Carried(i) <= AtMostOne(i < nextCallId)
  BY AwaitingTypes DEF IdsInv
<1>2. Carried(i) = 0
  BY <1>1, CarriedIsNumber DEF AtMostOne
<1>. QED BY <1>2, CarriedAtLeast, BusyIsNumber

(* The head of the batch is handled and one call is handed out. *)
LEMMA HandedOut ==
  ASSUME TypeOK, IdsInv, msgList # <<>>, msgList' = Tail(msgList), UNCHANGED <<inQueue, current>>,
         NEW d \in Components, NEW v \in Invocation, v.call = nextCallId,
         invocationQ'[d] = Append(invocationQ[d], v),
         \A c \in Components \ {d} : invocationQ'[c] = invocationQ[c],
         \A c \in Components : (AtWork(c)' <=> AtWork(c))
  PROVE  /\ \A i \in Nat : Carried(i)' = Carried(i) + AtMostOne(i = nextCallId)
                                              - AtMostOne(i \in Returning)
         /\ \A c \in Components, i \in Nat : i # nextCallId => Busy(c, i)' = Busy(c, i)
         /\ \A c \in Components, i \in Nat : (i = nextCallId /\ Busy(c, i)' # 0) => c = d
         /\ Carried(nextCallId) = 0 /\ nextCallId \in Nat
<1>0. nextCallId \in Nat
  BY AwaitingTypes
<1>1. ASSUME NEW i \in Nat
      PROVE  /\ AllBusy(i)' = AllBusy(i) + AtMostOne(i = nextCallId)
             /\ Busy(d, i)' = Busy(d, i) + AtMostOne(i = nextCallId)
             /\ \A c \in Components \ {d} : Busy(c, i)' = Busy(c, i)
  <2>1. /\ AllBusy(i)' = AllBusy(i) + AtMostOne(v.call = i)
        /\ Busy(d, i)' = Busy(d, i) + AtMostOne(v.call = i)
        /\ \A c \in Components \ {d} : Busy(c, i)' = Busy(c, i)
    <3>1. UNCHANGED current
      OBVIOUS
    <3>2. AllBusy(i)' = AllBusy(i) + AtMostOne(v.call = i)
      BY <3>1, Invoked
    <3>3. Busy(d, i)' = Busy(d, i) + AtMostOne(v.call = i)
      BY <3>1, Invoked
    <3>4. ASSUME NEW c \in Components \ {d} PROVE Busy(c, i)' = Busy(c, i)
      <4>1. invocationQ'[c] = invocationQ[c]
        OBVIOUS
      <4>2. AtWork(c)' <=> AtWork(c)
        OBVIOUS
      <4>3. current'[c] = current[c]
        BY <3>1
      <4>. QED BY <4>1, <4>2, <4>3, UntouchedBusy
    <3>. QED BY <3>2, <3>3, <3>4
  <2>2. AtMostOne(v.call = i) = AtMostOne(i = nextCallId)
    BY DEF AtMostOne
  <2>. QED BY <2>1, <2>2
<1>2. ASSUME NEW i \in Nat
      PROVE  Carried(i)' = Carried(i) + AtMostOne(i = nextCallId)
                                              - AtMostOne(i \in Returning)
  <2>1. PICK k \in Int : k = AtMostOne(i = nextCallId)
    BY DEF AtMostOne
  <2>2. AllBusy(i)' = AllBusy(i) + k
    BY <1>1, <2>1
  <2>3. Carried(i)' = Carried(i) + k - AtMostOne(i \in Returning)
    BY <2>2, HeadTaken
  <2>. QED BY <2>1, <2>3
<1>3. ASSUME NEW c \in Components, NEW i \in Nat, i # nextCallId
      PROVE  Busy(c, i)' = Busy(c, i)
  <2>1. AtMostOne(i = nextCallId) = 0 /\ Busy(d, i) \in Nat
    BY <1>3, BusyIsNumber DEF AtMostOne
  <2>. QED BY <1>1, <2>1
<1>4. ASSUME NEW c \in Components, NEW i \in Nat, i = nextCallId, Busy(c, i)' # 0
      PROVE  c = d
  <2>1. Busy(c, i) = 0
    BY <1>0, <1>4, FreshIsNotCarried
  <2>. QED BY <1>1, <1>4, <2>1
<1>5. Carried(nextCallId) = 0
  BY <1>0, FreshIsNotCarried
<1>. QED BY <1>0, <1>2, <1>3, <1>4, <1>5

(* The ids after a call has been handed out, for one new entry. *)
LEMMA HandedOutIds ==
  ASSUME TypeOK, TypeOK', IdsInv, Live, nextCallId' = nextCallId + 1,
         NEW e, e.call = nextCallId, Awaiting' \subseteq Awaiting \cup {e}, e \in Awaiting',
         \A i \in Nat : Carried(i)' = Carried(i) + AtMostOne(i = nextCallId)
                                              - AtMostOne(i \in Returning),
         \A f \in Awaiting \ Awaiting' : f.call \in Returning
  PROVE  IdsInv'
<1>0. nextCallId \in Nat /\ nextCallId <= nextCallId'
  BY AwaitingTypes
<1>1. \A i \in Nat : i < nextCallId => Carried(i)' <= Carried(i)
  <2>. SUFFICES ASSUME NEW i \in Nat, i < nextCallId PROVE Carried(i)' <= Carried(i)
    OBVIOUS
  <2>1. AtMostOne(i = nextCallId) = 0
    BY <1>0 DEF AtMostOne
  <2>. QED BY <2>1, CarriedIsNumber DEF AtMostOne
<1>2. \A i \in Nat : i >= nextCallId => Carried(i)' <= AtMostOne(i < nextCallId')
  <2>. SUFFICES ASSUME NEW i \in Nat, i >= nextCallId
                PROVE  Carried(i)' <= AtMostOne(i < nextCallId')
    OBVIOUS
  <2>1. Carried(i) = 0
    BY FreshIsNotCarried
  <2>2. i = nextCallId <=> i < nextCallId'
    BY <1>0
  <2>. QED BY <2>1, <2>2 DEF AtMostOne
<1>3. \A f \in Awaiting \ Awaiting' : Carried(f.call)' = 0
  <2>. SUFFICES ASSUME NEW f \in Awaiting \ Awaiting' PROVE Carried(f.call)' = 0
    OBVIOUS
  <2>1. f.call \in Nat /\ f.call < nextCallId /\ f.call \in Returning
    BY AwaitingTypes DEF IdsInv
  <2>2. Carried(f.call) <= 1 /\ Carried(f.call) \in Nat /\ Carried(f.call)' \in Nat
    BY <2>1, CarriedIsNumber, CarriedNext DEF IdsInv, AtMostOne
  <2>3. AtMostOne(f.call = nextCallId) = 0 /\ AtMostOne(f.call \in Returning) = 1
    BY <1>0, <2>1 DEF AtMostOne
  <2>4. Carried(f.call)' = Carried(f.call) + 0 - 1
    BY <2>1, <2>3
  <2>. QED BY <2>2, <2>4
<1>4. \A i \in Nat : (i >= nextCallId /\ Carried(i)' # 0) => \E f \in Awaiting' : f.call = i
  <2>. SUFFICES ASSUME NEW i \in Nat, i >= nextCallId, Carried(i)' # 0 PROVE i = nextCallId
    OBVIOUS
  <2>1. Carried(i) = 0 /\ Carried(i)' \in Nat
    BY FreshIsNotCarried, CarriedNext
  <2>2. CASE i # nextCallId
    <3>1. Carried(i)' = 0 + 0 - AtMostOne(i \in Returning)
      BY <2>1, <2>2 DEF AtMostOne
    <3>2. AtMostOne(i \in Returning) \in Nat
      BY DEF AtMostOne
    <3>. QED BY <2>1, <3>1, <3>2
  <2>. QED BY <2>2
<1>5. PICK N : N = {e}
  OBVIOUS
<1>6. /\ \A f \in N : f.call \in Nat /\ nextCallId <= f.call /\ f.call < nextCallId'
      /\ \A f, g \in N : f.call = g.call => f = g
  BY <1>0, <1>5
<1>7. Awaiting' \subseteq Awaiting \cup N
  BY <1>5
<1>8. Live' => /\ Live
               /\ \A f \in Awaiting \ Awaiting' : Carried(f.call)' = 0
               /\ \A i \in Nat : (i >= nextCallId /\ Carried(i)' # 0) =>
                                   \E f \in Awaiting' : f.call = i
  BY <1>3, <1>4
<1>. QED BY <1>0, <1>1, <1>2, <1>6, <1>7, <1>8, IdsStep

(* The entries of lines that a step does not touch are driven as before. *)
LEMMA LinesOn ==
  ASSUME TypeOK, TypeOK', CallInv, phase = "loop", NEW e \in simCalls,
         Team(e.line) \subseteq registry', e.call \notin Returning,
         \A i \in Nat : Carried(i)' = Carried(i) + AtMostOne(i = nextCallId)
                                              - AtMostOne(i \in Returning),
         \A c \in Components, i \in Nat : i # nextCallId => Busy(c, i)' = Busy(c, i)
  PROVE  Driven(e)'
<1>1. Driven(e) /\ e \in Awaiting
  BY DEF CallInv, LineInv, Awaiting
<1>2. e.call \in Nat /\ e.call < nextCallId /\ nextCallId \in Nat
  BY <1>1, AwaitingTypes DEF CallInv, IdsInv
<1>3. e.call # nextCallId
  BY <1>2
<1>4. Carried(e.call)' = Carried(e.call)
  <2>1. AtMostOne(e.call = nextCallId) = 0 /\ AtMostOne(e.call \in Returning) = 0
    BY <1>3 DEF AtMostOne
  <2>. QED BY <1>2, <2>1, CarriedIsNumber
<1>5. \A c \in Components : Busy(c, e.call)' # 0 => Busy(c, e.call) # 0
  BY <1>2, <1>3
<1>. QED BY <1>1, <1>4, <1>5, DrivenOn

LEMMA HeadTypes ==
  ASSUME TypeOK, msgList # <<>>
  PROVE  /\ Head(msgList) \in Messages
         /\ Head(msgList).type = "result" => Head(msgList).call \in Nat
         /\ Head(msgList).type = "create_simulation" => Head(msgList).sim \in Sims
<1>1. Head(msgList) \in Messages
  BY HeadOfBatch DEF TypeOK
<1>2. \A m \in Messages : /\ m.type = "result" => m.call \in Nat
                          /\ m.type = "create_simulation" => m.sim \in Sims
  BY DEF Messages, Results, Requests, Waits, Launches
<1>. QED BY <1>1, <1>2

(* A call that returns is awaited by at most one, and was handed out. *)
LEMMA ReturningOne ==
  ASSUME TypeOK, IdsInv, msgList # <<>>
  PROVE  /\ \A i \in Returning : i < nextCallId /\ i = Head(msgList).call /\ i \in Nat
         /\ \A i \in Returning : Carried(i) = 1
         /\ \A e, f \in Awaiting : (e.call \in Returning /\ f.call \in Returning) => e = f
<1>1. ASSUME NEW i \in Returning
      PROVE  i < nextCallId /\ i = Head(msgList).call /\ i \in Nat /\ Carried(i) = 1
  <2>1. i \in Nat /\ Head(msgList).type = "result" /\ Head(msgList).call = i
    BY DEF Returning
  <2>2. Carried(i) >= 1 /\ Carried(i) \in Nat
    BY <2>1, CarriedAtLeast, CarriedIsNumber
  <2>3. Carried(i) <= AtMostOne(i < nextCallId)
    BY <2>1 DEF IdsInv
  <2>4. i < nextCallId
    BY <2>2, <2>3 DEF AtMostOne
  <2>. QED BY <2>1, <2>2, <2>3, <2>4 DEF AtMostOne
<1>2. \A e, f \in Awaiting : (e.call \in Returning /\ f.call \in Returning) => e = f
  BY <1>1 DEF IdsInv
<1>. QED BY <1>1, <1>2

LEMMA HandedOutLost ==
  ASSUME TypeOK, CallInv, msgList # <<>>,
         \A i \in Nat : Carried(i)' = Carried(i) + AtMostOne(i = nextCallId)
                                              - AtMostOne(i \in Returning),
         \A o \in outstandingCalls' : o \in outstandingCalls \/ o.call = nextCallId,
         \A o \in outstandingCalls' : o.call \notin Returning,
         \A c \in Components : state[c] = "dead" => state'[c] = "dead"
  PROVE  LostInv'
<1>. SUFFICES ASSUME NEW o \in outstandingCalls', Carried(o.call)' = 0 PROVE SomeDead'
  BY DEF LostInv
<1>1. AtMostOne(o.call \in Returning) = 0 /\ nextCallId \in Nat
  BY AwaitingTypes DEF AtMostOne
<1>2. CASE o \in outstandingCalls /\ o.call # nextCallId
  <2>1. o.call \in Nat
    BY <1>2, AwaitingTypes DEF Awaiting
  <2>2. AtMostOne(o.call = nextCallId) = 0
    BY <1>2 DEF AtMostOne
  <2>3. Carried(o.call)' = Carried(o.call) + 0 - 0
    BY <1>1, <2>1, <2>2
  <2>4. Carried(o.call) = 0
    BY <2>3, CarriedIsNumber
  <2>5. SomeDead
    BY <1>2, <2>4 DEF CallInv, LostInv
  <2>. QED BY <2>5 DEF SomeDead
<1>3. CASE o.call = nextCallId
  <2>1. PICK i \in Nat : i = nextCallId /\ i = o.call
    BY <1>1, <1>3
  <2>2. AtMostOne(i = nextCallId) = 1
    BY <2>1 DEF AtMostOne
  <2>3. AtMostOne(i \in Returning) = 0
    BY <1>1, <2>1
  <2>4. Carried(i)' = Carried(i) + 1 - 0
    BY <2>2, <2>3
  <2>5. Carried(i)' # 0
    BY <2>4, CarriedIsNumber
  <2>. QED BY <2>1, <2>5
<1>. QED BY <1>2, <1>3

LEMMA InitCallCalls ==
  ASSUME TypeOK, TypeOK', EarlyInv, CallInv, HandleInitCall
  PROVE  CallInv'
<1>. DEFINE m == Head(msgList)
<1>0. /\ msgList # <<>> /\ m.type = "init_call" /\ m.type # "result"
      /\ UNCHANGED <<inQueue, fwkCalls, simCalls, current>> /\ nextCallId' = nextCallId + 1
  BY Zenon DEF HandleInitCall, Working, clientVars
<1>1. phase = "loop" /\ nextCallId \in Nat /\ nextCallId <= nextCallId'
  BY <1>0, RequestsInLoop, AwaitingTypes
<1>2. CASE /\ m.callee \in registry /\ m.from \in registry
           /\ invocationQ' = [invocationQ EXCEPT ![m.callee] =
                                Append(@, [call |-> nextCallId, method |-> "step"])]
           /\ outstandingCalls' = outstandingCalls \cup Managed(nextCallId, m.from)
           /\ msgList' = Tail(msgList)
           /\ UNCHANGED <<phase, registry, state>>
  <2>1. PICK v : v = [call |-> nextCallId, method |-> "step"]
    OBVIOUS
  <2>2. PICK d : d = m.callee
    OBVIOUS
  <2>3. PICK e : e = [call |-> nextCallId, caller |-> m.from]
    OBVIOUS
  <2>4. v \in Invocation /\ v.call = nextCallId /\ d \in registry /\ d \in Components
    BY <1>1, <1>2, <2>1, <2>2 DEF Invocation, TypeOK, SimType
  <2>5. invocationQ \in [Components -> Seq(Invocation)]
    BY DEF TypeOK, QueueType
  <2>6. /\ invocationQ'[d] = Append(invocationQ[d], v)
        /\ \A c \in Components \ {d} : invocationQ'[c] = invocationQ[c]
    BY <1>2, <2>1, <2>2, <2>4, <2>5
  <2>7. \A c \in Components : (AtWork(c)' <=> AtWork(c))
    BY <1>2 DEF AtWork
  <2>8. IdsInv /\ UNCHANGED <<inQueue, current>> /\ msgList' = Tail(msgList)
    BY <1>0, <1>2 DEF CallInv
  <2>9. /\ \A i \in Nat : Carried(i)' = Carried(i) + AtMostOne(i = nextCallId)
                                              - AtMostOne(i \in Returning)
        /\ \A c \in Components, i \in Nat : i # nextCallId => Busy(c, i)' = Busy(c, i)
    BY <1>0, <2>4, <2>6, <2>7, <2>8, HandedOut, Zenon
  <2>10. outstandingCalls' = outstandingCalls \cup {e}
    BY <1>2, <2>3 DEF Managed
  <2>11. Returning = {}
    BY <1>0 DEF Returning
  <2>12. IdsInv'
    <3>1. Awaiting' = Awaiting \cup {e}
      BY <1>0, <2>10 DEF Awaiting
    <3>2. Awaiting' \subseteq Awaiting \cup {e} /\ e \in Awaiting' /\ e.call = nextCallId
      BY <2>3, <3>1
    <3>3. \A f \in Awaiting \ Awaiting' : f.call \in Returning
      BY <3>1
    <3>4. Live
      BY <1>1 DEF Live
    <3>. QED BY <1>0, <2>8, <2>9, <3>2, <3>3, <3>4, HandedOutIds
  <2>13. LineInv'
    <3>1. \A f \in simCalls : Driven(f)'
      <4>. SUFFICES ASSUME NEW f \in simCalls PROVE Driven(f)'
        OBVIOUS
      <4>1. Team(f.line) \subseteq registry'
        BY <1>1, <1>2 DEF CallInv, LineInv, Driven
      <4>2. f.call \notin Returning
        BY <2>11
      <4>. QED BY <1>1, <2>9, <4>1, <4>2, LinesOn
    <3>2. \A c \in Components \ registry : invocationQ'[c] = <<>>
      BY <2>4, <2>6 DEF CallInv, LineInv
    <3>. QED BY <1>0, <1>1, <1>2, <3>1, <3>2 DEF CallInv, LineInv
  <2>14. LostInv'
    <3>1. /\ \A o \in outstandingCalls' : o \in outstandingCalls \/ o.call = nextCallId
          /\ \A o \in outstandingCalls' : o.call \notin Returning
          /\ \A c \in Components : state[c] = "dead" => state'[c] = "dead"
      BY <1>2, <2>3, <2>10, <2>11
    <3>. QED BY <1>0, <2>9, <3>1, HandedOutLost
  <2>. QED BY <2>12, <2>13, <2>14 DEF CallInv
<1>3. CASE /\ outstandingCalls' = outstandingCalls \cup Managed(nextCallId, m.from)
           /\ TerminateAll("aborted")
  BY <1>0, <1>1, <1>3, OverCalls
<1>4. CASE Respond(m.from, FALSE, 0) /\ UNCHANGED outstandingCalls
  BY <1>0, <1>1, <1>4, RespondCalls, Zenon
<1>. QED BY <1>0, <1>2, <1>3, <1>4, Zenon DEF HandleInitCall

LEMMA RequestCalls ==
  ASSUME TypeOK, TypeOK', EarlyInv, CallInv, HandleWaitCall \/ HandleInitTask \/ HandleFinishTask
  PROVE  CallInv'
<1>. DEFINE m == Head(msgList)
<1>0. /\ msgList # <<>> /\ m.type # "result"
      /\ UNCHANGED <<inQueue, fwkCalls, simCalls, outstandingCalls, nextCallId, current>>
  BY Zenon DEF HandleWaitCall, HandleInitTask, HandleFinishTask, Working, clientVars, callVars
<1>1. nextCallId <= nextCallId'
  BY <1>0, AwaitingTypes
<1>2. CASE \E ok, val : Respond(m.from, ok, val)
  BY <1>0, <1>1, <1>2, RespondCalls
<1>3. CASE Block(m) /\ UNCHANGED <<phase, registry, state, invocationQ>>
  <2>1. msgList' = Tail(msgList)
    BY <1>3 DEF Block
  <2>. QED BY <1>0, <1>1, <1>3, <2>1, QuietHead
<1>. QED BY <1>2, <1>3, Zenon DEF HandleWaitCall, HandleInitTask, HandleFinishTask

LEMMA TeamOfSim ==
  ASSUME NEW s \in Sims
  PROVE  Team(s) = MembersOf(s)
<1>1. \A c \in FwkComps : c # s
  BY ComponentAssumption
<1>. QED BY <1>1, ComponentAssumption DEF Team, MembersOf, LineOf, Components

LEMMA CreateSimCalls ==
  ASSUME TypeOK, TypeOK', RequestInv, EarlyInv, CallInv, HandleCreateSim
  PROVE  CallInv'
<1>. DEFINE m == Head(msgList)
            members == MembersOf(m.sim)
            first == Head(Invocations(m.sim))
            fresh == \A c \in members : state[c] = "absent"
<1>0. /\ msgList # <<>> /\ m.type = "create_simulation" /\ m.type # "result"
      /\ UNCHANGED <<inQueue, fwkCalls, outstandingCalls, current>>
  BY Zenon DEF HandleCreateSim, Working, clientVars
<1>1. phase = "loop" /\ nextCallId \in Nat /\ m.sim \in Sims /\ Returning = {}
  BY <1>0, RequestsInLoop, AwaitingTypes, HeadTypes DEF Returning
<1>2. /\ state \in [Components -> {"absent", "idle", "running", "waiting", "dead"}]
      /\ invocationQ \in [Components -> Seq(Invocation)] /\ registry \subseteq Components
  BY DEF TypeOK, QueueType, SimType
<1>3. CASE /\ fresh /\ registry' = registry \cup members
           /\ state' = [c \in Components |-> IF c \in members THEN "idle" ELSE state[c]]
           /\ msgList' = Tail(msgList)
           /\ \/ UNCHANGED <<nextCallId, simCalls, invocationQ>>
              \/ /\ nextCallId' = nextCallId + 1
                 /\ simCalls' = simCalls \cup {Entry(m.sim, nextCallId)}
                 /\ invocationQ' = [invocationQ EXCEPT ![first.comp] =
                                      Append(@, [call |-> nextCallId, method |-> first.method])]
           /\ UNCHANGED phase
  <2>1. \A c \in Components : (AtWork(c)' <=> AtWork(c))
    BY <1>2, <1>3, Zenon DEF AtWork
  <2>2. \A c \in Components : state[c] = "dead" => state'[c] = "dead"
    BY <1>2, <1>3, Zenon
  <2>3. CASE UNCHANGED <<nextCallId, simCalls, invocationQ>>
    <3>1. \A c \in Components, i \in Nat : Busy(c, i)' = Busy(c, i)
      <4>. SUFFICES ASSUME NEW c \in Components, NEW i \in Nat PROVE Busy(c, i)' = Busy(c, i)
        OBVIOUS
      <4>1. (AtWork(c)' <=> AtWork(c)) /\ invocationQ'[c] = invocationQ[c] /\ current'[c] = current[c]
        BY <1>0, <2>1, <2>3
      <4>. QED BY <4>1, UntouchedBusy
    <3>2. \A i \in Nat : Carried(i)' = Carried(i)
      <4>. SUFFICES ASSUME NEW i \in Nat PROVE Carried(i)' = Carried(i)
        OBVIOUS
      <4>1. AllBusy(i)' = AllBusy(i) + 0
        <5>1. AllBusy(i)' = AllBusy(i)
          BY <3>1, SameBusy
        <5>. QED BY <5>1, CarriedIsNumber
      <4>2. msgList' = Tail(msgList) /\ UNCHANGED inQueue
        BY <1>0, <1>3, Zenon
      <4>3. Carried(i)' = Carried(i) + 0 - AtMostOne(i \in Returning)
        BY <1>0, <4>1, <4>2, HeadTaken
      <4>. QED BY <1>1, <4>3, CarriedIsNumber DEF AtMostOne
    <3>3. \A c \in Components, i \in Nat : Busy(c, i)' <= Busy(c, i)
      BY <3>1, BusyIsNumber
    <3>4. \A c \in Components \ registry' : invocationQ'[c] = <<>>
      BY <1>3, <2>3 DEF CallInv, LineInv
    <3>5. UNCHANGED <<phase, fwkCalls, simCalls, outstandingCalls>> /\ registry \subseteq registry'
          /\ nextCallId <= nextCallId'
      BY <1>0, <1>1, <1>3, <2>3
    <3>. QED BY <2>2, <3>2, <3>3, <3>4, <3>5, CalmCalls
  <2>4. CASE /\ nextCallId' = nextCallId + 1
             /\ simCalls' = simCalls \cup {Entry(m.sim, nextCallId)}
             /\ invocationQ' = [invocationQ EXCEPT ![first.comp] =
                                  Append(@, [call |-> nextCallId, method |-> first.method])]
    <3>1. PICK v : v = [call |-> nextCallId, method |-> first.method]
      OBVIOUS
    <3>2. PICK d : d = first.comp
      OBVIOUS
    <3>3. PICK s \in Sims : s = m.sim
      BY <1>1
    <3>4. PICK e : e = Entry(s, nextCallId)
      OBVIOUS
    <3>5. s \in Lines
      BY DEF Lines
    <3>6. Head(Invocations(s)) \in Target /\ Head(Invocations(s)) \in TargetsOf(s)
      BY <3>5, InvocationsType, InvocationsTeam
    <3>7. v \in Invocation /\ v.call = nextCallId /\ d \in Components /\ d \in Team(s)
      BY <1>1, <3>1, <3>2, <3>3, <3>6 DEF Invocation, Target, TargetsOf
    <3>8. /\ invocationQ'[d] = Append(invocationQ[d], v)
          /\ \A c \in Components \ {d} : invocationQ'[c] = invocationQ[c]
      BY <1>2, <2>4, <3>1, <3>2, <3>7, Zenon
    <3>9. IdsInv /\ UNCHANGED <<inQueue, current>> /\ msgList' = Tail(msgList)
      BY <1>0, <1>3, Zenon DEF CallInv
    <3>10. /\ \A i \in Nat : Carried(i)' = Carried(i) + AtMostOne(i = nextCallId)
                                                - AtMostOne(i \in Returning)
           /\ \A c \in Components, i \in Nat : i # nextCallId => Busy(c, i)' = Busy(c, i)
           /\ \A c \in Components, i \in Nat : (i = nextCallId /\ Busy(c, i)' # 0) => c = d
           /\ Carried(nextCallId) = 0
      BY <1>0, <2>1, <3>7, <3>8, <3>9, HandedOut
    <3>11. /\ e.line = s /\ e.call = nextCallId
           /\ e.inv \in TargetsOf(s) /\ e.queue \in Seq(TargetsOf(s))
      BY <3>4, <3>5, EntryDriven
    <3>12. simCalls' = simCalls \cup {e}
      BY <2>4, <3>3, <3>4, Zenon
    <3>13. IdsInv'
      <4>1. Awaiting' = Awaiting \cup {e}
        BY <1>0, <3>12 DEF Awaiting
      <4>2. Awaiting' \subseteq Awaiting \cup {e} /\ e \in Awaiting'
        BY <4>1
      <4>3. \A f \in Awaiting \ Awaiting' : f.call \in Returning
        BY <4>1
      <4>4. Live
        BY <1>1 DEF Live
      <4>. QED BY <2>4, <3>9, <3>10, <3>11, <4>2, <4>3, <4>4, HandedOutIds, Zenon
    <3>14. Team(s) = members
      BY <3>3, TeamOfSim
    <3>15. \A f \in simCalls : Driven(f)' /\ f.line # s
      <4>. SUFFICES ASSUME NEW f \in simCalls PROVE Driven(f)' /\ f.line # s
        OBVIOUS
      <4>1. Driven(f)
        BY <1>1 DEF CallInv, LineInv
      <4>2. Team(f.line) \subseteq registry'
        BY <1>3, <4>1, Zenon DEF Driven
      <4>3. f.call \notin Returning
        BY <1>1
      <4>4. Driven(f)'
        BY <1>1, <3>10, <4>2, <4>3, LinesOn
      <4>5. f.line # s
        <5>1. state[d] = "absent" /\ d \notin registry
          BY <1>3, <3>7, <3>14, Zenon DEF RequestInv, RegistryInv
        <5>. QED BY <3>7, <4>1, <5>1 DEF Driven
      <4>. QED BY <4>4, <4>5
    <3>16. Driven(e)'
      <4>1. PICK i \in Nat : i = nextCallId /\ i = e.call
        BY <1>1, <3>11
      <4>2. Carried(i)' = 1
        <5>1. AtMostOne(i = nextCallId) = 1 /\ AtMostOne(i \in Returning) = 0
          BY <1>1, <4>1 DEF AtMostOne
        <5>2. Carried(i)' = Carried(i) + 1 - 0
          BY <3>10, <5>1
        <5>3. Carried(i) = 0
          BY <3>10, <4>1
        <5>. QED BY <5>2, <5>3
      <4>3. \A c \in Components : Busy(c, i)' # 0 => c \in Team(e.line)
        BY <3>7, <3>10, <3>11, <4>1
      <4>4. Team(e.line) \subseteq registry'
        BY <1>3, <3>11, <3>14, Zenon
      <4>. QED BY <3>11, <4>1, <4>2, <4>3, <4>4 DEF Driven
    <3>17. LineInv'
      <4>1. \A c \in Components \ registry' : invocationQ'[c] = <<>>
        <5>1. d \in registry'
          BY <1>3, <3>7, <3>14, Zenon
        <5>. QED BY <1>3, <3>8, <5>1, Zenon DEF CallInv, LineInv
      <4>2. \A f, g \in simCalls' : f.line = g.line => f = g
        BY <1>1, <3>11, <3>12, <3>15 DEF CallInv, LineInv
      <4>3. \A f \in simCalls' : Driven(f)'
        BY <3>12, <3>15, <3>16
      <4>. QED BY <4>1, <4>2, <4>3 DEF LineInv
    <3>18. LostInv'
      <4>1. /\ \A o \in outstandingCalls' : o \in outstandingCalls \/ o.call = nextCallId
            /\ \A o \in outstandingCalls' : o.call \notin Returning
        BY <1>0, <1>1
      <4>. QED BY <1>0, <2>2, <3>10, <4>1, HandedOutLost
    <3>. QED BY <3>13, <3>17, <3>18 DEF CallInv
  <2>. QED BY <1>3, <2>3, <2>4, Zenon
<1>4. CASE Respond(m.from, FALSE, 0) /\ UNCHANGED <<nextCallId, simCalls>>
  <2>1. nextCallId <= nextCallId'
    BY <1>1, <1>4
  <2>. QED BY <1>0, <1>4, <2>1, RespondCalls, Zenon
<1>. QED BY <1>0, <1>3, <1>4, Zenon DEF HandleCreateSim

(* Handling a result takes the call back and drops the one that awaits it. *)
LEMMA TakenBack ==
  ASSUME TypeOK, TypeOK', CallInv, Live, msgList # <<>>, msgList' = Tail(msgList),
         UNCHANGED inQueue, nextCallId <= nextCallId',
         \A i \in Nat : AllBusy(i)' <= AllBusy(i),
         Awaiting' \subseteq Awaiting, \A f \in Awaiting \ Awaiting' : f.call \in Returning
  PROVE  IdsInv'
<1>0. nextCallId \in Nat /\ IdsInv
  BY AwaitingTypes DEF CallInv
<1>1. ASSUME NEW i \in Nat
      PROVE  /\ Carried(i)' <= Carried(i)
             /\ i \in Returning => Carried(i)' = 0
  <2>1. AllBusy(i) \in Nat /\ Carried(i) \in Nat
    BY CarriedIsNumber
  <2>2. AllBusy(i)' \in Nat
    BY BusyNext
  <2>3. Carried(i)' \in Nat
    BY CarriedNext
  <2>4. PICK k \in Int : k = AllBusy(i)' - AllBusy(i)
    BY <2>1, <2>2
  <2>5. AllBusy(i)' = AllBusy(i) + k /\ k <= 0
    BY <2>1, <2>2, <2>4
  <2>6. Carried(i)' = Carried(i) + k - AtMostOne(i \in Returning)
    BY <2>5, HeadTaken
  <2>7. i \in Returning => Carried(i) = 1
    BY <1>0, ReturningOne
  <2>. QED BY <2>1, <2>3, <2>5, <2>6, <2>7 DEF AtMostOne
<1>2. \A f \in Awaiting \ Awaiting' : Carried(f.call)' = 0
  <2>. SUFFICES ASSUME NEW f \in Awaiting \ Awaiting' PROVE Carried(f.call)' = 0
    OBVIOUS
  <2>1. f.call \in Nat
    BY AwaitingTypes
  <2>. QED BY <1>1, <2>1
<1>3. \A i \in Nat : i >= nextCallId => Carried(i)' = 0
  <2>. SUFFICES ASSUME NEW i \in Nat, i >= nextCallId PROVE Carried(i)' = 0
    OBVIOUS
  <2>1. Carried(i) = 0
    BY <1>0, FreshIsNotCarried
  <2>2. Carried(i)' \in Nat
    BY CarriedNext
  <2>. QED BY <1>1, <2>1, <2>2
<1>4. PICK N : N = {}
  OBVIOUS
<1>5. /\ Awaiting' \subseteq Awaiting \cup N
      /\ \A e \in N : e.call \in Nat /\ nextCallId <= e.call /\ e.call < nextCallId'
      /\ \A e, f \in N : e.call = f.call => e = f
  BY <1>4
<1>6. \A i \in Nat : i < nextCallId => Carried(i)' <= Carried(i)
  BY <1>1
<1>7. \A i \in Nat : i >= nextCallId => Carried(i)' <= AtMostOne(i < nextCallId')
  BY <1>3 DEF AtMostOne
<1>8. Live' => /\ Live
               /\ \A e \in Awaiting \ Awaiting' : Carried(e.call)' = 0
               /\ \A i \in Nat : (i >= nextCallId /\ Carried(i)' # 0) =>
                                   \E e \in Awaiting' : e.call = i
  BY <1>2, <1>3
<1>. QED BY <1>0, <1>5, <1>6, <1>7, <1>8, IdsStep, Zenon

(* Of a call that does not return, everything is as before, where nobody   *)
(* who carries it is touched.                                              *)
LEMMA CarriedOn ==
  ASSUME TypeOK, msgList # <<>>, msgList' = Tail(msgList), UNCHANGED inQueue,
         NEW i \in Nat, i \notin Returning, \A c \in Components : Busy(c, i)' = Busy(c, i)
  PROVE  Carried(i)' = Carried(i)
<1>1. AllBusy(i)' = AllBusy(i)
  BY SameBusy
<1>2. AllBusy(i)' = AllBusy(i) + 0
  BY <1>1, CarriedIsNumber
<1>3. Carried(i)' = Carried(i) + 0 - AtMostOne(i \in Returning)
  BY <1>2, HeadTaken
<1>. QED BY <1>3, CarriedIsNumber DEF AtMostOne

LEMMA AllCalm ==
  ASSUME TypeOK, UNCHANGED <<state, invocationQ, current>>
  PROVE  /\ \A c \in Components, i \in Nat : Busy(c, i)' = Busy(c, i)
         /\ \A i \in Nat : AllBusy(i)' <= AllBusy(i)
<1>1. \A c \in Components, i \in Nat : Busy(c, i)' = Busy(c, i)
  <2>. SUFFICES ASSUME NEW c \in Components, NEW i \in Nat PROVE Busy(c, i)' = Busy(c, i)
    OBVIOUS
  <2>1. (AtWork(c)' <=> AtWork(c)) /\ invocationQ'[c] = invocationQ[c] /\ current'[c] = current[c]
    BY DEF AtWork
  <2>. QED BY <2>1, UntouchedBusy
<1>2. ASSUME NEW i \in Nat PROVE AllBusy(i)' <= AllBusy(i)
  <2>1. AllBusy(i)' = AllBusy(i)
    BY <1>1, SameBusy
  <2>. QED BY <2>1, CarriedIsNumber
<1>. QED BY <1>1, <1>2

LEMMA LinesAfterResult ==
  ASSUME TypeOK, CallInv, msgList # <<>>, msgList' = Tail(msgList), UNCHANGED inQueue,
         phase = "loop", simCalls' \subseteq simCalls,
         \A f \in simCalls' : /\ f.call \notin Returning /\ Team(f.line) \subseteq registry'
                              /\ \A c \in Components : Busy(c, f.call)' = Busy(c, f.call),
         \A c \in Components \ registry' : invocationQ'[c] = <<>>
  PROVE  LineInv'
<1>1. ASSUME NEW f \in simCalls' PROVE Driven(f)'
  <2>1. Driven(f) /\ f.call \in Nat
    BY AwaitingTypes DEF CallInv, LineInv, Awaiting
  <2>2. Carried(f.call)' = Carried(f.call)
    BY <2>1, CarriedOn
  <2>. QED BY <2>1, <2>2, DrivenOn
<1>. QED BY <1>1 DEF CallInv, LineInv

LEMMA LostAfterResult ==
  ASSUME TypeOK, CallInv, msgList # <<>>, msgList' = Tail(msgList), UNCHANGED inQueue,
         outstandingCalls' \subseteq outstandingCalls,
         \A o \in outstandingCalls' : o.call \notin Returning,
         SomeDead => SomeDead',
         ~SomeDead' => \A c \in Components, i \in Nat : Busy(c, i)' = Busy(c, i)
  PROVE  LostInv'
<1>. SUFFICES ASSUME NEW o \in outstandingCalls', Carried(o.call)' = 0, ~SomeDead' PROVE FALSE
  BY DEF LostInv
<1>1. o.call \in Nat
  BY AwaitingTypes DEF Awaiting
<1>2. Carried(o.call)' = Carried(o.call)
  BY <1>1, CarriedOn
<1>. QED BY <1>2 DEF CallInv, LostInv

LEMMA ReturnCallCalls ==
  ASSUME TypeOK, TypeOK', CallInv, HandleReturnCall
  PROVE  CallInv'
<1>. DEFINE m == Head(msgList)
<1>0. /\ msgList # <<>> /\ m.type = "result" /\ msgList' = Tail(msgList) /\ phase = "loop"
      /\ UNCHANGED <<phase, inQueue, fwkCalls, simCalls, registry, nextCallId>>
      /\ UNCHANGED <<state, invocationQ, current>>
      /\ \A e \in simCalls : e.call # m.call
  BY DEF HandleReturnCall, Working, simVars, compVars, clientVars
<1>1. PICK o \in outstandingCalls : o.call = m.call /\ outstandingCalls' = outstandingCalls \ {o}
  BY DEF HandleReturnCall
<1>2. /\ \A c \in Components, i \in Nat : Busy(c, i)' = Busy(c, i)
      /\ \A i \in Nat : AllBusy(i)' <= AllBusy(i)
  BY <1>0, AllCalm
<1>3. o \in Awaiting /\ o.call \in Returning
  BY <1>0, <1>1, HeadTypes DEF Awaiting, Returning
<1>4. \A f \in Awaiting : f.call \in Returning => f = o
  BY <1>0, <1>3, ReturningOne DEF CallInv
<1>5. IdsInv'
  <2>1. Awaiting' \subseteq Awaiting /\ \A f \in Awaiting \ Awaiting' : f.call \in Returning
    BY <1>0, <1>1, <1>3 DEF Awaiting
  <2>2. Live /\ nextCallId <= nextCallId'
    BY <1>0, AwaitingTypes DEF Live
  <2>. QED BY <1>0, <1>2, <2>1, <2>2, TakenBack
<1>6. LineInv'
  <2>1. ASSUME NEW f \in simCalls'
        PROVE  /\ f.call \notin Returning /\ Team(f.line) \subseteq registry'
               /\ \A c \in Components : Busy(c, f.call)' = Busy(c, f.call)
    <3>1. f \in simCalls /\ Driven(f) /\ f.call \in Nat
      BY <1>0, AwaitingTypes DEF CallInv, LineInv, Awaiting
    <3>2. f.call \notin Returning
      BY <1>0, <3>1 DEF Returning
    <3>. QED BY <1>0, <1>2, <3>1, <3>2 DEF Driven
  <2>2. \A c \in Components \ registry' : invocationQ'[c] = <<>>
    BY <1>0 DEF CallInv, LineInv
  <2>3. simCalls' \subseteq simCalls
    BY <1>0
  <2>. QED BY <1>0, <2>1, <2>2, <2>3, LinesAfterResult
<1>7. LostInv'
  <2>1. outstandingCalls' \subseteq outstandingCalls
        /\ \A f \in outstandingCalls' : f.call \notin Returning
    BY <1>1, <1>4 DEF Awaiting
  <2>2. SomeDead => SomeDead'
    BY <1>0 DEF SomeDead
  <2>. QED BY <1>0, <1>2, <2>1, <2>2, LostAfterResult
<1>. QED BY <1>5, <1>6, <1>7 DEF CallInv

LEMMA InitResultCalls ==
  ASSUME TypeOK, TypeOK', EarlyInv, CallInv, HandleInitResult
  PROVE  CallInv'
<1>. DEFINE m == Head(msgList)
<1>0. /\ msgList # <<>> /\ m.type = "result" /\ phase = "init"
      /\ UNCHANGED <<inQueue, simCalls, outstandingCalls, nextCallId, current>>
      /\ outstandingCalls = {} /\ nextCallId <= nextCallId'
  BY AwaitingTypes DEF HandleInitResult, Working, clientVars, callVars, EarlyInv
<1>1. CASE TerminateAll("aborted") /\ UNCHANGED fwkCalls
  BY <1>0, <1>1, OverCalls
<1>2. ASSUME NEW e \in fwkCalls, e.call = m.call, fwkCalls' = fwkCalls \ {e},
             msgList' = Tail(msgList), UNCHANGED <<phase, registry, state, invocationQ>>
      PROVE  CallInv'
  <2>1. /\ \A c \in Components, i \in Nat : Busy(c, i)' = Busy(c, i)
        /\ \A i \in Nat : AllBusy(i)' <= AllBusy(i)
    BY <1>0, <1>2, AllCalm
  <2>2. e \in Awaiting /\ e.call \in Returning
    BY <1>0, <1>2, HeadTypes DEF Awaiting, Returning
  <2>3. IdsInv'
    <3>1. Awaiting' \subseteq Awaiting /\ \A f \in Awaiting \ Awaiting' : f.call \in Returning
      BY <1>0, <1>2, <2>2 DEF Awaiting
    <3>2. Live
      BY <1>0 DEF Live
    <3>. QED BY <1>0, <1>2, <2>1, <3>1, <3>2, TakenBack
  <2>4. LineInv'
    BY <1>0, <1>2 DEF CallInv, LineInv
  <2>5. LostInv'
    BY <1>0 DEF LostInv
  <2>. QED BY <2>3, <2>4, <2>5 DEF CallInv
<1>. QED BY <1>1, <1>2 DEF HandleInitResult

LEMMA EndRunCalls ==
  ASSUME TypeOK, TypeOK', EarlyInv, CallInv, EndRun
  PROVE  CallInv'
<1>1. /\ phase = "loop" /\ TerminateAll("ended") /\ nextCallId <= nextCallId'
      /\ UNCHANGED <<inQueue, current, fwkCalls, simCalls>> /\ UNCHANGED outstandingCalls
  BY AwaitingTypes DEF EndRun, callVars, clientVars
<1>. QED BY <1>1, OverCalls

LEMMA GetMessageCalls ==
  ASSUME TypeOK, TypeOK', CallInv, GetMessage
  PROVE  CallInv'
<1>0. /\ UNCHANGED <<phase, fwkCalls, simCalls, outstandingCalls, registry, nextCallId>>
      /\ UNCHANGED <<state, invocationQ, current>> /\ nextCallId <= nextCallId'
  BY AwaitingTypes DEF GetMessage, simVars, callVars, compVars, clientVars
<1>1. /\ \A c \in Components, i \in Nat : Busy(c, i)' = Busy(c, i)
      /\ \A i \in Nat : AllBusy(i)' <= AllBusy(i)
  BY <1>0, AllCalm
<1>2. ASSUME NEW i \in Nat PROVE Carried(i)' = Carried(i)
  <2>. DEFINE R == ResultsOf(i)
  <2>1. inQueue # <<>> /\ inQueue \in Seq(Messages) /\ blockedMessages \in Seq(Messages)
    BY QueueTypes DEF GetMessage
  <2>2. Head(inQueue) \in Messages /\ <<Head(inQueue)>> \in Seq(Messages)
        /\ Tail(inQueue) \in Seq(Messages) /\ <<>> \in Seq(Messages)
        /\ <<Head(inQueue)>> = Append(<<>>, Head(inQueue))
    BY <2>1
  <2>3. Occurs(inQueue, R) = Occurs(Tail(inQueue), R) + AtMostOne(Head(inQueue) \in R)
    BY <2>1, OccursAtHead
  <2>4. Occurs(<<Head(inQueue)>>, R) = Occurs(<<>>, R) + AtMostOne(Head(inQueue) \in R)
    BY <2>2, OccursOfOne
  <2>5. Occurs(Batch, R) = Occurs(<<Head(inQueue)>>, R) + Occurs(blockedMessages, R)
    <3>1. PICK h : h = <<Head(inQueue)>>
      OBVIOUS
    <3>2. Occurs(h \o blockedMessages, R) = Occurs(h, R) + Occurs(blockedMessages, R)
      BY <2>1, <2>2, <3>1, OccursConcatenated, Zenon
    <3>. QED BY <3>1, <3>2 DEF Batch
  <2>6. Occurs(<<>>, R) = 0 /\ Occurs(msgList, R) = 0
    BY OccursInNone DEF GetMessage
  <2>7. Occurs(Tail(inQueue), R) \in Nat
    BY <2>2, PlacesFinite
  <2>8. Occurs(blockedMessages, R) = 0
    <3>1. \A j \in DOMAIN blockedMessages : blockedMessages[j] \notin R
      <4>1. blockedMessages \in Seq(Waits \cup Launches)
        BY DEF TypeOK, LoopType
      <4>2. \A m \in Waits \cup Launches : m.type # "result"
        BY DEF Waits, Launches
      <4>. QED BY <4>1, <4>2 DEF ResultsOf
    <3>. QED BY <2>1, <3>1, NoOccurrence
  <2>9. AllBusy(i)' = AllBusy(i)
    BY <1>1, SameBusy
  <2>10. Carried(i)' = AllBusy(i)' + Occurs(Tail(inQueue), R) + Occurs(Batch, R)
    BY DEF Carried, GetMessage
  <2>11. Carried(i) = AllBusy(i) + Occurs(inQueue, R) + Occurs(msgList, R)
    BY DEF Carried
  <2>. HIDE DEF R
  <2>. QED BY <2>3, <2>4, <2>5, <2>6, <2>7, <2>8, <2>9, <2>10, <2>11, CarriedIsNumber DEF AtMostOne
<1>3. \A c \in Components, i \in Nat : Busy(c, i)' <= Busy(c, i)
  BY <1>1, BusyIsNumber
<1>4. \A c \in Components \ registry' : invocationQ'[c] = <<>>
  BY <1>0 DEF CallInv, LineInv
<1>5. /\ registry \subseteq registry' /\ \A c \in Components : state[c] = "dead" => state'[c] = "dead"
      /\ UNCHANGED <<phase, fwkCalls, simCalls, outstandingCalls>>
  BY <1>0
<1>. QED BY <1>0, <1>2, <1>3, <1>4, <1>5, CalmCalls

LEMMA LineResultCalls ==
  ASSUME TypeOK, TypeOK', CallInv, HandleLineResult
  PROVE  CallInv'
<1>. DEFINE m == Head(msgList)
<1>0. /\ msgList # <<>> /\ m.type = "result" /\ msgList' = Tail(msgList) /\ phase = "loop"
      /\ UNCHANGED <<phase, inQueue, fwkCalls, outstandingCalls, registry, state, current>>
      /\ nextCallId' = nextCallId + 1
  BY Zenon DEF HandleLineResult, Working, simVars, clientVars
<1>1. PICK e \in simCalls : 
        /\ e.call = m.call /\ e.queue # <<>>
        /\ simCalls' = (simCalls \ {e}) \cup
             {[call |-> nextCallId, line |-> e.line, inv |-> Pop(e.queue).inv,
               queue |-> Pop(e.queue).queue]}
        /\ invocationQ' = [invocationQ EXCEPT ![Pop(e.queue).inv.comp] =
                             Append(@, [call |-> nextCallId, method |-> Pop(e.queue).inv.method])]
  BY Zenon DEF HandleLineResult
<1>2. /\ state \in [Components -> {"absent", "idle", "running", "waiting", "dead"}]
      /\ invocationQ \in [Components -> Seq(Invocation)] /\ nextCallId \in Nat
  BY AwaitingTypes DEF TypeOK, QueueType
<1>3. PICK h : h = Head(e.queue)
  OBVIOUS
<1>4. PICK t : t = Tail(e.queue)
  OBVIOUS
<1>5. Pop(e.queue).inv = h /\ Pop(e.queue).queue = t
  BY <1>3, <1>4 DEF Pop
<1>6. PICK d : d = h.comp
  OBVIOUS
<1>7. PICK v : v = [call |-> nextCallId, method |-> h.method]
  OBVIOUS
<1>8. PICK g : g = [call |-> nextCallId, line |-> e.line, inv |-> h, queue |-> t]
  OBVIOUS
<1>9. Driven(e)
  BY <1>0 DEF CallInv, LineInv
<1>10. h \in TargetsOf(e.line) /\ t \in Seq(TargetsOf(e.line))
  <2>1. e.queue \in Seq(TargetsOf(e.line)) /\ e.queue # <<>>
    BY <1>1, <1>9 DEF Driven
  <2>2. Head(e.queue) \in TargetsOf(e.line) /\ Tail(e.queue) \in Seq(TargetsOf(e.line))
    BY <2>1, HeadTailProperties
  <2>. QED BY <1>3, <1>4, <2>2
<1>11. v \in Invocation /\ v.call = nextCallId /\ d \in Components /\ d \in Team(e.line)
  BY <1>2, <1>6, <1>7, <1>10 DEF TargetsOf, Target, Invocation
<1>12. d \in registry
  BY <1>9, <1>11 DEF Driven
<1>13. /\ invocationQ'[d] = Append(invocationQ[d], v)
       /\ \A c \in Components \ {d} : invocationQ'[c] = invocationQ[c]
  BY <1>1, <1>2, <1>5, <1>6, <1>7, <1>11
<1>14. \A c \in Components : (AtWork(c)' <=> AtWork(c))
  BY <1>0 DEF AtWork
<1>15. IdsInv /\ UNCHANGED <<inQueue, current>> /\ msgList' = Tail(msgList)
  BY <1>0 DEF CallInv
<1>16. /\ \A i \in Nat : Carried(i)' = Carried(i) + AtMostOne(i = nextCallId)
                                                - AtMostOne(i \in Returning)
       /\ \A c \in Components, i \in Nat : i # nextCallId => Busy(c, i)' = Busy(c, i)
       /\ \A c \in Components, i \in Nat : (i = nextCallId /\ Busy(c, i)' # 0) => c = d
       /\ Carried(nextCallId) = 0
  BY <1>0, <1>11, <1>13, <1>14, <1>15, HandedOut
<1>17. simCalls' = (simCalls \ {e}) \cup {g}
  BY <1>1, <1>5, <1>8
<1>18. e \in Awaiting /\ e.call \in Returning
  BY <1>0, <1>1, HeadTypes DEF Awaiting, Returning
<1>19. \A f \in Awaiting : f.call \in Returning => f = e
  BY <1>0, <1>15, <1>18, ReturningOne
<1>20. IdsInv'
  <2>1. Awaiting' \subseteq Awaiting \cup {g} /\ g \in Awaiting' /\ g.call = nextCallId
    BY <1>0, <1>8, <1>17 DEF Awaiting
  <2>2. \A f \in Awaiting \ Awaiting' : f.call \in Returning
    BY <1>0, <1>17, <1>18 DEF Awaiting
  <2>3. Live
    BY <1>0 DEF Live
  <2>. QED BY <1>0, <1>15, <1>16, <2>1, <2>2, <2>3, HandedOutIds
<1>21. ASSUME NEW f \in simCalls \ {e} PROVE Driven(f)' /\ f.line # e.line
  <2>1. f \in Awaiting /\ Driven(f) /\ f.line # e.line
    BY <1>0 DEF CallInv, LineInv, Awaiting
  <2>2. f.call \notin Returning /\ Team(f.line) \subseteq registry'
    BY <1>0, <1>19, <2>1 DEF Driven
  <2>. QED BY <1>0, <1>16, <2>1, <2>2, LinesOn
<1>22. Driven(g)'
  <2>1. PICK i \in Nat : i = nextCallId /\ i = g.call
    BY <1>2, <1>8
  <2>2. Carried(i)' = 1
    <3>1. i \notin Returning
      BY <1>0, <1>15, <2>1, ReturningOne
    <3>2. AtMostOne(i = nextCallId) = 1 /\ AtMostOne(i \in Returning) = 0
      BY <2>1, <3>1 DEF AtMostOne
    <3>3. Carried(i)' = Carried(i) + 1 - 0
      BY <1>16, <3>2
    <3>4. Carried(i) = 0
      BY <1>16, <2>1
    <3>. QED BY <3>3, <3>4
  <2>3. \A c \in Components : Busy(c, i)' # 0 => c \in Team(g.line)
    BY <1>8, <1>11, <1>16, <2>1
  <2>4. Team(g.line) \subseteq registry'
    BY <1>0, <1>8, <1>9 DEF Driven
  <2>5. g.inv \in TargetsOf(g.line) /\ g.queue \in Seq(TargetsOf(g.line))
    BY <1>8, <1>10
  <2>. QED BY <2>1, <2>2, <2>3, <2>4, <2>5 DEF Driven
<1>23. LineInv'
  <2>1. \A c \in Components \ registry' : invocationQ'[c] = <<>>
    BY <1>0, <1>12, <1>13 DEF CallInv, LineInv
  <2>2. \A f, k \in simCalls' : f.line = k.line => f = k
    BY <1>0, <1>8, <1>17, <1>21 DEF CallInv, LineInv
  <2>3. \A f \in simCalls' : Driven(f)'
    BY <1>17, <1>21, <1>22
  <2>. QED BY <2>1, <2>2, <2>3 DEF LineInv
<1>24. LostInv'
  <2>1. \A o \in outstandingCalls' : o.call \notin Returning
    <3>. SUFFICES ASSUME NEW o \in outstandingCalls, o.call \in Returning PROVE FALSE
      BY <1>0
    <3>1. o = e
      BY <1>19 DEF Awaiting
    <3>. QED BY <3>1, AwaitingTypes
  <2>2. /\ \A o \in outstandingCalls' : o \in outstandingCalls \/ o.call = nextCallId
        /\ \A c \in Components : state[c] = "dead" => state'[c] = "dead"
    BY <1>0
  <2>. QED BY <1>0, <1>16, <2>1, <2>2, HandedOutLost
<1>. QED BY <1>20, <1>23, <1>24 DEF CallInv

LEMMA LastResultCalls ==
  ASSUME TypeOK, TypeOK', RequestInv, CallInv, HandleLastResult
  PROVE  CallInv'
<1>. DEFINE m == Head(msgList)
<1>0. /\ msgList # <<>> /\ m.type = "result" /\ msgList' = Tail(msgList) /\ phase = "loop"
      /\ UNCHANGED <<phase, inQueue, fwkCalls, outstandingCalls, current>>
  BY DEF HandleLastResult, Working, clientVars
<1>1. PICK e \in simCalls :
        /\ e.call = m.call /\ simCalls' = simCalls \ {e}
        /\ \/ /\ e.line \in simMap /\ Kill(MembersOf(e.line))
              /\ nextCallId' = nextCallId + Cardinality(CompsOf(e.line)) * (IF m.ok THEN 1 ELSE 2)
           \/ UNCHANGED <<nextCallId, registry, state, invocationQ>>
  BY DEF HandleLastResult, simVars
<1>2. /\ state \in [Components -> {"absent", "idle", "running", "waiting", "dead"}]
      /\ nextCallId \in Nat /\ nextCallId <= nextCallId'
  <2>1. nextCallId \in Nat
    BY AwaitingTypes
  <2>2. Cardinality(CompsOf(e.line)) \in Nat
    <3>1. IsFiniteSet(CompsOf(e.line))
      BY ComponentAssumption, FS_Subset DEF CompsOf
    <3>. QED BY <3>1, FS_CardinalityType
  <2>3. nextCallId <= nextCallId'
    <3>1. CASE nextCallId' = nextCallId + Cardinality(CompsOf(e.line)) * (IF m.ok THEN 1 ELSE 2)
      <4>1. CASE m.ok
        BY <2>1, <2>2, <3>1, <4>1
      <4>2. CASE ~m.ok
        BY <2>1, <2>2, <3>1, <4>2
      <4>. QED BY <4>1, <4>2
    <3>. QED BY <1>1, <2>1, <3>1
  <2>. QED BY <2>1, <2>3 DEF TypeOK, QueueType
<1>3. e \in Awaiting /\ e.call \in Returning
  BY <1>0, <1>1, HeadTypes DEF Awaiting, Returning
<1>4. \A f \in Awaiting : f.call \in Returning => f = e
  BY <1>0, <1>3, ReturningOne DEF CallInv
<1>5. \A f \in simCalls : f \in Awaiting /\ f.call \in Nat /\ Driven(f) /\ (f # e => f.line # e.line)
  BY <1>0, AwaitingTypes DEF CallInv, LineInv, Awaiting
<1>6. \A i \in Nat : AllBusy(i)' <= AllBusy(i)
  <2>1. CASE Kill(MembersOf(e.line))
    <3>1. UNCHANGED current
      BY <1>0
    <3>. QED BY <2>1, <3>1, KillFrees
  <2>2. CASE UNCHANGED <<registry, state, invocationQ>>
    BY <1>0, <2>2, AllCalm
  <2>. QED BY <1>1, <2>1, <2>2
<1>7. IdsInv'
  <2>1. Awaiting' \subseteq Awaiting /\ \A f \in Awaiting \ Awaiting' : f.call \in Returning
    BY <1>0, <1>1, <1>3 DEF Awaiting
  <2>2. Live /\ UNCHANGED inQueue
    BY <1>0 DEF Live
  <2>. QED BY <1>0, <1>2, <1>6, <2>1, <2>2, TakenBack
<1>8. ASSUME NEW f \in simCalls'
      PROVE  /\ f.call \notin Returning /\ Team(f.line) \subseteq registry'
             /\ \A c \in Components : Busy(c, f.call)' = Busy(c, f.call)
  <2>1. f \in simCalls /\ f # e /\ f \in Awaiting /\ f.call \in Nat /\ Driven(f) /\ f.line # e.line
    BY <1>1, <1>5
  <2>2. f.call \notin Returning
    BY <1>4, <2>1
  <2>3. CASE e.line \in simMap /\ Kill(MembersOf(e.line))
    <3>1. MembersOf(e.line) = Team(e.line) /\ Team(f.line) \cap Team(e.line) = {}
      BY <2>1, <2>3, TeamOfSim DEF Team, TypeOK, SimType
    <3>2. Team(f.line) \subseteq registry'
      BY <2>1, <2>3, <3>1 DEF Kill, Driven
    <3>3. ASSUME NEW c \in Components PROVE Busy(c, f.call)' = Busy(c, f.call)
      <4>0. UNCHANGED current
        BY <1>0
      <4>1. CASE c \notin MembersOf(e.line)
        BY <2>3, <4>0, <4>1, KillBusy
      <4>2. CASE c \in MembersOf(e.line)
        <5>1. Busy(c, f.call) = 0
          BY <2>1, <3>1, <4>2 DEF Driven
        <5>2. Busy(c, f.call)' <= Busy(c, f.call)
          BY <2>3, <4>0, KillBusy
        <5>3. Busy(c, f.call)' \in Nat
          BY BusyNext
        <5>. QED BY <5>1, <5>2, <5>3
      <4>. QED BY <4>1, <4>2
    <3>. QED BY <2>2, <3>2, <3>3
  <2>4. CASE UNCHANGED <<registry, state, invocationQ>>
    <3>1. \A c \in Components, i \in Nat : Busy(c, i)' = Busy(c, i)
      BY <1>0, <2>4, AllCalm
    <3>. QED BY <2>1, <2>2, <2>4, <3>1 DEF Driven
  <2>. QED BY <1>1, <2>3, <2>4
<1>9. LineInv'
  <2>1. \A c \in Components \ registry' : invocationQ'[c] = <<>>
    BY <1>1 DEF CallInv, LineInv, Kill
  <2>2. simCalls' \subseteq simCalls /\ UNCHANGED inQueue
    BY <1>0, <1>1
  <2>. QED BY <1>0, <1>8, <2>1, <2>2, LinesAfterResult
<1>10. LostInv'
  <2>1. \A o \in outstandingCalls' : o.call \notin Returning
    <3>. SUFFICES ASSUME NEW o \in outstandingCalls, o.call \in Returning PROVE FALSE
      BY <1>0
    <3>1. o = e
      BY <1>4 DEF Awaiting
    <3>. QED BY <3>1, AwaitingTypes
  <2>2. SomeDead => SomeDead'
    <3>. SUFFICES ASSUME NEW c \in Components, state[c] = "dead" PROVE state'[c] = "dead"
      BY DEF SomeDead
    <3>1. c \notin registry
      BY DEF RequestInv, RegistryInv
    <3>. QED BY <1>1, <3>1 DEF Kill
  <2>3. ASSUME ~SomeDead' PROVE \A c \in Components, i \in Nat : Busy(c, i)' = Busy(c, i)
    <3>1. CASE Kill(MembersOf(e.line))
      <4>. SUFFICES ASSUME NEW c \in Components, NEW i \in Nat PROVE Busy(c, i)' = Busy(c, i)
        OBVIOUS
      <4>0. UNCHANGED current
        BY <1>0
      <4>1. CASE c \notin MembersOf(e.line)
        BY <3>1, <4>0, <4>1, KillBusy
      <4>2. CASE c \in MembersOf(e.line)
        <5>1. state'[c] # "dead"
          BY <2>3 DEF SomeDead
        <5>2. c \notin registry
          BY <3>1, <4>2, <5>1 DEF Kill
        <5>3. invocationQ[c] = <<>>
          BY <5>2 DEF CallInv, LineInv
        <5>. QED BY <3>1, <4>0, <5>2, <5>3, KillBusy
      <4>. QED BY <4>1, <4>2
    <3>2. CASE UNCHANGED <<registry, state, invocationQ>>
      BY <1>0, <3>2, AllCalm
    <3>. QED BY <1>1, <3>1, <3>2
  <2>4. outstandingCalls' \subseteq outstandingCalls /\ UNCHANGED inQueue
    BY <1>0
  <2>. QED BY <1>0, <2>1, <2>2, <2>3, <2>4, LostAfterResult
<1>. QED BY <1>7, <1>9, <1>10 DEF CallInv

(* Invocations handed out together, while nothing is carried: each call is *)
(* carried once, and is with the component it was sent to.                 *)
Sent(c, k, v) ==
  /\ v \in Invocation /\ v.call = nextCallId + k - 1
  /\ invocationQ'[c] = Append(invocationQ[c], v)

SentToTheirOwn(n, T) ==
  \A k \in 1..n, i \in Nat, c \in Components :
     (i = nextCallId + k - 1 /\ Busy(c, i)' # 0) => c = T[k]

LEMMA RoundSent ==
  ASSUME TypeOK, TypeOK', \A i \in Nat : Carried(i) = 0,
         NEW n \in Nat, NEW T, \A k \in 1..n : T[k] \in Components,
         \A j, k \in 1..n : T[j] = T[k] => j = k,
         UNCHANGED <<inQueue, msgList, current, state>>,
         \A c \in Components :
            \/ (\A k \in 1..n : T[k] # c) /\ invocationQ'[c] = invocationQ[c]
            \/ \E k \in 1..n, v \in Invocation : T[k] = c /\ Sent(c, k, v)
  PROVE  /\ \A i \in Nat : Carried(i)' = AtMostOne(nextCallId <= i /\ i < nextCallId + n)
         /\ SentToTheirOwn(n, T)
<1>0. nextCallId \in Nat
  BY AwaitingTypes
<1>1. ASSUME NEW i \in Nat, NEW c \in Components PROVE Busy(c, i) = 0
  <2>1. Busy(c, i) <= Carried(i) /\ Busy(c, i) \in Nat
    BY CarriedAtLeast, BusyIsNumber
  <2>. QED BY <2>1
<1>2. \A c \in Components : (AtWork(c)' <=> AtWork(c)) /\ current'[c] = current[c]
  BY DEF AtWork
<1>3. ASSUME NEW i \in Nat, NEW c \in Components, \A k \in 1..n : T[k] # c
      PROVE  Busy(c, i)' = 0
  <2>1. invocationQ'[c] = invocationQ[c]
    BY <1>3
  <2>2. Busy(c, i)' = Busy(c, i)
    BY <1>2, <2>1, UntouchedBusy
  <2>. QED BY <1>1, <2>2
<1>4. ASSUME NEW i \in Nat, NEW k \in 1..n
      PROVE  Busy(T[k], i)' = AtMostOne(i = nextCallId + k - 1)
  <2>1. PICK c \in Components : c = T[k]
    OBVIOUS
  <2>2. PICK v \in Invocation : Sent(c, k, v)
    BY <2>1
  <2>3. invocationQ'[c] = Append(invocationQ[c], v) /\ v.call = nextCallId + k - 1
    BY <2>2 DEF Sent
  <2>4. Busy(c, i)' = Busy(c, i) + AtMostOne(v.call = i)
    BY <1>2, <2>3, InvokedBusy
  <2>5. Busy(c, i)' = AtMostOne(i = nextCallId + k - 1)
    BY <1>1, <2>3, <2>4 DEF AtMostOne
  <2>. QED BY <2>1, <2>5
<1>5. ASSUME NEW i \in Nat
      PROVE  AllBusy(i)' = AtMostOne(nextCallId <= i /\ i < nextCallId + n)
  <2>0. AllBusy(i) = 0
    <3>1. AllBusy(i) \in Nat /\ Carried(i) = 0
          /\ Occurs(inQueue, ResultsOf(i)) \in Nat /\ Occurs(msgList, ResultsOf(i)) \in Nat
      BY CarriedIsNumber
    <3>. QED BY <3>1 DEF Carried
  <2>1. CASE ~(nextCallId <= i /\ i < nextCallId + n)
    <3>1. \A c \in Components : Busy(c, i)' = Busy(c, i)
      <4>. SUFFICES ASSUME NEW c \in Components PROVE Busy(c, i)' = Busy(c, i)
        OBVIOUS
      <4>1. CASE \A k \in 1..n : T[k] # c
        BY <1>1, <1>3, <4>1
      <4>2. ASSUME NEW k \in 1..n, T[k] = c PROVE Busy(c, i)' = Busy(c, i)
        <5>1. i # nextCallId + k - 1
          BY <1>0, <2>1
        <5>2. Busy(T[k], i)' = 0
          BY <1>4, <5>1 DEF AtMostOne
        <5>. QED BY <1>1, <4>2, <5>2
      <4>. QED BY <4>1, <4>2
    <3>2. AllBusy(i)' = AllBusy(i)
      BY <3>1, SameBusy
    <3>. QED BY <2>0, <2>1, <3>2 DEF AtMostOne
  <2>2. CASE nextCallId <= i /\ i < nextCallId + n
    <3>1. PICK k \in 1..n : i = nextCallId + k - 1
      <4>1. i - nextCallId + 1 \in 1..n /\ i = nextCallId + (i - nextCallId + 1) - 1
        BY <1>0, <2>2
      <4>. QED BY <4>1
    <3>2. PICK x \in Components : x = T[k]
      OBVIOUS
    <3>3. Busy(x, i)' = Busy(x, i) + 1
      <4>1. Busy(T[k], i)' = 1
        BY <1>4, <3>1 DEF AtMostOne
      <4>. QED BY <1>1, <3>2, <4>1
    <3>4. \A c \in Components \ {x} : Busy(c, i)' = Busy(c, i)
      <4>. SUFFICES ASSUME NEW c \in Components \ {x} PROVE Busy(c, i)' = Busy(c, i)
        OBVIOUS
      <4>1. CASE \A j \in 1..n : T[j] # c
        BY <1>1, <1>3, <4>1
      <4>2. ASSUME NEW j \in 1..n, T[j] = c PROVE Busy(c, i)' = Busy(c, i)
        <5>1. j # k
          BY <3>2, <4>2
        <5>2. i # nextCallId + j - 1
          BY <1>0, <3>1, <5>1
        <5>3. Busy(T[j], i)' = 0
          BY <1>4, <5>2 DEF AtMostOne
        <5>. QED BY <1>1, <4>2, <5>3
      <4>. QED BY <4>1, <4>2
    <3>5. AllBusy(i)' = AllBusy(i) + 1
      BY <3>3, <3>4, OneBusier
    <3>. QED BY <2>0, <2>2, <3>5 DEF AtMostOne
  <2>. QED BY <2>1, <2>2
<1>6. ASSUME NEW i \in Nat
      PROVE  Carried(i)' = AtMostOne(nextCallId <= i /\ i < nextCallId + n)
  <2>1. Carried(i)' = AllBusy(i)' + Occurs(inQueue, ResultsOf(i)) + Occurs(msgList, ResultsOf(i))
    BY DEF Carried
  <2>2. Occurs(inQueue, ResultsOf(i)) = 0 /\ Occurs(msgList, ResultsOf(i)) = 0
    <3>1. AllBusy(i) \in Nat /\ Carried(i) = 0
          /\ Occurs(inQueue, ResultsOf(i)) \in Nat /\ Occurs(msgList, ResultsOf(i)) \in Nat
      BY CarriedIsNumber
    <3>. QED BY <3>1 DEF Carried
  <2>3. AllBusy(i)' \in Nat
    BY BusyNext
  <2>4. Carried(i)' = AllBusy(i)'
    BY <2>1, <2>2, <2>3
  <2>. QED BY <1>5, <2>4
<1>7. ASSUME NEW k \in 1..n, NEW i \in Nat, NEW c \in Components,
             i = nextCallId + k - 1, Busy(c, i)' # 0
      PROVE  c = T[k]
  <2>1. PICK j \in 1..n : T[j] = c
    BY <1>3, <1>7
  <2>2. i = nextCallId + j - 1
    BY <1>4, <1>7, <2>1 DEF AtMostOne
  <2>3. j = k
    BY <1>0, <1>7, <2>2
  <2>. QED BY <2>1, <2>3
<1>. QED BY <1>6, <1>7 DEF SentToTheirOwn

LEMMA RoundIds ==
  ASSUME TypeOK, TypeOK', IdsInv, Live, Awaiting = {}, NEW n \in Nat, nextCallId' = nextCallId + n,
         \A i \in Nat : Carried(i)' = AtMostOne(nextCallId <= i /\ i < nextCallId + n),
         NEW F, Awaiting' = {F[k] : k \in 1..n}, \A k \in 1..n : F[k].call = nextCallId + k - 1
  PROVE  IdsInv'
<1>0. nextCallId \in Nat /\ nextCallId <= nextCallId'
  <2>1. nextCallId \in Nat
    BY AwaitingTypes
  <2>. QED BY <2>1
<1>1. PICK N : N = {F[k] : k \in 1..n}
  OBVIOUS
<1>2. \A e \in N : e.call \in Nat /\ nextCallId <= e.call /\ e.call < nextCallId'
  BY <1>0, <1>1
<1>3. \A e, f \in N : e.call = f.call => e = f
  <2>. SUFFICES ASSUME NEW j \in 1..n, NEW k \in 1..n, F[j].call = F[k].call PROVE F[j] = F[k]
    BY <1>1
  <2>1. j = k
    BY <1>0
  <2>. QED BY <2>1
<1>4. \A i \in Nat : i < nextCallId => Carried(i)' <= Carried(i)
  BY <1>0, CarriedIsNumber DEF AtMostOne
<1>5. \A i \in Nat : i >= nextCallId => Carried(i)' <= AtMostOne(i < nextCallId')
  BY <1>0 DEF AtMostOne
<1>6. \A i \in Nat : (i >= nextCallId /\ Carried(i)' # 0) => \E e \in Awaiting' : e.call = i
  <2>. SUFFICES ASSUME NEW i \in Nat, Carried(i)' # 0 PROVE \E k \in 1..n : F[k].call = i
    OBVIOUS
  <2>1. nextCallId <= i /\ i < nextCallId + n
    BY DEF AtMostOne
  <2>2. i - nextCallId + 1 \in 1..n /\ i = nextCallId + (i - nextCallId + 1) - 1
    BY <1>0, <2>1
  <2>. QED BY <2>2
<1>7. Live' => /\ Live
               /\ \A e \in Awaiting \ Awaiting' : Carried(e.call)' = 0
               /\ \A i \in Nat : (i >= nextCallId /\ Carried(i)' # 0) =>
                                   \E e \in Awaiting' : e.call = i
  BY <1>6
<1>8. Awaiting' \subseteq Awaiting \cup N
  BY <1>1
<1>. QED BY <1>0, <1>2, <1>3, <1>4, <1>5, <1>7, <1>8, IdsStep

LEMMA NothingCarried ==
  ASSUME TypeOK, IdsInv, Live, Awaiting = {}
  PROVE  \A i \in Nat : Carried(i) = 0
BY DEF IdsInv

LEMMA InvokeFrameworkCompsCalls ==
  ASSUME TypeOK, TypeOK', EarlyInv, CallInv, InvokeFrameworkComps
  PROVE  CallInv'
<1>. DEFINE n == Len(FwkList)
            F == [k \in 1..n |-> [call |-> nextCallId + k - 1, comp |-> FwkList[k]]]
<1>0. /\ phase = "boot" /\ phase' = "init" /\ Live
      /\ UNCHANGED <<inQueue, msgList, simCalls, outstandingCalls, registry>>
      /\ UNCHANGED <<current, state>>
      /\ nextCallId' = nextCallId + n
      /\ fwkCalls = {} /\ simCalls = {} /\ outstandingCalls = {} /\ FwkComps \subseteq registry
  BY DEF InvokeFrameworkComps, simVars, clientVars, EarlyInv, Live
<1>1. /\ n \in Nat /\ DOMAIN FwkList = 1..n /\ nextCallId \in Nat
      /\ \A k \in 1..n : FwkList[k] \in FwkComps /\ FwkList[k] \in Components
      /\ \A j, k \in 1..n : FwkList[j] = FwkList[k] => j = k
  BY ComponentAssumption, AwaitingTypes DEF FwkComps, Elements, Components
<1>2. Awaiting = {} /\ IdsInv
  BY <1>0 DEF Awaiting, CallInv
<1>3. \A i \in Nat : Carried(i) = 0
  BY <1>0, <1>2, NothingCarried
<1>4. ASSUME NEW c \in Components
      PROVE  \/ (\A k \in 1..n : FwkList[k] # c) /\ invocationQ'[c] = invocationQ[c]
             \/ \E k \in 1..n, v \in Invocation : FwkList[k] = c /\ Sent(c, k, v)
  <2>1. CASE \A k \in 1..n : FwkList[k] # c
    BY <1>1, <2>1 DEF InvokeFrameworkComps
  <2>2. CASE \E k \in 1..n : FwkList[k] = c
    <3>1. PICK k : k = CHOOSE i \in DOMAIN FwkList : FwkList[i] = c
      OBVIOUS
    <3>2. k \in 1..n /\ FwkList[k] = c
      BY <1>1, <2>2, <3>1
    <3>3. PICK v : v = [call |-> nextCallId + k - 1, method |-> "init"]
      OBVIOUS
    <3>4. v \in Invocation /\ v.call = nextCallId + k - 1
      BY <1>1, <3>2, <3>3 DEF Invocation
    <3>5. invocationQ'[c] = Append(invocationQ[c], v)
      BY <1>1, <2>2, <3>1, <3>3, Zenon DEF InvokeFrameworkComps
    <3>. QED BY <3>2, <3>4, <3>5 DEF Sent
  <2>. QED BY <2>1, <2>2
<1>5. UNCHANGED <<inQueue, msgList, current, state>>
  BY <1>0
<1>6. \A i \in Nat : Carried(i)' = AtMostOne(nextCallId <= i /\ i < nextCallId + n)
  <2>. HIDE DEF n
  <2>. QED BY <1>1, <1>3, <1>4, <1>5, RoundSent
<1>7. IdsInv'
  <2>1. fwkCalls' = {F[k] : k \in 1..n}
    BY <1>1 DEF InvokeFrameworkComps
  <2>2. Awaiting' = {F[k] : k \in 1..n}
    BY <1>0, <2>1 DEF Awaiting
  <2>3. \A k \in 1..n : F[k].call = nextCallId + k - 1
    OBVIOUS
  <2>. HIDE DEF n, F
  <2>. QED BY <1>0, <1>1, <1>2, <1>6, <2>2, <2>3, RoundIds
<1>8. LineInv'
  <2>. SUFFICES ASSUME NEW c \in Components, c \notin registry PROVE invocationQ'[c] = <<>>
    BY <1>0 DEF LineInv
  <2>1. \A k \in 1..n : FwkList[k] # c
    BY <1>0, <1>1
  <2>. QED BY <1>4, <2>1 DEF CallInv, LineInv
<1>9. LostInv'
  BY <1>0 DEF LostInv
<1>. QED BY <1>7, <1>8, <1>9 DEF CallInv

LEMMA InitialLinesDiffer ==
  /\ InitialLines \in Seq(Lines)
  /\ \A j, k \in DOMAIN InitialLines : InitialLines[j] = InitialLines[k] => j = k
<1>. DEFINE a == Len(FwkList)
            b == Len(SimList)
            L == InitialLines
<1>1. /\ a \in Nat /\ b \in Nat /\ DOMAIN FwkList = 1..a /\ DOMAIN SimList = 1..b
      /\ FwkList \in Seq(Lines) /\ SimList \in Seq(Lines)
  BY ComponentAssumption, SimulationAssumption DEF Lines
<1>2. /\ L \in Seq(Lines) /\ DOMAIN L = 1..(a + b)
      /\ \A i \in 1..(a + b) : L[i] = IF i <= a THEN FwkList[i] ELSE SimList[i - a]
  BY <1>1 DEF InitialLines
<1>3. \A i \in 1..a : FwkList[i] \in FwkComps
  BY <1>1 DEF FwkComps, Elements
<1>4. \A i \in 1..b : SimList[i] \notin FwkComps
  BY <1>1, SimulationAssumption, ComponentAssumption
<1>5. ASSUME NEW j \in 1..(a + b), NEW k \in 1..(a + b), L[j] = L[k] PROVE j = k
  <2>1. CASE j <= a /\ k <= a
    <3>1. j \in 1..a /\ k \in 1..a /\ FwkList[j] = FwkList[k]
      BY <1>2, <1>5, <2>1
    <3>. QED BY <1>1, <3>1, ComponentAssumption
  <2>2. CASE j > a /\ k > a
    <3>1. j - a \in 1..b /\ k - a \in 1..b
      BY <1>1, <2>2
    <3>2. SimList[j - a] = SimList[k - a]
      BY <1>1, <1>2, <1>5, <2>2
    <3>3. j - a = k - a
      BY <1>1, <3>1, <3>2, SimulationAssumption
    <3>. QED BY <1>1, <3>3
  <2>3. CASE j <= a /\ k > a
    <3>1. j \in 1..a /\ k - a \in 1..b /\ L[j] = FwkList[j] /\ L[k] = SimList[k - a]
      BY <1>1, <1>2, <2>3
    <3>. QED BY <1>3, <1>4, <1>5, <3>1
  <2>4. CASE k <= a /\ j > a
    <3>1. k \in 1..a /\ j - a \in 1..b /\ L[k] = FwkList[k] /\ L[j] = SimList[j - a]
      BY <1>1, <1>2, <2>4
    <3>. QED BY <1>3, <1>4, <1>5, <3>1
  <2>. QED BY <1>1, <2>1, <2>2, <2>3, <2>4
<1>. QED BY <1>2, <1>5

LEMMA StartLinesCalls ==
  ASSUME TypeOK, TypeOK', EarlyInv, CallInv, StartLines
  PROVE  CallInv'
<1>. DEFINE L == InitialLines
            n == Len(L)
            First(k) == Head(Invocations(L[k]))
            T == [k \in 1..n |-> First(k).comp]
            F == [k \in 1..n |-> Entry(L[k], nextCallId + k - 1)]
<1>0. /\ phase = "init" /\ phase' = "loop" /\ Live
      /\ UNCHANGED <<inQueue, msgList, fwkCalls, outstandingCalls, registry>>
      /\ UNCHANGED <<current, state>>
      /\ nextCallId' = nextCallId + n
      /\ fwkCalls = {} /\ simCalls = {} /\ outstandingCalls = {}
      /\ \A i \in DOMAIN InitialLines : Team(InitialLines[i]) \subseteq registry
  BY Zenon DEF StartLines, simVars, clientVars, EarlyInv, Live
<1>1. /\ n \in Nat /\ DOMAIN L = 1..n /\ nextCallId \in Nat
      /\ \A k \in 1..n : L[k] \in Lines
      /\ \A j, k \in 1..n : L[j] = L[k] => j = k
  BY InitialLinesDiffer, AwaitingTypes
<1>2. ASSUME NEW k \in 1..n
      PROVE  /\ First(k) \in Target /\ First(k).comp \in Team(L[k])
             /\ T[k] \in Components /\ T[k] \in Team(L[k]) /\ LineOf(T[k]) = L[k]
             /\ T[k] \in registry /\ T[k] = First(k).comp
  <2>1. First(k) \in Target /\ First(k) \in TargetsOf(L[k])
    BY <1>1, InvocationsType, InvocationsTeam
  <2>2. First(k).comp \in Team(L[k]) /\ T[k] = First(k).comp
    BY <2>1 DEF TargetsOf
  <2>. QED BY <1>0, <1>1, <2>1, <2>2 DEF Team
<1>3. \A j, k \in 1..n : T[j] = T[k] => j = k
  <2>. SUFFICES ASSUME NEW j \in 1..n, NEW k \in 1..n, T[j] = T[k] PROVE j = k
    OBVIOUS
  <2>1. LineOf(T[j]) = L[j] /\ LineOf(T[k]) = L[k]
    BY <1>2
  <2>2. L[j] = L[k]
    <3>. HIDE DEF T, L
    <3>. QED BY <2>1
  <2>. QED BY <1>1, <2>2
<1>4. Awaiting = {} /\ IdsInv
  BY <1>0 DEF Awaiting, CallInv
<1>5. \A i \in Nat : Carried(i) = 0
  BY <1>0, <1>4, NothingCarried
<1>6. ASSUME NEW c \in Components
      PROVE  \/ (\A k \in 1..n : T[k] # c) /\ invocationQ'[c] = invocationQ[c]
             \/ \E k \in 1..n, v \in Invocation : T[k] = c /\ Sent(c, k, v)
  <2>. DEFINE mine == {i \in DOMAIN InitialLines : Head(Invocations(InitialLines[i])).comp = c}
              pick == CHOOSE i \in mine : TRUE
  <2>0. \A k \in 1..n : k \in mine <=> T[k] = c
    BY <1>1
  <2>1. invocationQ'[c] = IF mine = {} THEN invocationQ[c]
                          ELSE Append(invocationQ[c],
                                 [call |-> nextCallId + pick - 1,
                                  method |-> Head(Invocations(InitialLines[pick])).method])
    BY Zenon DEF StartLines
  <2>2. CASE mine = {}
    <3>1. \A k \in 1..n : T[k] # c
      BY <2>0, <2>2
    <3>. QED BY <2>1, <2>2, <3>1
  <2>3. CASE mine # {}
    <3>1. PICK k \in mine : k = pick
      BY <2>3
    <3>2. k \in 1..n /\ T[k] = c
      BY <1>1, <2>0, <3>1, Zenon
    <3>3. PICK v : v = [call |-> nextCallId + k - 1, method |-> First(k).method]
      OBVIOUS
    <3>4. v \in Invocation /\ v.call = nextCallId + k - 1
      <4>1. First(k).method \in {"init", "step", "finalize"}
        BY <1>2, <3>2, Zenon DEF Target
      <4>2. nextCallId + k - 1 \in Nat
        BY <1>1, <3>2
      <4>. HIDE DEF First
      <4>. QED BY <3>3, <4>1, <4>2 DEF Invocation
    <3>5. invocationQ'[c] = Append(invocationQ[c], v)
      BY <2>1, <2>3, <3>1, <3>3, Zenon
    <3>. QED BY <3>2, <3>4, <3>5 DEF Sent
  <2>. QED BY <2>2, <2>3
<1>7. UNCHANGED <<inQueue, msgList, current, state>>
  BY <1>0
<1>8. \A k \in 1..n : T[k] \in Components
  BY <1>2
<1>9. /\ \A i \in Nat : Carried(i)' = AtMostOne(nextCallId <= i /\ i < nextCallId + n)
      /\ \A k \in 1..n, i \in Nat, c \in Components :
            (i = nextCallId + k - 1 /\ Busy(c, i)' # 0) => c = T[k]
  <2>. HIDE DEF n, T
  <2>1. \A i \in Nat : Carried(i)' = AtMostOne(nextCallId <= i /\ i < nextCallId + n)
    BY <1>1, <1>3, <1>5, <1>6, <1>7, <1>8, RoundSent
  <2>2. SentToTheirOwn(n, T)
    BY <1>1, <1>3, <1>5, <1>6, <1>7, <1>8, RoundSent
  <2>. QED BY <2>1, <2>2 DEF SentToTheirOwn
<1>10. simCalls' = {F[k] : k \in 1..n}
  BY <1>1, Zenon DEF StartLines
<1>11. ASSUME NEW k \in 1..n
       PROVE  /\ F[k].line = L[k] /\ F[k].call = nextCallId + k - 1
              /\ F[k].inv \in TargetsOf(L[k]) /\ F[k].queue \in Seq(TargetsOf(L[k]))
  <2>1. PICK i : i = nextCallId + k - 1
    OBVIOUS
  <2>2. PICK l \in Lines : l = L[k]
    BY <1>1
  <2>3. F[k] = Entry(l, i)
    BY <2>1, <2>2
  <2>4. /\ Entry(l, i).line = l /\ Entry(l, i).call = i
        /\ Entry(l, i).inv \in TargetsOf(l) /\ Entry(l, i).queue \in Seq(TargetsOf(l))
    BY EntryDriven
  <2>. QED BY <2>1, <2>2, <2>3, <2>4
<1>12. IdsInv'
  <2>1. Awaiting' = {F[k] : k \in 1..n}
    BY <1>0, <1>10 DEF Awaiting
  <2>2. \A k \in 1..n : F[k].call = nextCallId + k - 1
    BY <1>11
  <2>. HIDE DEF n, F
  <2>. QED BY <1>0, <1>1, <1>4, <1>9, <2>1, <2>2, RoundIds
<1>13. \A e \in simCalls' : Driven(e)'
  <2>. SUFFICES ASSUME NEW e \in simCalls' PROVE Driven(e)'
    OBVIOUS
  <2>1. PICK k \in 1..n : e = F[k]
    BY <1>10
  <2>2. /\ e.line = L[k] /\ e.call = nextCallId + k - 1
        /\ e.inv \in TargetsOf(L[k]) /\ e.queue \in Seq(TargetsOf(L[k]))
    <3>. HIDE DEF F
    <3>. QED BY <1>11, <2>1
  <2>3. PICK i \in Nat : i = e.call
    BY <1>1, <2>2
  <2>4. Carried(i)' = 1
    <3>1. nextCallId <= i /\ i < nextCallId + n
      BY <1>1, <2>2, <2>3
    <3>. QED BY <1>9, <3>1 DEF AtMostOne
  <2>5. \A c \in Components : Busy(c, i)' # 0 => c \in Team(e.line)
    <3>. SUFFICES ASSUME NEW c \in Components, Busy(c, i)' # 0 PROVE c \in Team(e.line)
      OBVIOUS
    <3>1. c = T[k] /\ T[k] \in Team(L[k])
      BY <1>2, <1>9, <2>2, <2>3
    <3>. HIDE DEF T
    <3>. QED BY <2>2, <3>1
  <2>6. Team(e.line) \subseteq registry'
    BY <1>0, <1>1, <2>2
  <2>. QED BY <2>2, <2>3, <2>4, <2>5, <2>6 DEF Driven
<1>14. \A e, f \in simCalls' : e.line = f.line => e = f
  <2>. SUFFICES ASSUME NEW j \in 1..n, NEW k \in 1..n, F[j].line = F[k].line PROVE F[j] = F[k]
    BY <1>10
  <2>1. L[j] = L[k]
    BY <1>11
  <2>2. j = k
    BY <1>1, <2>1
  <2>. QED BY <2>2
<1>15. \A c \in Components \ registry' : invocationQ'[c] = <<>>
  <2>. SUFFICES ASSUME NEW c \in Components, c \notin registry PROVE invocationQ'[c] = <<>>
    BY <1>0
  <2>1. \A k \in 1..n : T[k] # c
    BY <1>2
  <2>. QED BY <1>6, <2>1 DEF CallInv, LineInv
<1>16. LineInv'
  BY <1>13, <1>14, <1>15 DEF LineInv
<1>17. LostInv'
  BY <1>0 DEF LostInv
<1>. QED BY <1>12, <1>16, <1>17 DEF CallInv

LEMMA InitCalls == Init => CallInv
<1>. SUFFICES ASSUME Init PROVE CallInv
  OBVIOUS
<1>1. Awaiting = {} /\ outstandingCalls = {} /\ simCalls = {} /\ phase = "boot"
  BY DEF Init, Awaiting
<1>2. \A c \in Components : invocationQ[c] = <<>> /\ ~AtWork(c)
  BY DEF Init, AtWork
<1>3. ASSUME NEW i \in Nat PROVE Carried(i) = 0
  <2>1. \A c \in Components : Busy(c, i) = 0
    <3>. SUFFICES ASSUME NEW c \in Components PROVE Busy(c, i) = 0
      OBVIOUS
    <3>1. Occurs(invocationQ[c], Invoking(i)) = 0
      BY <1>2, OccursInNone
    <3>. QED BY <1>2, <3>1 DEF Busy, AtMostOne
  <2>2. AllBusy(i) = 0
    <3>. DEFINE b == [c \in Components |-> Busy(c, i)]
    <3>1. \A c \in Components : b[c] = 0
      BY <2>1
    <3>2. SumFunctionOnSet(b, Components) = 0
      <4>. HIDE DEF b
      <4>. QED BY <3>1, ComponentsFinite, SumOfZeros
    <3>. QED BY <3>2 DEF AllBusy
  <2>3. Occurs(inQueue, ResultsOf(i)) = 0 /\ Occurs(msgList, ResultsOf(i)) = 0
    BY OccursInNone DEF Init
  <2>. QED BY <2>2, <2>3 DEF Carried
<1>4. IdsInv
  BY <1>1, <1>3 DEF IdsInv, AtMostOne
<1>5. LineInv /\ LostInv
  BY <1>1, <1>2 DEF LineInv, LostInv
<1>. QED BY <1>4, <1>5 DEF CallInv

LEMMA CallsStay == Spec => []CallInv
<1>1. TypeOK /\ TypeOK' /\ RequestInv /\ EarlyInv /\ CallInv /\ [Next]_vars => CallInv'
  <2>. SUFFICES ASSUME TypeOK, TypeOK', RequestInv, EarlyInv, CallInv, [Next]_vars PROVE CallInv'
    OBVIOUS
  <2>1. CASE UNCHANGED vars
    <3>1. /\ UNCHANGED <<phase, inQueue, msgList, fwkCalls, simCalls, outstandingCalls, nextCallId>>
          /\ UNCHANGED <<registry, state, invocationQ, current>>
      BY <2>1 DEF vars, loopVars, simVars, callVars, compVars, clientVars
    <3>2. \A c \in Components, i \in Nat : Busy(c, i)' = Busy(c, i)
      BY <3>1, AllCalm
    <3>3. \A i \in Nat : Carried(i)' = Carried(i)
      <4>. SUFFICES ASSUME NEW i \in Nat PROVE Carried(i)' = Carried(i)
        OBVIOUS
      <4>1. AllBusy(i)' = AllBusy(i)
        BY <3>2, SameBusy
      <4>. QED BY <3>1, <4>1 DEF Carried
    <3>4. \A c \in Components, i \in Nat : Busy(c, i)' <= Busy(c, i)
      BY <3>2, BusyIsNumber
    <3>5. \A c \in Components \ registry' : invocationQ'[c] = <<>>
      BY <3>1 DEF CallInv, LineInv
    <3>6. /\ registry \subseteq registry' /\ nextCallId <= nextCallId'
          /\ \A c \in Components : state[c] = "dead" => state'[c] = "dead"
          /\ UNCHANGED <<phase, fwkCalls, simCalls, outstandingCalls>>
      BY <3>1, AwaitingTypes
    <3>. QED BY <3>3, <3>4, <3>5, <3>6, CalmCalls
  <2>2. CASE FrameworkStep
    BY <2>2, InvokeFrameworkCompsCalls, GetMessageCalls, InitResultCalls, StartLinesCalls,
       InitCallCalls, RequestCalls, CreateSimCalls, ReturnCallCalls, LineResultCalls,
       LastResultCalls, EndRunCalls DEF FrameworkStep
  <2>3. CASE \E c \in Components : ComponentStep(c)
    BY <2>3, ComponentStepCalls
  <2>. QED BY <2>1, <2>2, <2>3 DEF Next, Stopped
<1>. QED BY <1>1, InitCalls, TypeCorrect, RequestsStay, EarlyStays, PTL DEF Spec

(* What CallInOnePlace counts is what is carried. *)
LEMMA CarriersAreCarried ==
  ASSUME TypeOK, RequestInv, NEW i \in Nat
  PROVE  Carriers(i) = Carried(i)
<1>. DEFINE q == [c \in Components |->
                     Cardinality({k \in DOMAIN invocationQ[c] : invocationQ[c][k].call = i})]
            W == {c \in registry : state[c] \in {"running", "waiting"} /\ current[c].call = i}
            w == [c \in Components |-> AtMostOne(c \in W)]
            b == [c \in Components |-> Busy(c, i)]
<1>1. ASSUME NEW c \in Components
      PROVE  q[c] = Occurs(invocationQ[c], Invoking(i)) /\ q[c] \in Nat
  <2>1. invocationQ[c] \in Seq(Invocation)
    BY DEF TypeOK, QueueType
  <2>2. {k \in DOMAIN invocationQ[c] : invocationQ[c][k].call = i} = Places(invocationQ[c], Invoking(i))
    BY <2>1 DEF Places, Invoking
  <2>. QED BY <2>2, BusyIsNumber DEF Occurs
<1>2. ASSUME NEW c \in Components
      PROVE  w[c] = AtMostOne(AtWork(c) /\ current[c].call = i) /\ w[c] \in Nat
  <2>1. c \in W <=> (AtWork(c) /\ current[c].call = i)
    BY DEF AtWork, RequestInv, RegistryInv
  <2>. QED BY <2>1 DEF AtMostOne
<1>3. \A c \in Components : q[c] \in Int /\ w[c] \in Int /\ b[c] = q[c] + w[c]
  <2>. TAKE c \in Components
  <2>1. b[c] = Occurs(invocationQ[c], Invoking(i)) + AtMostOne(AtWork(c) /\ current[c].call = i)
    BY DEF Busy
  <2>. HIDE DEF b, q, w
  <2>. QED BY <1>1, <1>2, <2>1
<1>4. SumFunctionOnSet(b, Components)
        = SumFunctionOnSet(q, Components) + SumFunctionOnSet(w, Components)
  <2>. HIDE DEF b, q, w
  <2>. QED BY <1>3, ComponentsFinite, SumAdd
<1>5. Cardinality(W) = SumFunctionOnSet(w, Components)
  <2>1. W \in SUBSET Components
    BY DEF TypeOK, SimType
  <2>. HIDE DEF W
  <2>. QED BY <2>1, ComponentsFinite, CardinalityIsSum
<1>6. SumFunction(q) = SumFunctionOnSet(q, Components)
  BY DEF SumFunction
<1>7. AllBusy(i) = SumFunctionOnSet(b, Components)
  BY DEF AllBusy
<1>8. /\ Cardinality(ResultsIn(inQueue, i)) = Occurs(inQueue, ResultsOf(i))
      /\ Cardinality(ResultsIn(msgList, i)) = Occurs(msgList, ResultsOf(i))
  <2>1. /\ ResultsIn(inQueue, i) = Places(inQueue, ResultsOf(i))
        /\ ResultsIn(msgList, i) = Places(msgList, ResultsOf(i))
    BY QueueTypes DEF ResultsIn, Places, ResultsOf
  <2>. QED BY <2>1 DEF Occurs
<1>9. Carriers(i) = SumFunction(q) + Cardinality(W) + Cardinality(ResultsIn(inQueue, i))
                      + Cardinality(ResultsIn(msgList, i))
  BY DEF Carriers
<1>10. Carried(i) = AllBusy(i) + Occurs(inQueue, ResultsOf(i)) + Occurs(msgList, ResultsOf(i))
  BY DEF Carried
<1>. HIDE DEF b, q, w, W
<1>. QED BY <1>4, <1>5, <1>6, <1>7, <1>8, <1>9, <1>10

(* A line of invocations never stalls and is never driven twice, and a     *)
(* call between components is carried in at most one place, for any number *)
(* of simulations and any order of messages, failures and terminations.    *)
THEOREM CallsAreInOnePlace == Spec => []CallInOnePlace
<1>1. TypeOK /\ RequestInv /\ CallInv => CallInOnePlace
  <2>. SUFFICES ASSUME TypeOK, RequestInv, CallInv PROVE CallInOnePlace
    OBVIOUS
  <2>1. \A e \in Awaiting : e.call \in Nat /\ Carriers(e.call) = Carried(e.call)
    BY AwaitingTypes, CarriersAreCarried
  <2>2. phase = "loop" => /\ \A e \in simCalls : Carriers(e.call) = 1
                          /\ \A e, f \in simCalls : e.line = f.line => e = f
    BY <2>1 DEF CallInv, LineInv, Driven, Awaiting
  <2>3. ASSUME NEW o \in outstandingCalls
        PROVE  /\ Carriers(o.call) <= 1
               /\ Carriers(o.call) = 0 => \E c \in Components : state[c] = "dead"
    <3>1. o.call \in Nat /\ Carriers(o.call) = Carried(o.call)
      BY <2>1 DEF Awaiting
    <3>2. Carried(o.call) <= 1
      <4>1. Carried(o.call) <= AtMostOne(o.call < nextCallId) /\ Carried(o.call) \in Nat
        BY <3>1, CarriedIsNumber DEF CallInv, IdsInv
      <4>. QED BY <4>1 DEF AtMostOne
    <3>. QED BY <3>1, <3>2 DEF CallInv, LostInv, SomeDead
  <2>. QED BY <2>2, <2>3 DEF CallInOnePlace
<1>. QED BY <1>1, TypeCorrect, RequestsStay, CallsStay, PTL

LEMMA OnlyOne ==
  ASSUME NEW S, NEW e \in S, \A f \in S : f = e
  PROVE  Cardinality(S) = 1
<1>1. S = {e}
  OBVIOUS
<1>. QED BY <1>1, FS_Singleton

(* TaskManager.return_call and run() always find who a result is for: each *)
(* result on its way is awaited by exactly one entry of the three tables.  *)
THEOREM ResultsHaveTakers == Spec => []ResultsAreAwaited
<1>1. TypeOK /\ CallInv => ResultsAreAwaited
  <2>. SUFFICES ASSUME TypeOK, CallInv, NEW q \in {inQueue, msgList}, NEW k \in DOMAIN q,
                       q[k].type = "result", phase \in {"init", "loop"}
                PROVE  Cardinality({e \in fwkCalls : e.call = q[k].call})
                         + Cardinality({e \in simCalls : e.call = q[k].call})
                         + Cardinality({o \in outstandingCalls : o.call = q[k].call}) = 1
    BY DEF ResultsAreAwaited
  <2>1. q \in Seq(Messages) /\ q[k] \in Messages
    BY QueueTypes
  <2>2. PICK i \in Nat : i = q[k].call
    <3>1. \A m \in Messages : m.type = "result" => m.call \in Nat
      BY DEF Messages, Results, Requests, Waits, Launches
    <3>. QED BY <2>1, <3>1
  <2>3. Carried(i) # 0
    <3>1. Occurs(q, ResultsOf(i)) # 0
      <4>1. q[k] \in ResultsOf(i)
        BY <2>1, <2>2 DEF ResultsOf
      <4>. QED BY <2>1, <4>1, NoOccurrence
    <3>2. Carried(i) = AllBusy(i) + Occurs(inQueue, ResultsOf(i)) + Occurs(msgList, ResultsOf(i))
      BY DEF Carried
    <3>3. Occurs(inQueue, ResultsOf(i)) # 0 \/ Occurs(msgList, ResultsOf(i)) # 0
      BY <3>1
    <3>. QED BY <3>2, <3>3, CarriedIsNumber
  <2>4. PICK e \in Awaiting : e.call = i
    BY <2>3 DEF CallInv, IdsInv, Live
  <2>. DEFINE A == {f \in fwkCalls : f.call = q[k].call}
              B == {f \in simCalls : f.call = q[k].call}
              C == {f \in outstandingCalls : f.call = q[k].call}
  <2>5. \A f \in A \cup B \cup C : f = e
    BY <2>2, <2>4 DEF CallInv, IdsInv, Awaiting
  <2>6. e \in A \/ e \in B \/ e \in C
    BY <2>2, <2>4 DEF Awaiting
  <2>7. A \cap B = {} /\ A \cap C = {} /\ B \cap C = {}
    BY AwaitingTypes
  <2>. HIDE DEF A, B, C
  <2>8. Cardinality({}) = 0
    BY FS_EmptySet
  <2>9. CASE e \in A
    <3>1. B = {} /\ C = {} /\ Cardinality(A) = 1
      BY <2>5, <2>7, <2>9, OnlyOne
    <3>2. Cardinality(A) + Cardinality(B) + Cardinality(C) = 1
      BY <2>8, <3>1
    <3>. QED BY <3>2 DEF A, B, C
  <2>10. CASE e \in B
    <3>1. A = {} /\ C = {} /\ Cardinality(B) = 1
      BY <2>5, <2>7, <2>10, OnlyOne
    <3>2. Cardinality(A) + Cardinality(B) + Cardinality(C) = 1
      BY <2>8, <3>1
    <3>. QED BY <3>2 DEF A, B, C
  <2>11. CASE e \in C
    <3>1. A = {} /\ B = {} /\ Cardinality(C) = 1
      BY <2>5, <2>7, <2>11, OnlyOne
    <3>2. Cardinality(A) + Cardinality(B) + Cardinality(C) = 1
      BY <2>8, <3>1
    <3>. QED BY <3>2 DEF A, B, C
  <2>. QED BY <2>6, <2>9, <2>10, <2>11
<1>. QED BY <1>1, TypeCorrect, CallsStay, PTL

-----------------------------------------------------------------------------
(* The lines, as SimulationRuns promises them *)

(* The queue of an entry is what its line has left, behind the invocation  *)
(* in flight.                                                              *)
Follows(e) ==
  LET n == Len(Invocations(e.line))
      k == Len(e.queue)
  IN /\ k < n
     /\ e.inv = Invocations(e.line)[n - k]
     /\ \A j \in 1..k : e.queue[j] = Invocations(e.line)[n - k + j]

(* A simulation in flight has no verdict yet and is in sim_map, and one    *)
(* with a verdict has had its components, so its name is not used again.   *)
VerdictInv ==
  /\ \A e \in simCalls : e.line \in Sims => simEnd[e.line] = "none"
  /\ phase = "loop" => \A e \in simCalls : e.line \in Sims => e.line \in simMap
  /\ \A s \in Sims : simEnd[s] # "none" => \A c \in MembersOf(s) : state[c] # "absent"
  /\ phase \in {"boot", "init"} => /\ Elements(SimList) \subseteq simMap
                                   /\ \A s \in Sims : simEnd[s] = "none"
ProgressInv == (\A e \in simCalls : Follows(e)) /\ VerdictInv

LEMMA EntryFollows ==
  ASSUME NEW k \in Lines, NEW i
  PROVE  /\ Follows(Entry(k, i))
         /\ Len(Invocations(k)) - Len(Entry(k, i).queue) = 1
         /\ Entry(k, i).inv = Invocations(k)[1]
<1>1. PICK v : v = Invocations(k)
  OBVIOUS
<1>2. v \in Seq(Target) /\ v # <<>>
  BY <1>1, InvocationsType
<1>3. PICK t : t = Tail(v)
  OBVIOUS
<1>4. /\ Len(v) \in Nat /\ Len(v) >= 1 /\ Len(t) = Len(v) - 1 /\ Head(v) = v[1]
      /\ \A j \in 1..Len(t) : t[j] = v[1 + j]
  BY <1>2, <1>3
<1>5. /\ Entry(k, i).line = k /\ Entry(k, i).inv = Head(v) /\ Entry(k, i).queue = t
  BY <1>1, <1>3 DEF Entry
<1>6. Len(v) - Len(t) = 1
  BY <1>4
<1>. QED BY <1>1, <1>4, <1>5, <1>6 DEF Follows

LEMMA NextFollows ==
  ASSUME NEW k \in Lines, NEW e, e.line = k, Follows(e), e.queue \in Seq(Target), e.queue # <<>>,
         NEW g, g.line = k, g.inv = Head(e.queue), g.queue = Tail(e.queue)
  PROVE  /\ Follows(g)
         /\ Len(Invocations(k)) - Len(g.queue) = Len(Invocations(k)) - Len(e.queue) + 1
         /\ Len(Invocations(k)) - Len(e.queue) < Len(Invocations(k))
         /\ g.inv = Invocations(k)[Len(Invocations(k)) - Len(g.queue)]
<1>1. PICK v : v = Invocations(k)
  OBVIOUS
<1>2. v \in Seq(Target) /\ v # <<>>
  BY <1>1, InvocationsType
<1>3. PICK q : q = e.queue
  OBVIOUS
<1>4. PICK t : t = Tail(q)
  OBVIOUS
<1>5. /\ Len(v) \in Nat /\ Len(q) \in Nat /\ Len(q) >= 1 /\ Len(t) = Len(q) - 1
      /\ Head(q) = q[1] /\ \A j \in 1..Len(t) : t[j] = q[1 + j]
  BY <1>2, <1>3, <1>4
<1>6. Len(q) < Len(v) /\ \A j \in 1..Len(q) : q[j] = v[Len(v) - Len(q) + j]
  BY <1>1, <1>3, Zenon DEF Follows
<1>7. q[1] = v[Len(v) - Len(t)]
  <2>1. q[1] = v[Len(v) - Len(q) + 1]
    BY <1>5, <1>6
  <2>2. Len(v) - Len(q) + 1 = Len(v) - Len(t)
    BY <1>5
  <2>. QED BY <2>1, <2>2
<1>8. ASSUME NEW j \in 1..Len(t) PROVE t[j] = v[Len(v) - Len(t) + j]
  <2>1. 1 + j \in 1..Len(q) /\ t[j] = q[1 + j]
    BY <1>5
  <2>2. q[1 + j] = v[Len(v) - Len(q) + (1 + j)]
    BY <1>6, <2>1
  <2>3. Len(v) - Len(q) + (1 + j) = Len(v) - Len(t) + j
    BY <1>5
  <2>. QED BY <2>1, <2>2, <2>3
<1>9. g.queue = t /\ g.inv = q[1]
  BY <1>3, <1>4, <1>5
<1>10. Follows(g)
  <2>1. Invocations(g.line) = v /\ g.queue = t /\ g.inv = v[Len(v) - Len(t)]
    BY <1>1, <1>7, <1>9
  <2>2. Len(t) < Len(v)
    BY <1>5, <1>6
  <2>. QED BY <1>8, <2>1, <2>2 DEF Follows
<1>11. Len(v) - Len(t) = Len(v) - Len(q) + 1 /\ Len(v) - Len(q) < Len(v)
  BY <1>5
<1>12. Invocations(k) = v /\ g.queue = t /\ e.queue = q /\ g.inv = v[Len(v) - Len(t)]
  BY <1>1, <1>3, <1>7, <1>9
<1>. QED BY <1>10, <1>11, <1>12

(* No step makes a component one that has never been. *)
LEMMA RespondForgetsNobody ==
  ASSUME TypeOK, NEW c, NEW ok, NEW val, Respond(c, ok, val)
  PROVE  \A d \in Components : state[d] # "absent" => state'[d] # "absent"
BY DEF Respond, TerminateAll, Kill

LEMMA NobodyIsForgotten ==
  ASSUME TypeOK, [Next]_vars
  PROVE  \A d \in Components : state[d] # "absent" => state'[d] # "absent"
<1>0. state \in [Components -> {"absent", "idle", "running", "waiting", "dead"}]
  BY DEF TypeOK, QueueType
<1>1. CASE InvokeFrameworkComps \/ StartLines \/ GetMessage \/ HandleReturnCall \/ HandleLineResult
  BY <1>1, Zenon DEF InvokeFrameworkComps, StartLines, GetMessage, HandleReturnCall, HandleLineResult,
              compVars
<1>2. CASE HandleInitResult \/ HandleLastResult \/ EndRun
  BY <1>2 DEF HandleInitResult, HandleLastResult, EndRun, TerminateAll, Kill
<1>3. CASE HandleInitCall
  BY <1>3, RespondForgetsNobody, Zenon DEF HandleInitCall, TerminateAll, Kill
<1>4. CASE HandleWaitCall
  BY <1>4, RespondForgetsNobody DEF HandleWaitCall
<1>5. CASE HandleInitTask
  BY <1>5, RespondForgetsNobody DEF HandleInitTask
<1>6. CASE HandleFinishTask
  BY <1>6, RespondForgetsNobody DEF HandleFinishTask
<1>7. CASE HandleCreateSim
  BY <1>7, RespondForgetsNobody, Zenon DEF HandleCreateSim
<1>8. CASE \E c \in Components : ComponentStep(c)
  <2>. SUFFICES ASSUME NEW c \in Components, ComponentStep(c)
                PROVE  \A d \in Components : state[d] # "absent" => state'[d] # "absent"
    BY <1>8
  <2>1. CASE StartMethod(c) \/ ReceiveResponse(c) \/ \E ok \in BOOLEAN : ReturnMethod(c, ok)
    BY <1>0, <2>1 DEF StartMethod, ReceiveResponse, ReturnMethod
  <2>2. CASE ~(StartMethod(c) \/ ReceiveResponse(c) \/ \E ok \in BOOLEAN : ReturnMethod(c, ok))
    BY <1>0, <2>2, Zenon DEF ComponentStep, CallNonblocking, WaitForCall, PollCall, LaunchTask, EndTask,
                      CreateSimulation, InvokeService
  <2>. QED BY <2>1, <2>2
<1>9. CASE UNCHANGED vars
  BY <1>9 DEF vars, compVars
<1>. QED BY <1>1, <1>2, <1>3, <1>4, <1>5, <1>6, <1>7, <1>8, <1>9 DEF Next, FrameworkStep, Stopped

(* A step that touches no line. *)
Untouched ==
  /\ UNCHANGED <<simCalls, simEnd>>
  /\ \/ UNCHANGED phase
     \/ phase = "boot" /\ phase' = "init"
     \/ phase \in {"init", "loop"} /\ phase' = "aborted"
     \/ phase = "loop" /\ phase' = "ended" /\ simCalls = {}
  /\ phase' \in {"boot", "init", "loop"} => simMap \subseteq simMap'

LEMMA UntouchedProgress ==
  ASSUME TypeOK, ProgressInv, Untouched,
         \A d \in Components : state[d] # "absent" => state'[d] # "absent"
  PROVE  ProgressInv'
<1>1. \A e \in simCalls' : Follows(e)
  BY DEF Untouched, ProgressInv
<1>2. \A e \in simCalls' : e.line \in Sims => simEnd'[e.line] = "none"
  BY DEF Untouched, ProgressInv, VerdictInv
<1>3. phase' = "loop" => \A e \in simCalls' : e.line \in Sims => e.line \in simMap'
  BY DEF Untouched, ProgressInv, VerdictInv
<1>4. \A s \in Sims : simEnd'[s] # "none" => \A c \in MembersOf(s) : state'[c] # "absent"
  BY DEF Untouched, ProgressInv, VerdictInv, MembersOf, Components
<1>5. phase' \in {"boot", "init"} => /\ Elements(SimList) \subseteq simMap'
                                     /\ \A s \in Sims : simEnd'[s] = "none"
  BY DEF Untouched, ProgressInv, VerdictInv
<1>6. VerdictInv'
  BY <1>2, <1>3, <1>4, <1>5 DEF VerdictInv
<1>7. \A e : Follows(e)' <=> Follows(e)
  BY DEF Follows
<1>. QED BY <1>1, <1>6, Zenon DEF ProgressInv, Follows

LEMMA RespondUntouched ==
  ASSUME EarlyInv, msgList # <<>>, NEW c, NEW ok, NEW val, Respond(c, ok, val),
         UNCHANGED <<simCalls, simEnd>>
  PROVE  Untouched
<1>1. phase \in {"init", "loop"}
  BY DEF EarlyInv
<1>. QED BY <1>1 DEF Respond, TerminateAll, Untouched

LEMMA RequestUntouched ==
  ASSUME EarlyInv, HandleInitCall \/ HandleWaitCall \/ HandleInitTask \/ HandleFinishTask
  PROVE  Untouched
<1>0. msgList # <<>> /\ UNCHANGED <<simCalls, simEnd>>
  BY Zenon DEF HandleInitCall, HandleWaitCall, HandleInitTask, HandleFinishTask, Working
<1>1. CASE HandleInitCall
  <2>1. CASE UNCHANGED <<phase, simMap>>
    BY <1>0, <2>1 DEF Untouched
  <2>2. CASE TerminateAll("aborted")
    <3>1. phase \in {"init", "loop"}
      BY <1>0 DEF EarlyInv
    <3>. QED BY <1>0, <2>2, <3>1 DEF Untouched, TerminateAll
  <2>3. CASE Respond(Head(msgList).from, FALSE, 0)
    BY <1>0, <2>3, RespondUntouched
  <2>. QED BY <1>1, <2>1, <2>2, <2>3, Zenon DEF HandleInitCall
<1>2. CASE HandleWaitCall
  <2>1. CASE UNCHANGED <<phase, simMap>>
    BY <1>0, <2>1 DEF Untouched
  <2>2. CASE \E ok, val : Respond(Head(msgList).from, ok, val)
    BY <1>0, <2>2, RespondUntouched
  <2>. QED BY <1>2, <2>1, <2>2, Zenon DEF HandleWaitCall
<1>3. CASE HandleInitTask
  <2>1. CASE UNCHANGED <<phase, simMap>>
    BY <1>0, <2>1 DEF Untouched
  <2>2. CASE \E ok, val : Respond(Head(msgList).from, ok, val)
    BY <1>0, <2>2, RespondUntouched
  <2>. QED BY <1>3, <2>1, <2>2, Zenon DEF HandleInitTask
<1>4. CASE HandleFinishTask
  <2>2. \E ok, val : Respond(Head(msgList).from, ok, val)
    BY <1>4 DEF HandleFinishTask
  <2>. QED BY <1>0, <2>2, RespondUntouched
<1>. QED BY <1>1, <1>2, <1>3, <1>4

(* The lines that are driven change with four messages only. *)
LEMMA OthersUntouched ==
  ASSUME TypeOK, EarlyInv, [Next]_vars,
         ~HandleCreateSim, ~StartLines, ~HandleLineResult, ~HandleLastResult
  PROVE  Untouched
<1>1. CASE HandleInitCall \/ HandleWaitCall \/ HandleInitTask \/ HandleFinishTask
  BY <1>1, RequestUntouched
<1>2. CASE InvokeFrameworkComps \/ GetMessage \/ HandleReturnCall
  BY <1>2 DEF InvokeFrameworkComps, GetMessage, HandleReturnCall, simVars, Untouched
<1>3. CASE HandleInitResult
  BY <1>3 DEF HandleInitResult, TerminateAll, Untouched
<1>4. CASE EndRun
  BY <1>4 DEF EndRun, TerminateAll, Untouched
<1>5. CASE \E c \in Components : ComponentStep(c)
  <2>1. PICK c \in Components : ComponentStep(c)
    BY <1>5
  <2>2. UNCHANGED <<phase, simCalls, simMap, simEnd>>
    BY <2>1, Zenon DEF ComponentStep, StartMethod, ReceiveResponse, ReturnMethod, CallNonblocking, WaitForCall,
         PollCall, LaunchTask, EndTask, CreateSimulation, InvokeService, loopVars, simVars
  <2>. QED BY <2>2 DEF Untouched
<1>6. CASE UNCHANGED vars
  BY <1>6 DEF vars, loopVars, simVars, Untouched
<1>. QED BY <1>1, <1>2, <1>3, <1>4, <1>5, <1>6 DEF Next, FrameworkStep, Stopped

(* A new simulation is taken up, at once or never. *)
Created(s, i) ==
  /\ UNCHANGED <<phase, simEnd>> /\ phase = "loop"
  /\ simCalls' = simCalls \cup {Entry(s, i)}
  /\ simMap' = simMap \cup {s}
  /\ \A c \in MembersOf(s) : state[c] = "absent"

LEMMA CreateSimSteps ==
  ASSUME TypeOK, EarlyInv, HandleCreateSim
  PROVE  Untouched \/ \E s \in Sims, i \in Nat : Created(s, i)
<1>0. /\ msgList # <<>> /\ Head(msgList).type = "create_simulation"
      /\ Head(msgList).type # "result" /\ simEnd' = simEnd
  BY Zenon DEF HandleCreateSim, Working
<1>1. phase = "loop" /\ Head(msgList).sim \in Sims /\ nextCallId \in Nat
  BY <1>0, RequestsInLoop, AwaitingTypes, HeadTypes
<1>2. CASE Respond(Head(msgList).from, FALSE, 0) /\ simCalls' = simCalls
  BY <1>0, <1>2, RespondUntouched
<1>3. CASE /\ simMap' = simMap \cup {Head(msgList).sim} /\ UNCHANGED <<phase, simCalls>>
  BY <1>0, <1>3 DEF Untouched
<1>4. CASE /\ simMap' = simMap \cup {Head(msgList).sim} /\ UNCHANGED phase
           /\ simCalls' = simCalls \cup {Entry(Head(msgList).sim, nextCallId)}
           /\ \A c \in MembersOf(Head(msgList).sim) : state[c] = "absent"
  <2>1. Created(Head(msgList).sim, nextCallId)
    BY <1>0, <1>1, <1>4 DEF Created
  <2>. QED BY <1>1, <2>1
<1>. QED BY <1>2, <1>3, <1>4, Zenon DEF HandleCreateSim

(* A simulation whose components have never been is in no line and has no  *)
(* verdict.                                                                *)
LEMMA NewSimulation ==
  ASSUME RequestInv, CallInv, ProgressInv, phase = "loop", NEW s \in Sims,
         \A c \in MembersOf(s) : state[c] = "absent"
  PROVE  simEnd[s] = "none" /\ \A e \in simCalls : e.line # s
<1>1. PICK c \in MembersOf(s) : TRUE
  <2>1. Visible[s] \in Seq(SimComps) /\ Visible[s] # <<>>
        /\ \A j \in DOMAIN Visible[s] : SimOf[Visible[s][j]] = s
    BY SimulationAssumption
  <2>2. 1 \in DOMAIN Visible[s] /\ Visible[s][1] \in SimComps
    BY <2>1
  <2>. QED BY <2>1, <2>2 DEF MembersOf
<1>2. state[c] = "absent" /\ c \in Components
  BY <1>1 DEF MembersOf, Components
<1>3. c \notin registry
  BY <1>2 DEF RequestInv, RegistryInv
<1>4. ASSUME NEW e \in simCalls, e.line = s PROVE FALSE
  <2>1. Team(s) \subseteq registry
    BY <1>4 DEF CallInv, LineInv, Driven
  <2>. QED BY <1>1, <1>3, <2>1, TeamOfSim
<1>. QED BY <1>1, <1>2, <1>4 DEF ProgressInv, VerdictInv

LEMMA CreatedProgress ==
  ASSUME TypeOK, RequestInv, CallInv, ProgressInv, NEW s \in Sims, NEW i \in Nat, Created(s, i),
         \A d \in Components : state[d] # "absent" => state'[d] # "absent"
  PROVE  ProgressInv'
<1>0. /\ UNCHANGED <<phase, simEnd>> /\ phase = "loop"
      /\ simCalls' = simCalls \cup {Entry(s, i)} /\ simMap' = simMap \cup {s}
      /\ \A c \in MembersOf(s) : state[c] = "absent"
  BY DEF Created
<1>1. s \in Lines /\ Entry(s, i).line = s
  BY DEF Lines, Entry
<1>2. \A e \in simCalls' : Follows(e)
  BY <1>0, <1>1, EntryFollows DEF ProgressInv
<1>3. simEnd[s] = "none"
  BY <1>0, NewSimulation
<1>4. \A e \in simCalls' : e.line \in Sims => simEnd'[e.line] = "none"
  BY <1>0, <1>1, <1>3 DEF ProgressInv, VerdictInv
<1>5. \A e \in simCalls' : e.line \in Sims => e.line \in simMap'
  BY <1>0, <1>1 DEF ProgressInv, VerdictInv
<1>6. \A r \in Sims : simEnd'[r] # "none" => \A c \in MembersOf(r) : state'[c] # "absent"
  BY <1>0 DEF ProgressInv, VerdictInv, MembersOf, Components
<1>7. VerdictInv'
  BY <1>0, <1>4, <1>5, <1>6 DEF VerdictInv
<1>. QED BY <1>2, <1>7 DEF ProgressInv, Follows

LEMMA StartLinesProgress ==
  ASSUME TypeOK, ProgressInv, StartLines
  PROVE  ProgressInv'
<1>0. /\ phase = "init" /\ phase' = "loop" /\ UNCHANGED <<simEnd, simMap, state>>
      /\ simCalls' = {Entry(InitialLines[i], nextCallId + i - 1) : i \in DOMAIN InitialLines}
  BY Zenon DEF StartLines, simVars
<1>1. \A i \in DOMAIN InitialLines : InitialLines[i] \in Lines
  BY InitialLinesDiffer
<1>2. ASSUME NEW e \in simCalls'
      PROVE  Follows(e) /\ (e.line \in Sims => e.line \in simMap /\ simEnd[e.line] = "none")
  <2>1. PICK i \in DOMAIN InitialLines : e = Entry(InitialLines[i], nextCallId + i - 1)
    BY <1>0
  <2>2. PICK k \in Lines : k = InitialLines[i]
    BY <1>1
  <2>3. Follows(e) /\ e.line = k
    BY <2>1, <2>2, EntryFollows DEF Entry
  <2>4. k \in Sims => k \in Elements(SimList)
    <3>. SUFFICES ASSUME k \in Sims PROVE k \in Elements(SimList)
      OBVIOUS
    <3>1. /\ Len(FwkList) \in Nat /\ Len(SimList) \in Nat
          /\ DOMAIN FwkList = 1..Len(FwkList) /\ DOMAIN SimList = 1..Len(SimList)
          /\ i \in 1..(Len(FwkList) + Len(SimList))
          /\ (i <= Len(FwkList) => InitialLines[i] = FwkList[i])
          /\ (i > Len(FwkList) => InitialLines[i] = SimList[i - Len(FwkList)])
      BY ComponentAssumption, SimulationAssumption DEF InitialLines
    <3>2. i > Len(FwkList)
      <4>1. i <= Len(FwkList) => FwkList[i] \in FwkComps
        BY <3>1 DEF FwkComps, Elements
      <4>. QED BY <2>2, <3>1, <4>1, ComponentAssumption
    <3>3. i - Len(FwkList) \in DOMAIN SimList
      BY <3>1, <3>2
    <3>. QED BY <2>2, <3>1, <3>2, <3>3 DEF Elements
  <2>. QED BY <1>0, <2>3, <2>4 DEF ProgressInv, VerdictInv
<1>3. VerdictInv'
  BY <1>0, <1>2 DEF ProgressInv, VerdictInv
<1>. QED BY <1>2, <1>3, Zenon DEF ProgressInv, Follows

(* A line goes on. *)
WentOn(e, g) ==
  /\ UNCHANGED <<phase, simEnd, simMap, state>> /\ phase = "loop"
  /\ e.queue # <<>> /\ g.line = e.line /\ g.inv = Head(e.queue) /\ g.queue = Tail(e.queue)
  /\ simCalls' = (simCalls \ {e}) \cup {g}

LEMMA LineResultSteps ==
  ASSUME HandleLineResult
  PROVE  \E e \in simCalls : \E g : WentOn(e, g)
<1>1. PICK e \in simCalls :
        /\ e.queue # <<>>
        /\ simCalls' = (simCalls \ {e}) \cup
             {[call |-> nextCallId, line |-> e.line, inv |-> Pop(e.queue).inv,
               queue |-> Pop(e.queue).queue]}
  BY DEF HandleLineResult
<1>2. PICK g : g = [call |-> nextCallId, line |-> e.line, inv |-> Pop(e.queue).inv,
                    queue |-> Pop(e.queue).queue]
  OBVIOUS
<1>3. g.line = e.line /\ g.inv = Head(e.queue) /\ g.queue = Tail(e.queue)
  BY <1>2 DEF Pop
<1>4. UNCHANGED <<phase, simEnd, simMap, state>> /\ phase = "loop"
  BY DEF HandleLineResult, simVars
<1>. QED BY <1>1, <1>2, <1>3, <1>4 DEF WentOn

LEMMA WentOnProgress ==
  ASSUME TypeOK, CallInv, ProgressInv, NEW e \in simCalls, NEW g, WentOn(e, g)
  PROVE  ProgressInv'
<1>0. /\ UNCHANGED <<phase, simEnd, simMap, state>> /\ phase = "loop" /\ g.line = e.line
      /\ simCalls' = (simCalls \ {e}) \cup {g}
  BY DEF WentOn
<1>1. e.line \in Lines /\ e.queue \in Seq(Target)
  BY DEF TypeOK, LoopType, SimCall
<1>2. Follows(g)
  BY <1>1, NextFollows, Zenon DEF WentOn, ProgressInv
<1>3. \A f \in simCalls' : Follows(f)
  BY <1>0, <1>2 DEF ProgressInv
<1>4. VerdictInv'
  BY <1>0 DEF ProgressInv, VerdictInv
<1>. QED BY <1>3, <1>4 DEF ProgressInv, Follows

(* A line is over. *)
IsOver(e, ok) ==
  /\ UNCHANGED phase /\ phase = "loop" /\ (e.queue = <<>> \/ ~ok)
  /\ simCalls' = simCalls \ {e}
  /\ \/ /\ e.line \in simMap /\ simMap' = simMap \ {e.line}
        /\ simEnd' = [simEnd EXCEPT ![e.line] = IF ok THEN "ok" ELSE "error"]
     \/ e.line \notin simMap /\ UNCHANGED <<simEnd, simMap>>

LEMMA LastResultSteps ==
  ASSUME HandleLastResult
  PROVE  \E e \in simCalls : \E ok : IsOver(e, ok)
<1>1. phase = "loop" /\ UNCHANGED phase
  BY DEF HandleLastResult
<1>2. PICK e \in simCalls : IsOver(e, Head(msgList).ok)
  BY <1>1 DEF HandleLastResult, IsOver, simVars
<1>. QED BY <1>2

LEMMA IsOverProgress ==
  ASSUME TypeOK, RequestInv, CallInv, ProgressInv, NEW e \in simCalls, NEW ok, IsOver(e, ok),
         \A d \in Components : state[d] # "absent" => state'[d] # "absent"
  PROVE  ProgressInv'
<1>0. UNCHANGED phase /\ phase = "loop" /\ simCalls' = simCalls \ {e}
  BY DEF IsOver
<1>1. \A f \in simCalls' : Follows(f)
  BY <1>0 DEF ProgressInv
<1>2. \A f \in simCalls' : f \in simCalls /\ f.line # e.line
  BY <1>0 DEF CallInv, LineInv
<1>3. \A s \in Sims \ {e.line} : simEnd'[s] = simEnd[s] /\ (s \in simMap' <=> s \in simMap)
  BY DEF IsOver, TypeOK, SimType
<1>4. \A f \in simCalls' : f.line \in Sims => simEnd'[f.line] = "none" /\ f.line \in simMap'
  BY <1>0, <1>2, <1>3 DEF ProgressInv, VerdictInv
<1>5. ASSUME NEW s \in Sims, simEnd'[s] # "none", NEW c \in MembersOf(s)
      PROVE  state'[c] # "absent"
  <2>0. c \in Components
    BY DEF MembersOf, Components
  <2>1. CASE s # e.line
    BY <1>3, <1>5, <2>0, <2>1 DEF ProgressInv, VerdictInv
  <2>2. CASE s = e.line
    <3>1. Driven(e)
      BY <1>0 DEF CallInv, LineInv
    <3>2. c \in registry
      BY <2>2, <3>1, TeamOfSim DEF Driven
    <3>3. state[c] # "absent"
      BY <2>0, <3>2 DEF RequestInv, RegistryInv
    <3>. QED BY <2>0, <3>3
  <2>. QED BY <2>1, <2>2
<1>6. VerdictInv'
  BY <1>0, <1>4, <1>5 DEF VerdictInv
<1>. QED BY <1>1, <1>6 DEF ProgressInv, Follows

LEMMA InitProgress == Init => ProgressInv
BY DEF Init, ProgressInv, VerdictInv

LEMMA ProgressStays == Spec => []ProgressInv
<1>1. TypeOK /\ EarlyInv /\ RequestInv /\ CallInv /\ ProgressInv /\ [Next]_vars => ProgressInv'
  <2>. SUFFICES ASSUME TypeOK, EarlyInv, RequestInv, CallInv, ProgressInv, [Next]_vars
                PROVE  ProgressInv'
    OBVIOUS
  <2>1. \A d \in Components : state[d] # "absent" => state'[d] # "absent"
    BY NobodyIsForgotten
  <2>2. CASE Untouched
    BY <2>1, <2>2, UntouchedProgress
  <2>3. CASE HandleCreateSim
    BY <2>1, <2>2, <2>3, CreateSimSteps, CreatedProgress
  <2>4. CASE StartLines
    BY <2>4, StartLinesProgress
  <2>5. CASE HandleLineResult
    BY <2>5, LineResultSteps, WentOnProgress
  <2>6. CASE HandleLastResult
    BY <2>1, <2>6, LastResultSteps, IsOverProgress
  <2>. QED BY <2>2, <2>3, <2>4, <2>5, <2>6, OthersUntouched
<1>. QED BY <1>1, InitProgress, TypeCorrect, EarlyStays, RequestsStay, CallsStay, PTL DEF Spec

(* What SimulationRuns sees of a line, before and after a step. *)
LEMMA TheEntry ==
  ASSUME NEW S, NEW e \in S, NEW s, e.line = s, \A f \in S : f.line = s => f = e
  PROVE  (CHOOSE f \in S : f.line = s) = e
OBVIOUS

LEMMA LineSeen ==
  ASSUME NEW s \in Sims, NEW e \in simCalls, e.line = s, \A f \in simCalls : f.line = s => f = e
  PROVE  /\ Issued[s] = Len(Invocations(s)) - Len(e.queue)
         /\ Flying[s] = e.inv
         /\ Verdict[s] = IF phase = "aborted" THEN "aborted" ELSE "active"
<1>1. InFlight(s) /\ EntryOf(s) = e
  BY TheEntry DEF InFlight, EntryOf
<1>. QED BY <1>1 DEF Issued, Flying, Verdict

LEMMA LineSeenNext ==
  ASSUME NEW s \in Sims, NEW e \in simCalls', e.line = s, \A f \in simCalls' : f.line = s => f = e
  PROVE  /\ Issued'[s] = Len(Invocations(s)) - Len(e.queue)
         /\ Flying'[s] = e.inv
         /\ Verdict'[s] = IF phase' = "aborted" THEN "aborted" ELSE "active"
<1>1. InFlight(s)' /\ EntryOf(s)' = e
  BY TheEntry DEF InFlight, EntryOf
<1>. QED BY <1>1 DEF Issued, Flying, Verdict

LEMMA NoLineSeen ==
  ASSUME NEW s \in Sims, \A f \in simCalls : f.line # s
  PROVE  /\ Issued[s] = 0 /\ Flying[s] = NoTarget
         /\ Verdict[s] = IF simEnd[s] = "none" THEN "new" ELSE simEnd[s]
BY DEF InFlight, Issued, Flying, Verdict

LEMMA NoLineSeenNext ==
  ASSUME NEW s \in Sims, \A f \in simCalls' : f.line # s
  PROVE  /\ Issued'[s] = 0 /\ Flying'[s] = NoTarget
         /\ Verdict'[s] = IF simEnd'[s] = "none" THEN "new" ELSE simEnd'[s]
BY DEF InFlight, Issued, Flying, Verdict

LEMMA Seen ==
  /\ Issued = [s \in Sims |-> Issued[s]] /\ Flying = [s \in Sims |-> Flying[s]]
  /\ Verdict = [s \in Sims |-> Verdict[s]]
  /\ Issued' = [s \in Sims |-> Issued'[s]] /\ Flying' = [s \in Sims |-> Flying'[s]]
  /\ Verdict' = [s \in Sims |-> Verdict'[s]]
BY DEF Issued, Flying, Verdict

(* A line whose entry is the same is seen the same. *)
SeenTheSame(s) == /\ Issued'[s] = Issued[s] /\ Flying'[s] = Flying[s]
                  /\ Verdict'[s] = Verdict[s]

LEMMA OtherLines ==
  ASSUME CallInv, CallInv', phase = "loop", phase' = "loop", NEW s \in Sims,
         simEnd'[s] = simEnd[s],
         \A f : f.line = s => (f \in simCalls' <=> f \in simCalls)
  PROVE  SeenTheSame(s)
<1>1. CASE \E e \in simCalls : e.line = s
  <2>1. PICK e \in simCalls : e.line = s
    BY <1>1
  <2>2. \A f \in simCalls : f.line = s => f = e
    BY <2>1 DEF CallInv, LineInv
  <2>3. e \in simCalls' /\ \A f \in simCalls' : f.line = s => f = e
    BY <2>1, <2>2
  <2>. QED BY <2>1, <2>2, <2>3, LineSeen, LineSeenNext DEF SeenTheSame
<1>2. CASE ~ \E e \in simCalls : e.line = s
  <2>1. \A f \in simCalls' : f.line # s
    BY <1>2
  <2>. QED BY <1>2, <2>1, NoLineSeen, NoLineSeenNext DEF SeenTheSame
<1>. QED BY <1>1, <1>2

LEMMA AllTheSame ==
  ASSUME \A s \in Sims : SeenTheSame(s)
  PROVE  UNCHANGED Runs!runVars
<1>1. Issued' = Issued /\ Flying' = Flying /\ Verdict' = Verdict
  BY Seen DEF SeenTheSame
<1>. QED BY <1>1 DEF Runs!runVars

LEMMA UntouchedStep ==
  ASSUME TypeOK, EarlyInv, CallInv, Untouched
  PROVE  [Runs!Next]_Runs!runVars
<1>1. \A s \in Sims : (InFlight(s)' <=> InFlight(s)) /\ EntryOf(s)' = EntryOf(s)
  BY DEF InFlight, EntryOf, Untouched
<1>2. Issued' = Issued /\ Flying' = Flying
  BY <1>1 DEF Issued, Flying
<1>3. CASE phase' # "aborted" \/ phase = "aborted"
  <2>1. phase' = "aborted" <=> phase = "aborted"
    BY <1>3 DEF Untouched
  <2>2. Verdict' = Verdict
    BY <1>1, <2>1 DEF Verdict, Untouched
  <2>. QED BY <1>2, <2>2 DEF Runs!runVars
<1>4. CASE phase' = "aborted" /\ phase # "aborted"
  <2>1. Runs!Active = {s \in Sims : InFlight(s)}
    BY <1>4 DEF Runs!Active, Verdict, TypeOK, SimType
  <2>2. Verdict' = [s \in Sims |-> IF s \in Runs!Active THEN "aborted" ELSE Verdict[s]]
    BY <1>1, <1>4, <2>1 DEF Verdict, Untouched
  <2>3. CASE Runs!Active # {}
    <3>1. Runs!Abort
      BY <1>2, <2>2, <2>3 DEF Runs!Abort
    <3>. QED BY <3>1 DEF Runs!Next
  <2>4. CASE Runs!Active = {}
    <3>1. Verdict' = Verdict
      BY <2>2, <2>4, Seen
    <3>. QED BY <1>2, <3>1 DEF Runs!runVars
  <2>. QED BY <2>3, <2>4
<1>. QED BY <1>3, <1>4

(* The four steps that change lines, as steps of SimulationRuns.          *)
LEMMA CreatedStep ==
  ASSUME TypeOK, CallInv, CallInv', ProgressInv, NEW s \in Sims, NEW i \in Nat, Created(s, i),
         \A e \in simCalls : e.line # s, simEnd[s] = "none"
  PROVE  Runs!Next
<1>. DEFINE g == Entry(s, i)
<1>0. /\ UNCHANGED <<phase, simEnd>> /\ phase = "loop" /\ phase' = "loop"
      /\ simCalls' = simCalls \cup {g} /\ s \in Lines
  BY DEF Created, Lines
<1>1. /\ g.line = s /\ g.inv = Invocations(s)[1]
      /\ Len(Invocations(s)) - Len(g.queue) = 1
  BY <1>0, EntryFollows DEF Entry
<1>. HIDE DEF g
<1>2. \A f \in simCalls' : f.line = s => f = g
  BY <1>0
<1>3. /\ Issued'[s] = 1 /\ Flying'[s] = LineOfInvocations[s][1] /\ Verdict'[s] = "active"
  BY <1>0, <1>1, <1>2, LineSeenNext DEF LineOfInvocations
<1>4. Verdict[s] = "new"
  BY NoLineSeen
<1>5. ASSUME NEW r \in Sims \ {s} PROVE SeenTheSame(r)
  BY <1>0, <1>1, OtherLines
<1>6. Runs!Begin({s})
  <2>1. /\ Issued' = [k \in Sims |-> IF k \in {s} THEN 1 ELSE Issued[k]]
        /\ Flying' = [k \in Sims |-> IF k \in {s} THEN LineOfInvocations[k][1] ELSE Flying[k]]
        /\ Verdict' = [k \in Sims |-> IF k \in {s} THEN "active" ELSE Verdict[k]]
    BY <1>3, <1>5, Seen DEF SeenTheSame
  <2>. QED BY <1>4, <2>1 DEF Runs!Begin
<1>. QED BY <1>6 DEF Runs!Next

LEMMA WentOnStep ==
  ASSUME TypeOK, CallInv, CallInv', ProgressInv, NEW e \in simCalls, NEW g, WentOn(e, g)
  PROVE  [Runs!Next]_Runs!runVars
<1>0. /\ UNCHANGED <<phase, simEnd>> /\ phase = "loop" /\ phase' = "loop"
      /\ simCalls' = (simCalls \ {e}) \cup {g} /\ g.line = e.line
  BY Zenon DEF WentOn
<1>1. \A f \in simCalls : f.line = e.line => f = e
  BY <1>0 DEF CallInv, LineInv
<1>2. g \in simCalls' /\ \A f \in simCalls' : f.line = e.line => f = g
  BY <1>0, <1>1
<1>3. e.line \in Lines /\ e.queue \in Seq(Target)
  BY DEF TypeOK, LoopType, SimCall
<1>4. \A r \in Sims \ {e.line} : SeenTheSame(r)
  BY <1>0, OtherLines
<1>5. CASE e.line \notin Sims
  BY <1>4, <1>5, AllTheSame
<1>6. CASE e.line \in Sims
  <2>1. PICK s \in Sims : s = e.line
    BY <1>6
  <2>2. /\ Len(Invocations(s)) - Len(g.queue) = Len(Invocations(s)) - Len(e.queue) + 1
        /\ Len(Invocations(s)) - Len(e.queue) < Len(Invocations(s))
        /\ g.inv = Invocations(s)[Len(Invocations(s)) - Len(g.queue)]
    BY <1>3, <2>1, NextFollows, Zenon DEF WentOn, ProgressInv
  <2>3. /\ Issued[s] = Len(Invocations(s)) - Len(e.queue) /\ Verdict[s] = "active"
    BY <1>0, <1>1, <2>1, LineSeen, Zenon
  <2>4. /\ Issued'[s] = Len(Invocations(s)) - Len(g.queue) /\ Flying'[s] = g.inv
        /\ Verdict'[s] = "active"
    <3>1. g \in simCalls' /\ g.line = s /\ \A f \in simCalls' : f.line = s => f = g
      BY <1>0, <1>2, <2>1
    <3>. QED BY <1>0, <3>1, LineSeenNext
  <2>5. /\ Issued'[s] = Issued[s] + 1 /\ Issued[s] < Len(LineOfInvocations[s])
        /\ Flying'[s] = LineOfInvocations[s][Issued'[s]]
    BY <2>2, <2>3, <2>4 DEF LineOfInvocations
  <2>6. Issued' = [Issued EXCEPT ![s] = @ + 1]
    BY <1>4, <2>1, <2>5, Seen DEF SeenTheSame
  <2>7. Flying' = [Flying EXCEPT ![s] = LineOfInvocations[s][Issued'[s]]]
    BY <1>4, <2>1, <2>5, Seen DEF SeenTheSame
  <2>8. Verdict' = Verdict
    BY <1>4, <2>1, <2>3, <2>4, Seen DEF SeenTheSame
  <2>9. Runs!Advance(s)
    BY <2>3, <2>5, <2>6, <2>7, <2>8, Zenon DEF Runs!Advance
  <2>. QED BY <2>9 DEF Runs!Next
<1>. QED BY <1>5, <1>6

LEMMA IsOverStep ==
  ASSUME TypeOK, CallInv, CallInv', ProgressInv, NEW e \in simCalls, NEW ok, IsOver(e, ok)
  PROVE  [Runs!Next]_Runs!runVars
<1>0. /\ UNCHANGED phase /\ phase = "loop" /\ phase' = "loop" /\ simCalls' = simCalls \ {e}
      /\ simEnd \in [Sims -> {"none", "ok", "error"}] /\ simMap \subseteq Sims
  BY DEF IsOver, TypeOK, SimType
<1>1. \A f \in simCalls : f.line = e.line => f = e
  BY <1>0 DEF CallInv, LineInv
<1>2. \A f \in simCalls' : f.line # e.line
  BY <1>0, <1>1
<1>4. ASSUME NEW r \in Sims \ {e.line} PROVE SeenTheSame(r)
  <2>1. simEnd'[r] = simEnd[r]
    BY <1>0 DEF IsOver
  <2>. QED BY <1>0, <2>1, OtherLines
<1>5. CASE e.line \notin Sims
  BY <1>4, <1>5, AllTheSame
<1>6. CASE e.line \in Sims
  <2>1. PICK s \in Sims : s = e.line
    BY <1>6
  <2>2. simEnd'[s] = IF ok THEN "ok" ELSE "error"
    BY <1>0, <2>1 DEF ProgressInv, VerdictInv, IsOver
  <2>3. Verdict[s] = "active" /\ Issued[s] = Len(Invocations(s)) - Len(e.queue)
    BY <1>0, <1>1, <2>1, LineSeen, Zenon
  <2>4. Issued'[s] = 0 /\ Flying'[s] = NoTarget /\ Verdict'[s] = simEnd'[s]
    BY <1>2, <2>1, <2>2, NoLineSeenNext
  <2>5. /\ Issued' = [Issued EXCEPT ![s] = 0]
        /\ Flying' = [Flying EXCEPT ![s] = NoTarget]
        /\ Verdict' = [Verdict EXCEPT ![s] = simEnd'[s]]
    BY <1>4, <2>1, <2>4, Seen DEF SeenTheSame
  <2>6. Runs!Over(s, simEnd'[s])
    BY <2>3, <2>5 DEF Runs!Over
  <2>7. CASE ~ok
    <3>1. Runs!GiveUp(s)
      BY <2>2, <2>6, <2>7 DEF Runs!GiveUp
    <3>. QED BY <3>1 DEF Runs!Next
  <2>8. CASE ok
    <3>1. e.queue = <<>>
      BY <2>8 DEF IsOver
    <3>2. Len(Invocations(s)) \in Nat /\ Len(e.queue) = 0
      <4>1. s \in Lines
        BY DEF Lines
      <4>2. Invocations(s) \in Seq(Target)
        BY <4>1, InvocationsType
      <4>. QED BY <3>1, <4>2
    <3>3. Issued[s] = Len(LineOfInvocations[s])
      BY <2>3, <3>2 DEF LineOfInvocations
    <3>4. Runs!Complete(s)
      BY <2>2, <2>6, <2>8, <3>3 DEF Runs!Complete
    <3>. QED BY <3>4 DEF Runs!Next
  <2>. QED BY <2>7, <2>8
<1>. QED BY <1>5, <1>6

LEMMA StartLinesStep ==
  ASSUME TypeOK, EarlyInv, CallInv, CallInv', ProgressInv, StartLines
  PROVE  [Runs!Next]_Runs!runVars
<1>. DEFINE K == {s \in Sims : \E i \in DOMAIN InitialLines : InitialLines[i] = s}
<1>0. /\ phase = "init" /\ phase' = "loop" /\ UNCHANGED simEnd /\ simCalls = {}
      /\ simCalls' = {Entry(InitialLines[i], nextCallId + i - 1) : i \in DOMAIN InitialLines}
      /\ \A s \in Sims : simEnd[s] = "none"
  BY Zenon DEF StartLines, simVars, EarlyInv, ProgressInv, VerdictInv
<1>1. \A s \in Sims : Issued[s] = 0 /\ Flying[s] = NoTarget /\ Verdict[s] = "new"
  BY <1>0, NoLineSeen
<1>2. ASSUME NEW s \in K
      PROVE  Issued'[s] = 1 /\ Flying'[s] = LineOfInvocations[s][1] /\ Verdict'[s] = "active"
  <2>1. PICK i \in DOMAIN InitialLines : InitialLines[i] = s
    OBVIOUS
  <2>2. PICK g : g = Entry(s, nextCallId + i - 1)
    OBVIOUS
  <2>3. s \in Lines /\ s \in Sims
    BY DEF Lines
  <2>4. /\ g.line = s /\ g.inv = Invocations(s)[1]
        /\ Len(Invocations(s)) - Len(g.queue) = 1
    BY <2>2, <2>3, EntryFollows DEF Entry
  <2>5. g \in simCalls'
    BY <1>0, <2>1, <2>2
  <2>6. \A f \in simCalls' : f.line = s => f = g
    BY <1>0, <2>4, <2>5 DEF CallInv, LineInv
  <2>. QED BY <1>0, <2>3, <2>4, <2>5, <2>6, LineSeenNext DEF LineOfInvocations
<1>3. ASSUME NEW s \in Sims \ K PROVE SeenTheSame(s)
  <2>1. \A f \in simCalls' : f.line # s
    <3>. SUFFICES ASSUME NEW i \in DOMAIN InitialLines, NEW n, Entry(InitialLines[i], n).line = s
                  PROVE FALSE
      BY <1>0
    <3>. QED BY DEF Entry
  <2>. QED BY <1>0, <1>1, <2>1, NoLineSeenNext DEF SeenTheSame
<1>4. CASE K = {}
  BY <1>3, <1>4, AllTheSame
<1>5. CASE K # {}
  <2>1. K \subseteq Sims
    OBVIOUS
  <2>. HIDE DEF K
  <2>2. /\ Issued' = [k \in Sims |-> IF k \in K THEN 1 ELSE Issued[k]]
        /\ Flying' = [k \in Sims |-> IF k \in K THEN LineOfInvocations[k][1] ELSE Flying[k]]
        /\ Verdict' = [k \in Sims |-> IF k \in K THEN "active" ELSE Verdict[k]]
    BY <1>2, <1>3, <2>1, Seen DEF SeenTheSame
  <2>3. Runs!Begin(K)
    BY <1>1, <1>5, <2>1, <2>2 DEF Runs!Begin
  <2>. QED BY <2>1, <2>3 DEF Runs!Next
<1>. QED BY <1>4, <1>5

(* Framework.run drives every simulation as SimulationRuns promises: a step *)
(* of the framework or of a component begins lines, advances one, ends one *)
(* with the verdict of its last result, gives all up, or touches none; for *)
(* every list of simulations and every program of their components.        *)
THEOREM LinesRunAsPromised == Spec => RunsAsPromised
<1>1. Init => Runs!Init
  <2>. SUFFICES ASSUME Init PROVE Runs!Init
    OBVIOUS
  <2>1. \A s \in Sims : simEnd[s] = "none" /\ ~InFlight(s)
    BY DEF Init, InFlight
  <2>. QED BY <2>1 DEF Runs!Init, Issued, Flying, Verdict
<1>2. /\ TypeOK /\ EarlyInv /\ RequestInv /\ CallInv /\ CallInv' /\ ProgressInv
      /\ [Next]_vars
      => [Runs!Next]_Runs!runVars
  <2>. SUFFICES ASSUME TypeOK, EarlyInv, RequestInv, CallInv, CallInv', ProgressInv, [Next]_vars
                PROVE  [Runs!Next]_Runs!runVars
    OBVIOUS
  <2>1. CASE Untouched
    BY <2>1, UntouchedStep
  <2>2. CASE \E s \in Sims, i \in Nat : Created(s, i)
    <3>1. PICK s \in Sims, i \in Nat : Created(s, i)
      BY <2>2
    <3>2. simEnd[s] = "none" /\ \A e \in simCalls : e.line # s
      BY <3>1, NewSimulation DEF Created
    <3>3. Runs!Next
      BY <3>1, <3>2, CreatedStep
    <3>. QED BY <3>3
  <2>3. CASE HandleCreateSim
    BY <2>1, <2>2, <2>3, CreateSimSteps
  <2>4. CASE StartLines
    BY <2>4, StartLinesStep
  <2>5. CASE HandleLineResult
    BY <2>5, LineResultSteps, WentOnStep
  <2>6. CASE HandleLastResult
    BY <2>6, LastResultSteps, IsOverStep
  <2>. QED BY <2>1, <2>3, <2>4, <2>5, <2>6, OthersUntouched
<1>. QED BY <1>1, <1>2, TypeCorrect, EarlyStays, RequestsStay, CallsStay, ProgressStays, PTL
        DEF Spec, RunsAsPromised, Runs!Spec
=============================================================================
