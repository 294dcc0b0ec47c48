------------------------------ MODULE EventService ------------------------------
(***************************************************************************)
(* The event service of the framework (eventService.py) and the event      *)
(* managers of the components that use it (ips_es_spec.py, cca_es_spec.py, *)
(* eventServiceProxy.py).                                                  *)
(*                                                                         *)
(* An operation of an event manager is a list of service requests.  The    *)
(* framework serves one request at a time, so those of several components  *)
(* interleave; a component goes on when it has the response.  Events that  *)
(* process_events has fetched are handed to callbacks one by one, and a    *)
(* callback may use the service itself.  The framework publishes without   *)
(* requests.  A component has one subscriber, so its id is the component;  *)
(* a listener key is always the topic of its subscription.                 *)
(***************************************************************************)
EXTENDS TopicManager, FiniteSets

CONSTANTS
  Clients,       \* the components
  Topics,
  Events,
  Uses,          \* Uses[c]: pairs of an operation and a topic that programs of c use
  Careless,      \* components whose callbacks unsubscribe or subscribe twice
  MaxPending,    \* MaxPending[t]: bound on the events of t on their way
  MaxListeners,  \* bound on the listeners ever created
  Closed

ASSUME ServiceAssumption ==
  /\ IsFiniteSet(Clients) /\ Careless \subseteq Clients
  /\ Uses \in [Clients -> SUBSET ({"subscribe", "unsubscribe", "publish"} \X Topics)]
  /\ MaxPending \in [Topics -> Nat] /\ MaxListeners \in Nat
  /\ Closed \notin Seq(Events)

VARIABLES
  topics,               \* the keys of topicDirectory
  topicDirectory,       \* the TopicManager of each topic
  subscribers,          \* the keys of subscriberDirectory
  subscriptions,        \* the keys of subscriberDirectory[c]
  listener,             \* the listener in subscriberDirectory[c][t], or 0
  numListeners

VARIABLES
  alive,
  objcache,             \* the topics c has a Subscription object for
  listenerDirectory,    \* the listeners the proxy of c has a callback for
  evl,                  \* the listener that c has created last
  todo,                 \* requests of the operation c is in
  batch                 \* what c has fetched and not handed to a callback

subscriberDirectory == <<subscribers, subscriptions, listener>>
serviceVars == <<topics, topicDirectory, subscriberDirectory, numListeners>>
clientVars == <<alive, objcache, listenerDirectory, evl, todo, batch>>
vars == <<serviceVars, clientVars>>

Requests ==
  [type : {"registerSubscriber", "createListener", "processEvents"}]
  \cup [type : {"getSubscription", "registerEventListener", "unregisterEventListener",
                "removeSubscription", "getTopic"}, topic : Topics]
  \cup [type : {"sendEvent"}, topic : Topics, event : Events]

NoBatch == [t \in Topics |-> [listener |-> 0, events |-> <<>>]]

TypeOK ==
  /\ topics \subseteq Topics /\ subscribers \subseteq Clients
  /\ \A t \in Topics :
        /\ topicDirectory[t].events \in Seq(Events)
        /\ Listeners(topicDirectory[t]) \subseteq 1..numListeners
        /\ \A l \in Listeners(topicDirectory[t]) :
              topicDirectory[t].marks[l] \in 0..Len(topicDirectory[t].events)
  /\ subscriptions \in [Clients -> SUBSET Topics]
  /\ listener \in [Clients -> [Topics -> 0..numListeners]]
  /\ numListeners \in Nat
  /\ alive \subseteq Clients
  /\ objcache \in [Clients -> SUBSET Topics]
  /\ listenerDirectory \in [Clients -> SUBSET Nat]
  /\ evl \in [Clients -> Nat]
  /\ todo \in [Clients -> Seq(Requests)]
  /\ batch \in [Clients -> [Topics -> [listener : Nat, events : Seq(Events)]]]

Init ==
  /\ topics = {} /\ topicDirectory = [t \in Topics |-> NewTopic]
  /\ subscribers = {} /\ subscriptions = [c \in Clients |-> {}]
  /\ listener = [c \in Clients |-> [t \in Topics |-> 0]] /\ numListeners = 0
  /\ alive = Clients
  /\ objcache = [c \in Clients |-> {}]
  /\ listenerDirectory = [c \in Clients |-> {}]
  /\ evl = [c \in Clients |-> 0]
  /\ todo = [c \in Clients |-> <<>>]
  /\ batch = [c \in Clients |-> NoBatch]

-----------------------------------------------------------------------------
(* Operations of an event manager *)

Ask(type) == [type |-> type]
AskOf(type, t) == [type |-> type, topic |-> t]

SubscribeRequests(c, t) ==
  (IF c \in subscribers THEN <<>> ELSE <<Ask("registerSubscriber")>>)
  \o (IF t \in objcache[c] THEN <<>> ELSE <<AskOf("getSubscription", t)>>)
  \o <<Ask("createListener"), AskOf("registerEventListener", t)>>

(* unsubscribe: dropping the Subscription object removes the subscription. *)
UnsubscribeRequests(c, t) ==
  IF t \in objcache[c]
  THEN <<AskOf("unregisterEventListener", t), AskOf("removeSubscription", t)>> ELSE <<>>

PublishRequests(t, e) ==
  <<AskOf("getTopic", t), [type |-> "sendEvent", topic |-> t, event |-> e]>>

ProcessRequests(c) == IF c \in subscribers THEN <<Ask("processEvents")>> ELSE <<>>

(* Bound: nobody publishes while this much is on its way. *)
Room(t) == \A c \in Clients :
  Len(topicDirectory[t].events) + Len(batch[c][t].events) < MaxPending[t]

(* The operations a program of c may start, as lists of requests. *)
Operations(c) ==
  {SubscribeRequests(c, t) : t \in {u \in Topics : <<"subscribe", u>> \in Uses[c]
                                                  /\ numListeners < MaxListeners}}
  \cup {UnsubscribeRequests(c, t) : t \in {u \in Topics : <<"unsubscribe", u>> \in Uses[c]}}
  \cup {PublishRequests(t, e) : t \in {u \in Topics : <<"publish", u>> \in Uses[c] /\ Room(u)},
                                e \in Events}

(* A careful callback only publishes, or subscribes to something new. *)
CallbackUses(c) ==
  {<<>>} \cup
  {r \in Operations(c) :
     c \in Careless \/ \A i \in DOMAIN r :
        /\ r[i].type # "unregisterEventListener"
        /\ r[i].type = "registerEventListener" => r[i].topic \notin objcache[c]}

Handed(c) == {t \in Topics : batch[c][t].events # <<>>}
Idle(c) == c \in alive /\ todo[c] = <<>> /\ Handed(c) = {}

Start(c) ==
  /\ Idle(c)
  /\ \E r \in Operations(c) \cup {ProcessRequests(c)} :
        r # <<>> /\ todo' = [todo EXCEPT ![c] = r]
  /\ UNCHANGED <<serviceVars, alive, objcache, listenerDirectory, evl, batch>>

-----------------------------------------------------------------------------
(* Requests, as the service handles them and the event manager goes on *)

Asks(c, type) == c \in alive /\ todo[c] # <<>> /\ Head(todo[c]).type = type
Subscribed(c, t) == listener[c][t] # 0

(* EventServiceException *)
Refused(c, r) ==
  \/ r.type = "getSubscription" /\ (c \notin subscribers \/ r.topic \in subscriptions[c])
  \/ r.type = "registerEventListener" /\ (r.topic \notin subscriptions[c] \/ Subscribed(c, r.topic))
  \/ r.type = "unregisterEventListener" /\ ~Subscribed(c, r.topic)
  \/ r.type = "sendEvent" /\ r.topic \notin topics
  \/ r.type = "processEvents" /\ c \notin subscribers

Accepted(c, type) ==
  /\ Asks(c, type) /\ ~Refused(c, Head(todo[c]))
  /\ todo' = [todo EXCEPT ![c] = Tail(@)]

RegisterSubscriber(c) ==
  /\ Accepted(c, "registerSubscriber")
  /\ subscribers' = subscribers \cup {c}
  /\ UNCHANGED <<topics, topicDirectory, subscriptions, listener, numListeners, alive,
                 objcache, listenerDirectory, evl, batch>>

GetSubscription(c) ==
  /\ Accepted(c, "getSubscription")
  /\ LET t == Head(todo[c]).topic IN
     /\ topics' = topics \cup {t}
     /\ subscriptions' = [subscriptions EXCEPT ![c] = @ \cup {t}]
     /\ objcache' = [objcache EXCEPT ![c] = @ \cup {t}]
  /\ UNCHANGED <<topicDirectory, subscribers, listener, numListeners, alive, listenerDirectory, evl, batch>>

CreateListener(c) ==
  /\ Accepted(c, "createListener")
  /\ numListeners' = numListeners + 1
  /\ evl' = [evl EXCEPT ![c] = numListeners + 1]
  /\ UNCHANGED <<topics, topicDirectory, subscriberDirectory, alive,
                 objcache, listenerDirectory, batch>>

RegisterEventListener(c) ==
  /\ Accepted(c, "registerEventListener")
  /\ LET t == Head(todo[c]).topic IN
     /\ topicDirectory' = [topicDirectory EXCEPT ![t] = Registered(@, evl[c])]
     /\ listener' = [listener EXCEPT ![c][t] = evl[c]]
     /\ listenerDirectory' = [listenerDirectory EXCEPT ![c] = @ \cup {evl[c]}]
  /\ UNCHANGED <<topics, subscribers, subscriptions, numListeners, alive, objcache, evl, batch>>

(* _removeEventListener of the proxy *)
Kept(c, l) == listenerDirectory[c]
Forgotten(c, l) == listenerDirectory[c] \ {l}

UnregisterEventListener(c) ==
  /\ Accepted(c, "unregisterEventListener")
  /\ LET t == Head(todo[c]).topic
         l == listener[c][t] IN
     /\ topicDirectory' = [topicDirectory EXCEPT ![t] = Unregistered(@, l)]
     /\ listener' = [listener EXCEPT ![c][t] = 0]
     /\ listenerDirectory' = [listenerDirectory EXCEPT ![c] = Forgotten(c, l)]
     /\ objcache' = [objcache EXCEPT ![c] = @ \ {t}]
  /\ UNCHANGED <<topics, subscribers, subscriptions, numListeners, alive, evl, batch>>

(* removeSubscription, from Subscription.__del__: its listener is gone. *)
RemoveSubscription(c) ==
  /\ Accepted(c, "removeSubscription")
  /\ subscriptions' = [subscriptions EXCEPT ![c] = @ \ {Head(todo[c]).topic}]
  /\ UNCHANGED <<topics, topicDirectory, subscribers, listener, numListeners, alive, objcache,
                 listenerDirectory, evl, batch>>

GetTopic(c) ==
  /\ Accepted(c, "getTopic")
  /\ topics' = topics \cup {Head(todo[c]).topic}
  /\ UNCHANGED <<topicDirectory, subscriberDirectory, numListeners, alive,
                 objcache, listenerDirectory, evl, batch>>

SendEvent(c) ==
  /\ Accepted(c, "sendEvent")
  /\ LET t == Head(todo[c]).topic IN
     /\ Room(t)
     /\ topicDirectory' = [topicDirectory EXCEPT ![t] = Sent(@, Head(todo[c]).event)]
  /\ UNCHANGED <<topics, subscriberDirectory, numListeners, alive, objcache,
                 listenerDirectory, evl, batch>>

(* processEvents fetches from all topics of the subscriber at once. *)
ProcessEvents(c) ==
  /\ Accepted(c, "processEvents")
  /\ batch' = [batch EXCEPT ![c] = [t \in Topics |->
       IF Subscribed(c, t)
       THEN [listener |-> listener[c][t], events |-> Pending(topicDirectory[t], listener[c][t])]
       ELSE [listener |-> 0, events |-> <<>>]]]
  /\ topicDirectory' = [t \in Topics |->
       IF Subscribed(c, t) THEN CleanedUp(topicDirectory[t], listener[c][t]) ELSE topicDirectory[t]]
  /\ UNCHANGED <<topics, subscriberDirectory, numListeners, alive, objcache,
                 listenerDirectory, evl>>

(* The exception ends the operation and, in a callback, process_events. *)
Raise(c) ==
  /\ todo' = [todo EXCEPT ![c] = <<>>]
  /\ batch' = [batch EXCEPT ![c] = NoBatch]
  /\ UNCHANGED <<serviceVars, alive, objcache, listenerDirectory, evl>>

Refuse(c) ==
  /\ c \in alive /\ todo[c] # <<>> /\ Refused(c, Head(todo[c]))
  /\ Raise(c)

-----------------------------------------------------------------------------
(* The loop over the fetched events, topic by topic in the order in which *)
(* the listeners were created.                                            *)
NextHanded(c, t) ==
  /\ c \in alive /\ todo[c] = <<>> /\ t \in Handed(c)
  /\ \A u \in Handed(c) : batch[c][t].listener <= batch[c][u].listener

HandOver(c, t) ==
  /\ NextHanded(c, t) /\ batch[c][t].listener \in listenerDirectory[c]
  /\ batch' = [batch EXCEPT ![c][t].events = Tail(@)]
  /\ \E r \in CallbackUses(c) : todo' = [todo EXCEPT ![c] = r]
  /\ UNCHANGED <<serviceVars, alive, objcache, listenerDirectory, evl>>

(* KeyError: the proxy has no such listener any more. *)
MissListener(c, t) ==
  /\ NextHanded(c, t) /\ batch[c][t].listener \notin listenerDirectory[c]
  /\ Raise(c)

(* The process of c ends; nobody tells the service. *)
Die(c) ==
  /\ c \in alive
  /\ alive' = alive \ {c}
  /\ todo' = [todo EXCEPT ![c] = <<>>]
  /\ batch' = [batch EXCEPT ![c] = NoBatch]
  /\ objcache' = [objcache EXCEPT ![c] = {}]
  /\ listenerDirectory' = [listenerDirectory EXCEPT ![c] = {}]
  /\ UNCHANGED <<serviceVars, evl>>

(* The framework's own event manager. *)
Publish(t, e) ==
  /\ Room(t)
  /\ topics' = topics \cup {t}
  /\ topicDirectory' = [topicDirectory EXCEPT ![t] = Sent(@, e)]
  /\ UNCHANGED <<subscriberDirectory, numListeners, clientVars>>

ClientStep(c) ==
  \/ Start(c) \/ RegisterSubscriber(c) \/ GetSubscription(c) \/ CreateListener(c)
  \/ RegisterEventListener(c) \/ UnregisterEventListener(c) \/ RemoveSubscription(c)
  \/ GetTopic(c) \/ SendEvent(c) \/ ProcessEvents(c) \/ Refuse(c) \/ Die(c)
  \/ \E t \in Topics : HandOver(c, t) \/ MissListener(c, t)

Next ==
  \/ \E t \in Topics, e \in Events : Publish(t, e)
  \/ \E c \in Clients : ClientStep(c)

Spec == Init /\ [][Next]_vars

-----------------------------------------------------------------------------
(* Properties *)

(* The tables of the service, of its topics and of the proxies tell of the *)
(* same listeners, each of one component and one topic: so whatever the    *)
(* service delivers to a component that is still subscribed has a callback *)
(* there, and no topic keeps a listener that nobody can unregister.        *)
ListenersAgree ==
  /\ TypeOK
  /\ \A t \in Topics : Listeners(topicDirectory[t]) =
        {listener[c][t] : c \in {d \in Clients : Subscribed(d, t)}}
  /\ \A c \in alive : listenerDirectory[c] =
        {listener[c][t] : t \in {u \in Topics : Subscribed(c, u)}}
  /\ \A c, d \in Clients, t, u \in Topics :
        Subscribed(c, t) /\ listener[c][t] = listener[d][u] => c = d /\ t = u
  /\ \A c \in alive : \A t \in objcache[c] : t \in subscriptions[c]

(* A topic keeps an event only for a listener that has not fetched it: the *)
(* list begins where the slowest listener is.                              *)
NothingKeptInVain ==
  \A t \in Topics : topicDirectory[t].events # <<>> =>
     \E l \in Listeners(topicDirectory[t]) : topicDirectory[t].marks[l] = 0

(* Events go from publication to the callbacks as Mailboxes says, though   *)
(* topics share one list among their listeners, cut it and move the marks. *)
Read(c, t) == IF batch[c][t].listener = listener[c][t] THEN batch[c][t].events ELSE <<>>
Inbox == [c \in Clients |-> [t \in Topics |->
  IF c \in alive /\ Subscribed(c, t)
  THEN Read(c, t) \o Pending(topicDirectory[t], listener[c][t]) ELSE Closed]]

Promise == INSTANCE Mailboxes WITH Readers <- Clients, box <- Inbox
MailboxesKept == Promise!Spec
=============================================================================
