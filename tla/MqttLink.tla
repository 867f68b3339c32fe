------------------------------ MODULE MqttLink ------------------------------
(***************************************************************************)
(* The MQTT connection (src/infra/mqtt_client.rs) with the three tasks     *)
(* around it: the gate, which publishes its state at any time and never    *)
(* waits; the discovery task, which republishes everything after each      *)
(* (re)connect; and the handler task, which registers the subscriptions    *)
(* and executes incoming commands.  Under all of them the Wi-Fi task joins *)
(* the network and rejoins it (src/infra/wifi_sta.rs).                     *)
(*                                                                         *)
(* The state the gate publishes is abstracted to its version: a message is *)
(* a topic and the version it carries.  The connection may break whenever  *)
(* the client touches the socket.  A message written to the socket sits in *)
(* the TCP pipeline (`wire`) and is lost with it.  The client itself is    *)
(* used as Delivery promises it (see MqttClient).  The broker keeps the    *)
(* last value of every topic (all publishes are retained) and forgets the  *)
(* subscriptions of a client that reconnects (clean session).              *)
(***************************************************************************)
EXTENDS Naturals, Sequences, FiniteSets, SequencesExt

CONSTANTS
    StateTopics,    \* sequence: what publish_state() publishes, in order
    ConfigTopics,   \* sequence: the discovery configs, in order
    CommandTopics,  \* sequence: the topics the handler subscribes to
    OutgoingDepth,  \* OUTGOING_DEPTH
    QueueDepth,     \* QUEUE_DEPTH
    WireDepth,      \* bound: messages in the TCP pipeline
    MaxVersion,     \* bound: state changes
    MaxCommand      \* bound: commands the broker sends

\* mqtt_client.rs: OUTGOING_DEPTH is "big enough for a full republish after
\* reconnect" (16, for 5 configs and 3 states); 3 command topics fit the
\* subscription queue of 8.
ASSUME DepthAssumption ==
    /\ OutgoingDepth \in Nat
    /\ OutgoingDepth >= Len(StateTopics) + Len(ConfigTopics)
    /\ QueueDepth \in Nat
    /\ QueueDepth >= Len(CommandTopics)
    /\ WireDepth \in Nat \ {0}
    /\ MaxVersion \in Nat \ {0}
    /\ MaxCommand \in Nat

ASSUME TopicsAssumption ==
    /\ StateTopics \in Seq(ToSet(StateTopics))
    /\ ConfigTopics \in Seq(ToSet(ConfigTopics))
    /\ CommandTopics \in Seq(ToSet(CommandTopics))

VARIABLES
    wifi,           \* where the Wi-Fi task is: "joining", "joined", "pausing"
    version,        \* the gate's state, as last announced
    outgoing,       \* OUTGOING
    connected,      \* the CONNECTED signal
    republished,    \* history: the version of the last republish, 0 once an
                    \* overflow after it has dropped messages
    subscriptions,  \* SUBSCRIPTIONS
    sub_queue,      \* SUB_QUEUE
    handler,        \* command topics the handler has yet to register
    queueing,       \* the subscription it is putting into SUB_QUEUE
    incoming,       \* INCOMING
    executed,       \* commands executed, in order
    link,           \* where the connection task is
    todo,           \* subscriptions it still has to renew
    hand,           \* what it took out of a queue or the socket, a sequence
    wire,           \* written to the socket, not yet at the broker
    inbound,        \* sent by the broker, not yet read
    sent,           \* history: commands the broker has sent
    retained,       \* the broker's retained messages, 0 for none yet
    broker_subs     \* the broker's subscriptions of this session

publishing == <<version, outgoing, connected, republished>>
registering == <<handler, queueing>>
subscribing == <<subscriptions, sub_queue, registering>>
receiving == <<incoming, executed>>
connection == <<link, todo, hand>>
broker == <<wire, inbound, sent, retained, broker_subs>>
vars == <<wifi, publishing, subscribing, receiving, connection, broker>>

States == ToSet(StateTopics)
Configs == ToSet(ConfigTopics)
Commands == ToSet(CommandTopics)

Message(t, v) == [topic |-> t, version |-> v]
Subscribe(t) == [subscribe |-> t]
IsMessage(m) == "topic" \in DOMAIN m

\* A command is the n-th the broker sends; Command::parse understands its
\* topic and payload, or not.
Command(n, understood) == [command |-> n, understood |-> understood]

-----------------------------------------------------------------------------
(* The Wi-Fi task: joins, waits for a disconnect, pauses, joins again.     *)

WifiStep(from, to) ==
    /\ wifi = from
    /\ wifi' = to
    /\ UNCHANGED <<publishing, subscribing, receiving, connection, broker>>

WifiJoins == WifiStep("joining", "joined")
WifiJoinFails == WifiStep("joining", "pausing")
WifiDrops == WifiStep("joined", "pausing")

\* Mutant of WifiRetries: a network that could not be joined, or dropped, is
\* given up.
WifiGivesUp == WifiStep("pausing", "pausing")

WifiRetries == WifiStep("pausing", "joining")

-----------------------------------------------------------------------------
(* publish(), called by any task.                                          *)

\* Mutant of KeepNewest: what does not fit is dropped.
KeepOldest(q) ==
    IF Len(q) > OutgoingDepth THEN SubSeq(q, 1, OutgoingDepth) ELSE q

\* Mutant of KeepNewest: off by one.
KeepOneMore(q) ==
    IF Len(q) > OutgoingDepth + 1
    THEN SubSeq(q, Len(q) - OutgoingDepth, Len(q)) ELSE q

\* When the queue is full the oldest message makes room, message by message:
\* the newest OutgoingDepth ones remain.
KeepNewest(q) ==
    IF Len(q) > OutgoingDepth
    THEN SubSeq(q, Len(q) - OutgoingDepth + 1, Len(q)) ELSE q

PublishAll(q, topics, v) ==
    KeepNewest(q \o [i \in DOMAIN topics |-> Message(topics[i], v)])

\* The gate announces a new state (its notify, publish_state()).
GatePublishes ==
    /\ version < MaxVersion
    /\ version' = version + 1
    /\ outgoing' = PublishAll(outgoing, StateTopics, version')
    /\ republished' = IF Len(outgoing) + Len(StateTopics) > OutgoingDepth
                      THEN 0 ELSE republished
    /\ UNCHANGED <<wifi, connected, subscribing, receiving, connection, broker>>

\* The discovery task queues the configs, then the current state.
Republish ==
    /\ connected
    /\ connected' = FALSE
    /\ outgoing' = PublishAll(PublishAll(outgoing, ConfigTopics, version),
                               StateTopics, version)
    /\ republished' = version
    /\ UNCHANGED <<wifi, version, subscribing, receiving, connection, broker>>

-----------------------------------------------------------------------------
(* The handler task.                                                       *)

\* subscribe(): the topic goes into the list, then into the queue, which may
\* have to wait for room.
HandlerRegisters ==
    /\ handler # <<>> /\ queueing = <<>>
    /\ subscriptions' = Append(subscriptions, Head(handler))
    /\ queueing' = <<Head(handler)>>
    /\ handler' = Tail(handler)
    /\ UNCHANGED <<wifi, publishing, sub_queue, receiving, connection, broker>>

HandlerQueues ==
    /\ queueing # <<>>
    /\ Len(sub_queue) < QueueDepth
    /\ sub_queue' = sub_queue \o queueing
    /\ queueing' = <<>>
    /\ UNCHANGED <<wifi, publishing, subscriptions, handler, receiving,
                   connection, broker>>

\* Only when every topic is registered does it receive; what it cannot parse
\* is logged and skipped.
HandlerExecutes ==
    /\ handler = <<>> /\ queueing = <<>>
    /\ incoming # <<>>
    /\ executed' = IF Head(incoming).understood
                   THEN Append(executed, Head(incoming)) ELSE executed
    /\ incoming' = Tail(incoming)
    /\ UNCHANGED <<wifi, publishing, subscribing, connection, broker>>

-----------------------------------------------------------------------------
(* The connection task.                                                    *)

\* Mutant of ToRenew: only what is queued.
RenewQueued == sub_queue

\* Whatever is queued for subscription is in the list, too: the queue is
\* emptied and the list renewed.
ToRenew == subscriptions

\* CONNECT is accepted: a fresh session.
Connect ==
    /\ link = "offline"
    /\ wifi = "joined"
    /\ link' = "resubscribing"
    /\ sub_queue' = <<>>
    /\ todo' = ToRenew
    /\ wire' = <<>> /\ inbound' = <<>> /\ broker_subs' = {}
    /\ UNCHANGED <<wifi, publishing, subscriptions, registering, receiving, hand,
                   sent, retained>>

Resubscribe ==
    /\ link = "resubscribing"
    /\ todo # <<>>
    /\ Len(wire) < WireDepth
    /\ wire' = Append(wire, Subscribe(Head(todo)))
    /\ todo' = Tail(todo)
    /\ UNCHANGED <<wifi, publishing, subscribing, receiving, link, hand,
                   inbound, sent, retained, broker_subs>>

\* What piled up while offline is dropped, and the discovery task is told to
\* republish.
GoOnline ==
    /\ link = "resubscribing"
    /\ todo = <<>>
    /\ link' = "polling"
    /\ outgoing' = <<>>
    /\ connected' = TRUE
    /\ UNCHANGED <<wifi, version, republished, subscribing, receiving, todo,
                   hand, broker>>

\* Mutant of Unread: the packet is not consumed.
UnreadAgain == inbound

\* What is left to read after a packet has been handed out.
Unread == Tail(inbound)

\* The select of the connection loop.  A packet is read and acknowledged
\* when it has arrived and the acknowledgement fits the socket; until then
\* (`inbound` is also what is still under way) OUTGOING and, behind it,
\* SUB_QUEUE may win.
ReceiveCommand ==
    /\ link = "polling"
    /\ inbound # <<>>
    /\ link' = "handing_over"
    /\ hand' = <<Head(inbound)>>
    /\ inbound' = Unread
    /\ UNCHANGED <<wifi, publishing, subscribing, receiving, todo, wire, sent,
                   retained, broker_subs>>

\* INCOMING.send() waits for room; meanwhile the task does nothing else.
HandOver ==
    /\ link = "handing_over"
    /\ Len(incoming) < QueueDepth
    /\ incoming' = incoming \o hand
    /\ hand' = <<>>
    /\ link' = "polling"
    /\ UNCHANGED <<wifi, publishing, subscribing, executed, todo, broker>>

\* Mutant of NextOut: last in, first out.
NextOutNewest == Len(outgoing)

\* The place in OUTGOING of the message to be sent next.
NextOut == 1

TakeOutgoing ==
    /\ link = "polling"
    /\ outgoing # <<>>
    /\ link' = "sending"
    /\ hand' = <<outgoing[NextOut]>>
    /\ outgoing' = RemoveAt(outgoing, NextOut)
    /\ UNCHANGED <<wifi, version, connected, republished, subscribing,
                   receiving, todo, broker>>

TakeSubscription ==
    /\ link = "polling"
    /\ outgoing = <<>>
    /\ sub_queue # <<>>
    /\ link' = "sending"
    /\ hand' = <<Subscribe(Head(sub_queue))>>
    /\ sub_queue' = Tail(sub_queue)
    /\ UNCHANGED <<wifi, publishing, subscriptions, registering, receiving,
                   todo, broker>>

\* client.publish() or client.subscribe() has written its packet.
Sent ==
    /\ link = "sending"
    /\ Len(wire) < WireDepth
    /\ wire' = wire \o hand
    /\ hand' = <<>>
    /\ link' = "polling"
    /\ UNCHANGED <<wifi, publishing, subscribing, receiving, todo, inbound,
                   sent, retained, broker_subs>>

\* Mutant of AtSocket: the hand-over is given up with the connection.
AtSocketOrHandingOver == link # "offline"

\* The connection task awaits something of the socket.
AtSocket == link \in {"resubscribing", "polling", "sending"}

\* Any error at the socket ends run_once(); what it had taken is gone.
Break ==
    /\ AtSocket
    /\ link' = "offline"
    /\ todo' = <<>>
    /\ hand' = <<>>
    /\ UNCHANGED <<wifi, publishing, subscribing, receiving, broker>>

Link ==
    \/ Connect \/ Resubscribe \/ GoOnline
    \/ ReceiveCommand \/ HandOver
    \/ TakeOutgoing \/ TakeSubscription \/ Sent

-----------------------------------------------------------------------------
(* The broker (external).                                                  *)

\* It works through what it has received, also after the client gave up on
\* the connection.
BrokerReceives ==
    /\ wire # <<>>
    /\ LET m == Head(wire) IN
         IF IsMessage(m)
         THEN /\ retained' = [retained EXCEPT ![m.topic] = m.version]
              /\ UNCHANGED broker_subs
         ELSE /\ broker_subs' = broker_subs \cup {m.subscribe}
              /\ UNCHANGED retained
    /\ wire' = Tail(wire)
    /\ UNCHANGED <<wifi, publishing, subscribing, receiving, connection,
                   inbound, sent>>

\* A command on a subscribed topic.
BrokerSends(understood) ==
    /\ sent < MaxCommand
    /\ broker_subs # {}
    /\ link # "offline"
    /\ sent' = sent + 1
    /\ inbound' = Append(inbound, Command(sent + 1, understood))
    /\ UNCHANGED <<wifi, publishing, subscribing, receiving, connection, wire,
                   retained, broker_subs>>

Init ==
    /\ wifi = "joining"
    /\ version = 1 /\ outgoing = <<>> /\ connected = FALSE /\ republished = 0
    /\ subscriptions = <<>> /\ sub_queue = <<>>
    /\ handler = CommandTopics /\ queueing = <<>>
    /\ incoming = <<>> /\ executed = <<>>
    /\ link = "offline" /\ todo = <<>> /\ hand = <<>>
    /\ wire = <<>> /\ inbound = <<>> /\ sent = 0 /\ broker_subs = {}
    /\ retained = [t \in States \cup Configs |-> 0]

Handler == HandlerRegisters \/ HandlerQueues \/ HandlerExecutes

Wifi == WifiJoins \/ WifiJoinFails \/ WifiRetries

Next ==
    \/ GatePublishes \/ Republish \/ Handler \/ Link \/ Break
    \/ Wifi \/ WifiDrops
    \/ BrokerReceives \/ \E understood \in BOOLEAN : BrokerSends(understood)

Fairness ==
    /\ WF_vars(Link) /\ WF_vars(Handler) /\ WF_vars(Republish)
    /\ WF_vars(Wifi) /\ WF_vars(BrokerReceives)

Spec == Init /\ [][Next]_vars
FairSpec == Spec /\ Fairness

-----------------------------------------------------------------------------
(* Properties.                                                             *)

\* Queues stay within their depth; the task holds something exactly while it
\* passes it on.
TypeOK ==
    /\ version \in 1..MaxVersion
    /\ wifi \in {"joining", "joined", "pausing"}
    /\ republished \in 0..version
    /\ Len(outgoing) <= OutgoingDepth
    /\ Len(sub_queue) <= QueueDepth
    /\ Len(incoming) <= QueueDepth
    /\ Len(wire) <= WireDepth
    /\ connected \in BOOLEAN
    /\ link \in {"offline", "resubscribing", "polling", "handing_over",
                 "sending"}
    /\ Len(hand) = IF link \in {"handing_over", "sending"} THEN 1 ELSE 0
    /\ retained \in [States \cup Configs -> 0..MaxVersion]
    /\ broker_subs \subseteq Commands

\* Everything on its way to the broker, oldest first.
Pipeline == wire \o (IF link = "sending" THEN hand ELSE <<>>) \o outgoing

CarriedFor(t) ==
    {i \in DOMAIN Pipeline : IsMessage(Pipeline[i]) /\ Pipeline[i].topic = t}

\* The version of topic t the broker will end up with if nothing else happens.
EventualVersion(t) ==
    IF CarriedFor(t) = {} THEN retained[t]
    ELSE Pipeline[Max(CarriedFor(t))].version

\* However the outgoing queue overflowed, and wherever the connection was
\* lost: once it is up and the discovery task has had its turn, the newest
\* state of every state topic is at the broker or on its way there, with
\* nothing older behind it.
NewestStateOnItsWay ==
    (link \in {"polling", "handing_over", "sending"} /\ ~connected) =>
        \A t \in States : EventualVersion(t) = version

\* No subscription is lost in the race between subscribe() and a reconnect:
\* every topic in the list is subscribed, or on its way through one of the
\* queues.
NoSubscriptionLost ==
    link # "offline" => \A t \in ToSet(subscriptions) :
        \/ t \in broker_subs
        \/ t \in ToSet(todo) \cup ToSet(sub_queue) \cup ToSet(queueing)
        \/ Subscribe(t) \in ToSet(wire) \cup ToSet(hand)

\* What the broker shows never goes back to an older state, across
\* reconnects, drops and republishing.
RetainedNeverGoesBack ==
    [][ \A t \in States \cup Configs : retained'[t] >= retained[t] ]_vars

\* The republish after a connect always fits, whatever else was queued by
\* then: every discovery config of the last one is at the broker or on its
\* way there - unless the queue overflowed once more before it was sent,
\* which can drop a config until the next connect.
ConfigsOnTheirWay ==
    (link \in {"polling", "handing_over", "sending"} /\ ~connected) =>
        \A t \in Configs : EventualVersion(t) >= republished

\* Commands are executed in the order the broker sent them, none twice.
CommandsInOrder ==
    [][ executed' # executed =>
          \A i \in DOMAIN executed :
              executed[i].command < Last(executed').command ]_vars

\* A command that was read from the socket (and acknowledged) is executed if
\* it can be parsed, whatever becomes of the connection and whatever came
\* before it.
ReadCommandsAreExecuted ==
    \A n \in 1..MaxCommand :
        (link = "handing_over" /\ hand = <<Command(n, TRUE)>>)
            ~> (Command(n, TRUE) \in ToSet(executed))

\* Once neither the network nor the connection breaks any more, the broker
\* ends up with the current state on every state topic and with every
\* subscription.
BrokerConverges ==
    <>[][~Break /\ ~WifiDrops /\ ~WifiJoinFails]_vars =>
        <>[](/\ \A t \in States : retained[t] = version
             /\ broker_subs = Commands)
=============================================================================
