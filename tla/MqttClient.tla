----------------------------- MODULE MqttClient -----------------------------
(***************************************************************************)
(* The vendored MQTT client (vendor/mqtt-async-embedded/src/client.rs) in  *)
(* the select loop of run_once() (src/infra/mqtt_client.rs), over a TCP    *)
(* socket (external).                                                      *)
(*                                                                         *)
(* poll() is a future that waits in two places: in recv for more bytes,    *)
(* and in send while the socket's buffer is full.  While it waits, an      *)
(* outgoing message or the keep-alive timer may win the select, which      *)
(* drops the future there; the next iteration calls poll() anew on the     *)
(* same client.  Publishing and subscribing are awaited outside the select.*)
(*                                                                         *)
(* A byte is a pair of the packet it belongs to and its place in it; a     *)
(* packet shows its length once its first two bytes are there.  Every      *)
(* outgoing packet is OutSize bytes.  Time is counted in ticks, since the  *)
(* last transmission (elapsed), since the select was entered (timer) and   *)
(* since the remote end was last heard (silence), each capped where no     *)
(* comparison can tell it from a greater value any more.                   *)
(***************************************************************************)
EXTENDS Naturals, Sequences, SequencesExt

CONSTANTS
    KeepAlive,       \* KEEP_ALIVE
    KeepAliveCheck,  \* KEEP_ALIVE_CHECK
    SocketTimeout,   \* SOCKET_TIMEOUT
    BufSize,         \* MQTT_BUFFER_SIZE: bytes rx_buffer holds
    TxSize,          \* bytes the socket's send buffer holds
    OutSize,         \* bytes of an outgoing packet
    PacketSizes,     \* bytes of the packets the broker sends
    MaxPackets       \* bound: packets the broker sends on one connection

\* mqtt_client.rs: "Keep-alive + this must stay well below 1.5x keep-alive".
ASSUME KeepAliveAssumption ==
    /\ KeepAlive \in Nat /\ SocketTimeout \in Nat
    /\ KeepAliveCheck \in Nat \ {0}
    /\ 2 * (KeepAlive + KeepAliveCheck) < 3 * KeepAlive
    /\ KeepAlive + KeepAliveCheck <= SocketTimeout

ASSUME SizeAssumption ==
    /\ BufSize \in Nat /\ TxSize \in Nat /\ MaxPackets \in Nat
    /\ OutSize \in 1..TxSize
    /\ PacketSizes \subseteq Nat \ {0, 1}

VARIABLES
    stage,        \* where the connection task is
    rx,           \* rx_buffer[..rx_len]
    rx_consumed,  \* length of the packet at its front already handed out
    left,         \* bytes of the packet being written the socket has not taken
    elapsed,      \* since last_tx_time
    timer,        \* since the select was entered
    tx,           \* bytes in the socket's send buffer
    torn,         \* history: a packet was begun and never finished
    silence,      \* since anything came from the remote end
    peer,         \* whether the broker's host is there
    packets,      \* history: what the broker sent on this connection
    offered,      \* history: the published messages among it, by number
    inbound,      \* bytes sent, not yet read
    delivered     \* history: what the loop got from poll()

client == <<rx, rx_consumed, delivered>>
stream == <<packets, offered, inbound>>
socket == <<tx, silence, peer, stream>>
vars == <<stage, client, left, elapsed, timer, torn, socket>>

FirstKinds == {"connack", "other"}
LaterKinds == {"qos0", "qos1", "other"}
Publishes == {"qos0", "qos1"}

Lesser(x, y) == IF x < y THEN x ELSE y

Writing == {"pinging", "acking", "sending"}
Reading == {"connecting", "reading"}

BytesOf(n) == [i \in 1..packets[n].size |-> <<n, i>>]

-----------------------------------------------------------------------------
(* Framing.                                                                *)

\* The length of the packet whose header is at the front of the buffer.
FrontLen == packets[rx[1][1]].size

\* complete_packet_len() is Some.
Complete == Len(rx) >= 2 /\ Len(rx) >= FrontLen

FrontBytes == SubSeq(rx, 1, FrontLen)

\* What decoding the front packet yields, 0 for garbage.
Decoded ==
    LET n == rx[1][1] IN IF FrontBytes = BytesOf(n) THEN n ELSE 0

FrontKind == packets[rx[1][1]].kind

\* Mutant of Unconsumed: whatever was read with it goes, too.
UnconsumedDroppingAll == IF rx_consumed > 0 THEN <<>> ELSE rx

\* The buffer after next_packet() has dropped the packet handed out last.
Unconsumed == SubSeq(rx, rx_consumed + 1, Len(rx))

StartReading ==
    /\ stage' = "reading"
    /\ rx' = Unconsumed
    /\ rx_consumed' = 0

\* The next iteration of the loop: a new select with a new timer.
Loop == stage' = "polling" /\ timer' = 0

-----------------------------------------------------------------------------
(* The connection task.                                                    *)

\* TCP is up and the CONNECT packet of a new client is written.
Connect ==
    /\ stage = "closed"
    /\ peer = "up"
    /\ stage' = "connecting"
    /\ tx' = OutSize
    /\ UNCHANGED <<client, left, elapsed, timer, torn, silence, peer, stream>>

\* run_once() returns: client and socket are dropped.
Close ==
    /\ stage' = "closed"
    /\ rx' = <<>> /\ rx_consumed' = 0 /\ delivered' = <<>>
    /\ left' = 0 /\ elapsed' = 0 /\ timer' = 0 /\ torn' = FALSE
    /\ tx' = 0 /\ silence' = 0
    /\ packets' = <<>> /\ offered' = <<>> /\ inbound' = <<>>
    /\ UNCHANGED peer

\* Mutant of PingDue: off by one.
PingDueLate == elapsed > KeepAlive

PingDue == elapsed >= KeepAlive

\* poll() is entered: a due keep-alive goes first.
Poll ==
    /\ stage = "polling"
    /\ IF PingDue
       THEN /\ stage' = "pinging"
            /\ left' = OutSize
            /\ UNCHANGED client
       ELSE StartReading /\ UNCHANGED <<left, delivered>>
    /\ UNCHANGED <<elapsed, timer, torn, socket>>

\* recv: any number of the bytes that have arrived, as far as they fit.
Recv ==
    /\ stage \in Reading
    /\ ~Complete
    /\ \E k \in 1..Lesser(Len(inbound), BufSize - Len(rx)) :
         /\ rx' = rx \o SubSeq(inbound, 1, k)
         /\ inbound' = SubSeq(inbound, k + 1, Len(inbound))
    /\ UNCHANGED <<stage, rx_consumed, delivered, left, elapsed, timer, torn,
                   tx, silence, peer, packets, offered>>

\* connect(): the answer to CONNECT.  run_once then subscribes to its topics
\* before it enters the loop; that phase is in MqttLink, and here the loop
\* begins at once.
ConnAck ==
    /\ stage = "connecting"
    /\ Complete
    /\ FrontKind = "connack"
    /\ rx_consumed' = FrontLen
    /\ elapsed' = 0
    /\ Loop
    /\ UNCHANGED <<rx, delivered, left, torn, socket>>

Refused ==
    /\ stage = "connecting"
    /\ Complete
    /\ FrontKind # "connack"
    /\ Close

\* The exits of poll() with a complete packet.
Skip ==
    /\ stage = "reading"
    /\ Complete
    /\ FrontKind \notin Publishes
    /\ rx_consumed' = FrontLen
    /\ Loop
    /\ UNCHANGED <<rx, delivered, left, elapsed, torn, socket>>

HandOut ==
    /\ rx_consumed' = FrontLen
    /\ delivered' = Append(delivered, Decoded)
    /\ stage' = "handing_over"

Receive ==
    /\ stage = "reading"
    /\ Complete
    /\ FrontKind = "qos0"
    /\ HandOut
    /\ UNCHANGED <<rx, left, elapsed, timer, torn, socket>>

\* Mutant of StartAck: marked consumed before the acknowledgement is out.
StartAckConsuming ==
    /\ stage' = "acking"
    /\ left' = OutSize
    /\ rx_consumed' = FrontLen

StartAck ==
    /\ stage' = "acking"
    /\ left' = OutSize
    /\ UNCHANGED rx_consumed

Acknowledge ==
    /\ stage = "reading"
    /\ Complete
    /\ FrontKind = "qos1"
    /\ StartAck
    /\ UNCHANGED <<rx, delivered, elapsed, timer, torn, socket>>

\* BufferTooSmall: the packet will never be complete.
TooLarge ==
    /\ stage \in Reading
    /\ ~Complete
    /\ Len(rx) = BufSize
    /\ Close

\* write_all hands the socket as much as it takes.
Writable == Lesser(left, TxSize - tx)

ToSocket ==
    /\ Writable > 0
    /\ tx' = tx + Writable
    /\ left' = left - Writable
    /\ silence' = IF tx = 0 THEN 0 ELSE silence
    /\ UNCHANGED <<peer, stream, torn>>

WritePart ==
    /\ stage \in Writing
    /\ Writable < left
    /\ ToSocket
    /\ UNCHANGED <<stage, client, elapsed, timer>>

\* The last part: last_tx_time is set, and the call goes on.
Written ==
    /\ stage \in Writing
    /\ Writable = left
    /\ ToSocket
    /\ elapsed' = 0
    /\ \/ stage = "pinging" /\ StartReading /\ UNCHANGED <<delivered, timer>>
       \/ stage = "acking" /\ HandOut /\ UNCHANGED <<rx, timer>>
       \/ stage = "sending" /\ Loop /\ UNCHANGED client

\* Mutant of TimedOut: no timeout is set.
NoTimeout == FALSE

\* The network stack has given the connection up: whatever waits for the
\* socket, or uses it next, gets an error.
TimedOut == silence >= SocketTimeout

\* poll() is waiting, so that another arm of the select may win.
Waiting ==
    /\ ~TimedOut
    /\ \/ stage = "reading" /\ ~Complete /\ Len(rx) < BufSize
       \/ stage \in {"pinging", "acking"} /\ Writable = 0

\* Dropping it there abandons a packet that was begun.
Dropped == torn' = (torn \/ left \in 1..(OutSize - 1))

\* publish() or subscribe() with what OUTGOING or SUB_QUEUE had.
TakeOutgoing ==
    /\ Waiting
    /\ Dropped
    /\ stage' = "sending"
    /\ left' = OutSize
    /\ UNCHANGED <<client, elapsed, timer, socket>>

\* Mutant of CheckDue: the loop never wakes up by itself.
CheckNever == FALSE

CheckDue == timer >= KeepAliveCheck

KeepAliveTimer ==
    /\ Waiting
    /\ CheckDue
    /\ Dropped
    /\ left' = 0
    /\ Loop
    /\ UNCHANGED <<client, elapsed, socket>>

\* INCOMING.send() has found room.
HandOver ==
    /\ stage = "handing_over"
    /\ Loop
    /\ UNCHANGED <<client, left, elapsed, torn, socket>>

\* Any error at the socket, the broker closing the connection included.
Break ==
    /\ peer = "up"
    /\ stage \in Reading \cup Writing
    /\ Close

SocketTimesOut ==
    /\ stage \in Reading \cup Writing
    /\ TimedOut
    /\ Close

-----------------------------------------------------------------------------
(* The other end of the socket, and time (external).                       *)

PeerReads ==
    /\ peer = "up"
    /\ tx > 0
    /\ tx' = tx - 1
    /\ silence' = 0
    /\ UNCHANGED <<stage, client, left, elapsed, timer, torn, peer, stream>>

\* The answer to CONNECT is as short as packets get.
BrokerSends(kind, size) ==
    /\ peer = "up"
    /\ stage # "closed"
    /\ Len(packets) < MaxPackets
    /\ IF packets = <<>> THEN kind \in FirstKinds /\ size = Min(PacketSizes)
       ELSE kind \in LaterKinds
    /\ packets' = Append(packets, [kind |-> kind, size |-> size])
    /\ offered' = IF kind \in Publishes THEN Append(offered, Len(packets) + 1)
                  ELSE offered
    /\ inbound' = inbound \o [i \in 1..size |-> <<Len(packets) + 1, i>>]
    /\ silence' = 0
    /\ UNCHANGED <<stage, client, left, elapsed, timer, torn, tx, peer>>

\* The broker's host is gone without a word, and comes back some time.
PeerVanishes ==
    /\ peer = "up"
    /\ peer' = "gone"
    /\ UNCHANGED <<stage, client, left, elapsed, timer, torn, tx, silence,
                   stream>>

PeerReturns ==
    /\ peer = "gone"
    /\ stage = "closed"
    /\ peer' = "up"
    /\ UNCHANGED <<stage, client, left, elapsed, timer, torn, tx, silence,
                   stream>>

\* Time passes where the task waits; a due keep-alive check is not put off.
\* A remote end that is there answers what it is sent, and what it has sent
\* arrives.
Tick ==
    /\ \/ Waiting /\ ~CheckDue
       \/ stage = "connecting" /\ ~Complete
       \/ stage = "sending" /\ Writable = 0
       \/ stage = "handing_over"
    /\ elapsed' = Lesser(elapsed + 1, 2 * KeepAlive)
    /\ timer' = IF Waiting THEN timer + 1 ELSE timer
    /\ silence' = IF peer = "up" /\ (tx > 0 \/ inbound # <<>>) THEN 0
                  ELSE Lesser(silence + 1, SocketTimeout)
    /\ UNCHANGED <<stage, client, left, torn, tx, peer, stream>>

-----------------------------------------------------------------------------
Init ==
    /\ stage = "closed"
    /\ rx = <<>> /\ rx_consumed = 0 /\ delivered = <<>>
    /\ left = 0 /\ elapsed = 0 /\ timer = 0
    /\ tx = 0 /\ silence = 0 /\ torn = FALSE
    /\ peer = "up" /\ packets = <<>> /\ offered = <<>> /\ inbound = <<>>

ClientStep ==
    \/ Connect \/ Poll \/ Recv \/ ConnAck \/ Refused \/ Skip \/ Receive
    \/ Acknowledge \/ TooLarge \/ WritePart \/ Written \/ KeepAliveTimer \/ HandOver
    \/ SocketTimesOut

Next ==
    \/ ClientStep \/ TakeOutgoing \/ Break
    \/ PeerReads \/ PeerVanishes \/ PeerReturns \/ Tick
    \/ \E kind \in FirstKinds \cup LaterKinds, size \in PacketSizes :
           BrokerSends(kind, size)

\* The executor polls a woken task, the network carries bytes both ways while
\* the remote end is there, and time goes on.  Recv is strongly fair: the
\* select polls poll() before its other arms, so bytes that have arrived are
\* read first, however often the future is dropped.
Fairness ==
    /\ WF_vars(ClientStep) /\ SF_vars(Recv)
    /\ WF_vars(PeerReads) /\ WF_vars(Tick)

Spec == Init /\ [][Next]_vars
FairSpec == Spec /\ Fairness

-----------------------------------------------------------------------------
(* Properties.                                                             *)

D == INSTANCE Delivery WITH Messages <- 1..MaxPackets

\* However packets are cut up by TCP, whatever else comes between them, and
\* wherever poll() is dropped - in the middle of a packet, before or in the
\* middle of its acknowledgement - the loop gets every published message
\* complete, in order and once ("Cancel-safe: dropping the future never loses
\* received bytes").
ImplementsDelivery == D!DeliverySpec

\* While it waits for input the client has transmitted within one and a half
\* keep-alive intervals, the time after which the broker gives it up: also
\* after a hand-over that took long, and although poll() looks at the clock
\* only when it is entered.
WithinKeepAlive == stage = "reading" => 2 * elapsed < 3 * KeepAlive

\* While the client waits for input the socket timeout never hits a broker that
\* is there, however idle the connection: the keep-alive makes it answer in
\* time.  (After a hand-over longer than the timeout it may, before the ping
\* that is due is answered.)
HealthyStaysUp ==
    stage = "reading" /\ peer = "up" => silence < SocketTimeout

\* A broker that vanished without a word is noticed ("A broker that stops
\* answering for this long is treated as gone"): the connection ends, in
\* whatever await it was, and the task can reconnect.
LossIsNoticed == peer = "gone" ~> stage = "closed"

\* While the broker keeps reading what it is sent, what it published reaches
\* the loop, however often poll() is dropped for outgoing messages and the
\* timer, unless the connection ends or the stream was torn.
PublishesAreDelivered ==
    []<>(tx = 0) => []<>(delivered = offered \/ stage = "closed" \/ torn)

\* "poll() stays cancel-safe": what is written to the socket is a sequence of
\* whole packets.
NeverTorn == ~torn
=============================================================================
