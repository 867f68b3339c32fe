-------------------------- MODULE MqttClientProofs --------------------------
(***************************************************************************)
(* Proofs about MqttClient, for any intervals that satisfy the relation    *)
(* mqtt_client.rs asks of them, any buffers and any packets: what the loop *)
(* gets from poll() is what Delivery promises, the client keeps its side of *)
(* the keep-alive, and the timeout of its socket never hits a broker that  *)
(* is there.                                                               *)
(***************************************************************************)
EXTENDS MqttClient, SequenceTheorems, TLAPS

-----------------------------------------------------------------------------
(* The clock.                                                              *)

\* poll() has looked at the clock when it was entered, and is entered again
\* at the latest when the timer of the select has run out.
Clock ==
    /\ timer \in 0..KeepAliveCheck /\ elapsed \in 0..2 * KeepAlive
    /\ stage = "reading" => elapsed < KeepAlive + timer

\* The interval leaves room for the check.
LEMMA Intervals ==
    /\ KeepAlive \in Nat /\ KeepAliveCheck \in Nat /\ SocketTimeout \in Nat
    /\ 1 <= KeepAliveCheck /\ KeepAliveCheck < KeepAlive
    /\ 2 * KeepAlive \in Nat /\ KeepAlive + KeepAliveCheck < 2 * KeepAlive
    /\ KeepAlive + KeepAliveCheck <= SocketTimeout
  BY KeepAliveAssumption

\* A closed connection starts with a fresh clock.
LEMMA CloseResets ==
    ASSUME Close
    PROVE  /\ stage' = "closed" /\ elapsed' = 0 /\ timer' = 0
           /\ rx' = <<>> /\ packets' = <<>> /\ inbound' = <<>>
           /\ tx' = 0 /\ left' = 0 /\ silence' = 0
  BY DEF Close

\* Every step leaves the clock in order.
LEMMA ClockStep ==
    ASSUME Clock, [Next]_vars
    PROVE  Clock'
  <1> USE Intervals DEF Clock
  <1>1. CASE Connect \/ Recv
    BY <1>1 DEF Connect, Recv, Reading
  <1>2. CASE Poll
    <2>1. CASE PingDue
      BY <1>2, <2>1 DEF Poll
    <2>2. CASE ~PingDue
      BY <1>2, <2>2 DEF Poll, PingDue, StartReading
    <2> QED
      BY <2>1, <2>2
  <1>3. CASE ConnAck \/ Skip \/ KeepAliveTimer \/ HandOver
    BY <1>3 DEF ConnAck, Skip, KeepAliveTimer, HandOver, Loop
  <1>4. CASE Refused \/ TooLarge \/ SocketTimesOut \/ Break
    <2>1. Close
      BY <1>4 DEF Refused, TooLarge, SocketTimesOut, Break
    <2> QED
      BY <2>1, CloseResets
  <1>5. CASE Receive \/ Acknowledge \/ TakeOutgoing
    BY <1>5 DEF Receive, HandOut, Acknowledge, StartAck, TakeOutgoing
  <1>6. CASE WritePart
    BY <1>6 DEF WritePart
  <1>7. CASE Written
    <2>1. elapsed' = 0 /\ (timer' = timer \/ timer' = 0)
      BY <1>7 DEF Written, Loop
    <2>2. elapsed' < KeepAlive + timer'
      BY <2>1
    <2> QED
      BY <2>1, <2>2
  <1>8. CASE Tick
    <2>1. stage' = stage /\ elapsed' = Lesser(elapsed + 1, 2 * KeepAlive)
      BY <1>8 DEF Tick
    <2>2. elapsed' \in 0..2 * KeepAlive /\ elapsed' <= elapsed + 1
      BY <2>1 DEF Lesser
    <2>3. CASE Waiting
      <3>1. ~CheckDue /\ timer' = timer + 1
        BY <1>8, <2>3 DEF Tick, Waiting
      <3> QED
        BY <2>1, <2>2, <3>1 DEF CheckDue
    <2>4. CASE ~Waiting
      <3>1. stage # "reading" /\ timer' = timer
        BY <1>8, <2>4 DEF Tick
      <3> QED
        BY <2>1, <2>2, <3>1
    <2> QED
      BY <2>3, <2>4
  <1>9. ASSUME \/ PeerReads \/ PeerVanishes \/ PeerReturns
               \/ \E kind \in FirstKinds \cup LaterKinds, size \in PacketSizes :
                    BrokerSends(kind, size)
               \/ UNCHANGED vars
        PROVE  Clock'
    BY <1>9 DEF PeerReads, PeerVanishes, PeerReturns, BrokerSends, vars
  <1> QED
    BY <1>1, <1>2, <1>3, <1>4, <1>5, <1>6, <1>7, <1>8, <1>9
    DEF Next, ClientStep

\* The clock is always in order.
LEMMA ClockInvariance == Spec => []Clock
  <1>1. Init => Clock
    BY Intervals DEF Init, Clock
  <1>2. Clock /\ [Next]_vars => Clock'
    BY ClockStep
  <1> QED
    BY <1>1, <1>2, PTL DEF Spec

\* While it waits for input the client has transmitted within one and a half
\* keep-alive intervals, also after a long hand-over and although poll() looks
\* at the clock only when it is entered.
THEOREM KeepsAlive == Spec => []WithinKeepAlive
  <1>1. Clock => WithinKeepAlive
    <2> SUFFICES ASSUME Clock, stage = "reading" PROVE 2 * elapsed < 3 * KeepAlive
      BY DEF WithinKeepAlive
    <2>1. elapsed \in Nat /\ elapsed < KeepAlive + KeepAliveCheck
      BY Intervals DEF Clock
    <2> QED
      BY <2>1, KeepAliveAssumption
  <1> QED
    BY <1>1, ClockInvariance, PTL

-----------------------------------------------------------------------------
(* The stream of bytes.                                                    *)

Byte == Nat \X Nat

PacketRecords == [kind : FirstKinds \cup LaterKinds, size : PacketSizes]

\* What the client has not dropped from its buffer, and what is to be read.
Bytes == rx \o inbound

\* A stream b of the packets p: bytes of a packet are followed by the rest of
\* it, packets by the next one, up to the last; it begins with a packet.
Whole(b, p) ==
    /\ \A i \in 1..Len(b) :
         /\ b[i][1] \in 1..Len(p) /\ b[i][2] \in 1..p[b[i][1]].size
         /\ \A k \in 0..p[b[i][1]].size - b[i][2] :
              i + k <= Len(b) /\ b[i + k] = <<b[i][1], b[i][2] + k>>
         /\ b[i][2] = p[b[i][1]].size =>
              IF i = Len(b) THEN b[i][1] = Len(p)
              ELSE b[i + 1] = <<b[i][1] + 1, 1>>
    /\ b # <<>> => b[1][2] = 1

\* The packet at the front of a stream, and how long it is.
First(b) == b[1][1]
FirstSize(b, p) == p[First(b)].size

\* The stream r is the stream b without its first m bytes.
Shifted(r, b, m) ==
    Len(r) = Len(b) - m /\ \A i \in 1..Len(r) : r[i] = b[m + i]

\* The packet to be looked at next, when c bytes at the front are consumed.
Cursor(b, p, c) ==
    IF b = <<>> THEN Len(p) + 1 ELSE IF c = 0 THEN First(b) ELSE First(b) + 1

Current == Cursor(Bytes, packets, rx_consumed)

\* The stream is whole, and what is consumed is the packet at its front;
\* nothing is while the client reads or acknowledges.
Stream ==
    /\ packets \in Seq(PacketRecords) /\ Len(packets) <= MaxPackets
    /\ rx \in Seq(Byte) /\ inbound \in Seq(Byte)
    /\ Whole(Bytes, packets)
    /\ rx_consumed \in Nat
    /\ rx_consumed > 0 =>
         rx # <<>> /\ rx_consumed = FrontLen /\ rx_consumed <= Len(rx)
    /\ stage \in Reading \cup {"acking", "closed"} => rx_consumed = 0
    /\ stage = "acking" => Complete /\ FrontKind \in Publishes
    /\ stage = "closed" => rx = <<>> /\ packets = <<>> /\ inbound = <<>>
    /\ stage = "connecting" => Current = 1

\* The published messages are offered in order, and those before the current
\* packet are delivered.
Accounts ==
    /\ offered \in Seq(Nat) /\ delivered \in Seq(Nat)
    /\ \A i \in 1..Len(offered) :
         offered[i] \in 1..Len(packets) /\ packets[offered[i]].kind \in Publishes
    /\ \A i, j \in 1..Len(offered) : i < j => offered[i] < offered[j]
    /\ \A n \in 1..Len(packets) : packets[n].kind \in Publishes =>
         \E i \in 1..Len(offered) : offered[i] = n
    /\ Len(delivered) <= Len(offered)
    /\ \A i \in 1..Len(offered) : i <= Len(delivered) <=> offered[i] < Current

\* Dropping the front of the buffer shifts the stream.
LEMMA DropFront ==
    ASSUME NEW X, NEW s \in Seq(X), NEW t \in Seq(X), NEW c \in 0..Len(s)
    PROVE  /\ SubSeq(s, c + 1, Len(s)) \in Seq(X)
           /\ SubSeq(s, c + 1, Len(s)) \o t \in Seq(X)
           /\ Shifted(SubSeq(s, c + 1, Len(s)) \o t, s \o t, c)
  <1> DEFINE u == SubSeq(s, c + 1, Len(s))
             m == Len(s)
             n == Len(t)
  <1>1. m \in Nat /\ n \in Nat /\ c \in Nat /\ c <= m
    OBVIOUS
  <1>2. \A i \in c + 1..m : s[i] \in X
    OBVIOUS
  <1>3. /\ u \in Seq(X) /\ Len(u) = m - c
        /\ \A i \in 1..m - c : u[i] = s[c + i]
    <2> HIDE DEF m
    <2>1. u = SubSeq(s, c + 1, m)
      BY DEF m
    <2> HIDE DEF u
    <2> DEFINE k == c + 1
               w == SubSeq(s, k, m)
    <2>2. k \in Int /\ m \in Int /\ \A i \in k..m : s[i] \in X
      BY <1>1, <1>2
    <2>3. u = w /\ k = c + 1
      BY <2>1
    <2> HIDE DEF k
    <2>4. /\ w \in Seq(X) /\ Len(w) = IF k <= m THEN m - k + 1 ELSE 0
          /\ \A i \in 1..m - k + 1 : w[i] = s[k + i - 1]
      BY <2>2, SubSeqProperties
    <2> HIDE DEF w
    <2>5. Len(w) = m - c
      BY <1>1, <2>3, <2>4
    <2>6. ASSUME NEW i \in 1..m - c PROVE w[i] = s[c + i]
      <3>1. i \in 1..m - k + 1 /\ k + i - 1 = c + i
        BY <1>1, <2>3
      <3> QED
        BY <2>4, <3>1
    <2> QED
      BY <2>3, <2>4, <2>5, <2>6
  <1>4. /\ Len(s \o t) = m + n
        /\ \A i \in 1..m + n : (s \o t)[i] = IF i <= m THEN s[i] ELSE t[i - m]
    BY ConcatProperties
  <1> HIDE DEF u, m, n
  <1>5. /\ u \o t \in Seq(X) /\ Len(u \o t) = m - c + n
        /\ \A i \in 1..m - c + n :
             (u \o t)[i] = IF i <= m - c THEN u[i] ELSE t[i - (m - c)]
    <2>1. u \in Seq(X) /\ Len(u) = m - c
      BY <1>3
    <2>2. /\ u \o t \in Seq(X) /\ Len(u \o t) = Len(u) + Len(t)
          /\ \A i \in 1..Len(u) + Len(t) :
               (u \o t)[i] = IF i <= Len(u) THEN u[i] ELSE t[i - Len(u)]
      BY <2>1, ConcatProperties
    <2> QED
      BY <2>1, <2>2 DEF n
  <1>6. Len(u \o t) = Len(s \o t) - c
    BY <1>1, <1>4, <1>5
  <1>7. ASSUME NEW i \in 1..Len(s \o t) - c PROVE (u \o t)[i] = (s \o t)[c + i]
    <2>1. i \in 1..m - c + n /\ c + i \in 1..m + n
      BY <1>1, <1>4
    <2>2. CASE i <= m - c
      <3>1. i \in 1..m - c /\ c + i <= m
        BY <1>1, <2>1, <2>2
      <3> QED
        BY <1>3, <1>4, <1>5, <2>1, <2>2, <3>1
    <2>3. CASE ~(i <= m - c)
      <3>1. ~(c + i <= m) /\ (c + i) - m = i - (m - c)
        BY <1>1, <2>1, <2>3
      <3>2. (s \o t)[c + i] = t[(c + i) - m]
        BY <1>4, <2>1, <3>1
      <3>3. (u \o t)[i] = t[i - (m - c)]
        BY <1>5, <2>1, <2>3
      <3> QED
        BY <3>1, <3>2, <3>3
    <2> QED
      BY <2>2, <2>3
  <1> QED
    BY <1>3, <1>5, <1>6, <1>7 DEF u, m, Shifted

\* Moving bytes from the socket to the buffer leaves the stream alone.
LEMMA MoveBytes ==
    ASSUME NEW X, NEW s \in Seq(X), NEW t \in Seq(X), NEW k \in 1..Len(t)
    PROVE  /\ s \o SubSeq(t, 1, k) \in Seq(X)
           /\ SubSeq(t, k + 1, Len(t)) \in Seq(X)
           /\ (s \o SubSeq(t, 1, k)) \o SubSeq(t, k + 1, Len(t)) = s \o t
  <1> DEFINE u == SubSeq(t, 1, k)
             v == SubSeq(t, k + 1, Len(t))
  <1>1. \A i \in 1..Len(t) : t[i] \in X
    OBVIOUS
  <1>2. u \in Seq(X) /\ v \in Seq(X)
    BY <1>1, SubSeqProperties
  <1>3. u \o v = t
    <2>1. SubSeq(t, 1, Len(t)) = t
      BY SubSeqFull
    <2>2. 1 \in 1..Len(t) + 1 /\ k \in 1 - 1..Len(t) /\ Len(t) \in k..Len(t)
      OBVIOUS
    <2>3. u \o v = SubSeq(t, 1, Len(t))
      BY <2>2, ConcatAdjacentSubSeq
    <2> QED
      BY <2>1, <2>3
  <1> HIDE DEF u, v
  <1>4. (s \o u) \o v = s \o (u \o v)
    <2>1. s \in Seq(X) /\ u \in Seq(X) /\ v \in Seq(X)
      BY <1>2
    <2> QED
      BY <2>1, ConcatAssociative, SMTT(30)
  <1>5. s \o u \in Seq(X)
    BY <1>2, ConcatProperties
  <1> QED
    BY <1>2, <1>3, <1>4, <1>5 DEF u, v

\* A packet has at least two bytes.
LEMMA PacketsHaveBytes ==
    ASSUME NEW p \in Seq(PacketRecords), NEW n \in 1..Len(p)
    PROVE  p[n].size \in Nat /\ p[n].size >= 2
  <1>1. p[n] \in PacketRecords
    OBVIOUS
  <1>2. p[n].size \in PacketSizes
    BY <1>1 DEF PacketRecords
  <1>3. \A x \in PacketSizes : x \in Nat /\ x >= 2
    BY SizeAssumption
  <1> QED
    BY <1>2, <1>3

\* The front of a whole stream is a packet.
LEMMA FrontPacket ==
    ASSUME NEW b \in Seq(Byte), NEW p \in Seq(PacketRecords),
           Whole(b, p), b # <<>>
    PROVE  /\ First(b) \in 1..Len(p)
           /\ FirstSize(b, p) \in Nat /\ FirstSize(b, p) >= 2
           /\ FirstSize(b, p) <= Len(b)
           /\ \A k \in 1..FirstSize(b, p) : b[k] = <<First(b), k>>
           /\ IF FirstSize(b, p) = Len(b) THEN First(b) = Len(p)
              ELSE b[FirstSize(b, p) + 1] = <<First(b) + 1, 1>>
  <1> DEFINE n == First(b)
             m == FirstSize(b, p)
  <1>1. Len(b) \in Nat /\ 1 \in 1..Len(b)
    OBVIOUS
  <1>2. /\ n \in 1..Len(p) /\ b[1][2] = 1
        /\ \A k \in 0..m - 1 : 1 + k <= Len(b) /\ b[1 + k] = <<n, 1 + k>>
    BY <1>1 DEF Whole, First, FirstSize
  <1>3. m = p[n].size /\ m \in Nat /\ m >= 2
    BY <1>2, PacketsHaveBytes DEF FirstSize
  <1> HIDE DEF n, m
  <1>4. ASSUME NEW k \in 1..m PROVE k <= Len(b) /\ b[k] = <<n, k>>
    <2>1. k - 1 \in 0..m - 1 /\ 1 + (k - 1) = k
      BY <1>3
    <2>2. 1 + (k - 1) <= Len(b) /\ b[1 + (k - 1)] = <<n, 1 + (k - 1)>>
      BY <1>2, <2>1
    <2> QED
      BY <2>1, <2>2
  <1>5. m \in 1..Len(b) /\ b[m] = <<n, m>>
    BY <1>1, <1>3, <1>4
  <1>6. b[m][1] = n /\ b[m][2] = m
    BY <1>5
  <1>7. b[m][2] = p[b[m][1]].size =>
          IF m = Len(b) THEN b[m][1] = Len(p) ELSE b[m + 1] = <<b[m][1] + 1, 1>>
    BY <1>5 DEF Whole
  <1>8. IF m = Len(b) THEN n = Len(p) ELSE b[m + 1] = <<n + 1, 1>>
    BY <1>3, <1>6, <1>7
  <1> QED
    BY <1>2, <1>3, <1>4, <1>5, <1>8 DEF n, m

\* Dropping that packet leaves a whole stream, which begins with the next.
LEMMA DropPacket ==
    ASSUME NEW b \in Seq(Byte), NEW p \in Seq(PacketRecords),
           Whole(b, p), b # <<>>,
           NEW r \in Seq(Byte), Shifted(r, b, FirstSize(b, p))
    PROVE  Whole(r, p) /\ Cursor(r, p, 0) = First(b) + 1
  <1> DEFINE n == First(b)
             m == FirstSize(b, p)
             lb == Len(b)
             lr == Len(r)
  <1>1. /\ n \in 1..Len(p) /\ m \in Nat /\ m >= 2 /\ m <= lb
        /\ IF m = lb THEN n = Len(p) ELSE b[m + 1] = <<n + 1, 1>>
    BY FrontPacket
  <1>2. lb \in Nat /\ lr \in Nat /\ Len(p) \in Nat
    OBVIOUS
  <1>3. lr = lb - m /\ \A i \in 1..lr : r[i] = b[m + i]
    BY DEF Shifted
  <1>4. CASE r = <<>>
    <2>1. Len(r) = 0
      BY <1>4
    <2>2. m = lb
      BY <1>1, <1>2, <1>3, <2>1
    <2> QED
      BY <1>1, <1>4, <2>1, <2>2 DEF Whole, Cursor
  <1>5. CASE r # <<>>
    <2>1. lr > 0
      BY <1>2, <1>5
    <2> HIDE DEF n, m, lb, lr
    <2>2. r[1] = <<n + 1, 1>>
      <3>1. m # lb /\ 1 \in 1..lr
        BY <1>1, <1>2, <1>3, <2>1
      <3> QED
        BY <1>1, <1>3, <3>1
    <2>3. r[1][1] = n + 1 /\ r[1][2] = 1
      BY <2>2
    <2>4. ASSUME NEW i \in 1..lr
          PROVE  /\ r[i][1] \in 1..Len(p) /\ r[i][2] \in 1..p[r[i][1]].size
                 /\ \A k \in 0..p[r[i][1]].size - r[i][2] :
                      i + k <= lr /\ r[i + k] = <<r[i][1], r[i][2] + k>>
                 /\ r[i][2] = p[r[i][1]].size =>
                      IF i = lr THEN r[i][1] = Len(p)
                      ELSE r[i + 1] = <<r[i][1] + 1, 1>>
      <3> DEFINE x == r[i][1]
                 y == r[i][2]
                 z == p[x].size
                 h == m + i
      <3>1. h \in 1..lb
        BY <1>1, <1>2, <1>3
      <3>2. b[h] = r[i]
        BY <1>3
      <3> HIDE DEF h
      <3>3. /\ x \in 1..Len(p) /\ y \in 1..z
            /\ \A k \in 0..z - y : h + k <= lb /\ b[h + k] = <<x, y + k>>
            /\ y = z => IF h = lb THEN x = Len(p) ELSE b[h + 1] = <<x + 1, 1>>
        BY <3>1, <3>2 DEF Whole, lb
      <3>4. z \in Nat /\ y \in Nat
        BY <3>3, PacketsHaveBytes
      <3> HIDE DEF x, y, z
      <3>5. ASSUME NEW k \in 0..z - y
            PROVE  i + k <= lr /\ r[i + k] = <<x, y + k>>
        <4>1. h + k <= lb /\ b[h + k] = <<x, y + k>>
          BY <3>3
        <4>2. i + k \in 1..lr /\ m + (i + k) = h + k
          BY <1>1, <1>2, <1>3, <3>4, <4>1 DEF h
        <4>3. r[i + k] = b[m + (i + k)]
          BY <1>3, <4>2
        <4> QED
          BY <4>1, <4>2, <4>3
      <3>6. ASSUME y = z
            PROVE  IF i = lr THEN x = Len(p) ELSE r[i + 1] = <<x + 1, 1>>
        <4>1. CASE i = lr
          <5>1. h = lb
            BY <1>1, <1>2, <1>3, <4>1 DEF h
          <5> QED
            BY <3>3, <3>6, <4>1, <5>1
        <4>2. CASE i # lr
          <5>1. i + 1 \in 1..lr /\ m + (i + 1) = h + 1 /\ h # lb
            BY <1>1, <1>2, <1>3, <4>2 DEF h
          <5>2. r[i + 1] = b[m + (i + 1)]
            BY <1>3, <5>1
          <5>3. b[h + 1] = <<x + 1, 1>>
            BY <3>3, <3>6, <5>1
          <5> QED
            BY <4>2, <5>1, <5>2, <5>3
        <4> QED
          BY <4>1, <4>2
      <3> QED
        BY <3>3, <3>5, <3>6 DEF x, y, z
    <2>5. Whole(r, p)
      BY <2>3, <2>4 DEF Whole, lr
    <2>6. Cursor(r, p, 0) = n + 1
      BY <1>5, <2>3 DEF Cursor, First
    <2> QED
      BY <2>5, <2>6 DEF n
  <1> QED
    BY <1>4, <1>5

\* The bytes of packet n of size z.
NewBytes(n, z) == [i \in 1..z |-> <<n, i>>]

\* A packet sent behind a whole stream continues it.
LEMMA AppendPacket ==
    ASSUME NEW b \in Seq(Byte), NEW p \in Seq(PacketRecords), Whole(b, p),
           NEW x \in PacketRecords
    PROVE  /\ NewBytes(Len(p) + 1, x.size) \in Seq(Byte)
           /\ b \o NewBytes(Len(p) + 1, x.size) \in Seq(Byte)
           /\ b \o NewBytes(Len(p) + 1, x.size) # <<>>
           /\ Whole(b \o NewBytes(Len(p) + 1, x.size), Append(p, x))
           /\ First(b \o NewBytes(Len(p) + 1, x.size)) =
                IF b = <<>> THEN Len(p) + 1 ELSE First(b)
  <1> DEFINE L == Len(p)
             z == x.size
             q == NewBytes(L + 1, z)
             lb == Len(b)
             w == b \o q
             P == Append(p, x)
  <1>1. L \in Nat /\ lb \in Nat
    OBVIOUS
  <1>2. z \in Nat /\ z >= 2
    <2>1. z \in PacketSizes
      BY DEF PacketRecords
    <2>2. \A y \in PacketSizes : y \in Nat /\ y >= 2
      BY SizeAssumption
    <2> QED
      BY <2>1, <2>2
  <1> HIDE DEF L, z
  <1>3. q \in Seq(Byte) /\ Len(q) = z /\ \A j \in 1..z : q[j] = <<L + 1, j>>
    <2>1. \A j \in 1..z : <<L + 1, j>> \in Byte
      BY <1>1, <1>2 DEF Byte
    <2>2. q \in [1..z -> Byte] /\ \A j \in 1..z : q[j] = <<L + 1, j>>
      BY <2>1 DEF NewBytes
    <2> HIDE DEF q
    <2> QED
      BY <1>2, <2>2, IsASeq, LenProperties
  <1> HIDE DEF q
  <1>4. /\ w \in Seq(Byte) /\ Len(w) = lb + z
        /\ \A i \in 1..lb + z : w[i] = IF i <= lb THEN b[i] ELSE q[i - lb]
    <2>1. q \in Seq(Byte) /\ Len(q) = z
      BY <1>3
    <2>2. /\ b \o q \in Seq(Byte) /\ Len(b \o q) = Len(b) + Len(q)
          /\ \A i \in 1..Len(b) + Len(q) :
               (b \o q)[i] = IF i <= Len(b) THEN b[i] ELSE q[i - Len(b)]
      BY <2>1, ConcatProperties
    <2> QED
      BY <2>1, <2>2
  <1>5. /\ P \in Seq(PacketRecords) /\ Len(P) = L + 1 /\ P[L + 1].size = z
        /\ \A n \in 1..L : P[n] = p[n]
    BY AppendProperties DEF L, z
  <1>6. /\ \A i \in 1..lb :
             /\ b[i][1] \in 1..L /\ b[i][2] \in 1..p[b[i][1]].size
             /\ \A k \in 0..p[b[i][1]].size - b[i][2] :
                  i + k <= lb /\ b[i + k] = <<b[i][1], b[i][2] + k>>
             /\ b[i][2] = p[b[i][1]].size =>
                  IF i = lb THEN b[i][1] = L ELSE b[i + 1] = <<b[i][1] + 1, 1>>
        /\ b # <<>> => b[1][2] = 1
    BY DEF Whole, L
  <1>7. \A i \in 1..lb : p[b[i][1]].size \in Nat
    BY <1>6, PacketsHaveBytes DEF L
  <1>8. b # <<>> => lb >= 1
    BY <1>1
  <1> HIDE DEF lb, w, P
  <1>9. \A i \in 1..lb : i \in 1..lb + z /\ w[i] = b[i]
    BY <1>1, <1>2, <1>4
  <1>10. ASSUME NEW j \in 1..z
         PROVE  lb + j \in 1..lb + z /\ w[lb + j] = <<L + 1, j>>
    <2>1. lb + j \in 1..lb + z /\ ~(lb + j <= lb) /\ (lb + j) - lb = j
      BY <1>1, <1>2
    <2>2. w[lb + j] = q[(lb + j) - lb]
      BY <1>4, <2>1
    <2> QED
      BY <1>3, <2>1, <2>2
  <1>11. ASSUME NEW i \in 1..lb + z
         PROVE  /\ w[i][1] \in 1..L + 1 /\ w[i][2] \in 1..P[w[i][1]].size
                /\ \A k \in 0..P[w[i][1]].size - w[i][2] :
                     i + k <= lb + z /\ w[i + k] = <<w[i][1], w[i][2] + k>>
                /\ w[i][2] = P[w[i][1]].size =>
                     IF i = lb + z THEN w[i][1] = L + 1
                     ELSE w[i + 1] = <<w[i][1] + 1, 1>>
    <2>1. CASE i <= lb
      <3> DEFINE n == b[i][1]
                 y == b[i][2]
                 m == p[n].size
      <3>1. i \in 1..lb /\ w[i] = b[i] /\ i # lb + z
        BY <1>1, <1>2, <1>9, <2>1
      <3>2. /\ n \in 1..L /\ y \in 1..m /\ m \in Nat
            /\ \A k \in 0..m - y : i + k <= lb /\ b[i + k] = <<n, y + k>>
            /\ y = m => IF i = lb THEN n = L ELSE b[i + 1] = <<n + 1, 1>>
        BY <1>6, <1>7, <3>1
      <3>3. P[n].size = m /\ w[i][1] = n /\ w[i][2] = y
        BY <1>5, <3>1, <3>2
      <3> HIDE DEF n, y, m
      <3>4. ASSUME NEW k \in 0..m - y
            PROVE  i + k <= lb + z /\ w[i + k] = <<n, y + k>>
        <4>1. i + k <= lb /\ b[i + k] = <<n, y + k>>
          BY <3>2
        <4>2. i + k \in 1..lb
          BY <1>1, <3>1, <3>2, <4>1
        <4>3. i + k <= lb + z
          BY <1>1, <1>2, <4>2
        <4> QED
          BY <1>9, <4>1, <4>2, <4>3
      <3>5. ASSUME y = m PROVE w[i + 1] = <<n + 1, 1>>
        <4>1. CASE i = lb
          <5>1. n = L
            BY <3>2, <3>5, <4>1
          <5>2. w[lb + 1] = <<L + 1, 1>>
            BY <1>2, <1>10
          <5> QED
            BY <4>1, <5>1, <5>2
        <4>2. CASE i # lb
          <5>1. i + 1 \in 1..lb
            BY <1>1, <3>1, <4>2
          <5> QED
            BY <1>9, <3>2, <3>5, <4>2, <5>1
        <4> QED
          BY <4>1, <4>2
      <3>6. n \in 1..L + 1
        BY <1>1, <3>2
      <3> QED
        BY <3>1, <3>2, <3>3, <3>4, <3>5, <3>6
    <2>2. CASE ~(i <= lb)
      <3> DEFINE j == i - lb
      <3>1. j \in 1..z /\ lb + j = i
        BY <1>1, <1>2, <2>2
      <3> HIDE DEF j
      <3>2. w[i] = <<L + 1, j>>
        BY <1>10, <3>1
      <3>3. w[i][1] = L + 1 /\ w[i][2] = j /\ P[w[i][1]].size = z
        BY <1>5, <3>2
      <3>4. ASSUME NEW k \in 0..z - j
            PROVE  i + k <= lb + z /\ w[i + k] = <<L + 1, j + k>>
        <4>1. j + k \in 1..z /\ lb + (j + k) = i + k
          BY <1>1, <1>2, <3>1
        <4> QED
          BY <1>1, <1>2, <1>10, <4>1
      <3>5. j = z => i = lb + z
        BY <3>1
      <3>6. L + 1 \in 1..L + 1
        BY <1>1
      <3> QED
        BY <3>1, <3>3, <3>4, <3>5, <3>6
    <2> QED
      BY <2>1, <2>2
  <1>12. 1 \in 1..lb + z /\ w # <<>>
    <2>1. 1 \in 1..lb + z
      BY <1>1, <1>2
    <2> QED
      BY <1>4, <2>1
  <1>13. /\ w[1][1] = IF b = <<>> THEN L + 1 ELSE b[1][1]
         /\ w[1][2] = 1
    <2>1. CASE b = <<>>
      <3>1. lb = 0
        BY <2>1 DEF lb
      <3>2. w[0 + 1] = <<L + 1, 1>>
        BY <1>2, <1>10, <3>1
      <3> QED
        BY <2>1, <3>2
    <2>2. CASE b # <<>>
      <3>1. 1 \in 1..lb
        BY <1>1, <1>8, <2>2
      <3>2. w[1] = b[1] /\ b[1][2] = 1
        BY <1>6, <1>9, <2>2, <3>1
      <3> QED
        BY <2>2, <3>2
    <2> QED
      BY <2>1, <2>2
  <1>14. Whole(w, P)
    BY <1>4, <1>5, <1>11, <1>13 DEF Whole
  <1>15. First(w) = IF b = <<>> THEN L + 1 ELSE First(b)
    BY <1>13 DEF First
  <1> QED
    BY <1>3, <1>4, <1>12, <1>14, <1>15 DEF w, P, L, z, q

-----------------------------------------------------------------------------
(* What a step does to the stream.                                         *)

\* Nothing: packets, cursor and messages stay.
Stays == UNCHANGED <<packets, offered, delivered>> /\ Current' = Current

\* It passes over a packet that is no message.
PassesOver ==
    /\ UNCHANGED <<packets, offered, delivered>>
    /\ Current' = Current + 1 /\ Current \in 1..Len(packets)
    /\ packets[Current].kind \notin Publishes

\* It delivers the message at the cursor.
Delivers ==
    /\ UNCHANGED <<packets, offered>>
    /\ Current' = Current + 1 /\ Current \in 1..Len(packets)
    /\ packets[Current].kind \in Publishes
    /\ delivered' = Append(delivered, Current)

\* It sends one more packet.
Sends ==
    /\ Len(packets) < MaxPackets
    /\ \E x \in PacketRecords :
         /\ packets' = Append(packets, x)
         /\ offered' = IF x.kind \in Publishes
                       THEN Append(offered, Len(packets) + 1) ELSE offered
    /\ UNCHANGED delivered
    /\ Current' = Current

\* It ends the connection, and everything begins anew.
Restarts ==
    /\ packets' = <<>> /\ offered' = <<>> /\ delivered' = <<>>
    /\ Current' = 1

\* The stream begins with what is in the buffer.
LEMMA BytesBegin ==
    ASSUME Stream
    PROVE  /\ Bytes \in Seq(Byte) /\ Len(Bytes) = Len(rx) + Len(inbound)
           /\ \A i \in 1..Len(rx) : i \in 1..Len(Bytes) /\ Bytes[i] = rx[i]
           /\ rx # <<>> => /\ Bytes # <<>> /\ First(Bytes) = rx[1][1]
                           /\ FirstSize(Bytes, packets) = FrontLen
  <1>1. rx \in Seq(Byte) /\ inbound \in Seq(Byte)
    BY DEF Stream
  <1>2. /\ Bytes \in Seq(Byte) /\ Len(Bytes) = Len(rx) + Len(inbound)
        /\ \A i \in 1..Len(rx) + Len(inbound) :
             Bytes[i] = IF i <= Len(rx) THEN rx[i] ELSE inbound[i - Len(rx)]
    BY <1>1, ConcatProperties DEF Bytes
  <1>3. Len(rx) \in Nat /\ Len(inbound) \in Nat
    BY <1>1, LenProperties
  <1>4. \A i \in 1..Len(rx) : i \in 1..Len(Bytes) /\ Bytes[i] = rx[i]
    BY <1>2, <1>3
  <1>5. ASSUME rx # <<>>
        PROVE  /\ Bytes # <<>> /\ First(Bytes) = rx[1][1]
               /\ FirstSize(Bytes, packets) = FrontLen
    <2>1. 1 \in 1..Len(rx)
      BY <1>1, <1>3, <1>5, EmptySeq
    <2>2. 1 \in 1..Len(Bytes) /\ Bytes[1] = rx[1]
      BY <1>4, <2>1
    <2>3. Bytes # <<>>
      BY <1>2, <2>2
    <2> QED
      BY <2>2, <2>3 DEF First, FirstSize, FrontLen
  <1> QED
    BY <1>2, <1>4, <1>5

\* A complete packet decodes to the one at the front of the stream.
LEMMA CompletePacket ==
    ASSUME Stream, Complete
    PROVE  /\ rx # <<>> /\ First(Bytes) \in 1..Len(packets)
           /\ FrontLen \in Nat /\ FrontLen >= 2 /\ FrontLen <= Len(rx)
           /\ FrontKind = packets[First(Bytes)].kind
           /\ Decoded = First(Bytes)
  <1> DEFINE n == First(Bytes)
             m == FrontLen
  <1>1. rx \in Seq(Byte) /\ packets \in Seq(PacketRecords) /\ Whole(Bytes, packets)
    BY DEF Stream
  <1>2. Len(rx) \in Nat /\ Len(rx) >= 2 /\ Len(rx) >= m
    BY <1>1, LenProperties DEF Complete
  <1>3. rx # <<>>
    BY <1>2
  <1>4. /\ Bytes \in Seq(Byte) /\ Bytes # <<>> /\ n = rx[1][1]
        /\ FirstSize(Bytes, packets) = m
        /\ \A i \in 1..Len(rx) : Bytes[i] = rx[i]
    BY <1>3, BytesBegin
  <1>5. /\ n \in 1..Len(packets) /\ m \in Nat /\ m >= 2
        /\ \A k \in 1..m : Bytes[k] = <<n, k>>
    BY <1>1, <1>4, FrontPacket
  <1>6. FrontKind = packets[n].kind /\ m = packets[n].size
    BY <1>4 DEF FrontKind, FrontLen
  <1> HIDE DEF n, m
  <1>7. FrontBytes = BytesOf(n)
    <2> DEFINE u == SubSeq(rx, 1, m)
               v == [i \in 1..m |-> <<n, i>>]
    <2>1. \A i \in 1..m : i \in 1..Len(rx) /\ rx[i] = <<n, i>>
      BY <1>2, <1>4, <1>5
    <2>2. \A i \in 1..m : rx[i] \in Byte
      BY <1>1, <2>1
    <2>3. /\ u \in Seq(Byte) /\ Len(u) = m
          /\ \A i \in 1..m : u[i] = rx[i]
      <3>1. m \in Int /\ 1 \in Int /\ 1 <= m
        BY <1>5
      <3>2. /\ u \in Seq(Byte) /\ Len(u) = IF 1 <= m THEN m - 1 + 1 ELSE 0
            /\ \A i \in 1..m - 1 + 1 : u[i] = rx[1 + i - 1]
        BY <2>2, <3>1, SubSeqProperties
      <3> HIDE DEF u
      <3>3. Len(u) = m
        BY <3>1, <3>2
      <3>4. ASSUME NEW i \in 1..m PROVE u[i] = rx[i]
        <4>1. i \in 1..m - 1 + 1 /\ 1 + i - 1 = i
          BY <3>1
        <4> QED
          BY <3>2, <4>1
      <3> QED
        BY <3>2, <3>3, <3>4
    <2>4. v \in Seq(Byte) /\ Len(v) = m /\ \A i \in 1..m : v[i] = <<n, i>>
      <3>1. v \in [1..m -> Byte] /\ \A i \in 1..m : v[i] = <<n, i>>
        BY <2>1, <2>2
      <3> HIDE DEF v
      <3> QED
        BY <1>5, <3>1, IsASeq, LenProperties
    <2>5. FrontBytes = u /\ BytesOf(n) = v
      BY <1>6 DEF FrontBytes, BytesOf, m
    <2> HIDE DEF u, v
    <2>6. u = v
      BY <2>1, <2>3, <2>4, SeqEqual
    <2> QED
      BY <2>5, <2>6
  <1>8. Decoded = n
    BY <1>4, <1>7 DEF Decoded
  <1> QED
    BY <1>2, <1>3, <1>5, <1>6, <1>8 DEF n, m

\* Steps that touch neither buffer nor stream.
LEMMA SameStream ==
    ASSUME Stream, UNCHANGED <<rx, rx_consumed, packets, inbound>>,
           stage' \in Reading \cup {"acking", "closed"} => rx_consumed = 0,
           stage' = "acking" => Complete /\ FrontKind \in Publishes,
           stage' = "closed" => stage = "closed",
           stage' = "connecting" => stage \in {"connecting", "closed"}
    PROVE  Stream' /\ Current' = Current
  <1>1. Bytes' = Bytes /\ Current' = Current
    BY DEF Bytes, Current, Cursor
  <1>2. FrontLen' = FrontLen /\ FrontKind' = FrontKind /\ (Complete' <=> Complete)
    BY DEF FrontLen, FrontKind, Complete
  <1>3. stage = "closed" => Current = 1
    <2> SUFFICES ASSUME stage = "closed" PROVE Current = 1
      OBVIOUS
    <2>1. rx = <<>> /\ inbound = <<>> /\ packets = <<>>
      BY DEF Stream
    <2>2. <<>> \o <<>> = <<>> /\ Len(<<>>) = 0
      OBVIOUS
    <2> QED
      BY <2>1, <2>2 DEF Current, Cursor, Bytes
  <1> QED
    BY <1>1, <1>2, <1>3 DEF Stream

\* Closing leaves an empty stream.
LEMMA CloseRestarts ==
    ASSUME Close
    PROVE  Stream' /\ Restarts
  <1>1. /\ stage' = "closed" /\ rx' = <<>> /\ rx_consumed' = 0
        /\ packets' = <<>> /\ offered' = <<>> /\ delivered' = <<>>
        /\ inbound' = <<>>
    BY DEF Close
  <1>2. <<>> \o <<>> = <<>> /\ Len(<<>>) = 0 /\ \A X : <<>> \in Seq(X)
    OBVIOUS
  <1>3. Bytes' = <<>>
    BY <1>1, <1>2 DEF Bytes
  <1>4. Current' = 1
    BY <1>1, <1>2, <1>3 DEF Current, Cursor
  <1>5. Whole(Bytes', packets')
    BY <1>1, <1>2, <1>3 DEF Whole
  <1>6. Stream'
    BY <1>1, <1>2, <1>5, SizeAssumption DEF Stream, Reading
  <1> QED
    BY <1>1, <1>4, <1>6 DEF Restarts

\* Entering next_packet() drops the packet that was handed out, which the
\* cursor has left behind already.
LEMMA StartReadingStays ==
    ASSUME Stream, StartReading, UNCHANGED <<packets, inbound>>
    PROVE  Stream' /\ Current' = Current
  <1> DEFINE c == rx_consumed
  <1>1. /\ stage' = "reading" /\ rx_consumed' = 0
        /\ rx' = SubSeq(rx, c + 1, Len(rx))
    BY DEF StartReading, Unconsumed
  <1>2. /\ rx \in Seq(Byte) /\ inbound \in Seq(Byte)
        /\ packets \in Seq(PacketRecords) /\ Whole(Bytes, packets) /\ c \in Nat
    BY DEF Stream
  <1>3. Len(rx) \in Nat
    BY <1>2, LenProperties
  <1>4. c \in 0..Len(rx)
    BY <1>2, <1>3 DEF Stream
  <1>5. rx' \in Seq(Byte) /\ Bytes' \in Seq(Byte) /\ Shifted(Bytes', Bytes, c)
    <2> HIDE DEF c
    <2> QED
      BY <1>1, <1>2, <1>4, DropFront DEF Bytes
  <1>6. Whole(Bytes', packets) /\ Cursor(Bytes', packets, 0) = Current
    <2>1. Bytes \in Seq(Byte)
      BY BytesBegin
    <2>2. CASE c = 0
      <3>1. Len(Bytes) \in Nat /\ Len(Bytes') = Len(Bytes)
        BY <1>5, <2>1, <2>2, LenProperties DEF Shifted
      <3>2. \A i \in 1..Len(Bytes) : Bytes'[i] = Bytes[i]
        BY <1>5, <2>2, <3>1 DEF Shifted
      <3>3. Bytes' = Bytes
        BY <1>5, <2>1, <3>1, <3>2, SeqEqual
      <3> QED
        BY <1>2, <2>2, <3>3 DEF Current
    <2>3. CASE c > 0
      <3>1. rx # <<>> /\ c = FrontLen
        BY <2>3 DEF Stream
      <3>2. Bytes # <<>> /\ c = FirstSize(Bytes, packets)
        BY <3>1, BytesBegin
      <3> HIDE DEF c
      <3>3. /\ Whole(Bytes', packets)
            /\ Cursor(Bytes', packets, 0) = First(Bytes) + 1
        BY <1>2, <1>5, <2>1, <3>2, DropPacket
      <3>4. Current = First(Bytes) + 1
        BY <1>2, <2>3, <3>2 DEF Current, Cursor, c
      <3> QED
        BY <3>3, <3>4
    <2> QED
      BY <1>4, <2>2, <2>3
  <1>7. Current' = Current
    BY <1>1, <1>6 DEF Current
  <1>8. Stream'
    BY <1>1, <1>2, <1>5, <1>6 DEF Stream
  <1> QED
    BY <1>7, <1>8

\* Reading moves bytes from the socket to the buffer.
LEMMA RecvStays ==
    ASSUME Stream, Recv
    PROVE  Stream' /\ Current' = Current
  <1>1. PICK k \in 1..Lesser(Len(inbound), BufSize - Len(rx)) :
          /\ rx' = rx \o SubSeq(inbound, 1, k)
          /\ inbound' = SubSeq(inbound, k + 1, Len(inbound))
    BY DEF Recv
  <1>2. rx \in Seq(Byte) /\ inbound \in Seq(Byte)
    BY DEF Stream
  <1>3. Len(rx) \in Nat /\ Len(inbound) \in Nat /\ BufSize \in Nat
    BY <1>2, LenProperties, SizeAssumption
  <1>4. k \in 1..Len(inbound)
    BY <1>3 DEF Lesser
  <1>5. rx' \in Seq(Byte) /\ inbound' \in Seq(Byte) /\ Bytes' = Bytes
    BY <1>1, <1>2, <1>4, MoveBytes DEF Bytes
  <1>6. /\ stage \in Reading /\ stage' = stage /\ rx_consumed = 0
        /\ UNCHANGED <<rx_consumed, packets>>
    BY DEF Recv, Stream
  <1>7. Current' = Current
    BY <1>5, <1>6 DEF Current
  <1>8. Stream'
    BY <1>5, <1>6, <1>7 DEF Stream, Reading
  <1> QED
    BY <1>7, <1>8

\* A complete packet is marked consumed: the cursor moves on.
LEMMA ConsumeMoves ==
    ASSUME Stream, Complete, rx_consumed = 0, rx_consumed' = FrontLen,
           UNCHANGED <<rx, packets, inbound>>,
           stage' \in {"polling", "handing_over"}
    PROVE  /\ Stream' /\ Current = First(Bytes) /\ Current' = Current + 1
           /\ Current \in 1..Len(packets) /\ FrontKind = packets[Current].kind
           /\ Decoded = Current
  <1>1. /\ rx # <<>> /\ First(Bytes) \in 1..Len(packets)
        /\ FrontLen \in Nat /\ FrontLen >= 2 /\ FrontLen <= Len(rx)
        /\ FrontKind = packets[First(Bytes)].kind
        /\ Decoded = First(Bytes)
    BY CompletePacket
  <1>2. Bytes # <<>>
    BY <1>1, BytesBegin
  <1>3. Bytes' = Bytes /\ FrontLen' = FrontLen
    BY DEF Bytes, FrontLen
  <1>4. rx_consumed' # 0 /\ rx_consumed' \in Nat
    BY <1>1
  <1>5. Current = First(Bytes)
    BY <1>2 DEF Current, Cursor
  <1>6. Current' = First(Bytes) + 1
    BY <1>2, <1>3, <1>4 DEF Current, Cursor
  <1>7. Stream'
    BY <1>1, <1>3, <1>4 DEF Stream, Reading
  <1> QED
    BY <1>1, <1>5, <1>6, <1>7

\* What the broker sends lands behind the cursor.
LEMMA BrokerSendsSends ==
    ASSUME Stream, NEW kind \in FirstKinds \cup LaterKinds,
           NEW size \in PacketSizes, BrokerSends(kind, size)
    PROVE  Stream' /\ Sends
  <1> DEFINE x == [kind |-> kind, size |-> size]
             q == NewBytes(Len(packets) + 1, x.size)
  <1>1. x \in PacketRecords /\ x.size = size /\ x.kind = kind
    BY DEF PacketRecords
  <1>2. /\ packets' = Append(packets, x) /\ inbound' = inbound \o q
        /\ offered' = IF x.kind \in Publishes
                      THEN Append(offered, Len(packets) + 1) ELSE offered
        /\ UNCHANGED <<stage, rx, rx_consumed, delivered>>
        /\ Len(packets) < MaxPackets /\ stage # "closed"
    BY <1>1 DEF BrokerSends, NewBytes, client
  <1> HIDE DEF x, q
  <1>3. /\ rx \in Seq(Byte) /\ inbound \in Seq(Byte)
        /\ packets \in Seq(PacketRecords) /\ Whole(Bytes, packets)
        /\ Bytes \in Seq(Byte)
    BY BytesBegin DEF Stream
  <1>4. /\ q \in Seq(Byte) /\ Bytes \o q \in Seq(Byte) /\ Bytes \o q # <<>>
        /\ Whole(Bytes \o q, packets')
        /\ First(Bytes \o q) = IF Bytes = <<>> THEN Len(packets) + 1 ELSE First(Bytes)
    BY <1>1, <1>2, <1>3, AppendPacket DEF q
  <1>5. inbound' \in Seq(Byte) /\ Bytes' = Bytes \o q
    <2>1. inbound \o q \in Seq(Byte)
      BY <1>3, <1>4, ConcatProperties
    <2>2. rx \in Seq(Byte) /\ inbound \in Seq(Byte) /\ q \in Seq(Byte)
      BY <1>3, <1>4
    <2>3. (rx \o inbound) \o q = rx \o (inbound \o q)
      BY <2>2, ConcatAssociative, SMTT(30)
    <2> QED
      BY <1>2, <2>1, <2>3 DEF Bytes
  <1>6. /\ packets' \in Seq(PacketRecords) /\ Len(packets') = Len(packets) + 1
        /\ \A n \in 1..Len(packets) : packets'[n] = packets[n]
    BY <1>1, <1>2, <1>3, AppendProperties
  <1>7. Len(packets) \in Nat /\ Len(packets') <= MaxPackets
    BY <1>2, <1>3, <1>6, LenProperties, SizeAssumption
  <1>8. Current' = Current
    <2>1. CASE Bytes = <<>>
      <3>1. rx_consumed = 0
        BY <2>1, BytesBegin DEF Stream
      <3> QED
        BY <1>2, <1>4, <1>5, <2>1, <3>1 DEF Current, Cursor
    <2>2. CASE Bytes # <<>>
      BY <1>2, <1>4, <1>5, <2>2 DEF Current, Cursor
    <2> QED
      BY <2>1, <2>2
  <1>9. rx # <<>> => FrontLen' = FrontLen /\ FrontKind' = FrontKind
    <2> SUFFICES ASSUME rx # <<>>
                 PROVE  FrontLen' = FrontLen /\ FrontKind' = FrontKind
      OBVIOUS
    <2>1. Bytes # <<>> /\ First(Bytes) = rx[1][1]
      BY BytesBegin
    <2>2. rx[1][1] \in 1..Len(packets)
      BY <1>3, <2>1, FrontPacket
    <2> QED
      BY <1>2, <1>6, <2>2 DEF FrontLen, FrontKind
  <1>10. stage = "acking" => Complete' /\ FrontKind' \in Publishes
    <2> SUFFICES ASSUME stage = "acking" PROVE Complete' /\ FrontKind' \in Publishes
      OBVIOUS
    <2>1. Complete /\ FrontKind \in Publishes
      BY DEF Stream
    <2>2. rx # <<>>
      BY <2>1, CompletePacket
    <2> QED
      BY <1>2, <1>9, <2>1, <2>2 DEF Complete
  <1>11. Stream'
    BY <1>2, <1>3, <1>4, <1>5, <1>6, <1>7, <1>8, <1>9, <1>10 DEF Stream
  <1> QED
    BY <1>1, <1>2, <1>8, <1>11 DEF Sends

\* Every step keeps the stream whole and moves over it in one of the ways.
LEMMA StreamStep ==
    ASSUME Stream, [Next]_vars
    PROVE  Stream' /\ (Stays \/ PassesOver \/ Delivers \/ Sends \/ Restarts)
  <1>0. /\ stage \in Reading \cup {"acking", "closed"} => rx_consumed = 0
        /\ stage = "acking" => Complete /\ FrontKind \in Publishes
    BY DEF Stream
  <1>1. ASSUME \/ Connect \/ (Poll /\ PingDue) \/ Acknowledge \/ WritePart
               \/ (Written /\ stage = "sending") \/ TakeOutgoing
               \/ KeepAliveTimer \/ HandOver \/ PeerReads \/ PeerVanishes
               \/ PeerReturns \/ Tick \/ UNCHANGED vars
        PROVE  Stream' /\ Stays
    <2>1. UNCHANGED <<rx, rx_consumed, packets, inbound, offered, delivered>>
      BY <1>1
      DEF Connect, Poll, Acknowledge, StartAck, WritePart, Written, ToSocket,
          TakeOutgoing, KeepAliveTimer, HandOver, PeerReads, PeerVanishes,
          PeerReturns, Tick, vars, client, socket, stream
    <2>2. \/ stage' = stage
          \/ stage' \in {"pinging", "polling", "sending"}
          \/ stage = "closed" /\ stage' = "connecting"
          \/ /\ stage = "reading" /\ stage' = "acking"
             /\ Complete /\ FrontKind \in Publishes
      BY <1>1
      DEF Connect, Poll, Acknowledge, StartAck, WritePart, Written, ToSocket,
          TakeOutgoing, KeepAliveTimer, HandOver, PeerReads, PeerVanishes,
          PeerReturns, Tick, vars, Loop, Publishes
    <2>3. /\ stage' \in Reading \cup {"acking", "closed"} => rx_consumed = 0
          /\ stage' = "acking" => Complete /\ FrontKind \in Publishes
          /\ stage' = "closed" => stage = "closed"
          /\ stage' = "connecting" => stage \in {"connecting", "closed"}
      BY <1>0, <2>2 DEF Reading
    <2>4. Stream' /\ Current' = Current
      BY <2>1, <2>3, SameStream
    <2> QED
      BY <2>1, <2>4 DEF Stays
  <1>2. ASSUME (Poll /\ ~PingDue) \/ (Written /\ stage = "pinging")
        PROVE  Stream' /\ Stays
    <2>1. StartReading /\ UNCHANGED <<packets, inbound, offered, delivered>>
      BY <1>2 DEF Poll, Written, ToSocket, socket, stream
    <2> QED
      BY <2>1, StartReadingStays DEF Stays
  <1>3. ASSUME Recv PROVE Stream' /\ Stays
    BY <1>3, RecvStays DEF Stays, Recv
  <1>4. ASSUME ConnAck \/ Skip PROVE Stream' /\ PassesOver
    <2>1. /\ Complete /\ rx_consumed' = FrontLen /\ stage' = "polling"
          /\ UNCHANGED <<rx, packets, inbound, offered, delivered>>
          /\ FrontKind \notin Publishes /\ stage \in Reading
      BY <1>4 DEF ConnAck, Skip, Loop, socket, stream, Publishes, Reading
    <2>2. rx_consumed = 0
      BY <1>0, <2>1
    <2> QED
      BY <2>1, <2>2, ConsumeMoves DEF PassesOver
  <1>5. ASSUME Receive \/ (Written /\ stage = "acking") PROVE Stream' /\ Delivers
    <2>1. /\ Complete /\ HandOut /\ rx_consumed = 0
          /\ UNCHANGED <<rx, packets, inbound, offered>>
          /\ FrontKind \in Publishes
      BY <1>0, <1>5
      DEF Receive, Written, ToSocket, socket, stream, Publishes, Reading
    <2>2. /\ rx_consumed' = FrontLen /\ stage' = "handing_over"
          /\ delivered' = Append(delivered, Decoded)
      BY <2>1 DEF HandOut
    <2> QED
      BY <2>1, <2>2, ConsumeMoves DEF Delivers
  <1>6. ASSUME Refused \/ TooLarge \/ SocketTimesOut \/ Break
        PROVE  Stream' /\ Restarts
    <2>1. Close
      BY <1>6 DEF Refused, TooLarge, SocketTimesOut, Break
    <2> QED
      BY <2>1, CloseRestarts
  <1>7. Written => stage \in {"pinging", "acking", "sending"}
    BY DEF Written, Writing
  <1>8. ASSUME NEW kind \in FirstKinds \cup LaterKinds, NEW size \in PacketSizes,
               BrokerSends(kind, size)
        PROVE  Stream' /\ Sends
    BY <1>8, BrokerSendsSends
  <1>9. \/ Connect \/ Poll \/ Acknowledge \/ WritePart \/ Written \/ TakeOutgoing
        \/ KeepAliveTimer \/ HandOver \/ PeerReads \/ PeerVanishes
        \/ PeerReturns \/ Tick \/ UNCHANGED vars \/ Recv \/ ConnAck \/ Skip
        \/ Receive \/ Refused \/ TooLarge \/ SocketTimesOut \/ Break
        \/ \E kind \in FirstKinds \cup LaterKinds, size \in PacketSizes :
             BrokerSends(kind, size)
    BY DEF Next, ClientStep
  <1> QED
    BY <1>1, <1>2, <1>3, <1>4, <1>5, <1>6, <1>7, <1>8, <1>9

\* The first stream is empty.
LEMMA StreamInit ==
    ASSUME Init
    PROVE  Stream /\ Accounts
  <1>1. <<>> \o <<>> = <<>> /\ Len(<<>>) = 0 /\ \A X : <<>> \in Seq(X)
    OBVIOUS
  <1>2. /\ stage = "closed" /\ rx = <<>> /\ rx_consumed = 0 /\ inbound = <<>>
        /\ packets = <<>> /\ offered = <<>> /\ delivered = <<>>
    BY DEF Init
  <1>3. Bytes = <<>>
    BY <1>1, <1>2 DEF Bytes
  <1>4. Whole(Bytes, packets)
    BY <1>1, <1>2, <1>3 DEF Whole
  <1>5. Stream
    BY <1>1, <1>2, <1>4, SizeAssumption DEF Stream, Reading
  <1>6. Accounts
    BY <1>1, <1>2 DEF Accounts
  <1> QED
    BY <1>5, <1>6

\* The stream is always whole.
LEMMA StreamInvariance == Spec => []Stream
  <1>1. Init => Stream
    BY StreamInit
  <1>2. Stream /\ [Next]_vars => Stream'
    BY StreamStep
  <1> QED
    BY <1>1, <1>2, PTL DEF Spec

-----------------------------------------------------------------------------
(* The messages.                                                           *)

\* The cursor is at a packet, or behind the last.
LEMMA CursorInRange ==
    ASSUME Stream
    PROVE  Current \in 1..Len(packets) + 1
  <1>1. /\ packets \in Seq(PacketRecords) /\ Whole(Bytes, packets)
        /\ Bytes \in Seq(Byte)
    BY BytesBegin DEF Stream
  <1>2. Len(packets) \in Nat
    BY <1>1, LenProperties
  <1>3. Bytes # <<>> => First(Bytes) \in 1..Len(packets)
    BY <1>1, FrontPacket
  <1> QED
    BY <1>2, <1>3 DEF Current, Cursor

\* The message at the cursor is the one to be delivered next.
LEMMA NextMessage ==
    ASSUME Accounts, Current \in 1..Len(packets),
           packets[Current].kind \in Publishes
    PROVE  /\ Len(delivered) + 1 \in 1..Len(offered)
           /\ offered[Len(delivered) + 1] = Current
  <1> DEFINE d == Len(delivered)
             o == Len(offered)
             c == Current
  <1>1. PICK i \in 1..o : offered[i] = c
    BY DEF Accounts
  <1>2. /\ d \in Nat /\ o \in Nat /\ d <= o /\ c \in Nat
        /\ \A j \in 1..o : offered[j] \in Nat
    BY LenProperties DEF Accounts
  <1>3. /\ \A j \in 1..o : j <= d <=> offered[j] < c
        /\ \A j, k \in 1..o : j < k => offered[j] < offered[k]
    BY DEF Accounts
  <1> HIDE DEF c, d, o
  <1>4. ~(i <= d)
    BY <1>1, <1>2, <1>3
  <1>5. d + 1 \in 1..o /\ ~(d + 1 <= d)
    BY <1>1, <1>2, <1>4
  <1>6. ~(d + 1 < i)
    BY <1>1, <1>2, <1>3, <1>5
  <1>7. i = d + 1
    BY <1>1, <1>2, <1>4, <1>6
  <1> QED
    BY <1>1, <1>5, <1>7 DEF c, d, o

\* Every kind of step keeps the accounts.
LEMMA AccountsStep ==
    ASSUME Stream, Accounts,
           Stays \/ PassesOver \/ Delivers \/ Sends \/ Restarts
    PROVE  Accounts'
  <1> DEFINE d == Len(delivered)
             o == Len(offered)
             c == Current
             L == Len(packets)
  <1>1. c \in 1..L + 1 /\ packets \in Seq(PacketRecords)
    BY CursorInRange DEF Stream
  <1>2. /\ offered \in Seq(Nat) /\ delivered \in Seq(Nat) /\ d <= o
        /\ \A i \in 1..o : i <= d <=> offered[i] < c
        /\ \A i, j \in 1..o : i < j => offered[i] < offered[j]
        /\ \A i \in 1..o : offered[i] \in 1..L /\ packets[offered[i]].kind \in Publishes
        /\ \A n \in 1..L : packets[n].kind \in Publishes =>
             \E i \in 1..o : offered[i] = n
    BY DEF Accounts
  <1>3. d \in Nat /\ o \in Nat /\ L \in Nat
    BY <1>1, <1>2, LenProperties
  <1>4. CASE Stays
    BY <1>4 DEF Stays, Accounts
  <1>5. CASE PassesOver
    <2>1. /\ UNCHANGED <<packets, offered, delivered>>
          /\ Current' = c + 1 /\ c \in 1..L /\ packets[c].kind \notin Publishes
      BY <1>5 DEF PassesOver
    <2> HIDE DEF c, d, o, L
    <2>2. ASSUME NEW i \in 1..o PROVE i <= d <=> offered[i] < c + 1
      <3>1. offered[i] \in Nat /\ offered[i] # c
        BY <1>2, <1>3, <2>1
      <3>2. offered[i] < c <=> offered[i] < c + 1
        BY <1>1, <1>3, <3>1
      <3> QED
        BY <1>2, <3>2
    <2> QED
      BY <1>2, <2>1, <2>2 DEF Accounts, c, d, o, L
  <1>6. CASE Delivers
    <2>1. /\ UNCHANGED <<packets, offered>> /\ delivered' = Append(delivered, c)
          /\ Current' = c + 1 /\ c \in 1..L
      BY <1>6 DEF Delivers
    <2>2. d + 1 \in 1..o /\ offered[d + 1] = c
      BY <1>6, NextMessage DEF Delivers
    <2> HIDE DEF c, o, L
    <2>3. c \in Nat
      BY <1>3, <2>1
    <2>4. delivered' \in Seq(Nat) /\ Len(delivered') = d + 1
      BY <1>2, <2>1, <2>3, AppendProperties
    <2> HIDE DEF d
    <2>5. ASSUME NEW i \in 1..o PROVE i <= d + 1 <=> offered[i] < c + 1
      <3>1. offered[i] \in Nat
        BY <1>2, <1>3
      <3>2. CASE i <= d
        BY <1>2, <1>3, <2>3, <3>1, <3>2
      <3>3. CASE i = d + 1
        BY <1>3, <2>2, <2>3, <3>3
      <3>4. CASE d + 1 < i
        <4>1. c < offered[i]
          BY <1>2, <2>2, <3>4
        <4> QED
          BY <1>3, <2>3, <3>1, <3>4, <4>1
      <3> QED
        BY <1>3, <3>2, <3>3, <3>4
    <2>6. d + 1 <= o
      BY <1>3, <2>2
    <2> QED
      BY <1>2, <2>1, <2>4, <2>5, <2>6 DEF Accounts, o, L
  <1>7. CASE Sends
    <2>1. PICK x \in PacketRecords :
            /\ packets' = Append(packets, x)
            /\ offered' = IF x.kind \in Publishes THEN Append(offered, L + 1)
                          ELSE offered
      BY <1>7 DEF Sends
    <2>2. delivered' = delivered /\ Current' = c
      BY <1>7 DEF Sends
    <2>3. /\ Len(packets') = L + 1 /\ packets'[L + 1] = x
          /\ \A n \in 1..L : packets'[n] = packets[n]
      BY <1>1, <2>1, AppendProperties
    <2>4. CASE x.kind \notin Publishes
      <3>1. offered' = offered
        BY <2>1, <2>4
      <3> HIDE DEF c, d, o, L
      <3>2. \A i \in 1..o : offered[i] \in 1..L + 1
                            /\ packets'[offered[i]].kind \in Publishes
        BY <1>2, <1>3, <2>3
      <3>3. ASSUME NEW n \in 1..L + 1, packets'[n].kind \in Publishes
            PROVE  \E i \in 1..o : offered[i] = n
        <4>1. n # L + 1
          BY <2>3, <2>4, <3>3
        <4>2. n \in 1..L
          BY <1>3, <4>1
        <4> QED
          BY <1>2, <2>3, <3>3, <4>2
      <3> QED
        BY <1>2, <2>2, <2>3, <3>1, <3>2, <3>3 DEF Accounts, c, d, o, L
    <2>5. CASE x.kind \in Publishes
      <3> DEFINE w == Append(offered, L + 1)
      <3>1. offered' = w
        BY <2>1, <2>5
      <3> HIDE DEF c, d, L
      <3>2. L + 1 \in Nat
        BY <1>3
      <3>3. /\ w \in Seq(Nat) /\ Len(w) = o + 1 /\ w[o + 1] = L + 1
            /\ \A i \in 1..o : w[i] = offered[i]
        BY <1>2, <3>2, AppendProperties
      <3> HIDE DEF o, w
      <3>4. ASSUME NEW i \in 1..o + 1
            PROVE  /\ w[i] \in 1..L + 1 /\ packets'[w[i]].kind \in Publishes
                   /\ i <= d <=> w[i] < c
        <4>1. CASE i = o + 1
          <5>1. w[i] = L + 1 /\ packets'[w[i]].kind \in Publishes
            BY <2>3, <2>5, <3>3, <4>1
          <5>2. ~(i <= d) /\ ~(w[i] < c)
            BY <1>1, <1>2, <1>3, <4>1, <5>1
          <5> QED
            BY <1>3, <5>1, <5>2
        <4>2. CASE i \in 1..o
          <5>1. w[i] = offered[i] /\ offered[i] \in 1..L
            BY <1>2, <3>3, <4>2
          <5>2. packets'[w[i]].kind \in Publishes
            BY <1>2, <2>3, <4>2, <5>1
          <5>3. w[i] \in 1..L + 1
            BY <1>3, <5>1
          <5> QED
            BY <1>2, <4>2, <5>1, <5>2, <5>3
        <4> QED
          BY <1>3, <4>1, <4>2
      <3>5. ASSUME NEW i \in 1..o + 1, NEW j \in 1..o + 1, i < j
            PROVE  w[i] < w[j]
        <4>1. i \in 1..o
          BY <1>3, <3>5
        <4>2. w[i] = offered[i] /\ offered[i] \in 1..L
          BY <1>2, <3>3, <4>1
        <4>3. CASE j = o + 1
          BY <1>3, <3>3, <4>2, <4>3
        <4>4. CASE j \in 1..o
          BY <1>2, <3>3, <3>5, <4>1, <4>2, <4>4
        <4> QED
          BY <1>3, <4>3, <4>4
      <3>6. ASSUME NEW n \in 1..L + 1, packets'[n].kind \in Publishes
            PROVE  \E i \in 1..o + 1 : w[i] = n
        <4>1. CASE n = L + 1
          BY <1>3, <3>3, <4>1
        <4>2. CASE n \in 1..L
          <5>1. PICK i \in 1..o : offered[i] = n
            BY <1>2, <2>3, <3>6, <4>2
          <5>2. i \in 1..o + 1 /\ w[i] = n
            BY <1>3, <3>3, <5>1
          <5> QED
            BY <5>2
        <4> QED
          BY <1>3, <4>1, <4>2
      <3>7. d <= o + 1
        BY <1>2, <1>3
      <3> QED
        BY <1>2, <2>2, <2>3, <3>1, <3>3, <3>4, <3>5, <3>6, <3>7
        DEF Accounts, c, d, L
    <2> QED
      BY <2>4, <2>5
  <1>8. CASE Restarts
    <2>1. packets' = <<>> /\ offered' = <<>> /\ delivered' = <<>>
      BY <1>8 DEF Restarts
    <2>2. Len(<<>>) = 0 /\ \A X : <<>> \in Seq(X)
      OBVIOUS
    <2> QED
      BY <2>1, <2>2 DEF Accounts
  <1> QED
    BY <1>4, <1>5, <1>6, <1>7, <1>8

\* Every kind of step is one that Delivery allows.
LEMMA DeliveryStep ==
    ASSUME Stream, Accounts,
           Stays \/ PassesOver \/ Delivers \/ Sends \/ Restarts
    PROVE  [D!Offer \/ D!Deliver \/ D!Restart]_<<offered, delivered>>
  <1>1. CASE Stays \/ PassesOver
    BY <1>1 DEF Stays, PassesOver
  <1>2. CASE Delivers
    <2>1. /\ Len(delivered) + 1 \in 1..Len(offered)
          /\ offered[Len(delivered) + 1] = Current
      BY <1>2, NextMessage DEF Delivers
    <2>2. Len(delivered) \in Nat /\ Len(offered) \in Nat
      BY LenProperties DEF Accounts
    <2>3. Len(delivered) < Len(offered)
      BY <2>1, <2>2
    <2>4. D!Deliver
      BY <1>2, <2>1, <2>3 DEF Delivers, D!Deliver
    <2> QED
      BY <2>4
  <1>3. CASE Sends
    <2>1. /\ UNCHANGED delivered
          /\ offered' = offered \/ offered' = Append(offered, Len(packets) + 1)
      BY <1>3 DEF Sends
    <2>2. Len(packets) + 1 \in 1..MaxPackets
      <3>1. Len(packets) \in Nat
        BY LenProperties DEF Stream
      <3> QED
        BY <1>3, <3>1, SizeAssumption DEF Sends
    <2> QED
      BY <2>1, <2>2 DEF D!Offer
  <1>4. CASE Restarts
    BY <1>4 DEF Restarts, D!Restart
  <1> QED
    BY <1>1, <1>2, <1>3, <1>4

\* However packets are cut up by TCP, and wherever poll() is dropped, the loop
\* gets every published message complete, in order and once.
THEOREM ClientDelivers == Spec => ImplementsDelivery
  <1>1. Init => Stream /\ Accounts /\ D!DeliveryInit
    BY StreamInit DEF Init, D!DeliveryInit
  <1>2. ASSUME Stream, Accounts, [Next]_vars
        PROVE  /\ Stream' /\ Accounts'
               /\ [D!Offer \/ D!Deliver \/ D!Restart]_<<offered, delivered>>
    BY <1>2, StreamStep, AccountsStep, DeliveryStep
  <1> QED
    BY <1>1, <1>2, PTL
    DEF Spec, ImplementsDelivery, D!DeliverySpec, D!deliveryVars

-----------------------------------------------------------------------------
(* The timeout of the socket.                                              *)

\* A remote end that is there was heard when anything was last sent to it, and
\* while it has something to take or has answered CONNECT it is being heard:
\* once the connection is up, its silence is no longer than the client's own.
Heard ==
    /\ tx \in 0..TxSize /\ left \in 0..OutSize /\ silence \in 0..SocketTimeout
    /\ stage = "closed" => silence = 0
    /\ peer = "up" =>
         /\ tx > 0 => silence = 0
         /\ stage = "connecting" /\ packets # <<>> => silence = 0
         /\ stage \notin {"closed", "connecting"} =>
              silence <= elapsed \/ elapsed = 2 * KeepAlive

\* The answer to CONNECT is complete once all of it has been read.
LEMMA AnswerArrives ==
    ASSUME Stream, stage = "connecting", packets # <<>>, ~Complete
    PROVE  inbound # <<>>
  <1> SUFFICES ASSUME inbound = <<>> PROVE FALSE
    OBVIOUS
  <1>1. /\ packets \in Seq(PacketRecords) /\ rx \in Seq(Byte)
        /\ Whole(Bytes, packets) /\ Current = 1
    BY DEF Stream
  <1>2. Len(packets) \in Nat /\ Len(packets) > 0 /\ Len(rx) \in Nat
    BY <1>1, LenProperties, EmptySeq
  <1>3. Bytes # <<>>
    BY <1>1, <1>2 DEF Current, Cursor
  <1>4. Len(<<>>) = 0
    OBVIOUS
  <1>5. Bytes \in Seq(Byte) /\ Len(Bytes) = Len(rx)
    BY <1>2, <1>4, BytesBegin
  <1>6. rx # <<>>
    <2>1. rx = <<>> => Len(Bytes) = 0
      BY <1>4, <1>5
    <2> QED
      BY <1>3, <1>5, <2>1, EmptySeq
  <1>7. /\ FirstSize(Bytes, packets) \in Nat /\ FirstSize(Bytes, packets) >= 2
        /\ FirstSize(Bytes, packets) <= Len(rx)
    BY <1>1, <1>3, <1>5, FrontPacket
  <1>8. FirstSize(Bytes, packets) = FrontLen
    BY <1>6, BytesBegin
  <1> QED
    BY <1>2, <1>7, <1>8 DEF Complete

\* Handing bytes to the socket, when its buffer was empty or is being read.
LEMMA ToSocketHeard ==
    ASSUME Heard, ToSocket
    PROVE  /\ tx' \in 0..TxSize /\ left' \in 0..OutSize
           /\ silence' \in 0..SocketTimeout /\ peer' = peer
           /\ peer = "up" => silence' = 0
  <1>1. /\ tx \in 0..TxSize /\ left \in 0..OutSize /\ silence \in 0..SocketTimeout
        /\ peer = "up" => (tx > 0 => silence = 0)
    BY DEF Heard
  <1>2. TxSize \in Nat /\ OutSize \in Nat /\ SocketTimeout \in Nat
    BY SizeAssumption, Intervals
  <1>3. /\ Writable > 0 /\ tx' = tx + Writable /\ left' = left - Writable
        /\ silence' = IF tx = 0 THEN 0 ELSE silence
        /\ peer' = peer
    BY DEF ToSocket
  <1>4. Writable \in Nat /\ Writable <= left /\ Writable <= TxSize - tx
    BY <1>1, <1>2 DEF Writable, Lesser
  <1> HIDE DEF Writable
  <1>5. tx' \in 0..TxSize /\ left' \in 0..OutSize
    BY <1>1, <1>2, <1>3, <1>4
  <1> QED
    BY <1>1, <1>2, <1>3, <1>5

\* Every step keeps the remote end within earshot.
LEMMA HeardStep ==
    ASSUME Clock, Stream, Heard, [Next]_vars
    PROVE  Heard'
  <1>0. /\ tx \in 0..TxSize /\ left \in 0..OutSize /\ silence \in 0..SocketTimeout
        /\ elapsed \in 0..2 * KeepAlive /\ 2 * KeepAlive \in Nat
        /\ TxSize \in Nat /\ OutSize \in 1..TxSize /\ SocketTimeout \in Nat
        /\ 0 \in 0..OutSize /\ OutSize \in 0..OutSize /\ OutSize \in 0..TxSize
        /\ 0 \in 0..TxSize /\ 0 \in 0..SocketTimeout
    BY Intervals, SizeAssumption DEF Heard, Clock
  <1>1. CASE Connect
    BY <1>0, <1>1 DEF Connect, Heard
  <1>2. ASSUME \/ Poll \/ Skip \/ Receive \/ Acknowledge \/ TakeOutgoing
               \/ KeepAliveTimer \/ HandOver
        PROVE  Heard'
    <2>1. UNCHANGED <<elapsed, tx, silence, peer, packets>>
      BY <1>2
      DEF Poll, Skip, Receive, Acknowledge, TakeOutgoing, KeepAliveTimer,
          HandOver, socket, stream
    <2>2. /\ stage \notin {"closed", "connecting"}
          /\ stage' \notin {"closed", "connecting"}
      BY <1>2
      DEF Poll, StartReading, Skip, Receive, HandOut, Acknowledge, StartAck,
          TakeOutgoing, KeepAliveTimer, HandOver, Waiting, Loop
    <2>3. left' \in {left, OutSize, 0}
      BY <1>2
      DEF Poll, Skip, Receive, Acknowledge, StartAck, TakeOutgoing,
          KeepAliveTimer, HandOver
    <2> QED
      BY <1>0, <2>1, <2>2, <2>3 DEF Heard
  <1>3. CASE Recv
    BY <1>3 DEF Recv, Heard
  <1>4. CASE ConnAck
    <2>1. /\ stage = "connecting" /\ Complete /\ stage' = "polling"
          /\ elapsed' = 0 /\ UNCHANGED <<left, tx, silence, peer>>
      BY <1>4 DEF ConnAck, Loop, socket
    <2>2. packets # <<>>
      <3>1. First(Bytes) \in 1..Len(packets)
        BY <2>1, CompletePacket
      <3> QED
        BY <3>1
    <2>3. peer = "up" => silence = 0
      BY <2>1, <2>2 DEF Heard
    <2> QED
      BY <1>0, <2>1, <2>3 DEF Heard
  <1>5. CASE Refused \/ TooLarge \/ SocketTimesOut \/ Break
    <2>1. Close
      BY <1>5 DEF Refused, TooLarge, SocketTimesOut, Break
    <2> QED
      BY <1>0, <2>1, CloseResets DEF Heard
  <1>6. ASSUME WritePart \/ Written PROVE Heard'
    <2>1. /\ tx' \in 0..TxSize /\ left' \in 0..OutSize
          /\ silence' \in 0..SocketTimeout /\ peer' = peer
          /\ peer = "up" => silence' = 0
      BY <1>6, ToSocketHeard DEF WritePart, Written
    <2>2. stage' # "closed" /\ elapsed' \in {elapsed, 0}
      BY <1>6 DEF WritePart, Written, Writing, StartReading, HandOut, Loop
    <2>3. silence' = 0 => silence' <= elapsed'
      BY <1>0, <2>2
    <2> QED
      BY <2>1, <2>2, <2>3 DEF Heard
  <1>7. CASE Tick
    <2>1. /\ elapsed' = Lesser(elapsed + 1, 2 * KeepAlive)
          /\ silence' = IF peer = "up" /\ (tx > 0 \/ inbound # <<>>) THEN 0
                        ELSE Lesser(silence + 1, SocketTimeout)
          /\ UNCHANGED <<stage, left, tx, peer, packets>>
      BY <1>7 DEF Tick, stream
    <2>2. stage # "closed" /\ (stage = "connecting" => ~Complete)
      BY <1>7 DEF Tick, Waiting
    <2>3. elapsed' \in 0..2 * KeepAlive /\ (elapsed' = elapsed + 1 \/ elapsed' = 2 * KeepAlive)
      BY <1>0, <2>1 DEF Lesser
    <2>4. silence' \in 0..SocketTimeout /\ silence' <= silence + 1
      BY <1>0, <2>1 DEF Lesser
    <2>5. ASSUME peer = "up", tx > 0 PROVE silence' = 0
      BY <2>1, <2>5
    <2>6. ASSUME peer = "up", stage = "connecting", packets # <<>>
          PROVE  silence' = 0
      BY <2>1, <2>2, <2>6, AnswerArrives
    <2>7. ASSUME peer = "up", stage \notin {"closed", "connecting"}
          PROVE  silence' <= elapsed' \/ elapsed' = 2 * KeepAlive
      <3>1. silence <= elapsed \/ elapsed = 2 * KeepAlive
        BY <2>7 DEF Heard
      <3>2. CASE silence <= elapsed
        BY <1>0, <2>3, <2>4, <3>2
      <3>3. CASE elapsed = 2 * KeepAlive
        BY <1>0, <2>3, <3>3
      <3> QED
        BY <3>1, <3>2, <3>3
    <2> QED
      BY <1>0, <2>1, <2>2, <2>4, <2>5, <2>6, <2>7 DEF Heard
  <1>8. ASSUME \/ PeerReads
               \/ \E kind \in FirstKinds \cup LaterKinds, size \in PacketSizes :
                    BrokerSends(kind, size)
        PROVE  Heard'
    <2>1. /\ silence' = 0 /\ (tx' = tx \/ (tx > 0 /\ tx' = tx - 1))
          /\ UNCHANGED <<stage, left, elapsed, peer>>
      BY <1>8 DEF PeerReads, BrokerSends
    <2>2. tx' \in 0..TxSize /\ 0 <= elapsed
      BY <1>0, <2>1
    <2> QED
      BY <1>0, <2>1, <2>2 DEF Heard
  <1>9. CASE PeerVanishes
    BY <1>9 DEF PeerVanishes, Heard
  <1>10. CASE PeerReturns
    BY <1>10 DEF PeerReturns, Heard
  <1>11. CASE UNCHANGED vars
    BY <1>11 DEF vars, socket, stream, Heard
  <1> QED
    BY <1>1, <1>2, <1>3, <1>4, <1>5, <1>6, <1>7, <1>8, <1>9, <1>10, <1>11
    DEF Next, ClientStep

\* While the client waits for input the socket timeout never hits a broker that
\* is there, however idle the connection: the keep-alive makes it answer in
\* time.
THEOREM BrokerIsNotGivenUp == Spec => []HealthyStaysUp
  <1>1. Init => Heard
    BY SizeAssumption, Intervals DEF Init, Heard
  <1>2. Clock /\ Stream /\ Heard /\ [Next]_vars => Heard'
    BY HeardStep
  <1>3. Clock /\ Heard => HealthyStaysUp
    <2> SUFFICES ASSUME Clock, Heard, stage = "reading", peer = "up"
                 PROVE  silence < SocketTimeout
      BY DEF HealthyStaysUp
    <2>1. elapsed \in Nat /\ elapsed < KeepAlive + KeepAliveCheck
      BY Intervals DEF Clock
    <2>2. elapsed # 2 * KeepAlive
      BY <2>1, Intervals
    <2>3. silence \in Nat /\ silence <= elapsed
      BY <2>2, Intervals DEF Heard
    <2> QED
      BY <2>1, <2>3, Intervals
  <1> QED
    BY <1>1, <1>2, <1>3, ClockInvariance, StreamInvariance, PTL DEF Spec
=============================================================================
