--------------------------- MODULE MqttLinkProofs ---------------------------
(***************************************************************************)
(* Proofs about MqttLink, for any topics, queue depths and numbers of      *)
(* state changes and commands: what the queues, the task's hand and the    *)
(* TCP pipeline carry between them.                                        *)
(***************************************************************************)
EXTENDS MqttLink, SequenceTheorems, WellFoundedInduction, TLAPS

-----------------------------------------------------------------------------
(* The elements of a sequence.                                             *)

\* They are of its type, and each has an index.
LEMMA Elements ==
    ASSUME NEW X, NEW s \in Seq(X)
    PROVE  /\ ToSet(s) \subseteq X
           /\ \A x : x \in ToSet(s) <=> \E i \in 1..Len(s) : s[i] = x
  BY DEF ToSet

\* The empty sequence has none, a queue of one has that one.
LEMMA ElementsOfOne ==
    ASSUME NEW x
    PROVE  ToSet(<<>>) = {} /\ ToSet(<<x>>) = {x}
  <1>1. Len(<<x>>) = 1 /\ <<x>>[1] = x /\ DOMAIN <<x>> = 1..1
    OBVIOUS
  <1>2. DOMAIN <<>> = {}
    OBVIOUS
  <1> QED
    BY <1>1, <1>2 DEF ToSet

\* A concatenation has those of both.
LEMMA ElementsOfConcat ==
    ASSUME NEW X, NEW s \in Seq(X), NEW t \in Seq(X)
    PROVE  s \o t \in Seq(X) /\ ToSet(s \o t) = ToSet(s) \cup ToSet(t)
  <1>1. /\ s \o t \in Seq(X)
        /\ Len(s \o t) = Len(s) + Len(t)
        /\ \A i \in 1..Len(s) + Len(t) :
             (s \o t)[i] = IF i <= Len(s) THEN s[i] ELSE t[i - Len(s)]
    BY ConcatProperties
  <1>2. Len(s) \in Nat /\ Len(t) \in Nat
    OBVIOUS
  <1>3. ASSUME NEW x, x \in ToSet(s \o t) PROVE x \in ToSet(s) \cup ToSet(t)
    <2>1. PICK i \in 1..Len(s \o t) : (s \o t)[i] = x
      BY <1>1, <1>3, Elements
    <2>2. CASE i <= Len(s)
      BY <1>1, <1>2, <2>1, <2>2, Elements
    <2>3. CASE i > Len(s)
      <3>1. i - Len(s) \in 1..Len(t) /\ t[i - Len(s)] = x
        BY <1>1, <1>2, <2>1, <2>3
      <3> QED
        BY <3>1, Elements
    <2> QED
      BY <1>2, <2>2, <2>3
  <1>4. ASSUME NEW x, x \in ToSet(s) PROVE x \in ToSet(s \o t)
    <2>1. PICK i \in 1..Len(s) : s[i] = x
      BY <1>4, Elements
    <2>2. i \in 1..Len(s \o t) /\ (s \o t)[i] = x
      BY <1>1, <1>2, <2>1
    <2> QED
      BY <1>1, <2>2, Elements
  <1>5. ASSUME NEW x, x \in ToSet(t) PROVE x \in ToSet(s \o t)
    <2>1. PICK i \in 1..Len(t) : t[i] = x
      BY <1>5, Elements
    <2>2. i + Len(s) \in 1..Len(s \o t) /\ (s \o t)[i + Len(s)] = x
      BY <1>1, <1>2, <2>1
    <2> QED
      BY <1>1, <2>2, Elements
  <1> QED
    BY <1>1, <1>3, <1>4, <1>5

\* Appending adds one.
LEMMA ElementsOfAppend ==
    ASSUME NEW X, NEW s \in Seq(X), NEW x \in X
    PROVE  /\ Append(s, x) \in Seq(X) /\ Append(s, x) = s \o <<x>>
           /\ ToSet(Append(s, x)) = ToSet(s) \cup {x}
  <1>1. Append(s, x) = s \o <<x>> /\ <<x>> \in Seq(X)
    BY AppendIsConcat
  <1>2. ToSet(s \o <<x>>) = ToSet(s) \cup ToSet(<<x>>)
    BY <1>1, ElementsOfConcat
  <1>3. Append(s, x) \in Seq(X)
    BY AppendProperties
  <1> QED
    BY <1>1, <1>2, <1>3, ElementsOfOne

\* Taking the first leaves the others.
LEMMA ElementsOfTail ==
    ASSUME NEW X, NEW s \in Seq(X), s # <<>>
    PROVE  /\ Head(s) \in X /\ Tail(s) \in Seq(X)
           /\ s = <<Head(s)>> \o Tail(s)
           /\ ToSet(s) = {Head(s)} \cup ToSet(Tail(s))
           /\ Len(Tail(s)) = Len(s) - 1
  <1>1. /\ Head(s) \in X /\ Tail(s) \in Seq(X) /\ <<Head(s)>> \in Seq(X)
        /\ Len(Tail(s)) = Len(s) - 1
        /\ \A i \in 1..Len(Tail(s)) : Tail(s)[i] = s[i + 1]
    BY HeadTailProperties
  <1>2. Len(s) \in Nat \ {0} /\ Head(s) = s[1]
    OBVIOUS
  <1>3. s = <<Head(s)>> \o Tail(s)
    <2> DEFINE r == <<Head(s)>> \o Tail(s)
    <2>1. /\ r \in Seq(X) /\ Len(r) = 1 + Len(Tail(s))
          /\ \A i \in 1..1 + Len(Tail(s)) :
               r[i] = IF i <= 1 THEN Head(s) ELSE Tail(s)[i - 1]
      BY <1>1, ConcatProperties
    <2>2. Len(r) = Len(s)
      BY <1>1, <1>2, <2>1
    <2>3. \A i \in 1..Len(s) : r[i] = s[i]
      BY <1>1, <1>2, <2>1
    <2> HIDE DEF r
    <2> QED
      BY <2>1, <2>2, <2>3, SeqEqual DEF r
  <1>4. ToSet(<<Head(s)>> \o Tail(s)) = ToSet(<<Head(s)>>) \cup ToSet(Tail(s))
    BY <1>1, ElementsOfConcat
  <1> QED
    BY <1>1, <1>3, <1>4, ElementsOfOne

-----------------------------------------------------------------------------
(* The order of a sequence, with respect to a relation R.                  *)

Sorted(s, R) == \A i, j \in 1..Len(s) : i < j => <<s[i], s[j]>> \in R

Below(U, V, R) == \A u \in U, v \in V : <<u, v>> \in R

\* The shortest sequences are sorted.
LEMMA SortedOne ==
    ASSUME NEW x, NEW R
    PROVE  Sorted(<<>>, R) /\ Sorted(<<x>>, R)
  <1>1. Len(<<>>) = 0 /\ Len(<<x>>) = 1
    OBVIOUS
  <1> QED
    BY <1>1 DEF Sorted

\* A concatenation is sorted when its parts are, one below the other.
LEMMA SortedConcat ==
    ASSUME NEW X, NEW s \in Seq(X), NEW t \in Seq(X), NEW R
    PROVE  Sorted(s \o t, R) <=> /\ Sorted(s, R) /\ Sorted(t, R)
                                 /\ Below(ToSet(s), ToSet(t), R)
  <1> DEFINE r == s \o t
             m == Len(s)
             n == Len(t)
  <1>1. /\ Len(r) = m + n
        /\ \A i \in 1..m + n : r[i] = IF i <= m THEN s[i] ELSE t[i - m]
    BY ConcatProperties
  <1>2. m \in Nat /\ n \in Nat
    OBVIOUS
  <1> HIDE DEF r, m, n
  <1>3. ASSUME Sorted(r, R)
        PROVE  Sorted(s, R) /\ Sorted(t, R) /\ Below(ToSet(s), ToSet(t), R)
    <2>1. ASSUME NEW i \in 1..m, NEW j \in 1..m, i < j
          PROVE  <<s[i], s[j]>> \in R
      <3>1. i \in 1..m + n /\ j \in 1..m + n /\ r[i] = s[i] /\ r[j] = s[j]
        BY <1>1, <1>2
      <3> QED
        BY <1>1, <1>3, <2>1, <3>1 DEF Sorted
    <2>2. ASSUME NEW i \in 1..n, NEW j \in 1..n, i < j
          PROVE  <<t[i], t[j]>> \in R
      <3>1. /\ i + m \in 1..m + n /\ j + m \in 1..m + n /\ i + m < j + m
            /\ r[i + m] = t[i] /\ r[j + m] = t[j]
        BY <1>1, <1>2, <2>2
      <3> QED
        BY <1>1, <1>3, <3>1 DEF Sorted
    <2>3. ASSUME NEW i \in 1..m, NEW j \in 1..n
          PROVE  <<s[i], t[j]>> \in R
      <3>1. /\ i \in 1..m + n /\ j + m \in 1..m + n /\ i < j + m
            /\ r[i] = s[i] /\ r[j + m] = t[j]
        BY <1>1, <1>2
      <3> QED
        BY <1>1, <1>3, <3>1 DEF Sorted
    <2>4. Below(ToSet(s), ToSet(t), R)
      <3> SUFFICES ASSUME NEW u \in ToSet(s), NEW v \in ToSet(t)
                   PROVE  <<u, v>> \in R
        BY DEF Below
      <3>1. PICK i \in 1..m : s[i] = u
        BY Elements DEF m
      <3>2. PICK j \in 1..n : t[j] = v
        BY Elements DEF n
      <3> QED
        BY <2>3, <3>1, <3>2
    <2> QED
      BY <2>1, <2>2, <2>4 DEF Sorted, m, n
  <1>4. ASSUME Sorted(s, R), Sorted(t, R), Below(ToSet(s), ToSet(t), R)
        PROVE  Sorted(r, R)
    <2> SUFFICES ASSUME NEW i \in 1..m + n, NEW j \in 1..m + n, i < j
                 PROVE  <<r[i], r[j]>> \in R
      BY <1>1 DEF Sorted
    <2>1. CASE j <= m
      <3>1. i \in 1..m /\ j \in 1..m /\ r[i] = s[i] /\ r[j] = s[j]
        BY <1>1, <1>2, <2>1
      <3> QED
        BY <1>4, <3>1 DEF Sorted, m
    <2>2. CASE i > m
      <3>1. /\ i - m \in 1..n /\ j - m \in 1..n /\ i - m < j - m
            /\ r[i] = t[i - m] /\ r[j] = t[j - m]
        BY <1>1, <1>2, <2>2
      <3> QED
        BY <1>4, <3>1 DEF Sorted, n
    <2>3. CASE i <= m /\ j > m
      <3>1. i \in 1..m /\ j - m \in 1..n /\ r[i] = s[i] /\ r[j] = t[j - m]
        BY <1>1, <1>2, <2>3
      <3>2. s[i] \in ToSet(s) /\ t[j - m] \in ToSet(t)
        BY <3>1, Elements DEF m, n
      <3> QED
        BY <1>4, <3>1, <3>2 DEF Below
    <2> QED
      BY <1>2, <2>1, <2>2, <2>3
  <1> QED
    BY <1>3, <1>4 DEF r

\* A nonempty set of indices of a sequence has a greatest one.
LEMMA GreatestIndex ==
    ASSUME NEW n \in Nat, NEW I, I \subseteq 1..n, I # {}
    PROVE  Max(I) \in I /\ \A i \in I : i <= Max(I)
  <1> DEFINE T == {n - i : i \in I}
             R == OpToRel(<, Nat)
  <1>1. T \subseteq Nat /\ T # {}
    <2>1. \A i \in I : n - i \in Nat
      OBVIOUS
    <2>2. PICK i \in I : TRUE
      OBVIOUS
    <2>3. n - i \in T
      BY <2>2
    <2> QED
      BY <2>1, <2>3
  <1>2. IsWellFoundedOn(R, Nat)
    BY NatLessThanWellFounded
  <1>3. PICK x \in T : \A y \in T : ~(<<y, x>> \in R)
    <2> HIDE DEF T, R
    <2> QED
      BY <1>1, <1>2, WFMin
  <1>4. \A y \in T : ~(y < x)
    BY <1>1, <1>3 DEF OpToRel
  <1>5. PICK k \in I : x = n - k
    BY <1>3
  <1>6. \A i \in I : k >= i
    BY <1>4, <1>5
  <1>7. \E m \in I : \A i \in I : m >= i
    BY <1>5, <1>6
  <1>8. Max(I) \in I /\ \A i \in I : Max(I) >= i
    BY <1>7 DEF Max
  <1> QED
    BY <1>8

-----------------------------------------------------------------------------
(* The outgoing queue at its limit.                                        *)

\* What remains of an overflowing queue is its end, no longer than the
\* depth, with the messages that have just been added if they fit.
LEMMA KeepNewestKeeps ==
    ASSUME NEW X, NEW s \in Seq(X), NEW t \in Seq(X), Len(t) <= OutgoingDepth
    PROVE  /\ KeepNewest(s \o t) \in Seq(X)
           /\ Len(KeepNewest(s \o t)) <= OutgoingDepth
           /\ \E p \in Seq(X) : s \o t = p \o KeepNewest(s \o t)
           /\ \E p \in Seq(X) : KeepNewest(s \o t) = p \o t
           /\ Len(s) + Len(t) <= OutgoingDepth => KeepNewest(s \o t) = s \o t
  <1> DEFINE q == s \o t
             k == Len(q) - OutgoingDepth
  <1>1. /\ q \in Seq(X) /\ Len(q) = Len(s) + Len(t)
        /\ Len(s) \in Nat /\ Len(t) \in Nat /\ OutgoingDepth \in Nat
    BY ConcatProperties, DepthAssumption
  <1>2. CASE Len(q) <= OutgoingDepth
    <2>1. KeepNewest(q) = q
      BY <1>1, <1>2 DEF KeepNewest
    <2>2. <<>> \in Seq(X) /\ q = <<>> \o q
      BY <1>1, ConcatEmptySeq
    <2> QED
      BY <1>1, <1>2, <2>1, <2>2
  <1>3. CASE Len(q) > OutgoingDepth
    <2>1. KeepNewest(q) = SubSeq(q, k + 1, Len(q))
      BY <1>1, <1>3 DEF KeepNewest
    <2>2. k \in 0..Len(q) /\ k \in 0..Len(s)
      BY <1>1, <1>3
    <2>3. /\ SubSeq(q, k + 1, Len(q)) \in Seq(X)
          /\ Len(SubSeq(q, k + 1, Len(q))) = OutgoingDepth
      BY <1>1, <1>3, <2>2, SubSeqProperties
    <2>4. SubSeq(q, 1, k) \in Seq(X)
      BY <1>1, <2>2, SubSeqProperties
    <2>5. q = SubSeq(q, 1, k) \o SubSeq(q, k + 1, Len(q))
      <3>1. SubSeq(q, 1, Len(q)) = q
        BY <1>1, SubSeqFull
      <3>2. 1 \in 1..Len(q) + 1 /\ k \in 1 - 1..Len(q) /\ Len(q) \in k..Len(q)
        BY <1>1, <2>2
      <3>3. SubSeq(q, 1, k) \o SubSeq(q, k + 1, Len(q)) = SubSeq(q, 1, Len(q))
        <4> HIDE DEF q, k
        <4> QED
          BY <1>1, <3>2, ConcatAdjacentSubSeq
      <3> QED
        BY <3>1, <3>3
    <2>6. /\ SubSeq(s, k + 1, Len(s)) \in Seq(X)
          /\ Len(SubSeq(s, k + 1, Len(s))) = Len(s) - k
          /\ \A i \in 1..Len(s) - k : SubSeq(s, k + 1, Len(s))[i] = s[k + i]
      <3>1. \A i \in k + 1..Len(s) : s[i] \in X
        BY <1>1, <2>2
      <3> HIDE DEF k, q
      <3> QED
        BY <1>1, <2>2, <3>1, SubSeqProperties
    <2>7. SubSeq(q, k + 1, Len(q)) = SubSeq(s, k + 1, Len(s)) \o t
      <3> DEFINE u == SubSeq(q, k + 1, Len(q))
                 v == SubSeq(s, k + 1, Len(s))
                 w == v \o t
      <3>1. \A i \in 1..OutgoingDepth : u[i] = q[k + i]
        BY <1>1, <2>2, SubSeqProperties
      <3>2. \A i \in 1..Len(q) : q[i] = IF i <= Len(s) THEN s[i] ELSE t[i - Len(s)]
        BY <1>1, ConcatProperties
      <3>3. /\ w \in Seq(X) /\ Len(w) = Len(s) - k + Len(t)
            /\ \A i \in 1..Len(s) - k + Len(t) :
                 w[i] = IF i <= Len(s) - k THEN v[i] ELSE t[i - (Len(s) - k)]
        <4> HIDE DEF v, k, q
        <4> QED
          BY <2>6, ConcatProperties DEF v
      <3>4. Len(s) - k + Len(t) = OutgoingDepth
        BY <1>1
      <3>5. ASSUME NEW i \in 1..OutgoingDepth PROVE u[i] = w[i]
        <4>1. k + i \in 1..Len(q)
          BY <1>1, <2>2
        <4> HIDE DEF u, v, w, k, q
        <4>2. CASE k + i <= Len(s)
          <5>1. u[i] = s[k + i]
            BY <3>1, <3>2, <4>1, <4>2
          <5>2. i \in 1..Len(s) - k
            BY <1>1, <2>2, <4>2
          <5>3. w[i] = v[i]
            <6>1. i \in 1..Len(s) - k + Len(t) /\ i <= Len(s) - k
              BY <1>1, <2>2, <3>4, <4>2
            <6> QED
              BY <3>3, <6>1
          <5> QED
            BY <2>6, <5>1, <5>2, <5>3 DEF v
        <4>3. CASE k + i > Len(s)
          <5>1. u[i] = t[(k + i) - Len(s)]
            <6>1. ~(k + i <= Len(s))
              BY <1>1, <2>2, <4>3
            <6>2. u[i] = q[k + i]
              BY <3>1
            <6>3. q[k + i] = t[(k + i) - Len(s)]
              BY <3>2, <4>1, <6>1
            <6> QED
              BY <6>2, <6>3
          <5>2. w[i] = t[i - (Len(s) - k)]
            <6>1. i \in 1..Len(s) - k + Len(t) /\ ~(i <= Len(s) - k)
              BY <1>1, <2>2, <3>4, <4>3
            <6> QED
              BY <3>3, <6>1
          <5>3. (k + i) - Len(s) = i - (Len(s) - k)
            BY <1>1, <2>2
          <5> QED
            BY <5>1, <5>2, <5>3
        <4> QED
          BY <1>1, <2>2, <4>2, <4>3
      <3> HIDE DEF u, v, w, k, q
      <3>6. u \in Seq(X) /\ Len(u) = OutgoingDepth
        BY <2>3 DEF u
      <3> QED
        BY <3>3, <3>4, <3>5, <3>6, SeqEqual DEF u, v, w
    <2> HIDE DEF k, q
    <2>8. ~(Len(s) + Len(t) <= OutgoingDepth)
      BY <1>1, <1>3
    <2>9. Len(KeepNewest(q)) <= OutgoingDepth
      BY <1>1, <2>1, <2>3
    <2>10. \E p \in Seq(X) : q = p \o KeepNewest(q)
      BY <2>1, <2>4, <2>5
    <2>11. \E p \in Seq(X) : KeepNewest(q) = p \o t
      BY <2>1, <2>6, <2>7
    <2>12. KeepNewest(q) \in Seq(X)
      BY <2>1, <2>3
    <2> QED
      BY <2>8, <2>9, <2>10, <2>11, <2>12 DEF q
  <1>4. Len(q) <= OutgoingDepth \/ Len(q) > OutgoingDepth
    BY <1>1
  <1> HIDE DEF q, k
  <1> QED
    BY <1>2, <1>3, <1>4

\* The message to be sent next is the oldest, and the others stay.
LEMMA RemoveOldest ==
    ASSUME NEW X, NEW s \in Seq(X), s # <<>>
    PROVE  s[NextOut] = Head(s) /\ RemoveAt(s, NextOut) = Tail(s)
  <1>1. Len(s) \in Nat \ {0} /\ s[1] = Head(s)
    OBVIOUS
  <1>2. /\ SubSeq(s, 2, Len(s)) \in Seq(X)
        /\ Len(SubSeq(s, 2, Len(s))) = Len(s) - 1
        /\ \A i \in 1..Len(s) - 1 : SubSeq(s, 2, Len(s))[i] = s[i + 1]
    <2> DEFINE n == Len(s)
               u == SubSeq(s, 2, n)
    <2>1. \A i \in 2..n : s[i] \in X
      BY <1>1
    <2>2. n \in Int /\ 2 \in Int /\ n >= 1
      BY <1>1
    <2> HIDE DEF n
    <2>3. /\ u \in Seq(X) /\ Len(u) = IF 2 <= n THEN n - 2 + 1 ELSE 0
          /\ \A i \in 1..n - 2 + 1 : u[i] = s[2 + i - 1]
      BY <2>1, <2>2, SubSeqProperties
    <2> HIDE DEF u
    <2>4. Len(u) = n - 1
      <3>1. n = 1 \/ n >= 2
        BY <2>2
      <3> QED
        BY <2>2, <2>3, <3>1
    <2>5. ASSUME NEW i \in 1..n - 1 PROVE u[i] = s[i + 1]
      <3>1. i \in 1..n - 2 + 1 /\ 2 + i - 1 = i + 1
        BY <2>2
      <3> QED
        BY <2>3, <3>1
    <2> QED
      BY <2>3, <2>4, <2>5 DEF n, u
  <1>3. SubSeq(s, 1, 0) = <<>>
    <2>1. SubSeq(s, 1, 0) \in Seq(X) /\ Len(SubSeq(s, 1, 0)) = 0
      BY <1>1, SubSeqProperties
    <2> QED
      BY <2>1, EmptySeq
  <1>4. /\ Tail(s) \in Seq(X) /\ Len(Tail(s)) = Len(s) - 1
        /\ \A i \in 1..Len(Tail(s)) : Tail(s)[i] = s[i + 1]
    BY HeadTailProperties
  <1>5. SubSeq(s, 2, Len(s)) = Tail(s)
    BY <1>2, <1>4, SeqEqual
  <1>6. RemoveAt(s, 1) = SubSeq(s, 1, 0) \o SubSeq(s, 2, Len(s))
    BY DEF RemoveAt
  <1> QED
    BY <1>1, <1>2, <1>3, <1>5, <1>6, ConcatEmptySeq DEF NextOut

-----------------------------------------------------------------------------
(* What the queues hold.                                                   *)

Messages == [topic : States \cup Configs, version : 1..MaxVersion]
Subscribes == [subscribe : Commands]
Packets == Messages \cup Subscribes
CommandRecords == [command : Nat, understood : BOOLEAN]

\* What the connection task has taken out of OUTGOING or SUB_QUEUE.
Held == IF link = "sending" THEN hand ELSE <<>>

\* What it has read from the socket.
Handed == IF link = "handing_over" THEN hand ELSE <<>>

\* The two kinds of packets.
LEMMA PacketKinds ==
    /\ \A m \in Messages : IsMessage(m) /\ m \notin Subscribes
    /\ \A m \in Subscribes : ~IsMessage(m)
    /\ \A t \in States \cup Configs, v \in 1..MaxVersion : Message(t, v) \in Messages
    /\ \A t \in Commands : Subscribe(t) \in Subscribes
  <1>1. ASSUME NEW m \in Messages PROVE IsMessage(m) /\ m \notin Subscribes
    <2>1. DOMAIN m = {"topic", "version"}
      BY DEF Messages
    <2>2. m \in Subscribes => DOMAIN m = {"subscribe"}
      BY DEF Subscribes
    <2> QED
      BY <2>1, <2>2 DEF IsMessage
  <1>2. ASSUME NEW m \in Subscribes PROVE ~IsMessage(m)
    <2>1. DOMAIN m = {"subscribe"}
      BY DEF Subscribes
    <2> QED
      BY <2>1 DEF IsMessage
  <1>3. \A t \in States \cup Configs, v \in 1..MaxVersion : Message(t, v) \in Messages
    BY DEF Message, Messages
  <1>4. \A t \in Commands : Subscribe(t) \in Subscribes
    BY DEF Subscribe, Subscribes
  <1> QED
    BY <1>1, <1>2, <1>3, <1>4

\* The types of the queues, what the connection task holds in which state,
\* and that the handler has at most one subscription in hand.
Types ==
    /\ TypeOK
    /\ outgoing \in Seq(Messages) /\ wire \in Seq(Packets)
    /\ link = "sending" => \E m \in Packets : hand = <<m>>
    /\ link = "handing_over" => \E c \in CommandRecords : hand = <<c>>
    /\ link \notin {"sending", "handing_over"} => hand = <<>>
    /\ incoming \in Seq(CommandRecords) /\ executed \in Seq(CommandRecords)
    /\ inbound \in Seq(CommandRecords) /\ sent \in Nat
    /\ subscriptions \in Seq(Commands) /\ sub_queue \in Seq(Commands)
    /\ handler \in Seq(Commands) /\ todo \in Seq(Commands)
    /\ queueing \in Seq(Commands) /\ Len(queueing) <= 1

\* The packet in hand, as a sequence.
LEMMA InHand ==
    ASSUME Types
    PROVE  /\ link = "sending" => /\ hand \in Seq(Packets) /\ Len(hand) = 1
                                  /\ \A R : Sorted(hand, R)
           /\ link = "handing_over" => /\ hand \in Seq(CommandRecords)
                                       /\ Len(hand) = 1
                                       /\ \A R : Sorted(hand, R)
  <1>1. ASSUME NEW X, NEW x \in X
        PROVE  <<x>> \in Seq(X) /\ Len(<<x>>) = 1 /\ \A R : Sorted(<<x>>, R)
    BY <1>1, SortedOne
  <1>2. ASSUME link = "sending"
        PROVE  hand \in Seq(Packets) /\ Len(hand) = 1 /\ \A R : Sorted(hand, R)
    <2>1. PICK m \in Packets : hand = <<m>>
      BY <1>2 DEF Types
    <2> QED
      BY <1>1, <2>1
  <1>3. ASSUME link = "handing_over"
        PROVE  /\ hand \in Seq(CommandRecords) /\ Len(hand) = 1
               /\ \A R : Sorted(hand, R)
    <2>1. PICK c \in CommandRecords : hand = <<c>>
      BY <1>3 DEF Types
    <2> QED
      BY <1>1, <2>1
  <1> QED
    BY <1>2, <1>3

\* What publishing adds to a queue.
New(topics, v) == [i \in DOMAIN topics |-> Message(topics[i], v)]

\* It has one message for each topic.
LEMMA NewMessages ==
    ASSUME NEW X, X \subseteq States \cup Configs, NEW topics \in Seq(X),
           NEW v \in 1..MaxVersion
    PROVE  /\ New(topics, v) \in Seq(Messages)
           /\ Len(New(topics, v)) = Len(topics)
           /\ ToSet(New(topics, v)) = {Message(t, v) : t \in ToSet(topics)}
  <1>1. DOMAIN topics = 1..Len(topics) /\ Len(topics) \in Nat
    OBVIOUS
  <1>2. \A i \in 1..Len(topics) : Message(topics[i], v) \in Messages
    <2>1. \A i \in 1..Len(topics) : topics[i] \in States \cup Configs
      OBVIOUS
    <2> QED
      BY <2>1, PacketKinds
  <1>3. New(topics, v) = [i \in 1..Len(topics) |-> Message(topics[i], v)]
    BY <1>1 DEF New
  <1>4. New(topics, v) \in [1..Len(topics) -> Messages]
    BY <1>2, <1>3
  <1>5. New(topics, v) \in Seq(Messages) /\ Len(New(topics, v)) = Len(topics)
    BY <1>1, <1>4, IsASeq, LenProperties
  <1>6. ToSet(New(topics, v)) = {New(topics, v)[i] : i \in 1..Len(topics)}
    BY <1>3 DEF ToSet
  <1>7. ToSet(topics) = {topics[i] : i \in 1..Len(topics)}
    BY <1>1 DEF ToSet
  <1> QED
    BY <1>3, <1>5, <1>6, <1>7

\* Publishing to OUTGOING: it stays within its depth, keeps only what it had,
\* and has the new messages at its end.
LEMMA PublishingAdds ==
    ASSUME NEW q \in Seq(Messages), NEW X, X \subseteq States \cup Configs,
           NEW topics \in Seq(X), NEW v \in 1..MaxVersion, Len(topics) <= OutgoingDepth
    PROVE  /\ PublishAll(q, topics, v) \in Seq(Messages)
           /\ Len(PublishAll(q, topics, v)) <= OutgoingDepth
           /\ \E p \in Seq(Messages) :
                q \o New(topics, v) = p \o PublishAll(q, topics, v)
           /\ \E p \in Seq(Messages) :
                PublishAll(q, topics, v) = p \o New(topics, v)
           /\ Len(q) + Len(topics) <= OutgoingDepth =>
                PublishAll(q, topics, v) = q \o New(topics, v)
  <1> DEFINE n == New(topics, v)
  <1>1. n \in Seq(Messages) /\ Len(n) = Len(topics)
    BY NewMessages
  <1>2. PublishAll(q, topics, v) = KeepNewest(q \o n)
    BY DEF PublishAll, New
  <1> HIDE DEF n
  <1>3. Len(n) <= OutgoingDepth
    BY <1>1
  <1>4. /\ KeepNewest(q \o n) \in Seq(Messages)
        /\ Len(KeepNewest(q \o n)) <= OutgoingDepth
        /\ \E p \in Seq(Messages) : q \o n = p \o KeepNewest(q \o n)
        /\ \E p \in Seq(Messages) : KeepNewest(q \o n) = p \o n
        /\ Len(q) + Len(n) <= OutgoingDepth => KeepNewest(q \o n) = q \o n
    BY <1>1, <1>3, KeepNewestKeeps
  <1> QED
    BY <1>1, <1>2, <1>4 DEF n
-----------------------------------------------------------------------------
(* Types is an invariant.                                                  *)

\* The initial state has them.
LEMMA TypesInit == Init => Types
  <1> SUFFICES ASSUME Init PROVE Types
    OBVIOUS
  <1>1. CommandTopics \in Seq(Commands)
    BY TopicsAssumption DEF Commands
  <1>2. Len(<<>>) = 0 /\ \A X : <<>> \in Seq(X)
    OBVIOUS
  <1>3. 1 \in 1..MaxVersion /\ 0 \in 0..1 /\ 0 \in 0..MaxVersion
    BY DepthAssumption
  <1>4. retained \in [States \cup Configs -> 0..MaxVersion]
    BY <1>3 DEF Init
  <1>5. /\ Len(outgoing) <= OutgoingDepth /\ Len(sub_queue) <= QueueDepth
        /\ Len(incoming) <= QueueDepth /\ Len(wire) <= WireDepth
    BY <1>2, DepthAssumption DEF Init
  <1>6. version \in 1..MaxVersion /\ republished \in 0..version
    BY <1>3 DEF Init
  <1>7. Len(hand) = IF link \in {"handing_over", "sending"} THEN 1 ELSE 0
    BY <1>2 DEF Init
  <1>8. /\ wifi \in {"joining", "joined", "pausing"} /\ connected \in BOOLEAN
        /\ link \in {"offline", "resubscribing", "polling", "handing_over",
                      "sending"}
        /\ broker_subs \subseteq Commands
    BY DEF Init
  <1>9. TypeOK
    BY <1>4, <1>5, <1>6, <1>7, <1>8 DEF TypeOK
  <1> QED
    BY <1>1, <1>2, <1>9 DEF Init, Types

\* Publishing keeps them, and every step of the other tasks.
LEMMA TypesStep ==
    ASSUME Types, [Next]_vars
    PROVE  Types'
  <1> USE DEF Types, TypeOK
  <1>1. CASE GatePublishes
    <2>1. StateTopics \in Seq(States) /\ Len(StateTopics) <= OutgoingDepth
      BY TopicsAssumption, DepthAssumption, LenProperties DEF States
    <2>2. version' \in 1..MaxVersion
      BY <1>1, DepthAssumption DEF GatePublishes
    <2>3. outgoing' \in Seq(Messages) /\ Len(outgoing') <= OutgoingDepth
      BY <1>1, <2>1, <2>2, PublishingAdds DEF GatePublishes
    <2>4. republished' \in 0..version'
      BY <1>1, <2>2 DEF GatePublishes
    <2> QED
      BY <1>1, <2>2, <2>3, <2>4
      DEF GatePublishes, subscribing, registering, receiving, connection, broker
  <1>2. CASE Republish
    <2>1. /\ StateTopics \in Seq(States) /\ Len(StateTopics) <= OutgoingDepth
          /\ ConfigTopics \in Seq(Configs) /\ Len(ConfigTopics) <= OutgoingDepth
      BY TopicsAssumption, DepthAssumption, LenProperties DEF States, Configs
    <2>2. version \in 1..MaxVersion
      OBVIOUS
    <2>3. PublishAll(outgoing, ConfigTopics, version) \in Seq(Messages)
      BY <2>1, <2>2, PublishingAdds
    <2>4. outgoing' \in Seq(Messages) /\ Len(outgoing') <= OutgoingDepth
      BY <1>2, <2>1, <2>2, <2>3, PublishingAdds DEF Republish
    <2>5. republished' \in 0..version'
      BY <1>2 DEF Republish
    <2> QED
      BY <1>2, <2>4, <2>5
      DEF Republish, subscribing, registering, receiving, connection, broker
  <1>3. CASE HandlerRegisters
    <2>1. /\ Head(handler) \in Commands /\ Tail(handler) \in Seq(Commands)
          /\ subscriptions' \in Seq(Commands)
      BY <1>3, ElementsOfTail, ElementsOfAppend DEF HandlerRegisters
    <2>2. queueing' \in Seq(Commands) /\ Len(queueing') <= 1
      BY <1>3, <2>1 DEF HandlerRegisters
    <2> QED
      BY <1>3, <2>1, <2>2
      DEF HandlerRegisters, publishing, receiving, connection, broker
  <1>4. CASE HandlerQueues
    <2>1. sub_queue' \in Seq(Commands)
      BY <1>4, ConcatProperties DEF HandlerQueues
    <2>2. Len(sub_queue') = Len(sub_queue) + Len(queueing)
      BY <1>4, ConcatProperties DEF HandlerQueues
    <2>3. Len(sub_queue') <= QueueDepth
      BY <1>4, <2>2, DepthAssumption, LenProperties DEF HandlerQueues
    <2>4. queueing' \in Seq(Commands) /\ Len(queueing') <= 1
      BY <1>4 DEF HandlerQueues
    <2> QED
      BY <1>4, <2>1, <2>3, <2>4
      DEF HandlerQueues, publishing, receiving, connection, broker
  <1>5. CASE HandlerExecutes
    <2>1. /\ Head(incoming) \in CommandRecords
          /\ incoming' \in Seq(CommandRecords)
          /\ Len(incoming') = Len(incoming) - 1
      BY <1>5, ElementsOfTail DEF HandlerExecutes
    <2>2. executed' \in Seq(CommandRecords)
      BY <1>5, <2>1, ElementsOfAppend DEF HandlerExecutes
    <2>3. Len(incoming') <= QueueDepth
      BY <2>1, DepthAssumption, LenProperties
    <2> QED
      BY <1>5, <2>1, <2>2, <2>3
      DEF HandlerExecutes, publishing, subscribing, registering, connection, broker
  <1>6. CASE Connect
    <2>1. Len(<<>>) = 0 /\ \A X : <<>> \in Seq(X)
      OBVIOUS
    <2> QED
      BY <1>6, <2>1, DepthAssumption
      DEF Connect, ToRenew, publishing, registering, receiving
  <1>7. CASE Resubscribe
    <2>1. Head(todo) \in Commands /\ Tail(todo) \in Seq(Commands)
      BY <1>7, ElementsOfTail DEF Resubscribe
    <2>2. Subscribe(Head(todo)) \in Packets
      BY <2>1, PacketKinds DEF Packets
    <2>3. wire' \in Seq(Packets) /\ Len(wire') = Len(wire) + 1
      BY <1>7, <2>2, AppendProperties DEF Resubscribe
    <2>4. Len(wire') <= WireDepth
      BY <1>7, <2>3, DepthAssumption, LenProperties DEF Resubscribe
    <2> QED
      BY <1>7, <2>1, <2>3, <2>4
      DEF Resubscribe, publishing, subscribing, registering, receiving
  <1>8. CASE GoOnline
    <2>1. Len(<<>>) = 0 /\ \A X : <<>> \in Seq(X)
      OBVIOUS
    <2> QED
      BY <1>8, <2>1, DepthAssumption
      DEF GoOnline, subscribing, registering, receiving, broker
  <1>9. CASE ReceiveCommand
    <2>1. /\ Head(inbound) \in CommandRecords
          /\ inbound' \in Seq(CommandRecords)
      BY <1>9, ElementsOfTail DEF ReceiveCommand, Unread
    <2>2. hand' = <<Head(inbound)>> /\ Len(<<Head(inbound)>>) = 1
      BY <1>9 DEF ReceiveCommand
    <2> QED
      BY <1>9, <2>1, <2>2
      DEF ReceiveCommand, publishing, subscribing, registering, receiving
  <1>10. CASE HandOver
    <2>1. hand \in Seq(CommandRecords) /\ Len(hand) = 1
      BY <1>10, InHand DEF HandOver
    <2>2. /\ incoming' \in Seq(CommandRecords)
          /\ Len(incoming') = Len(incoming) + 1
      <3> HIDE DEF Types, TypeOK
      <3>1. incoming \in Seq(CommandRecords) /\ incoming' = incoming \o hand
        BY <1>10 DEF HandOver, Types
      <3>2. incoming \o hand \in Seq(CommandRecords) /\ Len(incoming \o hand) = Len(incoming) + Len(hand)
        BY <2>1, <3>1, ConcatProperties
      <3> QED
        BY <2>1, <3>1, <3>2
    <2>3. Len(incoming') <= QueueDepth
      BY <1>10, <2>2, DepthAssumption, LenProperties DEF HandOver
    <2>4. hand' = <<>> /\ Len(<<>>) = 0
      BY <1>10 DEF HandOver
    <2> QED
      BY <1>10, <2>2, <2>3, <2>4
      DEF HandOver, publishing, subscribing, registering, broker
  <1>11. CASE TakeOutgoing
    <2>1. hand' = <<Head(outgoing)>> /\ outgoing' = Tail(outgoing)
      BY <1>11, RemoveOldest DEF TakeOutgoing
    <2>2. /\ Head(outgoing) \in Packets
          /\ Tail(outgoing) \in Seq(Messages)
          /\ Len(Tail(outgoing)) = Len(outgoing) - 1
      BY <1>11, ElementsOfTail DEF TakeOutgoing, Packets
    <2>3. Len(outgoing') <= OutgoingDepth
      BY <2>1, <2>2, DepthAssumption, LenProperties
    <2>4. Len(<<Head(outgoing)>>) = 1
      OBVIOUS
    <2> QED
      BY <1>11, <2>1, <2>2, <2>3, <2>4
      DEF TakeOutgoing, subscribing, registering, receiving, broker
  <1>12. CASE TakeSubscription
    <2>1. /\ Head(sub_queue) \in Commands
          /\ Tail(sub_queue) \in Seq(Commands)
          /\ Len(Tail(sub_queue)) = Len(sub_queue) - 1
      BY <1>12, ElementsOfTail DEF TakeSubscription
    <2>2. Subscribe(Head(sub_queue)) \in Packets
      BY <2>1, PacketKinds DEF Packets
    <2>3. Len(sub_queue') <= QueueDepth
      BY <1>12, <2>1, DepthAssumption, LenProperties DEF TakeSubscription
    <2>4. Len(<<Subscribe(Head(sub_queue))>>) = 1
      OBVIOUS
    <2> QED
      BY <1>12, <2>1, <2>2, <2>3, <2>4
      DEF TakeSubscription, publishing, registering, receiving, broker
  <1>13. CASE Sent
    <2>1. hand \in Seq(Packets) /\ Len(hand) = 1
      BY <1>13, InHand DEF Sent
    <2>2. wire' \in Seq(Packets) /\ Len(wire') = Len(wire) + 1
      <3> HIDE DEF Types, TypeOK
      <3>1. wire \in Seq(Packets) /\ wire' = wire \o hand
        BY <1>13 DEF Sent, Types
      <3>2. wire \o hand \in Seq(Packets) /\ Len(wire \o hand) = Len(wire) + Len(hand)
        BY <2>1, <3>1, ConcatProperties
      <3> QED
        BY <2>1, <3>1, <3>2
    <2>3. Len(wire') <= WireDepth
      BY <1>13, <2>2, DepthAssumption, LenProperties DEF Sent
    <2>4. hand' = <<>> /\ Len(<<>>) = 0
      BY <1>13 DEF Sent
    <2> QED
      BY <1>13, <2>2, <2>3, <2>4
      DEF Sent, publishing, subscribing, registering, receiving
  <1>14. CASE Break
    <2>1. Len(<<>>) = 0 /\ \A X : <<>> \in Seq(X)
      OBVIOUS
    <2> QED
      BY <1>14, <2>1
      DEF Break, publishing, subscribing, registering, receiving, broker
  <1>15. CASE BrokerReceives
    <2> DEFINE m == Head(wire)
    <2>1. /\ m \in Packets /\ wire' \in Seq(Packets)
          /\ Len(wire') = Len(wire) - 1
      BY <1>15, ElementsOfTail DEF BrokerReceives
    <2>2. Len(wire') <= WireDepth
      BY <2>1, DepthAssumption, LenProperties
    <2>3. broker_subs' \subseteq Commands
      <3>1. CASE IsMessage(m)
        BY <1>15, <3>1 DEF BrokerReceives
      <3>2. CASE ~IsMessage(m)
        <4>1. m.subscribe \in Commands
          BY <2>1, <3>2, PacketKinds DEF Packets, Subscribes
        <4> QED
          BY <1>15, <3>2, <4>1 DEF BrokerReceives
      <3> QED
        BY <3>1, <3>2
    <2>4. retained' \in [States \cup Configs -> 0..MaxVersion]
      <3>1. CASE IsMessage(m)
        <4>1. m.topic \in States \cup Configs /\ m.version \in 1..MaxVersion
          BY <2>1, <3>1, PacketKinds DEF Packets, Messages
        <4>2. m.version \in 0..MaxVersion
          BY <4>1, DepthAssumption
        <4>3. retained' = [retained EXCEPT ![m.topic] = m.version]
          BY <1>15, <3>1 DEF BrokerReceives
        <4> QED
          BY <4>1, <4>2, <4>3
      <3>2. CASE ~IsMessage(m)
        BY <1>15, <3>2 DEF BrokerReceives
      <3> QED
        BY <3>1, <3>2
    <2> QED
      BY <1>15, <2>1, <2>2, <2>3, <2>4
      DEF BrokerReceives, publishing, subscribing, registering, receiving,
          connection
  <1>16. ASSUME NEW understood \in BOOLEAN, BrokerSends(understood) PROVE Types'
    <2>1. Command(sent + 1, understood) \in CommandRecords
      BY DEF Command, CommandRecords
    <2>2. inbound' \in Seq(CommandRecords) /\ sent' \in Nat
      BY <1>16, <2>1, AppendProperties DEF BrokerSends
    <2> QED
      BY <1>16, <2>2
      DEF BrokerSends, publishing, subscribing, registering, receiving,
          connection
  <1>17. CASE Wifi \/ WifiDrops
    BY <1>17
    DEF Wifi, WifiDrops, WifiJoins, WifiJoinFails, WifiRetries, WifiStep,
        publishing, subscribing, registering, receiving, connection, broker
  <1>18. CASE UNCHANGED vars
    BY <1>18
    DEF vars, publishing, subscribing, registering, receiving, connection, broker
  <1> QED
    BY <1>1, <1>2, <1>3, <1>4, <1>5, <1>6, <1>7, <1>8, <1>9, <1>10, <1>11,
       <1>12, <1>13, <1>14, <1>15, <1>16, <1>17, <1>18
    DEF Next, Handler, Link

\* Types is an invariant of the specification.
LEMMA TypesInvariance == Spec => []Types
  <1>1. Types /\ [Next]_vars => Types'
    BY TypesStep
  <1> QED
    BY <1>1, TypesInit, PTL DEF Spec

\* At all times every queue is within its depth - OUTGOING and SUB_QUEUE,
\* INCOMING, the socket - and the connection task holds a packet exactly
\* while it passes it on.
THEOREM QueuesStayBounded == Spec => []TypeOK
  <1>1. Types => TypeOK
    BY DEF Types
  <1> QED
    BY <1>1, TypesInvariance, PTL

-----------------------------------------------------------------------------
(* Subscriptions.                                                          *)

\* No task loses a subscription.
LEMMA SubscriptionsStep ==
    ASSUME Types, NoSubscriptionLost, [Next]_vars
    PROVE  NoSubscriptionLost'
  <1> USE DEF NoSubscriptionLost
  <1>1. CASE HandlerRegisters
    <2>1. Head(handler) \in Commands
      BY <1>1, ElementsOfTail DEF HandlerRegisters, Types
    <2>2. ToSet(subscriptions') = ToSet(subscriptions) \cup {Head(handler)}
      BY <1>1, <2>1, ElementsOfAppend DEF HandlerRegisters, Types
    <2>3. ToSet(queueing) = {} /\ ToSet(queueing') = {Head(handler)}
      BY <1>1, ElementsOfOne DEF HandlerRegisters
    <2> QED
      BY <1>1, <2>2, <2>3 DEF HandlerRegisters, connection, broker
  <1>2. CASE HandlerQueues
    <2>1. ToSet(sub_queue') = ToSet(sub_queue) \cup ToSet(queueing)
      BY <1>2, ElementsOfConcat DEF HandlerQueues, Types
    <2> QED
      BY <1>2, <2>1 DEF HandlerQueues, connection, broker
  <1>3. CASE Connect
    BY <1>3 DEF Connect, ToRenew
  <1>4. CASE Resubscribe
    <2>1. /\ Head(todo) \in Commands
          /\ ToSet(todo) = {Head(todo)} \cup ToSet(todo')
      BY <1>4, ElementsOfTail DEF Resubscribe, Types
    <2>2. Subscribe(Head(todo)) \in Packets
      BY <2>1, PacketKinds DEF Packets
    <2>3. ToSet(wire') = ToSet(wire) \cup {Subscribe(Head(todo))}
      <3> DEFINE m == Subscribe(Head(todo))
      <3>1. wire \in Seq(Packets) /\ wire' = Append(wire, m) /\ m \in Packets
        BY <1>4, <2>2 DEF Resubscribe, Types
      <3> HIDE DEF m, NoSubscriptionLost
      <3>2. /\ Append(wire, m) \in Seq(Packets)
            /\ Append(wire, m) = wire \o <<m>>
            /\ ToSet(Append(wire, m)) = ToSet(wire) \cup {m}
        <4>1. wire \in Seq(Packets) /\ m \in Packets
          BY <3>1
        <4> QED
          BY <4>1, ElementsOfAppend
      <3> QED
        BY <3>1, <3>2 DEF m
    <2> QED
      BY <1>4, <2>1, <2>3 DEF Resubscribe, subscribing, registering
  <1>5. CASE GoOnline
    BY <1>5 DEF GoOnline, subscribing, registering, broker
  <1>6. CASE ReceiveCommand \/ TakeOutgoing
    <2>1. ToSet(hand) = {}
      BY <1>6, ElementsOfOne DEF ReceiveCommand, TakeOutgoing, Types
    <2> QED
      BY <1>6, <2>1
      DEF ReceiveCommand, TakeOutgoing, subscribing, registering, broker
  <1>7. CASE HandOver
    <2>1. PICK c \in CommandRecords : hand = <<c>>
      BY <1>7 DEF HandOver, Types
    <2>2. \A t : Subscribe(t) # c
      <3>1. "command" \in DOMAIN c
        BY DEF CommandRecords
      <3>2. \A t : "command" \notin DOMAIN Subscribe(t)
        BY DEF Subscribe
      <3> QED
        BY <3>1, <3>2
    <2>3. ToSet(hand) = {c}
      BY <2>1, ElementsOfOne
    <2> QED
      BY <1>7, <2>2, <2>3 DEF HandOver, subscribing, registering, broker
  <1>8. CASE TakeSubscription
    <2>1. ToSet(sub_queue) = {Head(sub_queue)} \cup ToSet(sub_queue')
      BY <1>8, ElementsOfTail DEF TakeSubscription, Types
    <2>2. ToSet(hand) = {} /\ ToSet(hand') = {Subscribe(Head(sub_queue))}
      BY <1>8, ElementsOfOne DEF TakeSubscription, Types
    <2> QED
      BY <1>8, <2>1, <2>2 DEF TakeSubscription, registering, broker
  <1>9. CASE Sent
    <2>1. hand \in Seq(Packets)
      BY <1>9, InHand DEF Sent
    <2>2. ToSet(wire') = ToSet(wire) \cup ToSet(hand)
      BY <1>9, <2>1, ElementsOfConcat DEF Sent, Types
    <2> QED
      BY <1>9, <2>2 DEF Sent, subscribing, registering
  <1>10. CASE Break
    BY <1>10 DEF Break
  <1>11. CASE BrokerReceives
    <2> DEFINE m == Head(wire)
    <2>1. m \in Packets /\ ToSet(wire) = {m} \cup ToSet(wire')
      BY <1>11, ElementsOfTail DEF BrokerReceives, Types
    <2>2. \A t \in ToSet(subscriptions) : t \in Commands
      BY Elements DEF Types
    <2>3. CASE IsMessage(m)
      <3>1. \A t \in Commands : Subscribe(t) # m
        BY <2>3, PacketKinds
      <3> QED
        BY <1>11, <2>1, <2>2, <2>3, <3>1
        DEF BrokerReceives, subscribing, registering, connection
    <2>4. CASE ~IsMessage(m)
      <3>1. \A t : Subscribe(t) = m => m.subscribe = t
        BY DEF Subscribe
      <3>2. broker_subs' = broker_subs \cup {m.subscribe}
        BY <1>11, <2>4 DEF BrokerReceives
      <3> QED
        BY <1>11, <2>1, <3>1, <3>2
        DEF BrokerReceives, subscribing, registering, connection
    <2> QED
      BY <2>3, <2>4
  <1>12. CASE GatePublishes \/ Republish \/ HandlerExecutes
    BY <1>12
    DEF GatePublishes, Republish, HandlerExecutes, subscribing, registering,
        connection, broker
  <1>13. ASSUME NEW understood \in BOOLEAN, BrokerSends(understood)
         PROVE  NoSubscriptionLost'
    BY <1>13 DEF BrokerSends, subscribing, registering, connection
  <1>14. CASE Wifi \/ WifiDrops
    BY <1>14
    DEF Wifi, WifiDrops, WifiJoins, WifiJoinFails, WifiRetries, WifiStep,
        subscribing, registering, connection, broker
  <1>15. CASE UNCHANGED vars
    BY <1>15 DEF vars, subscribing, registering, connection, broker
  <1> QED
    BY <1>1, <1>2, <1>3, <1>4, <1>5, <1>6, <1>7, <1>8, <1>9, <1>10, <1>11,
       <1>12, <1>13, <1>14, <1>15
    DEF Next, Handler, Link

\* Whenever subscribe() and a reconnect race: every topic in the list is
\* subscribed at the broker, or in one of the places from which it will be.
THEOREM SubscriptionsSurvive == Spec => []NoSubscriptionLost
  <1>1. Init => NoSubscriptionLost
    BY DEF Init, NoSubscriptionLost
  <1>2. Types /\ NoSubscriptionLost /\ [Next]_vars => NoSubscriptionLost'
    BY SubscriptionsStep
  <1> QED
    BY <1>1, <1>2, TypesInvariance, PTL DEF Spec

-----------------------------------------------------------------------------
(* The order of commands.                                                  *)

Sooner == {p \in CommandRecords \X CommandRecords : p[1].command < p[2].command}

\* Commands pass INCOMING behind what has been executed, in the order in
\* which the broker has sent them: each place holds later ones than the next.
Queued ==
    /\ Sorted(incoming, Sooner) /\ Sorted(inbound, Sooner)
    /\ Below(ToSet(executed), ToSet(incoming), Sooner)
    /\ Below(ToSet(executed), ToSet(Handed), Sooner)
    /\ Below(ToSet(executed), ToSet(inbound), Sooner)
    /\ Below(ToSet(incoming), ToSet(Handed), Sooner)
    /\ Below(ToSet(incoming), ToSet(inbound), Sooner)
    /\ Below(ToSet(Handed), ToSet(inbound), Sooner)
    /\ \A c \in ToSet(executed) \cup ToSet(incoming) \cup ToSet(Handed)
                  \cup ToSet(inbound) : c \in CommandRecords /\ c.command <= sent

\* Steps that leave the four places alone.
LEMMA QueuedFrame ==
    ASSUME Queued, UNCHANGED <<incoming, executed, inbound, sent>>,
           Handed' = Handed
    PROVE  Queued'
  BY DEF Queued

\* Every other step passes on the oldest command of a place.
LEMMA QueuedStep ==
    ASSUME Types, Queued, [Next]_vars
    PROVE  Queued'
  <1>1. CASE HandlerExecutes
    <2> DEFINE h == Head(incoming)
    <2>1. /\ h \in CommandRecords /\ Tail(incoming) \in Seq(CommandRecords)
          /\ incoming = <<h>> \o Tail(incoming)
          /\ ToSet(incoming) = {h} \cup ToSet(Tail(incoming))
      BY <1>1, ElementsOfTail DEF HandlerExecutes, Types
    <2>2. <<h>> \in Seq(CommandRecords) /\ ToSet(<<h>>) = {h}
      BY <2>1, ElementsOfOne
    <2>3. incoming' = Tail(incoming) /\ UNCHANGED <<inbound, sent>>
      BY <1>1 DEF HandlerExecutes, broker
    <2>4. Handed' = Handed
      BY <1>1 DEF HandlerExecutes, connection, Handed
    <2>5. Sorted(incoming', Sooner) /\ Below({h}, ToSet(incoming'), Sooner)
      <3> HIDE DEF h
      <3>1. Sorted(<<h>> \o Tail(incoming), Sooner)
        BY <2>1 DEF Queued
      <3>2. Tail(incoming) \in Seq(CommandRecords) /\ <<h>> \in Seq(CommandRecords)
        BY <2>1, <2>2
      <3>3. /\ Sorted(Tail(incoming), Sooner)
            /\ Below(ToSet(<<h>>), ToSet(Tail(incoming)), Sooner)
        BY <3>1, <3>2, SortedConcat
      <3> QED
        BY <2>2, <2>3, <3>3
    <2>6. ToSet(executed') \subseteq ToSet(executed) \cup {h}
      <3>1. CASE h.understood
        <4>1. executed' = Append(executed, h)
          BY <1>1, <3>1 DEF HandlerExecutes
        <4> QED
          BY <2>1, <4>1, ElementsOfAppend DEF Types
      <3>2. CASE ~h.understood
        BY <1>1, <3>2 DEF HandlerExecutes
      <3> QED
        BY <3>1, <3>2
    <2> HIDE DEF h
    <2> QED
      BY <2>1, <2>3, <2>4, <2>5, <2>6 DEF Queued, Below
  <1>2. CASE Connect
    <2>1. Handed = <<>> /\ Handed' = <<>>
      BY <1>2 DEF Connect, Handed
    <2>2. inbound' = <<>> /\ UNCHANGED <<incoming, executed, sent>>
      BY <1>2 DEF Connect, receiving
    <2>3. ToSet(<<>>) = {} /\ Sorted(<<>>, Sooner)
      BY ElementsOfOne, SortedOne
    <2> QED
      BY <2>1, <2>2, <2>3 DEF Queued, Below
  <1>3. CASE ReceiveCommand
    <2> DEFINE h == Head(inbound)
    <2>1. /\ h \in CommandRecords /\ Tail(inbound) \in Seq(CommandRecords)
          /\ inbound = <<h>> \o Tail(inbound)
          /\ ToSet(inbound) = {h} \cup ToSet(Tail(inbound))
      BY <1>3, ElementsOfTail DEF ReceiveCommand, Types
    <2>2. /\ <<h>> \in Seq(CommandRecords) /\ ToSet(<<h>>) = {h}
          /\ ToSet(<<>>) = {}
      BY <2>1, ElementsOfOne
    <2>3. inbound' = Tail(inbound) /\ UNCHANGED <<incoming, executed, sent>>
      BY <1>3 DEF ReceiveCommand, receiving, Unread
    <2>4. Handed = <<>> /\ Handed' = <<h>>
      BY <1>3 DEF ReceiveCommand, Handed
    <2> HIDE DEF h
    <2>5. Sorted(inbound', Sooner) /\ Below({h}, ToSet(inbound'), Sooner)
      <3>1. Sorted(<<h>> \o Tail(inbound), Sooner)
        BY <2>1 DEF Queued
      <3>2. Tail(inbound) \in Seq(CommandRecords) /\ <<h>> \in Seq(CommandRecords)
        BY <2>1, <2>2
      <3>3. /\ Sorted(Tail(inbound), Sooner)
            /\ Below(ToSet(<<h>>), ToSet(Tail(inbound)), Sooner)
        BY <3>1, <3>2, SortedConcat
      <3> QED
        BY <2>2, <2>3, <3>3
    <2> QED
      BY <2>1, <2>2, <2>3, <2>4, <2>5 DEF Queued, Below
  <1>4. CASE HandOver
    <2>1. /\ hand \in Seq(CommandRecords) /\ Sorted(hand, Sooner)
          /\ ToSet(<<>>) = {}
      BY <1>4, InHand, ElementsOfOne DEF HandOver
    <2>2. /\ incoming' = incoming \o hand
          /\ UNCHANGED <<inbound, executed, sent>>
      BY <1>4 DEF HandOver, broker
    <2>3. Handed = hand /\ Handed' = <<>>
      BY <1>4 DEF HandOver, Handed
    <2>4. ToSet(incoming') = ToSet(incoming) \cup ToSet(hand)
      BY <2>1, <2>2, ElementsOfConcat DEF Types
    <2>5. Sorted(incoming', Sooner)
      BY <2>1, <2>2, <2>3, SortedConcat DEF Queued, Types
    <2> QED
      BY <2>1, <2>2, <2>3, <2>4, <2>5 DEF Queued, Below
  <1>5. ASSUME NEW understood \in BOOLEAN, BrokerSends(understood)
        PROVE  Queued'
    <2> DEFINE c == Command(sent + 1, understood)
    <2>1. c \in CommandRecords /\ c.command = sent + 1
      BY DEF Command, CommandRecords, Types
    <2>2. /\ inbound' = Append(inbound, c) /\ sent' = sent + 1
          /\ UNCHANGED <<incoming, executed>>
      BY <1>5 DEF BrokerSends, receiving
    <2>3. Handed' = Handed
      BY <1>5 DEF BrokerSends, connection, Handed
    <2> HIDE DEF c
    <2>4. inbound' = inbound \o <<c>> /\ ToSet(inbound') = ToSet(inbound) \cup {c}
      BY <2>1, <2>2, ElementsOfAppend DEF Types
    <2>5. \A d \in CommandRecords : d.command <= sent => <<d, c>> \in Sooner
      BY <2>1 DEF Sooner, CommandRecords, Types
    <2>6. Sorted(inbound', Sooner)
      <3>1. /\ <<c>> \in Seq(CommandRecords) /\ ToSet(<<c>>) = {c}
            /\ Sorted(<<c>>, Sooner)
        BY <2>1, ElementsOfOne, SortedOne
      <3>2. Below(ToSet(inbound), ToSet(<<c>>), Sooner)
        BY <2>5, <3>1 DEF Queued, Below
      <3>3. inbound \in Seq(CommandRecords) /\ Sorted(inbound, Sooner)
        BY DEF Queued, Types
      <3> QED
        BY <2>4, <3>1, <3>2, <3>3, SortedConcat
    <2>7. \A d \in CommandRecords : d.command <= sent => d.command <= sent'
      BY <2>2 DEF CommandRecords, Types
    <2>8. c.command <= sent'
      BY <2>1, <2>2 DEF Types
    <2> QED
      BY <2>1, <2>2, <2>3, <2>4, <2>5, <2>6, <2>7, <2>8 DEF Queued, Below
  <1>6. CASE \/ GatePublishes \/ Republish \/ HandlerRegisters \/ HandlerQueues
             \/ Resubscribe \/ GoOnline \/ TakeOutgoing \/ TakeSubscription
             \/ Sent \/ Break \/ BrokerReceives \/ Wifi \/ WifiDrops
             \/ UNCHANGED vars
    <2>1. UNCHANGED <<incoming, executed, inbound, sent>>
      BY <1>6
      DEF GatePublishes, Republish, HandlerRegisters, HandlerQueues, Resubscribe,
          GoOnline, TakeOutgoing, TakeSubscription, Sent, Break, BrokerReceives,
          Wifi, WifiDrops, WifiJoins, WifiJoinFails, WifiRetries, WifiStep, vars,
          receiving, broker
    <2>2. Handed' = Handed
      BY <1>6
      DEF GatePublishes, Republish, HandlerRegisters, HandlerQueues, Resubscribe,
          GoOnline, TakeOutgoing, TakeSubscription, Sent, Break, BrokerReceives,
          Wifi, WifiDrops, WifiJoins, WifiJoinFails, WifiRetries, WifiStep, vars,
          connection, AtSocket, Handed
    <2> QED
      BY <2>1, <2>2, QueuedFrame
  <1> QED
    BY <1>1, <1>2, <1>3, <1>4, <1>5, <1>6 DEF Next, Handler, Link

\* Commands are executed in the order in which the broker has sent them, and
\* none twice: whatever is executed next is later than all that have been.
THEOREM CommandsKeepOrder == Spec => CommandsInOrder
  <1>1. Init => Queued
    <2>1. ToSet(<<>>) = {} /\ Sorted(<<>>, Sooner)
      BY ElementsOfOne, SortedOne
    <2> QED
      BY <2>1 DEF Init, Queued, Handed, Below
  <1>2. Types /\ Queued /\ [Next]_vars => Queued'
    BY QueuedStep
  <1>3. ASSUME Types, Queued, [Next]_vars
        PROVE  [executed' # executed =>
                  \A i \in DOMAIN executed :
                    executed[i].command < Last(executed').command]_vars
    <2> SUFFICES ASSUME Next, executed' # executed, NEW i \in DOMAIN executed
                 PROVE  executed[i].command < Last(executed').command
      BY <1>3 DEF vars, receiving
    <2>1. HandlerExecutes
      BY DEF Next, Handler, Link, GatePublishes, Republish, HandlerRegisters,
          HandlerQueues, Connect, Resubscribe, GoOnline, ReceiveCommand, HandOver,
          TakeOutgoing, TakeSubscription, Sent, Break, BrokerReceives,
          BrokerSends, Wifi, WifiDrops, WifiJoins, WifiJoinFails, WifiRetries,
          WifiStep, receiving
    <2> DEFINE h == Head(incoming)
    <2>2. h \in CommandRecords /\ h \in ToSet(incoming)
      BY <1>3, <2>1, ElementsOfTail DEF HandlerExecutes, Types
    <2>3. executed' = Append(executed, h)
      BY <2>1 DEF HandlerExecutes
    <2>4. Last(executed') = h
      BY <1>3, <2>2, <2>3, AppendProperties DEF Last, Types
    <2>5. executed[i] \in ToSet(executed)
      BY DEF ToSet
    <2>6. <<executed[i], h>> \in Sooner
      BY <1>3, <2>2, <2>5 DEF Queued, Below
    <2> QED
      BY <2>4, <2>6 DEF Sooner
  <1> QED
    BY <1>1, <1>2, <1>3, TypesInvariance, PTL DEF Spec, CommandsInOrder

-----------------------------------------------------------------------------
(* The order of messages.                                                  *)

Earlier ==
    {p \in Packets \X Packets :
        IsMessage(p[1]) /\ IsMessage(p[2]) => p[1].version <= p[2].version}

\* All that is on its way to the broker.
Carried == ToSet(wire) \cup ToSet(Held) \cup ToSet(outgoing)

\* What is on its way is in the order in which it was published, nothing of
\* it older than what the broker has for its topic.
InOrder ==
    /\ Sorted(wire, Earlier) /\ Sorted(outgoing, Earlier)
    /\ Below(ToSet(wire), ToSet(Held), Earlier)
    /\ Below(ToSet(wire), ToSet(outgoing), Earlier)
    /\ Below(ToSet(Held), ToSet(outgoing), Earlier)
    /\ \A m \in Carried : IsMessage(m) =>
           m.version <= version /\ retained[m.topic] <= m.version
    /\ \A t \in States \cup Configs : retained[t] <= version

\* Publishing leaves the queue in order.
LEMMA PublishingInOrder ==
    ASSUME NEW q \in Seq(Messages), NEW X, X \subseteq States \cup Configs,
           NEW topics \in Seq(X), NEW v \in 1..MaxVersion,
           Len(topics) <= OutgoingDepth,
           Sorted(q, Earlier), \A m \in ToSet(q) : m.version <= v
    PROVE  /\ PublishAll(q, topics, v) \in Seq(Messages)
           /\ Sorted(PublishAll(q, topics, v), Earlier)
           /\ ToSet(PublishAll(q, topics, v)) \subseteq
                ToSet(q) \cup {Message(t, v) : t \in ToSet(topics)}
           /\ {Message(t, v) : t \in ToSet(topics)} \subseteq
                ToSet(PublishAll(q, topics, v))
           /\ Len(q) + Len(topics) <= OutgoingDepth =>
                ToSet(q) \subseteq ToSet(PublishAll(q, topics, v))
  <1> DEFINE n == New(topics, v)
             r == PublishAll(q, topics, v)
  <1>1. /\ n \in Seq(Messages)
        /\ ToSet(n) = {Message(t, v) : t \in ToSet(topics)}
    BY NewMessages
  <1>2. /\ r \in Seq(Messages)
        /\ \E p \in Seq(Messages) : q \o n = p \o r
        /\ \E p \in Seq(Messages) : r = p \o n
        /\ Len(q) + Len(topics) <= OutgoingDepth => r = q \o n
    BY PublishingAdds
  <1>3. \A m \in ToSet(n) : m \in Messages /\ m.version = v
    <2>1. ToSet(n) \subseteq Messages
      BY <1>1, Elements
    <2>2. \A t : Message(t, v).version = v
      BY DEF Message
    <2> QED
      BY <1>1, <2>1, <2>2
  <1>4. \A m \in ToSet(q) : m \in Messages
    BY Elements
  <1> HIDE DEF n, r
  <1>5. \A l, m \in Messages : l.version <= m.version => <<l, m>> \in Earlier
    BY DEF Earlier, Packets
  <1>6. Sorted(n, Earlier)
    <2> SUFFICES ASSUME NEW i \in 1..Len(n), NEW j \in 1..Len(n)
                 PROVE  <<n[i], n[j]>> \in Earlier
      BY DEF Sorted
    <2>1. n[i] \in ToSet(n) /\ n[j] \in ToSet(n)
      BY <1>1, Elements
    <2> QED
      BY <1>3, <1>5, <2>1
  <1>7. Below(ToSet(q), ToSet(n), Earlier)
    BY <1>3, <1>4, <1>5 DEF Below
  <1>8. Sorted(q \o n, Earlier)
    BY <1>1, <1>6, <1>7, SortedConcat
  <1>9. ToSet(q \o n) = ToSet(q) \cup ToSet(n)
    BY <1>1, ElementsOfConcat
  <1>10. Sorted(r, Earlier) /\ ToSet(r) \subseteq ToSet(q) \cup ToSet(n)
    <2>1. PICK p \in Seq(Messages) : q \o n = p \o r
      BY <1>2
    <2>2. Sorted(p \o r, Earlier)
      BY <1>8, <2>1
    <2>3. ToSet(p \o r) = ToSet(p) \cup ToSet(r)
      <3>1. r \in Seq(Messages)
        BY <1>2
      <3> QED
        BY <3>1, ElementsOfConcat
    <2>4. Sorted(r, Earlier)
      BY <1>2, <2>2, SortedConcat
    <2> QED
      BY <1>9, <2>1, <2>3, <2>4
  <1>11. ToSet(n) \subseteq ToSet(r)
    <2>1. PICK p \in Seq(Messages) : r = p \o n
      BY <1>2
    <2> QED
      BY <1>1, <2>1, ElementsOfConcat
  <1> QED
    BY <1>1, <1>2, <1>9, <1>10, <1>11 DEF r

\* A republish fits: its configs are still there when its states have been
\* queued behind them.
LEMMA RepublishFits ==
    ASSUME NEW q \in Seq(Messages), NEW v \in 1..MaxVersion
    PROVE  {Message(t, v) : t \in Configs} \subseteq
             ToSet(PublishAll(PublishAll(q, ConfigTopics, v), StateTopics, v))
  <1> DEFINE c == New(ConfigTopics, v)
             n == New(StateTopics, v)
             r == PublishAll(q, ConfigTopics, v)
  <1>1. /\ StateTopics \in Seq(States) /\ Len(StateTopics) \in Nat
        /\ ConfigTopics \in Seq(Configs) /\ Len(ConfigTopics) \in Nat
    BY TopicsAssumption, LenProperties DEF States, Configs
  <1>2. /\ c \in Seq(Messages) /\ Len(c) = Len(ConfigTopics)
        /\ ToSet(c) = {Message(t, v) : t \in Configs}
    BY <1>1, NewMessages DEF Configs
  <1>3. n \in Seq(Messages) /\ Len(n) = Len(StateTopics)
    BY <1>1, NewMessages
  <1>4. Len(ConfigTopics) <= OutgoingDepth
    BY <1>1, DepthAssumption
  <1>5. PICK p \in Seq(Messages) : r = p \o c
    BY <1>1, <1>4, PublishingAdds
  <1>6. PublishAll(r, StateTopics, v) = KeepNewest(r \o n)
    BY DEF PublishAll, New
  <1> HIDE DEF c, n, r
  <1>7. r \o n = p \o (c \o n)
    <2>1. (p \o c) \o n = p \o (c \o n)
      <3>1. c \in Seq(Messages) /\ n \in Seq(Messages)
        BY <1>2, <1>3
      <3> QED
        BY <3>1, ConcatAssociative
    <2> QED
      BY <1>5, <2>1
  <1>8. /\ c \o n \in Seq(Messages) /\ Len(c \o n) <= OutgoingDepth
        /\ ToSet(c) \subseteq ToSet(c \o n)
    BY <1>1, <1>2, <1>3, ConcatProperties, ElementsOfConcat, DepthAssumption
  <1> DEFINE b == c \o n
  <1>9. b \in Seq(Messages) /\ Len(b) <= OutgoingDepth
    BY <1>8
  <1> HIDE DEF b
  <1>10. PICK u \in Seq(Messages) : KeepNewest(p \o b) = u \o b
    <2>1. /\ KeepNewest(p \o b) \in Seq(Messages)
          /\ Len(KeepNewest(p \o b)) <= OutgoingDepth
          /\ \E u \in Seq(Messages) : p \o b = u \o KeepNewest(p \o b)
          /\ \E u \in Seq(Messages) : KeepNewest(p \o b) = u \o b
          /\ Len(p) + Len(b) <= OutgoingDepth => KeepNewest(p \o b) = p \o b
      BY <1>9, KeepNewestKeeps
    <2> QED
      BY <2>1
  <1>11. ToSet(u \o b) = ToSet(u) \cup ToSet(b)
    BY <1>9, ElementsOfConcat
  <1>12. ToSet(c) \subseteq ToSet(PublishAll(r, StateTopics, v))
    BY <1>6, <1>7, <1>8, <1>10, <1>11 DEF b
  <1> QED
    BY <1>2, <1>12 DEF r

\* Steps that do not touch what is on its way.
LEMMA InOrderFrame ==
    ASSUME InOrder, UNCHANGED <<version, outgoing, wire, retained>>,
           Held' = Held
    PROVE  InOrder'
  BY DEF InOrder, Carried

\* What is on its way, packet by packet.
LEMMA CarriedPackets ==
    ASSUME Types
    PROVE  /\ ToSet(wire) \subseteq Packets /\ ToSet(Held) \subseteq Packets
           /\ ToSet(outgoing) \subseteq Messages
           /\ Held \in Seq(Packets) /\ outgoing \in Seq(Packets)
           /\ Carried \subseteq Packets
           /\ \A m \in Packets : IsMessage(m) <=> m \in Messages
  <1>1. Held \in Seq(Packets)
    BY InHand DEF Held
  <1>2. Messages \subseteq Packets
    BY DEF Packets
  <1>3. outgoing \in Seq(Packets)
    BY <1>2 DEF Types
  <1>4. \A m \in Packets : IsMessage(m) <=> m \in Messages
    BY PacketKinds DEF Packets
  <1>5. /\ ToSet(wire) \subseteq Packets /\ ToSet(Held) \subseteq Packets
        /\ ToSet(outgoing) \subseteq Messages
    BY <1>1, Elements DEF Types
  <1> QED
    BY <1>1, <1>2, <1>3, <1>4, <1>5 DEF Carried

\* What is queued now is the newest of all that is on its way.
LEMMA QueuedIsNewest ==
    ASSUME Types, InOrder, NEW v \in 1..MaxVersion, version <= v,
           UNCHANGED <<wire, retained>>, Held' = Held, version' = v,
           Sorted(outgoing', Earlier),
           NEW T, T \subseteq States \cup Configs,
           ToSet(outgoing') \subseteq ToSet(outgoing) \cup {Message(t, v) : t \in T}
    PROVE  InOrder'
  <1> DEFINE N == {Message(t, v) : t \in T}
  <1>1. \A m \in N : m \in Messages /\ m.version = v /\ m.topic \in T
    BY PacketKinds DEF Message
  <1>2. version \in Nat /\ v \in Nat /\ retained \in [States \cup Configs -> Nat]
    BY DEF Types, TypeOK
  <1>3. \A m \in Messages : m.version \in Nat /\ m.topic \in States \cup Configs
    BY DEF Messages
  <1> HIDE DEF N
  <1>4. ASSUME NEW m \in Carried, NEW l \in N PROVE <<m, l>> \in Earlier
    <2>1. m \in Packets /\ l \in Packets /\ (IsMessage(m) => m \in Messages)
      BY <1>1, CarriedPackets DEF Packets
    <2>2. IsMessage(m) => m.version <= version
      BY DEF InOrder
    <2>3. IsMessage(m) => m.version <= l.version
      BY <1>1, <1>2, <1>3, <2>1, <2>2
    <2> QED
      BY <2>1, <2>3 DEF Earlier
  <1>5. /\ Below(ToSet(wire), ToSet(outgoing'), Earlier)
        /\ Below(ToSet(Held), ToSet(outgoing'), Earlier)
    BY <1>4 DEF InOrder, Below, Carried, N
  <1>6. ASSUME NEW m \in Carried', IsMessage(m)
        PROVE  m.version <= version' /\ retained'[m.topic] <= m.version
    <2>1. CASE m \in Carried
      <3>1. m \in Messages
        BY <1>6, <2>1, CarriedPackets
      <3>2. m.version <= version /\ retained[m.topic] <= m.version
        BY <1>6, <2>1 DEF InOrder
      <3> QED
        BY <1>2, <1>3, <3>1, <3>2
    <2>2. CASE m \in N
      <3>1. retained[m.topic] <= version /\ retained[m.topic] \in Nat
        BY <1>1, <1>2, <2>2 DEF InOrder
      <3> QED
        BY <1>1, <1>2, <2>2, <3>1
    <2> QED
      BY <2>1, <2>2 DEF Carried, N
  <1>7. \A t \in States \cup Configs : retained'[t] <= version'
    BY <1>2 DEF InOrder
  <1> QED
    BY <1>5, <1>6, <1>7 DEF InOrder

\* Every step keeps what is on its way in order.
LEMMA InOrderStep ==
    ASSUME Types, InOrder, [Next]_vars
    PROVE  InOrder'
  <1> DEFINE empty == ToSet(<<>>) = {} /\ Sorted(<<>>, Earlier)
  <1>1. empty
    BY ElementsOfOne, SortedOne
  <1>2. \A m \in ToSet(outgoing) : m.version <= version
    BY CarriedPackets DEF InOrder, Carried, Packets
  <1>3. CASE GatePublishes
    <2>1. StateTopics \in Seq(States) /\ Len(StateTopics) <= OutgoingDepth
      BY TopicsAssumption, DepthAssumption, LenProperties DEF States
    <2>2. version' \in 1..MaxVersion /\ version <= version' /\ version \in Nat
      BY <1>3, DepthAssumption DEF GatePublishes, Types, TypeOK
    <2>3. \A m \in ToSet(outgoing) : m.version <= version'
      <3>1. \A m \in ToSet(outgoing) : m.version \in Nat
        BY CarriedPackets DEF Messages
      <3> QED
        BY <1>2, <2>2, <3>1
    <2>4. /\ Sorted(outgoing', Earlier)
          /\ ToSet(outgoing') \subseteq
               ToSet(outgoing) \cup {Message(t, version') : t \in States}
      BY <1>3, <2>1, <2>2, <2>3, PublishingInOrder
      DEF GatePublishes, InOrder, Types, States
    <2>5. UNCHANGED <<wire, retained>> /\ Held' = Held
      BY <1>3 DEF GatePublishes, broker, connection, Held
    <2> QED
      BY <2>2, <2>4, <2>5, QueuedIsNewest
  <1>4. CASE Republish
    <2> DEFINE q == PublishAll(outgoing, ConfigTopics, version)
    <2>1. /\ StateTopics \in Seq(States) /\ Len(StateTopics) <= OutgoingDepth
          /\ ConfigTopics \in Seq(Configs) /\ Len(ConfigTopics) <= OutgoingDepth
      BY TopicsAssumption, DepthAssumption, LenProperties DEF States, Configs
    <2>2. version' = version /\ version \in 1..MaxVersion /\ version <= version
      BY <1>4 DEF Republish, Types, TypeOK
    <2>3. /\ q \in Seq(Messages) /\ Sorted(q, Earlier)
          /\ ToSet(q) \subseteq
               ToSet(outgoing) \cup {Message(t, version) : t \in Configs}
      BY <1>2, <2>1, <2>2, PublishingInOrder DEF InOrder, Types, Configs
    <2> HIDE DEF q
    <2>4. \A m \in ToSet(q) : m.version <= version
      <3>1. \A t : Message(t, version).version = version
        BY DEF Message
      <3> QED
        BY <1>2, <2>2, <2>3, <3>1
    <2>5. outgoing' = PublishAll(q, StateTopics, version)
      BY <1>4 DEF Republish, q
    <2>6. /\ Sorted(outgoing', Earlier)
          /\ ToSet(outgoing') \subseteq
               ToSet(q) \cup {Message(t, version) : t \in States}
      BY <2>1, <2>2, <2>3, <2>4, <2>5, PublishingInOrder DEF States
    <2>7. ToSet(outgoing') \subseteq
            ToSet(outgoing) \cup {Message(t, version) : t \in States \cup Configs}
      BY <2>3, <2>6
    <2>8. UNCHANGED <<wire, retained>> /\ Held' = Held
      BY <1>4 DEF Republish, broker, connection, Held
    <2> QED
      BY <2>2, <2>6, <2>7, <2>8, QueuedIsNewest
  <1>5. CASE Connect
    <2>1. Held = <<>> /\ Held' = <<>>
      BY <1>5 DEF Connect, Held
    <2>2. wire' = <<>> /\ UNCHANGED <<version, outgoing, retained>>
      BY <1>5 DEF Connect, publishing
    <2> QED
      BY <1>1, <2>1, <2>2 DEF InOrder, Carried, Below
  <1>6. CASE Resubscribe
    <2> DEFINE m == Subscribe(Head(todo))
    <2>1. m \in Packets /\ ~IsMessage(m)
      <3>1. Head(todo) \in Commands
        BY <1>6, ElementsOfTail DEF Resubscribe, Types
      <3> QED
        BY <3>1, PacketKinds DEF Packets
    <2>2. wire' = Append(wire, m) /\ UNCHANGED <<version, outgoing, retained>>
      BY <1>6 DEF Resubscribe, publishing
    <2>3. Held = <<>> /\ Held' = <<>>
      BY <1>6 DEF Resubscribe, Held
    <2> HIDE DEF m
    <2>4. /\ wire' = wire \o <<m>> /\ ToSet(wire') = ToSet(wire) \cup {m}
          /\ <<m>> \in Seq(Packets) /\ ToSet(<<m>>) = {m} /\ Sorted(<<m>>, Earlier)
      BY <2>1, <2>2, ElementsOfAppend, ElementsOfOne, SortedOne DEF Types
    <2>5. \A l \in Packets : <<l, m>> \in Earlier /\ <<m, l>> \in Earlier
      BY <2>1 DEF Earlier
    <2>6. Sorted(wire', Earlier)
      <3>1. Below(ToSet(wire), ToSet(<<m>>), Earlier)
        BY <2>4, <2>5, CarriedPackets DEF Below
      <3>2. wire \in Seq(Packets) /\ Sorted(wire, Earlier)
        BY DEF InOrder, Types
      <3> QED
        BY <2>4, <3>1, <3>2, SortedConcat
    <2>7. ToSet(outgoing) \subseteq Packets
      BY CarriedPackets DEF Packets
    <2> QED
      BY <1>1, <2>1, <2>2, <2>3, <2>4, <2>5, <2>6, <2>7
      DEF InOrder, Carried, Below
  <1>7. CASE GoOnline
    <2>1. Held = <<>> /\ Held' = <<>>
      BY <1>7 DEF GoOnline, Held
    <2>2. outgoing' = <<>> /\ UNCHANGED <<version, wire, retained>>
      BY <1>7 DEF GoOnline, broker
    <2> QED
      BY <1>1, <2>1, <2>2 DEF InOrder, Carried, Below
  <1>8. CASE TakeOutgoing
    <2> DEFINE h == Head(outgoing)
    <2>1. hand' = <<h>> /\ outgoing' = Tail(outgoing)
      BY <1>8, RemoveOldest DEF TakeOutgoing, Types
    <2>2. /\ h \in Messages /\ Tail(outgoing) \in Seq(Messages)
          /\ outgoing = <<h>> \o Tail(outgoing)
          /\ ToSet(outgoing) = {h} \cup ToSet(Tail(outgoing))
      BY <1>8, ElementsOfTail DEF TakeOutgoing, Types
    <2>3. UNCHANGED <<version, wire, retained>>
      BY <1>8 DEF TakeOutgoing, broker
    <2>4. Held = <<>> /\ Held' = <<h>>
      BY <1>8, <2>1 DEF TakeOutgoing, Held
    <2> HIDE DEF h
    <2>5. <<h>> \in Seq(Messages) /\ ToSet(<<h>>) = {h}
      BY <2>2, ElementsOfOne
    <2>6. Sorted(outgoing', Earlier) /\ Below({h}, ToSet(outgoing'), Earlier)
      <3>1. Sorted(<<h>> \o Tail(outgoing), Earlier)
        BY <2>2 DEF InOrder
      <3> QED
        BY <2>1, <2>2, <2>5, <3>1, SortedConcat
    <2> QED
      BY <1>1, <2>1, <2>2, <2>3, <2>4, <2>5, <2>6 DEF InOrder, Carried, Below
  <1>9. CASE TakeSubscription
    <2> DEFINE m == Subscribe(Head(sub_queue))
    <2>1. m \in Packets /\ ~IsMessage(m)
      <3>1. Head(sub_queue) \in Commands
        BY <1>9, ElementsOfTail DEF TakeSubscription, Types
      <3> QED
        BY <3>1, PacketKinds DEF Packets
    <2>2. Held = <<>> /\ Held' = <<m>> /\ ToSet(<<m>>) = {m}
      BY <1>9, ElementsOfOne DEF TakeSubscription, Held
    <2>3. outgoing = <<>> /\ UNCHANGED <<version, outgoing, wire, retained>>
      BY <1>9 DEF TakeSubscription, publishing, broker
    <2> HIDE DEF m
    <2>4. \A l \in Packets : <<l, m>> \in Earlier
      BY <2>1 DEF Earlier
    <2>5. ToSet(wire) \subseteq Packets
      BY CarriedPackets
    <2> QED
      BY <1>1, <2>1, <2>2, <2>3, <2>4, <2>5 DEF InOrder, Carried, Below
  <1>10. CASE Sent
    <2>1. hand \in Seq(Packets) /\ Sorted(hand, Earlier)
      BY <1>10, InHand DEF Sent
    <2>2. wire' = wire \o hand /\ UNCHANGED <<version, outgoing, retained>>
      BY <1>10 DEF Sent, publishing
    <2>3. Held = hand /\ Held' = <<>>
      BY <1>10 DEF Sent, Held
    <2>4. ToSet(wire') = ToSet(wire) \cup ToSet(hand)
      BY <2>1, <2>2, ElementsOfConcat DEF Types
    <2>5. Sorted(wire', Earlier)
      BY <2>1, <2>2, <2>3, SortedConcat DEF InOrder, Types
    <2> QED
      BY <1>1, <2>2, <2>3, <2>4, <2>5 DEF InOrder, Carried, Below
  <1>11. CASE Break
    <2>1. Held' = <<>> /\ UNCHANGED <<version, outgoing, wire, retained>>
      BY <1>11 DEF Break, publishing, broker, Held
    <2> QED
      BY <1>1, <2>1 DEF InOrder, Carried, Below
  <1>12. CASE BrokerReceives
    <2> DEFINE m == Head(wire)
    <2>1. /\ m \in Packets /\ Tail(wire) \in Seq(Packets)
          /\ wire = <<m>> \o Tail(wire)
          /\ ToSet(wire) = {m} \cup ToSet(Tail(wire))
      BY <1>12, ElementsOfTail DEF BrokerReceives, Types
    <2>2. wire' = Tail(wire) /\ UNCHANGED <<version, outgoing>> /\ Held' = Held
      BY <1>12 DEF BrokerReceives, publishing, connection, Held
    <2>3. IF IsMessage(m)
          THEN retained' = [retained EXCEPT ![m.topic] = m.version]
          ELSE retained' = retained
      BY <1>12 DEF BrokerReceives
    <2> HIDE DEF m
    <2>4. Sorted(wire', Earlier) /\ Below({m}, ToSet(wire'), Earlier)
      <3>1. <<m>> \in Seq(Packets) /\ ToSet(<<m>>) = {m}
        BY <2>1, ElementsOfOne
      <3>2. Sorted(<<m>> \o Tail(wire), Earlier)
        BY <2>1 DEF InOrder
      <3> QED
        BY <2>1, <2>2, <3>1, <3>2, SortedConcat
    <2>5. Carried' \subseteq Carried /\ m \in Carried
      BY <2>1, <2>2 DEF Carried
    <2>6. \A l \in Carried' : <<m, l>> \in Earlier
      BY <2>1, <2>2, <2>4 DEF Carried, InOrder, Below
    <2>7. CASE IsMessage(m)
      <3>1. m \in Messages
        BY <2>1, <2>7, PacketKinds DEF Packets
      <3>2. m.topic \in States \cup Configs /\ m.version <= version
        BY <2>5, <2>7, <3>1 DEF Messages, InOrder
      <3>3. /\ retained'[m.topic] = m.version
            /\ \A t \in States \cup Configs :
                 t # m.topic => retained'[t] = retained[t]
        BY <2>3, <2>7, <3>2 DEF Types, TypeOK
      <3>4. ASSUME NEW l \in Carried', IsMessage(l)
            PROVE  retained'[l.topic] <= l.version
        <4>1. l \in Messages /\ retained[l.topic] <= l.version
          BY <2>5, <3>4, CarriedPackets DEF InOrder
        <4>2. m.version <= l.version
          BY <2>6, <2>7, <3>4 DEF Earlier
        <4> QED
          BY <3>3, <4>1, <4>2 DEF Messages
      <3>5. \A t \in States \cup Configs : retained'[t] <= version'
        BY <2>2, <3>2, <3>3 DEF InOrder
      <3> QED
        BY <2>1, <2>2, <2>4, <2>5, <3>4, <3>5 DEF InOrder, Below
    <2>8. CASE ~IsMessage(m)
      BY <2>1, <2>2, <2>3, <2>4, <2>5, <2>8 DEF InOrder, Below
    <2> QED
      BY <2>7, <2>8
  <1>13. ASSUME \/ HandlerRegisters \/ HandlerQueues \/ HandlerExecutes
                \/ ReceiveCommand \/ HandOver
                \/ \E understood \in BOOLEAN : BrokerSends(understood)
                \/ Wifi \/ WifiDrops \/ UNCHANGED vars
         PROVE  InOrder'
    <2>1. UNCHANGED <<version, outgoing, wire, retained>>
      BY <1>13
      DEF HandlerRegisters, HandlerQueues, HandlerExecutes, ReceiveCommand,
          HandOver, BrokerSends, Wifi, WifiDrops, WifiJoins, WifiJoinFails,
          WifiRetries, WifiStep, vars, publishing, broker
    <2>2. Held' = Held
      BY <1>13
      DEF HandlerRegisters, HandlerQueues, HandlerExecutes, ReceiveCommand,
          HandOver, BrokerSends, Wifi, WifiDrops, WifiJoins, WifiJoinFails,
          WifiRetries, WifiStep, vars, connection, Held
    <2> QED
      BY <2>1, <2>2, InOrderFrame
  <1> QED
    BY <1>3, <1>4, <1>5, <1>6, <1>7, <1>8, <1>9, <1>10, <1>11, <1>12, <1>13
    DEF Next, Handler, Link

\* What is on its way is always in order.
LEMMA InOrderInvariance == Spec => []InOrder
  <1>1. Init => InOrder
    <2> SUFFICES ASSUME Init PROVE InOrder
      OBVIOUS
    <2>1. ToSet(<<>>) = {} /\ Sorted(<<>>, Earlier)
      BY ElementsOfOne, SortedOne
    <2>2. wire = <<>> /\ outgoing = <<>> /\ Held = <<>>
      BY DEF Init, Held
    <2>3. \A t \in States \cup Configs : retained[t] <= version
      BY DEF Init
    <2> QED
      BY <2>1, <2>2, <2>3 DEF InOrder, Carried, Below
  <1>2. Types /\ InOrder /\ [Next]_vars => InOrder'
    BY InOrderStep
  <1> QED
    BY <1>1, <1>2, TypesInvariance, PTL DEF Spec

\* Across reconnects, overflows and republishing: what the broker shows of a
\* topic never goes back to an older state.
THEOREM BrokerNeverGoesBack == Spec => RetainedNeverGoesBack
  <1>1. ASSUME Types, InOrder, [Next]_vars
        PROVE  [\A t \in States \cup Configs : retained'[t] >= retained[t]]_vars
    <2> SUFFICES ASSUME Next, NEW t \in States \cup Configs
                 PROVE  retained'[t] >= retained[t]
      BY <1>1
    <2>1. retained \in [States \cup Configs -> Nat]
      BY <1>1 DEF Types, TypeOK
    <2>2. CASE BrokerReceives
      <3> DEFINE m == Head(wire)
      <3>1. m \in Packets /\ m \in Carried
        <4>1. wire \in Seq(Packets) /\ wire # <<>>
          BY <1>1, <2>2 DEF BrokerReceives, Types
        <4>2. m \in Packets /\ m \in ToSet(wire)
          BY <4>1, ElementsOfTail
        <4> QED
          BY <4>2 DEF Carried
      <3>2. IF IsMessage(m)
            THEN retained' = [retained EXCEPT ![m.topic] = m.version]
            ELSE retained' = retained
        BY <2>2 DEF BrokerReceives
      <3> HIDE DEF m
      <3>3. CASE IsMessage(m)
        <4>1. m.version \in Nat /\ retained[m.topic] <= m.version
          BY <1>1, <3>1, <3>3, CarriedPackets DEF InOrder, Messages
        <4> QED
          BY <2>1, <3>2, <3>3, <4>1
      <3>4. CASE ~IsMessage(m)
        BY <2>1, <3>2, <3>4
      <3> QED
        BY <3>3, <3>4
    <2>3. CASE ~BrokerReceives
      <3>1. retained' = retained
        BY <2>3
        DEF Next, Handler, Link, GatePublishes, Republish, HandlerRegisters,
            HandlerQueues, HandlerExecutes, Connect, Resubscribe, GoOnline,
            ReceiveCommand, HandOver, TakeOutgoing, TakeSubscription, Sent,
            Break, BrokerSends, Wifi, WifiDrops, WifiJoins, WifiJoinFails,
            WifiRetries, WifiStep, broker
      <3> QED
        BY <2>1, <3>1
    <2> QED
      BY <2>2, <2>3
  <1> QED
    BY <1>1, TypesInvariance, InOrderInvariance, PTL
    DEF Spec, RetainedNeverGoesBack

-----------------------------------------------------------------------------
(* Nothing is missing.                                                     *)

\* The connection is up, and the discovery task has had its turn.
Republished ==
    link \in {"polling", "handing_over", "sending"} /\ ~connected

\* Then the newest state of each state topic, and the last republished config
\* of each config topic, has arrived or is on its way.
Complete ==
    Republished =>
        /\ \A t \in States :
              retained[t] = version \/ Message(t, version) \in Carried
        /\ \A t \in Configs :
              \/ retained[t] >= republished
              \/ \E m \in Carried : /\ m \in Messages /\ m.topic = t
                                    /\ m.version >= republished

\* Steps that pass packets on without losing one.
LEMMA CompleteFrame ==
    ASSUME Complete, UNCHANGED <<version, republished, retained>>,
           Republished' => Republished, Carried \subseteq Carried'
    PROVE  Complete'
  BY DEF Complete

\* No step loses what the broker still has to get.
LEMMA CompleteStep ==
    ASSUME Types, InOrder, Complete, [Next]_vars
    PROVE  Complete'
  <1>1. version \in 1..MaxVersion /\ retained \in [States \cup Configs -> Nat]
    BY DEF Types, TypeOK
  <1>2. republished \in Nat
    BY DEF Types, TypeOK
  <1>3. ToSet(<<>>) = {}
    BY ElementsOfOne
  <1>4. CASE GatePublishes
    <2>1. StateTopics \in Seq(States) /\ Len(StateTopics) <= OutgoingDepth
      BY TopicsAssumption, DepthAssumption, LenProperties DEF States
    <2>2. version' \in 1..MaxVersion /\ version <= version'
      BY <1>1, <1>4, DepthAssumption DEF GatePublishes
    <2>3. \A m \in ToSet(outgoing) : m.version <= version'
      <3>1. \A m \in ToSet(outgoing) : m.version \in Nat /\ m.version <= version
        BY CarriedPackets DEF Messages, InOrder, Carried, Packets
      <3> QED
        BY <1>1, <2>2, <3>1
    <2>4. /\ {Message(t, version') : t \in States} \subseteq ToSet(outgoing')
          /\ Len(outgoing) + Len(StateTopics) <= OutgoingDepth =>
               ToSet(outgoing) \subseteq ToSet(outgoing')
      BY <1>4, <2>1, <2>2, <2>3, PublishingInOrder
      DEF GatePublishes, InOrder, Types, States
    <2>5. UNCHANGED <<wire, retained>> /\ Held' = Held /\ Republished' = Republished
      BY <1>4 DEF GatePublishes, broker, connection, Held, Republished
    <2>6. \A t \in States : Message(t, version') \in Carried'
      BY <2>4 DEF Carried
    <2>7. CASE Len(outgoing) + Len(StateTopics) <= OutgoingDepth
      <3>1. republished' = republished
        BY <1>4, <2>1, <2>7, DepthAssumption, LenProperties
        DEF GatePublishes, Types
      <3>2. Carried \subseteq Carried'
        BY <2>4, <2>5, <2>7 DEF Carried
      <3> QED
        BY <2>5, <2>6, <3>1, <3>2 DEF Complete
    <2>8. CASE Len(outgoing) + Len(StateTopics) > OutgoingDepth
      <3>1. republished' = 0
        BY <1>4, <2>8 DEF GatePublishes
      <3>2. \A t \in Configs : retained'[t] >= republished'
        BY <1>1, <2>5, <3>1
      <3> QED
        BY <2>6, <3>2 DEF Complete
    <2>9. Len(outgoing) \in Nat /\ Len(StateTopics) \in Nat /\ OutgoingDepth \in Nat
      BY <2>1, DepthAssumption, LenProperties DEF Types
    <2> QED
      BY <2>7, <2>8, <2>9
  <1>5. CASE Republish
    <2> DEFINE q == PublishAll(outgoing, ConfigTopics, version)
    <2>1. /\ StateTopics \in Seq(States) /\ Len(StateTopics) <= OutgoingDepth
          /\ ConfigTopics \in Seq(Configs) /\ Len(ConfigTopics) <= OutgoingDepth
      BY TopicsAssumption, DepthAssumption, LenProperties DEF States, Configs
    <2>2. q \in Seq(Messages)
      BY <1>1, <2>1, PublishingAdds DEF Types
    <2>3. outgoing' = PublishAll(q, StateTopics, version)
      BY <1>5 DEF Republish
    <2>4. {Message(t, version) : t \in Configs} \subseteq ToSet(outgoing')
      BY <1>1, <2>3, RepublishFits DEF Types
    <2> HIDE DEF q
    <2>5. {Message(t, version) : t \in States} \subseteq ToSet(outgoing')
      <3> DEFINE n == New(StateTopics, version)
      <3>1. n \in Seq(Messages) /\ ToSet(n) = {Message(t, version) : t \in States}
        BY <1>1, <2>1, NewMessages DEF States
      <3>2. PICK p \in Seq(Messages) : outgoing' = p \o n
        BY <1>1, <2>1, <2>2, <2>3, PublishingAdds
      <3> HIDE DEF n
      <3> QED
        BY <3>1, <3>2, ElementsOfConcat
    <2>6. version' = version /\ republished' = version
      BY <1>5 DEF Republish
    <2>7. \A t \in States : Message(t, version') \in Carried'
      BY <2>5, <2>6 DEF Carried
    <2>8. ASSUME NEW t \in Configs
          PROVE  \E m \in Carried' : /\ m \in Messages /\ m.topic = t
                                     /\ m.version >= republished'
      <3> DEFINE m == Message(t, version)
      <3>1. m \in Carried' /\ m \in Messages
        BY <1>1, <2>4, PacketKinds DEF Carried
      <3>2. m.topic = t /\ m.version >= republished'
        BY <1>1, <2>6 DEF Message
      <3> QED
        BY <3>1, <3>2
    <2> QED
      BY <2>7, <2>8 DEF Complete
  <1>6. CASE BrokerReceives
    <2> DEFINE m == Head(wire)
    <2>1. m \in Packets /\ ToSet(wire) = {m} \cup ToSet(wire')
      BY <1>6, ElementsOfTail DEF BrokerReceives, Types
    <2>2. /\ UNCHANGED <<version, outgoing, republished>> /\ Held' = Held
          /\ Republished' = Republished
      BY <1>6 DEF BrokerReceives, publishing, connection, Held, Republished
    <2>3. IF IsMessage(m)
          THEN retained' = [retained EXCEPT ![m.topic] = m.version]
          ELSE retained' = retained
      BY <1>6 DEF BrokerReceives
    <2> HIDE DEF m
    <2>4. Carried = {m} \cup Carried'
      BY <2>1, <2>2 DEF Carried
    <2>5. CASE ~IsMessage(m)
      <3>1. m \notin Messages
        BY <2>5, PacketKinds
      <3>2. \A t \in States : Message(t, version) \in Messages
        BY <1>1, PacketKinds
      <3> QED
        BY <2>2, <2>3, <2>4, <2>5, <3>1, <3>2 DEF Complete
    <2>6. CASE IsMessage(m)
      <3>1. m \in Messages /\ m.topic \in States \cup Configs /\ m.version \in Nat
        BY <2>1, <2>6, PacketKinds DEF Packets, Messages
      <3>2. m.version <= version /\ retained[m.topic] <= m.version
        BY <2>4, <2>6 DEF InOrder
      <3>3. /\ retained'[m.topic] = m.version
            /\ \A t \in States \cup Configs :
                 t # m.topic => retained'[t] = retained[t]
        BY <1>1, <2>3, <2>6, <3>1
      <3>4. ASSUME Republished, NEW t \in States
            PROVE  retained'[t] = version' \/ Message(t, version') \in Carried'
        <4>1. CASE retained[t] = version
          BY <1>1, <2>2, <3>1, <3>2, <3>3, <4>1
        <4>2. CASE Message(t, version) \in Carried'
          BY <2>2, <4>2
        <4>3. CASE Message(t, version) = m
          <5>1. m.topic = t /\ m.version = version
            BY <4>3 DEF Message
          <5> QED
            BY <2>2, <3>3, <5>1
        <4> QED
          BY <2>4, <3>4, <4>1, <4>2, <4>3 DEF Complete
      <3>5. ASSUME Republished, NEW t \in Configs
            PROVE  \/ retained'[t] >= republished'
                   \/ \E l \in Carried' : /\ l \in Messages /\ l.topic = t
                                          /\ l.version >= republished'
        <4>1. CASE retained[t] >= republished
          BY <1>1, <1>2, <2>2, <3>1, <3>2, <3>3, <4>1
        <4>2. CASE \E l \in Carried : /\ l \in Messages /\ l.topic = t
                                      /\ l.version >= republished
          <5>1. PICK l \in Carried : /\ l \in Messages /\ l.topic = t
                                     /\ l.version >= republished
            BY <4>2
          <5>2. CASE l = m
            BY <2>2, <3>3, <5>1, <5>2
          <5>3. CASE l \in Carried'
            BY <2>2, <5>1, <5>3
          <5> QED
            BY <2>4, <5>2, <5>3
        <4> QED
          BY <3>5, <4>1, <4>2 DEF Complete
      <3> QED
        BY <2>2, <3>4, <3>5 DEF Complete
    <2> QED
      BY <2>5, <2>6
  <1>7. CASE Connect \/ Resubscribe \/ Break \/ GoOnline
    <2>1. ~Republished'
      BY <1>7 DEF Connect, Resubscribe, Break, GoOnline, Republished
    <2> QED
      BY <2>1 DEF Complete
  <1>8. CASE TakeOutgoing
    <2>1. hand' = <<Head(outgoing)>> /\ outgoing' = Tail(outgoing)
      BY <1>8, RemoveOldest DEF TakeOutgoing, Types
    <2>2. ToSet(outgoing) = {Head(outgoing)} \cup ToSet(Tail(outgoing))
      BY <1>8, ElementsOfTail DEF TakeOutgoing, Types
    <2>3. Held = <<>> /\ ToSet(Held') = {Head(outgoing)}
      BY <1>8, <2>1, ElementsOfOne DEF TakeOutgoing, Held
    <2>4. /\ UNCHANGED <<version, republished, wire, retained>>
          /\ Republished' => Republished
      BY <1>8 DEF TakeOutgoing, broker, Republished
    <2>5. Carried \subseteq Carried'
      BY <1>3, <2>1, <2>2, <2>3, <2>4 DEF Carried
    <2> QED
      BY <2>4, <2>5, CompleteFrame
  <1>9. CASE Sent
    <2>1. hand \in Seq(Packets) /\ Held = hand
      BY <1>9, InHand DEF Sent, Held
    <2>2. ToSet(wire') = ToSet(wire) \cup ToSet(Held)
      BY <1>9, <2>1, ElementsOfConcat DEF Sent, Types
    <2>3. /\ UNCHANGED <<version, republished, outgoing, retained>>
          /\ Republished' => Republished
      BY <1>9 DEF Sent, publishing, Republished
    <2>4. Carried \subseteq Carried'
      BY <2>2, <2>3 DEF Carried
    <2> QED
      BY <2>3, <2>4, CompleteFrame
  <1>10. ASSUME \/ HandlerRegisters \/ HandlerQueues \/ HandlerExecutes
                \/ ReceiveCommand \/ HandOver \/ TakeSubscription
                \/ \E understood \in BOOLEAN : BrokerSends(understood)
                \/ Wifi \/ WifiDrops \/ UNCHANGED vars
         PROVE  Complete'
    <2>1. UNCHANGED <<version, republished, outgoing, wire, retained>>
      BY <1>10
      DEF HandlerRegisters, HandlerQueues, HandlerExecutes, ReceiveCommand,
          HandOver, TakeSubscription, BrokerSends, Wifi, WifiDrops, WifiJoins,
          WifiJoinFails, WifiRetries, WifiStep, vars, publishing, broker
    <2>2. Held' = Held \/ Held = <<>>
      BY <1>10
      DEF HandlerRegisters, HandlerQueues, HandlerExecutes, ReceiveCommand,
          HandOver, TakeSubscription, BrokerSends, Wifi, WifiDrops, WifiJoins,
          WifiJoinFails, WifiRetries, WifiStep, vars, connection, Held
    <2>3. Republished' => Republished
      BY <1>10
      DEF HandlerRegisters, HandlerQueues, HandlerExecutes, ReceiveCommand,
          HandOver, TakeSubscription, BrokerSends, Wifi, WifiDrops, WifiJoins,
          WifiJoinFails, WifiRetries, WifiStep, vars, publishing, connection,
          Republished
    <2>4. Carried \subseteq Carried'
      BY <1>3, <2>1, <2>2 DEF Carried
    <2> QED
      BY <2>1, <2>3, <2>4, CompleteFrame
  <1> QED
    BY <1>4, <1>5, <1>6, <1>7, <1>8, <1>9, <1>10 DEF Next, Handler, Link

\* Nothing is ever missing.
LEMMA CompleteInvariance == Spec => []Complete
  <1>1. Init => Complete
    BY DEF Init, Complete, Republished
  <1>2. Types /\ InOrder /\ Complete /\ [Next]_vars => Complete'
    BY CompleteStep
  <1> QED
    BY <1>1, <1>2, TypesInvariance, InOrderInvariance, PTL DEF Spec

\* The version of a topic the broker ends up with is the newest of all it
\* has or is about to get.
LEMMA NewestWins ==
    ASSUME Types, InOrder, NEW t \in States \cup Configs
    PROVE  /\ EventualVersion(t) \in Nat
           /\ retained[t] <= EventualVersion(t) /\ EventualVersion(t) <= version
           /\ \A m \in Carried : m \in Messages /\ m.topic = t =>
                m.version <= EventualVersion(t)
  <1>1. Pipeline = (wire \o Held) \o outgoing
    BY DEF Pipeline, Held
  <1>2. /\ wire \in Seq(Packets) /\ Held \in Seq(Packets)
        /\ outgoing \in Seq(Packets)
    BY CarriedPackets DEF Types
  <1>3. /\ wire \o Held \in Seq(Packets)
        /\ ToSet(wire \o Held) = ToSet(wire) \cup ToSet(Held)
    BY <1>2, ElementsOfConcat
  <1>4. Pipeline \in Seq(Packets) /\ ToSet(Pipeline) = Carried
    <2> DEFINE u == wire \o Held
    <2>1. u \in Seq(Packets)
      BY <1>3
    <2> HIDE DEF u
    <2>2. /\ u \o outgoing \in Seq(Packets)
          /\ ToSet(u \o outgoing) = ToSet(u) \cup ToSet(outgoing)
      BY <1>2, <2>1, ElementsOfConcat
    <2> QED
      BY <1>1, <1>3, <2>2 DEF u, Carried
  <1>5. Sorted(Held, Earlier)
    <2>1. CASE link = "sending"
      <3>1. PICK m \in Packets : Held = <<m>>
        BY <2>1 DEF Types, Held
      <3> QED
        BY <3>1, SortedOne
    <2>2. CASE link # "sending"
      BY <2>2, SortedOne DEF Held
    <2> QED
      BY <2>1, <2>2
  <1>6. Sorted(wire \o Held, Earlier)
    BY <1>2, <1>5, SortedConcat DEF InOrder
  <1>7. Sorted(Pipeline, Earlier)
    <2>1. Below(ToSet(wire \o Held), ToSet(outgoing), Earlier)
      BY <1>3 DEF InOrder, Below
    <2>2. Sorted(outgoing, Earlier)
      BY DEF InOrder
    <2> QED
      BY <1>1, <1>2, <1>3, <1>6, <2>1, <2>2, SortedConcat
  <1> DEFINE I == CarriedFor(t)
             k == Max(I)
             m == Pipeline[k]
  <1>8. /\ DOMAIN Pipeline = 1..Len(Pipeline) /\ Len(Pipeline) \in Nat
        /\ \A i \in 1..Len(Pipeline) : Pipeline[i] \in Carried
    BY <1>4, Elements, LenProperties
  <1>9. I = {i \in 1..Len(Pipeline) :
               IsMessage(Pipeline[i]) /\ Pipeline[i].topic = t}
    BY <1>8 DEF CarriedFor
  <1>10. ASSUME NEW l \in Carried, l \in Messages, l.topic = t
         PROVE  \E i \in I : Pipeline[i] = l
    <2>1. PICK i \in 1..Len(Pipeline) : Pipeline[i] = l
      BY <1>4, Elements
    <2>2. IsMessage(l)
      BY <1>10, PacketKinds
    <2> QED
      BY <1>9, <1>10, <2>1, <2>2
  <1>11. version \in Nat /\ retained \in [States \cup Configs -> Nat]
    BY DEF Types, TypeOK
  <1>12. CASE I = {}
    <2>1. EventualVersion(t) = retained[t]
      BY <1>12 DEF EventualVersion
    <2>2. \A l \in Carried : ~(l \in Messages /\ l.topic = t)
      BY <1>10, <1>12
    <2> QED
      BY <1>11, <2>1, <2>2 DEF InOrder
  <1>13. CASE I # {}
    <2>1. EventualVersion(t) = m.version
      BY <1>13 DEF EventualVersion
    <2>2. k \in I /\ \A i \in I : i <= k
      <3>1. I \subseteq 1..Len(Pipeline)
        BY <1>9
      <3> HIDE DEF I
      <3> QED
        BY <1>8, <1>13, <3>1, GreatestIndex
    <2>3. /\ k \in 1..Len(Pipeline) /\ m \in Carried /\ IsMessage(m)
          /\ m.topic = t
      BY <1>8, <1>9, <2>2
    <2> HIDE DEF I, k, m
    <2>4. m \in Messages /\ m.version \in Nat
      BY <2>3, CarriedPackets DEF Messages
    <2>5. m.version <= version /\ retained[t] <= m.version
      BY <2>3 DEF InOrder
    <2>6. ASSUME NEW l \in Carried, l \in Messages, l.topic = t
          PROVE  l.version <= m.version
      <3>1. PICK i \in I : Pipeline[i] = l
        BY <1>10, <2>6
      <3>2. i \in 1..Len(Pipeline) /\ i <= k
        BY <1>9, <2>2
      <3>3. CASE i = k
        BY <2>4, <3>1, <3>3 DEF m
      <3>4. CASE i < k
        <4>1. <<l, m>> \in Earlier
          BY <1>7, <2>3, <3>1, <3>2, <3>4 DEF Sorted, m
        <4>2. IsMessage(l) /\ IsMessage(m)
          BY <2>3, <2>6, PacketKinds
        <4> QED
          BY <4>1, <4>2 DEF Earlier
      <3> QED
        BY <1>8, <2>3, <3>2, <3>3, <3>4
    <2> QED
      BY <2>1, <2>4, <2>5, <2>6
  <1> QED
    BY <1>12, <1>13

\* However OUTGOING overflowed and wherever the connection was lost: once it
\* is up and the discovery task has republished, the broker ends up with the
\* newest state of every state topic.
THEOREM NewestStateArrives == Spec => []NewestStateOnItsWay
  <1>1. ASSUME Types, InOrder, Complete PROVE NewestStateOnItsWay
    <2> SUFFICES ASSUME Republished, NEW t \in States
                 PROVE  EventualVersion(t) = version
      BY DEF NewestStateOnItsWay, Republished
    <2>1. version \in 1..MaxVersion /\ version \in Nat
      BY <1>1 DEF Types, TypeOK
    <2>2. /\ EventualVersion(t) \in Nat
          /\ retained[t] <= EventualVersion(t) /\ EventualVersion(t) <= version
          /\ \A m \in Carried : m \in Messages /\ m.topic = t =>
               m.version <= EventualVersion(t)
      BY <1>1, NewestWins
    <2>3. CASE retained[t] = version
      BY <2>1, <2>2, <2>3
    <2>4. CASE Message(t, version) \in Carried
      <3>1. Message(t, version) \in Messages
        BY <2>1, PacketKinds
      <3>2. Message(t, version).topic = t /\ Message(t, version).version = version
        BY DEF Message
      <3> QED
        BY <2>1, <2>2, <2>4, <3>1, <3>2
    <2> QED
      BY <1>1, <2>3, <2>4 DEF Complete
  <1> QED
    BY <1>1, TypesInvariance, InOrderInvariance, CompleteInvariance, PTL

\* A republish fits into OUTGOING whatever else was queued: each config of
\* the last one arrives, unless a later overflow has dropped messages.
THEOREM ConfigsArrive == Spec => []ConfigsOnTheirWay
  <1>1. ASSUME Types, InOrder, Complete PROVE ConfigsOnTheirWay
    <2> SUFFICES ASSUME Republished, NEW t \in Configs
                 PROVE  EventualVersion(t) >= republished
      BY DEF ConfigsOnTheirWay, Republished
    <2>1. republished \in Nat /\ retained[t] \in Nat
      BY <1>1 DEF Types, TypeOK
    <2>2. /\ EventualVersion(t) \in Nat /\ retained[t] <= EventualVersion(t)
          /\ \A m \in Carried : m \in Messages /\ m.topic = t =>
               m.version <= EventualVersion(t)
      BY <1>1, NewestWins
    <2>3. CASE retained[t] >= republished
      BY <2>1, <2>2, <2>3
    <2>4. CASE \E m \in Carried : /\ m \in Messages /\ m.topic = t
                                  /\ m.version >= republished
      <3>1. PICK m \in Carried : /\ m \in Messages /\ m.topic = t
                                 /\ m.version >= republished
        BY <2>4
      <3>2. m.version \in Nat /\ m.version <= EventualVersion(t)
        BY <2>2, <3>1 DEF Messages
      <3> QED
        BY <2>1, <2>2, <3>1, <3>2
    <2> QED
      BY <1>1, <2>3, <2>4 DEF Complete
  <1> QED
    BY <1>1, TypesInvariance, InOrderInvariance, CompleteInvariance, PTL
=============================================================================
