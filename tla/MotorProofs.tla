---------------------------- MODULE MotorProofs -----------------------------
(***************************************************************************)
(* Facts about the leaf arithmetic of Motor, for every travel time, every  *)
(* resolution of the position and every overrun of at least one tick.      *)
(***************************************************************************)
EXTENDS Motor, TLAPS

-----------------------------------------------------------------------------
(* Integer division, stated once so that no other proof has to reason      *)
(* about it.                                                               *)

\* Dividing naturals by a positive natural gives a natural.
LEMMA DivIsNat ==
    ASSUME NEW a \in Nat, NEW b \in Nat \ {0}
    PROVE  a \div b \in Nat
  BY SMT

\* Rounding down loses less than one unit of the divisor.
LEMMA DivRemainder ==
    ASSUME NEW a \in Nat, NEW b \in Nat \ {0}
    PROVE  a < b * (a \div b) + b
  BY SMT

\* Rounding down never drops below a whole multiple that fits.
LEMMA DivAtLeast ==
    ASSUME NEW a \in Nat, NEW b \in Nat \ {0}, NEW c \in Nat, c * b <= a
    PROVE  a \div b >= c
  BY SMT

-----------------------------------------------------------------------------
(* Types of the operators.                                                 *)

\* The guard .max(1) makes the divisor of settle() positive.
LEMMA FullDurationType ==
    ASSUME NEW l \in Leaf, NEW d \in Direction
    PROVE  /\ FullDuration(l, d) \in Nat \ {0}
           /\ FullDuration(l, d) >= Duration[l][d]
           /\ Duration[l][d] \in Nat
  <1>1. Duration[l][d] \in Nat
    BY TimingAssumption
  <1> QED
    BY <1>1 DEF FullDuration, Greater

\* What is left to travel is a distance.
LEMMA RemainingType ==
    ASSUME NEW f, f.position \in 0..MaxPos, NEW d \in Direction
    PROVE  Remaining(f, d) \in 0..MaxPos
  BY MaxPosAssumption DEF Remaining, Direction

\* run_time is a duration.
LEMMA RunTimeType ==
    ASSUME NEW l \in Leaf, NEW d \in Direction,
           NEW f, f.position \in 0..MaxPos
    PROVE  RunTime(l, f, d) \in Nat
  <1> DEFINE work == Duration[l][d] * Remaining(f, d)
  <1>1. Duration[l][d] \in Nat /\ Remaining(f, d) \in Nat
    BY FullDurationType, RemainingType, MaxPosAssumption
  <1>2. work \in Nat
    BY <1>1
  <1>3. work \div MaxPos \in Nat
    BY <1>2, DivIsNat, MaxPosAssumption
  <1> QED
    BY <1>3, TimingAssumption DEF RunTime

\* `travelled` is a distance, however long the relay was on.
LEMMA TravelledType ==
    ASSUME NEW l \in Leaf, NEW d \in Direction, NEW r \in Nat
    PROVE  Travelled(l, r, d) \in 0..MaxPos
  <1>1. FullDuration(l, d) \in Nat \ {0}
    BY FullDurationType
  <1>2. r * MaxPos \in Nat
    BY MaxPosAssumption
  <1>3. (r * MaxPos) \div FullDuration(l, d) \in Nat
    BY <1>1, <1>2, DivIsNat
  <1> QED
    BY <1>3, MaxPosAssumption DEF Travelled, Lesser

\* The saturating arithmetic of settle() keeps an estimate in range.
LEMMA EstimateType ==
    ASSUME NEW l \in Leaf, NEW f \in LeafRecord
    PROVE  Estimate(l, f) \in 0..MaxPos
  <1>1. f.position \in 0..MaxPos /\ f.ran \in Nat
        /\ f.state \in {"opening", "closing", "idle"}
    BY DEF LeafRecord, Direction
  <1>2. CASE f.state = "opening"
    <2>1. Travelled(l, f.ran, "opening") \in 0..MaxPos
      BY <1>1, TravelledType DEF Direction
    <2> QED
      BY <1>1, <1>2, <2>1, MaxPosAssumption DEF Estimate, Lesser
  <1>3. CASE f.state = "closing"
    <2>1. Travelled(l, f.ran, "closing") \in 0..MaxPos
      BY <1>1, TravelledType DEF Direction
    <2> QED
      BY <1>1, <1>3, <2>1, MaxPosAssumption DEF Estimate, Greater
  <1>4. CASE f.state = "idle"
    BY <1>1, <1>4 DEF Estimate
  <1> QED
    BY <1>1, <1>2, <1>3, <1>4

-----------------------------------------------------------------------------
(* The overrun makes up for both roundings.                                *)

\* A relay that has been on for run_time - or for the full travel time, from
\* which on `travelled` saturates - has covered all that was left to travel,
\* although run_time and settle() both round down.
LEMMA RunTimeCoversRemaining ==
    ASSUME NEW l \in Leaf, NEW d \in Direction,
           NEW f, f.position \in 0..MaxPos,
           NEW r \in Nat,
           r >= RunTime(l, f, d) \/ r >= FullDuration(l, d)
    PROVE  Travelled(l, r, d) >= Remaining(f, d)
  <1> DEFINE full == FullDuration(l, d)
             rem == Remaining(f, d)
             D == Duration[l][d]
  <1>1. full \in Nat \ {0} /\ D \in Nat
    BY FullDurationType
  <1>2. rem \in 0..MaxPos
    BY RemainingType
  <1>3. MaxPos \in Nat \ {0}
    BY MaxPosAssumption
  <1>4. rem * full <= r * MaxPos
    <2>1. CASE r >= full
      <3>1. rem * full <= MaxPos * full
        BY <1>1, <1>2, <1>3
      <3>2. MaxPos * full <= r * MaxPos
        BY <1>1, <1>3, <2>1
      <3> HIDE DEF full, rem
      <3>3. rem * full \in Int /\ MaxPos * full \in Int /\ r * MaxPos \in Int
        BY <1>1, <1>2, <1>3
      <3> QED
        BY <3>1, <3>2, <3>3
    <2>2. CASE r >= RunTime(l, f, d)
      <3> DEFINE q == (D * rem) \div MaxPos
      <3>1. D * rem \in Nat
        BY <1>1, <1>2
      <3>2. q \in Nat /\ D * rem < MaxPos * q + MaxPos
        BY <1>3, <3>1, DivIsNat, DivRemainder
      <3>3. r >= q + 1
        BY <2>2, <3>2, OverrunAssumption, TimingAssumption DEF RunTime
      <3> HIDE DEF q, rem, full
      <3>4. r * MaxPos >= (q + 1) * MaxPos
        BY <1>3, <3>2, <3>3
      <3>5. (q + 1) * MaxPos = MaxPos * q + MaxPos
        BY <1>3, <3>2
      <3>6. D * rem < r * MaxPos
        BY <1>3, <3>1, <3>2, <3>4, <3>5
      <3>7. CASE D >= 1
        <4>1. full = D
          BY <1>1, <3>7 DEF full, FullDuration, Greater
        <4>2. rem * full = D * rem
          BY <1>1, <1>2, <4>1
        <4> QED
          BY <1>2, <1>3, <3>1, <3>6, <4>2
      <3>8. CASE D = 0
        <4>1. full = 1
          BY <3>8 DEF full, FullDuration, Greater
        <4>2. r * MaxPos >= MaxPos
          BY <1>3, <3>2, <3>3
        <4> QED
          BY <1>2, <1>3, <4>1, <4>2
      <3> QED
        BY <1>1, <3>7, <3>8
    <2> QED
      BY <2>1, <2>2
  <1>5. r * MaxPos \in Nat
    BY <1>3
  <1>6. (r * MaxPos) \div full >= rem
    BY <1>1, <1>2, <1>3, <1>4, <1>5, DivAtLeast
  <1>7. (r * MaxPos) \div full \in Nat
    BY <1>1, <1>5, DivIsNat
  <1> QED
    BY <1>2, <1>3, <1>6, <1>7 DEF Travelled, Lesser

\* A leaf that ran for run_time settles exactly at the end it was heading
\* for: 0 or MaxPos, never one short of it.
THEOREM CompletedRunArrives ==
    ASSUME NEW l \in Leaf, NEW f \in LeafRecord, NEW d \in Direction,
           f.state = d,
           f.ran >= RunTime(l, f, d) \/ f.ran >= FullDuration(l, d)
    PROVE  AtEnd(Settle(l, f), d)
  <1>1. f.position \in 0..MaxPos /\ f.ran \in Nat
    BY DEF LeafRecord
  <1>2. Travelled(l, f.ran, d) >= Remaining(f, d)
    BY <1>1, RunTimeCoversRemaining
  <1>3. Travelled(l, f.ran, d) \in 0..MaxPos
    BY <1>1, TravelledType
  <1>4. Settle(l, f).position = Estimate(l, f)
    BY DEF Settle, Direction, LeafRecord
  <1>5. CASE d = "opening"
    <2>1. Estimate(l, f) = MaxPos
      BY <1>1, <1>2, <1>3, <1>5, MaxPosAssumption
      DEF Estimate, Lesser, Remaining
    <2> QED
      BY <1>4, <1>5, <2>1, MaxPosAssumption DEF AtEnd, Remaining
  <1>6. CASE d = "closing"
    <2>1. Estimate(l, f) = 0
      BY <1>1, <1>2, <1>3, <1>6, MaxPosAssumption
      DEF Estimate, Greater, Remaining
    <2> QED
      BY <1>4, <1>6, <2>1 DEF AtEnd, Remaining
  <1> QED
    BY <1>5, <1>6 DEF Direction

-----------------------------------------------------------------------------
(* Comparing two leaves.                                                   *)

\* Rounding down never yields more than there is.
LEMMA DivAtMost ==
    ASSUME NEW a \in Nat, NEW b \in Nat \ {0}
    PROVE  (a \div b) * b <= a
  BY SMT

\* Division is monotone in both arguments.
LEMMA DivMonotone ==
    ASSUME NEW a \in Nat, NEW b \in Nat \ {0},
           NEW c \in Nat, NEW d \in Nat \ {0},
           c <= a, b <= d
    PROVE  c \div d <= a \div b
  <1> DEFINE q == c \div d
  <1>1. q \in Nat /\ q * d <= c
    BY DivIsNat, DivAtMost
  <1> HIDE DEF q
  <1>2. q * b <= q * d
    BY <1>1
  <1>3. q * b \in Nat /\ q * d \in Nat
    BY <1>1
  <1>4. q * b <= a
    BY <1>1, <1>2, <1>3
  <1>5. a \div b >= q
    BY <1>1, <1>4, DivAtLeast
  <1>6. a \div b \in Nat
    BY DivIsNat
  <1> QED
    BY <1>1, <1>5, <1>6 DEF q

\* A leaf that is not slower and has been on for no less time has covered no
\* less.
LEMMA TravelledMonotone ==
    ASSUME NEW l \in Leaf, NEW m \in Leaf, NEW d \in Direction,
           NEW r \in Nat, NEW s \in Nat,
           s <= r, Duration[l][d] <= Duration[m][d]
    PROVE  Travelled(m, s, d) <= Travelled(l, r, d)
  <1>1. FullDuration(l, d) \in Nat \ {0} /\ FullDuration(m, d) \in Nat \ {0}
        /\ Duration[l][d] \in Nat /\ Duration[m][d] \in Nat
    BY FullDurationType
  <1>2. FullDuration(l, d) <= FullDuration(m, d)
    BY <1>1 DEF FullDuration, Greater
  <1>3. r * MaxPos \in Nat /\ s * MaxPos \in Nat /\ s * MaxPos <= r * MaxPos
    BY MaxPosAssumption
  <1> DEFINE x == (s * MaxPos) \div FullDuration(m, d)
             y == (r * MaxPos) \div FullDuration(l, d)
  <1>4. x \in Nat /\ y \in Nat /\ x <= y
    BY <1>1, <1>2, <1>3, DivIsNat, DivMonotone
  <1>5. Travelled(m, s, d) = Lesser(x, MaxPos)
        /\ Travelled(l, r, d) = Lesser(y, MaxPos)
    BY DEF Travelled
  <1> HIDE DEF x, y
  <1> QED
    BY <1>4, <1>5, MaxPosAssumption DEF Lesser

\* After the full travel time everything has been covered.
LEMMA TravelledFull ==
    ASSUME NEW l \in Leaf, NEW d \in Direction, NEW r \in Nat,
           r >= FullDuration(l, d)
    PROVE  Travelled(l, r, d) = MaxPos
  <1>1. FullDuration(l, d) \in Nat \ {0}
    BY FullDurationType
  <1>2. MaxPos * FullDuration(l, d) <= r * MaxPos /\ r * MaxPos \in Nat
    BY <1>1, MaxPosAssumption
  <1>3. (r * MaxPos) \div FullDuration(l, d) >= MaxPos
    BY <1>1, <1>2, DivAtLeast, MaxPosAssumption
  <1>4. (r * MaxPos) \div FullDuration(l, d) \in Nat
    BY <1>1, <1>2, DivIsNat
  <1> QED
    BY <1>3, <1>4, MaxPosAssumption DEF Travelled, Lesser

\* What leaf l, in state f, would have left to travel towards d if it were
\* stopped now.
Left(l, f, d) == IF d = "opening" THEN MaxPos - Estimate(l, f) ELSE Estimate(l, f)

\* It is a distance; for a leaf at rest it is what remains, for one that runs
\* towards d what it has covered is off.
LEMMA LeftValue ==
    ASSUME NEW l \in Leaf, NEW f \in LeafRecord, NEW d \in Direction
    PROVE  /\ Left(l, f, d) \in 0..MaxPos
           /\ f.state = "idle" => Left(l, f, d) = Remaining(f, d)
           /\ f.state = d =>
                Left(l, f, d)
                  = Greater(Remaining(f, d) - Travelled(l, f.ran, d), 0)
  <1>1. Estimate(l, f) \in 0..MaxPos
    BY EstimateType
  <1>2. f.position \in 0..MaxPos /\ f.ran \in Nat
    BY DEF LeafRecord
  <1>3. Travelled(l, f.ran, d) \in 0..MaxPos
    BY <1>2, TravelledType
  <1>4. CASE d = "opening"
    <2>1. f.state = "idle" => Estimate(l, f) = f.position
      BY DEF Estimate
    <2>2. f.state = d =>
            Estimate(l, f) = Lesser(f.position + Travelled(l, f.ran, d), MaxPos)
      BY <1>4 DEF Estimate
    <2> QED
      BY <1>1, <1>2, <1>3, <1>4, <2>1, <2>2, MaxPosAssumption
      DEF Left, Remaining, Lesser, Greater
  <1>5. CASE d = "closing"
    <2>1. f.state = "idle" => Estimate(l, f) = f.position
      BY DEF Estimate
    <2>2. f.state = d =>
            Estimate(l, f) = Greater(f.position - Travelled(l, f.ran, d), 0)
      BY <1>5 DEF Estimate
    <2> QED
      BY <1>1, <1>2, <1>3, <1>5, <2>1, <2>2, MaxPosAssumption
      DEF Left, Remaining, Greater
  <1> QED
    BY <1>4, <1>5 DEF Direction

\* Stopping a leaf books what it would have left, no more and no less.
LEMMA SettleKeepsLeft ==
    ASSUME NEW l \in Leaf, NEW f \in LeafRecord, NEW d
    PROVE  Left(l, Settle(l, f), d) = Left(l, f, d)
  <1>1. CASE f.state = "idle"
    BY <1>1 DEF Settle
  <1>2. CASE f.state # "idle"
    <2> DEFINE e == Estimate(l, f)
    <2>1. Settle(l, f) = [f EXCEPT !.position = e, !.state = "idle",
                                   !.ran = 0, !.rest = ReversePause]
      BY <1>2 DEF Settle
    <2> HIDE DEF e
    <2>2. Settle(l, f).state = "idle" /\ Settle(l, f).position = e
      BY <2>1 DEF LeafRecord
    <2>3. Estimate(l, Settle(l, f)) = e
      BY <2>2 DEF Estimate
    <2> QED
      BY <2>3 DEF Left, e
  <1> QED
    BY <1>1, <1>2

\* In either direction, the first leaf having no more left than the second
\* means that leaf B is not further open than leaf A.
LEMMA LeftOrder ==
    ASSUME NEW a \in LeafRecord, NEW b \in LeafRecord, NEW d \in Direction
    PROVE  (Estimate("A", a) >= Estimate("B", b)) <=>
             IF d = "opening" THEN Left("A", a, d) <= Left("B", b, d)
             ELSE Left("B", b, d) <= Left("A", a, d)
  <1>1. Estimate("A", a) \in 0..MaxPos /\ Estimate("B", b) \in 0..MaxPos
    BY EstimateType DEF Leaf
  <1> QED
    BY <1>1, MaxPosAssumption DEF Left
=============================================================================
