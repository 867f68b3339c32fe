------------------------------- MODULE Motor -------------------------------
(***************************************************************************)
(* One gate leaf (gate-core/src/motor.rs): two relays, no position sensor. *)
(* The position is an estimate derived from how long a relay was           *)
(* energized.  The operators below are the methods of `Motor`; the module  *)
(* Gate applies them to the two leaves it owns.                            *)
(*                                                                         *)
(* Time is counted in ticks (the code computes in milliseconds).  The code *)
(* keeps absolute Instants and only ever compares one with now, or         *)
(* subtracts one from now, so a leaf keeps distances to now instead:       *)
(*   ran   how long ago the relay was energized (now - start), capped at   *)
(*         the full travel time, beyond which `travelled` saturates anyway *)
(*   rest  how far in the future ready_at is, 0 when it has passed         *)
(*   due   how far in the future the deadline of the leaf's Phase is, 0    *)
(*         when it has passed                                              *)
(***************************************************************************)
EXTENDS Integers

CONSTANTS
    MaxPos,          \* the position of an open leaf, 255 in the code
    Duration,        \* Duration[l][d]: full travel time of leaf l towards d
    InitialDelay,    \* InitialDelay[l][d]: delay before leaf l starts towards d
    EndStopOverrun,  \* extra run time of every movement
    ReversePause     \* minimum time between release and the next start

Leaf == {"A", "B"}
Direction == {"opening", "closing"}

ASSUME MaxPosAssumption == MaxPos \in Nat \ {0}

ASSUME TimingAssumption ==
    /\ Duration \in [Leaf -> [Direction -> Nat]]
    /\ InitialDelay \in [Leaf -> [Direction -> Nat]]
    /\ EndStopOverrun \in Nat
    /\ ReversePause \in Nat

\* gate_config.rs: END_STOP_OVERRUN is a second, 1000 ticks.
ASSUME OverrunAssumption == EndStopOverrun >= 1

Lesser(x, y) == IF x < y THEN x ELSE y
Greater(x, y) == IF x > y THEN x ELSE y

\* gate_config.rs: "Leaf A: opens first, closes second", leaf B the other way
\* round.  The leaf that goes first is not slower than the other, and its
\* head start is not shorter than the pause it may have to wait for.
First(d) == IF d = "opening" THEN "A" ELSE "B"
Second(d) == IF d = "opening" THEN "B" ELSE "A"

ASSUME HeadStartAssumption ==
    \A d \in Direction :
        /\ Duration[First(d)][d] <= Duration[Second(d)][d]
        /\ InitialDelay[First(d)][d] <= InitialDelay[Second(d)][d]
        /\ ReversePause <= InitialDelay[Second(d)][d]

\* A leaf together with the Phase of the movement it takes part in.  `state`
\* is also what the two relays show: open_pin is high exactly in "opening",
\* close_pin exactly in "closing".
LeafRecord ==
    [position : 0..MaxPos,
     state    : Direction \cup {"idle"},
     ran      : Nat,
     rest     : Nat,
     phase    : {"waiting", "running", "done"},
     due      : Nat]

\* Motor::new: relays released, no pause to honour (stopped_at is None).
NewLeaf(initial_position) ==
    [position |-> initial_position, state |-> "idle", ran |-> 0, rest |-> 0,
     phase |-> "done", due |-> 0]

\* full_duration as settle() uses it: .max(1) guards the division.
FullDuration(l, d) == Greater(Duration[l][d], 1)

\* What is left to travel towards d, in units of position.
Remaining(f, d) ==
    IF d = "opening" THEN MaxPos - f.position ELSE f.position

\* The Option of run_time is None exactly when the leaf is at that end.
AtEnd(f, d) == Remaining(f, d) = 0

\* Mutant of RunTime: the overrun is forgotten.
RunTimeWithoutOverrun(l, f, d) == (Duration[l][d] * Remaining(f, d)) \div MaxPos

RunTime(l, f, d) ==
    (Duration[l][d] * Remaining(f, d)) \div MaxPos + EndStopOverrun

\* The distance covered in r ticks towards d.
Travelled(l, r, d) == Lesser((r * MaxPos) \div FullDuration(l, d), MaxPos)

\* Mutant of Estimate: plain instead of saturating arithmetic.
EstimateUnsaturated(l, f) ==
    CASE f.state = "opening" -> f.position + Travelled(l, f.ran, "opening")
      [] f.state = "closing" -> f.position - Travelled(l, f.ran, "closing")
      [] OTHER -> f.position

\* Mutant of Estimate: the opening time for both directions.
EstimateOpeningTimeOnly(l, f) ==
    CASE f.state = "opening" ->
            Lesser(f.position + Travelled(l, f.ran, "opening"), MaxPos)
      [] f.state = "closing" ->
            Greater(f.position - Travelled(l, f.ran, "opening"), 0)
      [] OTHER -> f.position

\* The position settle() would store now.
Estimate(l, f) ==
    CASE f.state = "opening" ->
            Lesser(f.position + Travelled(l, f.ran, "opening"), MaxPos)
      [] f.state = "closing" ->
            Greater(f.position - Travelled(l, f.ran, "closing"), 0)
      [] OTHER -> f.position

\* Motor::settle, which is also the whole of Motor::stop: nothing to do when
\* idle, otherwise release the relays, note when, and book the distance.
Settle(l, f) ==
    IF f.state = "idle" THEN f
    ELSE [f EXCEPT !.position = Estimate(l, f),
                   !.state = "idle",
                   !.ran = 0,
                   !.rest = ReversePause]

\* Motor::start settles first, so a running leaf is booked before it is
\* energized in a new direction.
Start(l, f, d) == [Settle(l, f) EXCEPT !.state = d, !.ran = 0]

\* One tick of the clock, seen from a leaf.
Elapse(l, f) ==
    [f EXCEPT !.ran = IF f.state = "idle" THEN 0
                      ELSE Lesser(f.ran + 1, FullDuration(l, f.state)),
              !.rest = Greater(f.rest - 1, 0),
              !.due = Greater(f.due - 1, 0)]
=============================================================================
