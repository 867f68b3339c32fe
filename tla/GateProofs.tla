----------------------------- MODULE GateProofs -----------------------------
(***************************************************************************)
(* Proofs about Gate, for every resolution, travel time, delay, pause and  *)
(* overrun the assumptions of Motor allow.                                 *)
(***************************************************************************)
EXTENDS Gate, MotorProofs

-----------------------------------------------------------------------------
(* The inductive invariant.                                                *)

\* A leaf outside a movement.
Parked(f) == f.state = "idle" /\ f.phase = "done"

\* A leaf within a movement towards d.  A waiting leaf waits at least for the
\* end of its pause; a running one has been on for as long as its deadline
\* has come closer; one that is done is at the end.
InMovement(l, f, d) ==
    /\ f.phase = "running" => f.state = d
    /\ f.phase # "running" => f.state = "idle"
    /\ f.phase = "waiting" => f.due >= f.rest
    /\ f.phase = "running" => \/ f.ran >= FullDuration(l, d)
                              \/ f.ran + f.due >= RunTime(l, f, d)
    /\ f.phase = "done" => AtEnd(f, d)

Leaves ==
    \A l \in Leaf : /\ drive = "none" => Parked(leaf[l])
                    /\ drive # "none" => InMovement(l, leaf[l], drive)

\* What the rest of the system reads of the gate task.
Shared ==
    /\ drive = "none" => current_direction = "idle" /\ position = Classify(leaf)
    /\ drive # "none" => current_direction = drive /\ last_direction = drive

\* The wind lock owns the command slot: only the forced Open can be in it.
LockOwnsSlot == wind_locked => command \in {"none", "Open"}

Inv == TypeOK /\ Leaves /\ Shared /\ LockOwnsSlot /\ SafetyWake

-----------------------------------------------------------------------------
(* One leaf: each operation keeps the record's type and its part of the    *)
(* invariant.                                                              *)

\* A record is a leaf if its fields have the right types.
LEMMA FieldTypes ==
    ASSUME NEW f \in LeafRecord
    PROVE  /\ f.position \in 0..MaxPos
           /\ f.state \in {"opening", "closing", "idle"}
           /\ f.ran \in Nat
           /\ f.rest \in Nat
           /\ f.phase \in {"waiting", "running", "done"}
           /\ f.due \in Nat
  BY DEF LeafRecord, Direction

\* Motor::settle leaves an idle leaf, and books nothing but the estimate.
LEMMA SettleLeaf ==
    ASSUME NEW l \in Leaf, NEW f \in LeafRecord
    PROVE  /\ Settle(l, f) \in LeafRecord
           /\ Settle(l, f).state = "idle"
           /\ Settle(l, f).phase = f.phase
           /\ f.state = "idle" => Settle(l, f) = f
  <1>1. Estimate(l, f) \in 0..MaxPos
    BY EstimateType
  <1>2. ReversePause \in Nat
    BY TimingAssumption
  <1> QED
    BY <1>1, <1>2 DEF Settle, LeafRecord

\* Stopping at the end of drive() parks a leaf.
LEMMA StoppedLeaf ==
    ASSUME NEW fs \in [Leaf -> LeafRecord]
    PROVE  /\ Stopped(fs) \in [Leaf -> LeafRecord]
           /\ \A l \in Leaf : Parked(Stopped(fs)[l])
  <1>1. ASSUME NEW l \in Leaf
        PROVE  /\ [Settle(l, fs[l]) EXCEPT !.phase = "done", !.due = 0]
                    \in LeafRecord
               /\ Parked([Settle(l, fs[l]) EXCEPT !.phase = "done", !.due = 0])
    <2>1. Settle(l, fs[l]) \in LeafRecord /\ Settle(l, fs[l]).state = "idle"
      BY SettleLeaf
    <2> QED
      BY <2>1 DEF LeafRecord, Parked
  <1> QED
    BY <1>1 DEF Stopped

\* plan() puts a parked leaf into the movement.
LEMMA PlanLeaf ==
    ASSUME NEW l \in Leaf, NEW f \in LeafRecord, NEW d \in Direction, Parked(f)
    PROVE  /\ Plan(l, f, d) \in LeafRecord
           /\ InMovement(l, Plan(l, f, d), d)
  <1>1. InitialDelay[l][d] \in Nat
    BY TimingAssumption
  <1>2. f.rest \in Nat
    BY FieldTypes
  <1>3. Greater(InitialDelay[l][d], f.rest) \in Nat
        /\ Greater(InitialDelay[l][d], f.rest) >= f.rest
    BY <1>1, <1>2 DEF Greater
  <1>4. CASE AtEnd(f, d)
    <2> DEFINE g == Plan(l, f, d)
    <2>1. g = [f EXCEPT !.phase = "done", !.due = 0]
      BY <1>4 DEF Plan
    <2> HIDE DEF g
    <2>2. g \in LeafRecord /\ g.phase = "done" /\ g.state = "idle"
          /\ g.position = f.position
      BY <2>1 DEF LeafRecord, Parked
    <2>3. InMovement(l, g, d)
      BY <1>4, <2>2 DEF InMovement, AtEnd, Remaining
    <2> QED
      BY <2>2, <2>3 DEF g
  <1>5. CASE ~AtEnd(f, d)
    <2> DEFINE w == Greater(InitialDelay[l][d], f.rest)
    <2>1. Plan(l, f, d) = [f EXCEPT !.phase = "waiting", !.due = w]
      BY <1>5 DEF Plan, StartDelay
    <2> HIDE DEF w
    <2> QED
      BY <1>3, <2>1 DEF LeafRecord, InMovement, Parked, w
  <1> QED
    BY <1>4, <1>5

\* The first half of a pass keeps a leaf in the movement.
LEMMA BeginRunLeaf ==
    ASSUME NEW l \in Leaf, NEW f \in LeafRecord, NEW d \in Direction,
           InMovement(l, f, d)
    PROVE  /\ BeginRun(l, f, d) \in LeafRecord
           /\ InMovement(l, BeginRun(l, f, d), d)
  <1> DEFINE g == BeginRun(l, f, d)
  <1>1. CASE ~(f.phase = "waiting" /\ f.due = 0)
    BY <1>1 DEF BeginRun
  <1>2. CASE f.phase = "waiting" /\ f.due = 0 /\ AtEnd(f, d)
    <2>1. g = [f EXCEPT !.phase = "done"]
      BY <1>2 DEF BeginRun
    <2> QED
      BY <1>2, <2>1 DEF LeafRecord, InMovement, AtEnd, Remaining
  <1>3. CASE f.phase = "waiting" /\ f.due = 0 /\ ~AtEnd(f, d)
    <2>1. Settle(l, f) = f
      BY <1>3, SettleLeaf DEF InMovement
    <2>2. RunTime(l, f, d) \in Nat
      BY FieldTypes, RunTimeType
    <2> DEFINE rt == RunTime(l, f, d)
    <2>3. g = [[f EXCEPT !.state = d, !.ran = 0]
                 EXCEPT !.phase = "running", !.due = rt]
      BY <1>3, <2>1 DEF BeginRun, Start
    <2>4. rt = RunTime(l, g, d)
      <3>1. g.position = f.position
        BY <2>3 DEF LeafRecord
      <3> QED
        BY <3>1 DEF RunTime, Remaining
    <2> HIDE DEF rt, g
    <2>5. g \in LeafRecord
      BY <2>2, <2>3 DEF LeafRecord, rt
    <2>6. g.phase = "running" /\ g.state = d /\ g.ran = 0 /\ g.due = rt
      BY <2>3 DEF LeafRecord
    <2>7. InMovement(l, g, d)
      BY <2>2, <2>4, <2>6 DEF InMovement, rt
    <2> QED
      BY <2>5, <2>7 DEF g
  <1> QED
    BY <1>1, <1>2, <1>3

\* The second half: a leaf whose run is over has arrived.
LEMMA EndRunLeaf ==
    ASSUME NEW l \in Leaf, NEW f \in LeafRecord, NEW d \in Direction,
           InMovement(l, f, d)
    PROVE  /\ EndRun(l, f) \in LeafRecord
           /\ InMovement(l, EndRun(l, f), d)
  <1> DEFINE g == EndRun(l, f)
             s == Settle(l, f)
  <1>1. CASE ~(f.phase = "running" /\ f.due = 0)
    BY <1>1 DEF EndRun
  <1>2. CASE f.phase = "running" /\ f.due = 0
    <2>1. g = [s EXCEPT !.phase = "done"]
      BY <1>2 DEF EndRun
    <2>2. s \in LeafRecord /\ s.state = "idle"
      BY SettleLeaf
    <2>3. AtEnd(s, d)
      <3>1. f.ran \in Nat /\ RunTime(l, f, d) \in Nat
        BY FieldTypes, RunTimeType
      <3>2. f.ran >= RunTime(l, f, d) \/ f.ran >= FullDuration(l, d)
        BY <1>2, <3>1 DEF InMovement
      <3>3. f.state = d
        BY <1>2 DEF InMovement
      <3> QED
        BY <3>2, <3>3, CompletedRunArrives
    <2> HIDE DEF s, g
    <2>4. g \in LeafRecord /\ g.phase = "done" /\ g.state = "idle"
          /\ g.position = s.position
      BY <2>1, <2>2 DEF LeafRecord
    <2>5. InMovement(l, g, d)
      BY <2>3, <2>4 DEF InMovement, AtEnd, Remaining
    <2> QED
      BY <2>4, <2>5 DEF g
  <1> QED
    BY <1>1, <1>2

\* A pass over a leaf keeps it in the movement.
LEMMA PassLeaf ==
    ASSUME NEW l \in Leaf, NEW f \in LeafRecord, NEW d \in Direction,
           InMovement(l, f, d)
    PROVE  /\ Pass(l, f, d) \in LeafRecord
           /\ InMovement(l, Pass(l, f, d), d)
  BY BeginRunLeaf, EndRunLeaf DEF Pass

\* A pass energizes no leaf but one that was already on or has rested.
LEMMA PassStarts ==
    ASSUME NEW l \in Leaf, NEW f \in LeafRecord, NEW d \in Direction,
           InMovement(l, f, d), Pass(l, f, d).state # "idle"
    PROVE  /\ Pass(l, f, d).state = d
           /\ f.state = d \/ (f.state = "idle" /\ f.rest = 0)
  <1>1. Pass(l, f, d) \in LeafRecord /\ InMovement(l, Pass(l, f, d), d)
    BY PassLeaf
  <1>2. Pass(l, f, d).state = d
    BY <1>1 DEF InMovement
  <1>3. f.rest \in Nat /\ f.due \in Nat /\ f.phase \in {"waiting", "running", "done"}
    BY FieldTypes
  <1>4. CASE f.phase = "running"
    BY <1>2, <1>4 DEF InMovement
  <1>5. CASE f.phase = "waiting" /\ f.due = 0
    BY <1>2, <1>3, <1>5 DEF InMovement
  <1>6. CASE f.phase = "done" \/ (f.phase = "waiting" /\ f.due # 0)
    <2>1. Pass(l, f, d) = f
      BY <1>6 DEF Pass, BeginRun, EndRun
    <2> QED
      BY <1>6, <2>1 DEF InMovement
  <1> QED
    BY <1>3, <1>4, <1>5, <1>6

\* plan() touches neither the relays nor the pause.
LEMMA PlanKeeps ==
    ASSUME NEW l \in Leaf, NEW f \in LeafRecord, NEW d \in Direction
    PROVE  Plan(l, f, d).state = f.state /\ Plan(l, f, d).rest = f.rest
  <1> DEFINE w == Greater(InitialDelay[l][d], f.rest)
  <1>1. Plan(l, f, d) \in {[f EXCEPT !.phase = "done", !.due = 0],
                           [f EXCEPT !.phase = "waiting", !.due = w]}
    BY DEF Plan, StartDelay
  <1> HIDE DEF w
  <1> QED
    BY <1>1 DEF LeafRecord

\* Time passes over a leaf.
LEMMA ElapseLeaf ==
    ASSUME NEW l \in Leaf, NEW f \in LeafRecord
    PROVE  /\ Elapse(l, f) \in LeafRecord
           /\ Elapse(l, f).position = f.position
           /\ Elapse(l, f).state = f.state
           /\ Parked(f) => Parked(Elapse(l, f))
           /\ \A d \in Direction :
                InMovement(l, f, d) => InMovement(l, Elapse(l, f), d)
  <1> DEFINE g == Elapse(l, f)
             r == IF f.state = "idle" THEN 0
                  ELSE Lesser(f.ran + 1, FullDuration(l, f.state))
             p == Greater(f.rest - 1, 0)
             w == Greater(f.due - 1, 0)
  <1>1. g = [f EXCEPT !.ran = r, !.rest = p, !.due = w]
    BY DEF Elapse
  <1>2. /\ f.position \in 0..MaxPos
        /\ f.state \in {"opening", "closing", "idle"}
        /\ f.ran \in Nat /\ f.rest \in Nat /\ f.due \in Nat
    BY FieldTypes
  <1>3. p \in Nat /\ w \in Nat /\ (f.due >= f.rest => w >= p)
    BY <1>2 DEF Greater
  <1>4. f.state # "idle" => FullDuration(l, f.state) \in Nat
    BY <1>2, FullDurationType DEF Direction
  <1>5. r \in Nat
    BY <1>2, <1>4 DEF Lesser
  <1>6. f.state # "idle" =>
          \/ r >= FullDuration(l, f.state)
          \/ r = f.ran + 1
    BY <1>2, <1>4 DEF Lesser
  <1>7. w >= f.due - 1
    BY <1>2 DEF Greater
  <1> HIDE DEF g, r, p, w
  <1>8. /\ g \in LeafRecord
        /\ g.position = f.position /\ g.state = f.state /\ g.phase = f.phase
        /\ g.ran = r /\ g.rest = p /\ g.due = w
    BY <1>1, <1>3, <1>5 DEF LeafRecord
  <1>9. ASSUME NEW d \in Direction, InMovement(l, f, d)
        PROVE  InMovement(l, g, d)
    <2>1. RunTime(l, g, d) = RunTime(l, f, d) /\ AtEnd(g, d) = AtEnd(f, d)
      BY <1>8 DEF RunTime, AtEnd, Remaining
    <2>2. RunTime(l, f, d) \in Nat
      BY <1>2, RunTimeType
    <2>3. FullDuration(l, d) \in Nat
      BY FullDurationType
    <2>4. ASSUME f.phase = "running"
          PROVE  r >= FullDuration(l, d) \/ r + w >= RunTime(l, f, d)
      <3>1. f.state = d /\ f.state # "idle"
        BY <1>9, <2>4 DEF InMovement, Direction
      <3>2. f.ran >= FullDuration(l, d) \/ f.ran + f.due >= RunTime(l, f, d)
        BY <1>9, <2>4 DEF InMovement
      <3>3. r >= FullDuration(l, d) \/ r = f.ran + 1
        BY <1>6, <3>1
      <3> QED
        BY <1>2, <1>3, <1>5, <1>7, <2>2, <2>3, <3>2, <3>3
    <2> QED
      BY <1>3, <1>8, <1>9, <2>1, <2>4 DEF InMovement
  <1> QED
    BY <1>8, <1>9 DEF Parked, g

-----------------------------------------------------------------------------
(* The gate task: what its building blocks establish.                      *)

\* Classifying any two leaves gives one of the three positions.
LEMMA ClassifyType ==
    ASSUME NEW fs
    PROVE  Classify(fs) \in Position
  BY Zenon DEF Classify, Position

\* What is published has the type of a report.
LEMMA ReportType ==
    ASSUME NEW dir \in Direction \cup {"idle"}, NEW pos \in Position,
           NEW locked \in BOOLEAN, NEW bypass \in BOOLEAN
    PROVE  Report(dir, pos, locked, bypass)
             \in [cover : CoverState, wind : BOOLEAN, bypass : BOOLEAN]
  <1>1. Cover(dir, pos) \in CoverState
    <2>1. CASE dir \in Direction
      BY <2>1 DEF Cover, CoverState, Direction
    <2>2. CASE dir = "idle" /\ pos = "closed"
      BY <2>2 DEF Cover, CoverState, Direction
    <2>3. CASE dir = "idle" /\ pos # "closed"
      BY <2>3 DEF Cover, CoverState, Direction
    <2> QED
      BY <2>1, <2>2, <2>3
  <1> QED
    BY <1>1 DEF Report

\* The variables the gate task writes besides the command slot and signals.
TaskTypes ==
    /\ current_direction \in Direction \cup {"idle"}
    /\ position \in Position
    /\ barrier_bypass \in BOOLEAN
    /\ pending \in SlotOf({"Open", "Close"})
    /\ drive \in SlotOf(Direction)
    /\ moved \in BOOLEAN
    /\ leaf \in [Leaf -> LeafRecord]
    /\ announced \in [cover : CoverState, wind : BOOLEAN, bypass : BOOLEAN]

\* Gate::settle on parked leaves.
LEMMA SettleGateStep ==
    ASSUME TypeOK, NEW fs \in [Leaf -> LeafRecord],
           \A l \in Leaf : Parked(fs[l]),
           NEW bypass \in BOOLEAN, SettleGate(fs, bypass),
           pending' \in SlotOf({"Open", "Close"}), moved' \in BOOLEAN
    PROVE  TaskTypes' /\ Leaves' /\ Shared' /\ drive' = "none"
  <1>1. wind_locked \in BOOLEAN
    BY DEF TypeOK
  <1>2. Classify(fs) \in Position
    BY ClassifyType
  <1>3. Report("idle", Classify(fs), wind_locked, bypass)
          \in [cover : CoverState, wind : BOOLEAN, bypass : BOOLEAN]
    BY <1>1, <1>2, ReportType
  <1>4. /\ leaf' = fs /\ drive' = "none" /\ current_direction' = "idle"
        /\ position' = Classify(fs) /\ barrier_bypass' = bypass
        /\ announced' = Report("idle", Classify(fs), wind_locked, bypass)
    BY DEF SettleGate, PublishState
  <1>5. TaskTypes'
    BY <1>2, <1>3, <1>4 DEF TaskTypes, SlotOf
  <1>6. Leaves'
    BY <1>4 DEF Leaves
  <1>7. position' = Classify(leaf')
    BY <1>4
  <1>8. Shared'
    BY <1>4, <1>7 DEF Shared, Classify
  <1> QED
    BY <1>4, <1>5, <1>6, <1>8

\* The end of a movement.
LEMMA EndDriveStep ==
    ASSUME TypeOK, NEW fs \in [Leaf -> LeafRecord], NEW mv \in BOOLEAN,
           NEW next \in SlotOf({"Open", "Close"}), EndDrive(fs, mv, next)
    PROVE  TaskTypes' /\ Leaves' /\ Shared' /\ drive' = "none"
  <1>1. Stopped(fs) \in [Leaf -> LeafRecord]
        /\ \A l \in Leaf : Parked(Stopped(fs)[l])
    BY StoppedLeaf
  <1>2. SettleGate(Stopped(fs), barrier_bypass /\ ~mv)
        /\ pending' \in SlotOf({"Open", "Close"}) /\ moved' \in BOOLEAN
    BY DEF EndDrive, BypassLeft
  <1>3. (barrier_bypass /\ ~mv) \in BOOLEAN
    BY DEF TypeOK
  <1> QED
    BY <1>1, <1>2, <1>3, SettleGateStep

\* One iteration of drive()'s loop: the movement is over, or it goes on
\* because nothing blocks it.
LEMMA LoopPassStep ==
    ASSUME TypeOK, NEW d \in Direction, NEW fs \in [Leaf -> LeafRecord],
           \A l \in Leaf : InMovement(l, fs[l], d),
           NEW mv \in BOOLEAN,
           NEW said \in [cover : CoverState, wind : BOOLEAN, bypass : BOOLEAN],
           LoopPass(d, fs, mv, said),
           last_direction' = d
    PROVE  /\ TaskTypes' /\ Leaves' /\ Shared'
           /\ drive' # "none" =>
                drive' = d /\ ~Blocked(d) /\ barrier_bypass' = barrier_bypass
           /\ drive' = "none" =>
                Blocked(d) \/ \A l \in Leaf : AtEnd(leaf'[l], d)
           /\ \A l \in Leaf : leaf'[l].state # "idle" =>
                /\ leaf'[l].state = drive'
                /\ \/ fs[l].state = drive'
                   \/ fs[l].state = "idle" /\ fs[l].rest = 0
  <1> DEFINE passed == [l \in Leaf |-> Pass(l, fs[l], d)]
             runs == mv \/ \E l \in Leaf : BeginsRun(fs[l], d)
             finished == \A l \in Leaf : passed[l].phase = "done"
  <1>1. /\ passed \in [Leaf -> LeafRecord]
        /\ \A l \in Leaf : InMovement(l, passed[l], d)
    BY PassLeaf
  <1>2. runs \in BOOLEAN
    OBVIOUS
  <1>3. "none" \in SlotOf({"Open", "Close"})
    BY DEF SlotOf
  <1>4. \/ Blocked(d) /\ EndDrive(fs, mv, "none")
        \/ ~Blocked(d) /\ finished /\ EndDrive(passed, runs, "none")
        \/ /\ ~Blocked(d) /\ ~finished
           /\ leaf' = passed /\ drive' = d /\ current_direction' = d
           /\ moved' = runs /\ pending' = "none" /\ announced' = said
           /\ position' = position /\ barrier_bypass' = barrier_bypass
    BY DEF LoopPass
  <1> HIDE DEF passed, runs, finished
  <1>5. CASE Blocked(d) /\ EndDrive(fs, mv, "none")
    <2>1. TaskTypes' /\ Leaves' /\ Shared' /\ drive' = "none"
      BY <1>3, <1>5, EndDriveStep
    <2>2. \A l \in Leaf : leaf'[l].state = "idle"
      BY <2>1 DEF Leaves, Parked
    <2> QED
      BY <1>5, <2>1, <2>2
  <1>6. CASE ~Blocked(d) /\ finished /\ EndDrive(passed, runs, "none")
    <2>1. TaskTypes' /\ Leaves' /\ Shared' /\ drive' = "none"
      BY <1>1, <1>2, <1>3, <1>6, EndDriveStep
    <2>2. \A l \in Leaf : leaf'[l].state = "idle"
      BY <2>1 DEF Leaves, Parked
    <2>3. leaf' = Stopped(passed)
      BY <1>6 DEF EndDrive, SettleGate
    <2>4. ASSUME NEW l \in Leaf PROVE AtEnd(leaf'[l], d)
      <3>1. passed[l] \in LeafRecord /\ passed[l].state = "idle"
            /\ AtEnd(passed[l], d)
        BY <1>1, <1>6 DEF finished, InMovement
      <3>2. leaf'[l] = [passed[l] EXCEPT !.phase = "done", !.due = 0]
        BY <2>3, <3>1, SettleLeaf DEF Stopped
      <3>3. leaf'[l].position = passed[l].position
        BY <3>1, <3>2 DEF LeafRecord
      <3> QED
        BY <3>1, <3>3 DEF AtEnd, Remaining
    <2> QED
      BY <2>1, <2>2, <2>4
  <1>7. CASE /\ ~Blocked(d) /\ ~finished
             /\ leaf' = passed /\ drive' = d /\ current_direction' = d
             /\ moved' = runs /\ pending' = "none" /\ announced' = said
             /\ position' = position /\ barrier_bypass' = barrier_bypass
    <2>1. d # "none"
      BY DEF Direction
    <2>2. TaskTypes'
      BY <1>1, <1>2, <1>3, <1>7 DEF TaskTypes, TypeOK, SlotOf
    <2>3. Leaves'
      BY <1>1, <1>7, <2>1 DEF Leaves
    <2>4. Shared'
      BY <1>7, <2>1 DEF Shared
    <2>5. \A l \in Leaf : leaf'[l].state # "idle" =>
                /\ leaf'[l].state = d
                /\ fs[l].state = d \/ (fs[l].state = "idle" /\ fs[l].rest = 0)
      BY <1>7, PassStarts DEF passed
    <2> QED
      BY <1>7, <2>1, <2>2, <2>3, <2>4, <2>5
  <1> QED
    BY <1>4, <1>5, <1>6, <1>7

\* A step energizes no leaf but one that was already on, in the direction of
\* the movement, or one that has rested for its pause.
RestedStarts ==
    \A l \in Leaf : leaf'[l].state # "idle" =>
        /\ leaf'[l].state = drive'
        /\ \/ leaf[l].state = drive'
           \/ leaf[l].state = "idle" /\ leaf[l].rest = 0

\* In particular a step that parks both leaves.
LEMMA ParkedStarts ==
    ASSUME Leaves', drive' = "none"
    PROVE  RestedStarts
  BY DEF Leaves, Parked, RestedStarts

\* The call of drive() from an idle gate.
LEMMA StartDriveStep ==
    ASSUME Inv, drive = "none", NEW d \in Direction, StartDrive(d)
    PROVE  /\ TaskTypes' /\ Leaves' /\ Shared'
           /\ last_direction' \in Direction /\ light_changed' \in BOOLEAN
           /\ drive' # "none" =>
                drive' = d /\ ~Blocked(d) /\ barrier_bypass' = barrier_bypass
           /\ RestedStarts
  <1>1. TypeOK /\ leaf \in [Leaf -> LeafRecord]
        /\ \A l \in Leaf : Parked(leaf[l])
    BY DEF Inv, TypeOK, Leaves
  <1>2. CASE /\ Blocked(d) /\ pending' = "none"
             /\ SettleGate(leaf, barrier_bypass)
             /\ UNCHANGED <<moved, last_direction, light_changed>>
    <2>1. barrier_bypass \in BOOLEAN /\ pending' \in SlotOf({"Open", "Close"})
          /\ moved' \in BOOLEAN
      BY <1>1, <1>2 DEF TypeOK, SlotOf
    <2>2. last_direction' \in Direction /\ light_changed' \in BOOLEAN
      BY <1>1, <1>2 DEF TypeOK
    <2> QED
      BY <1>1, <1>2, <2>1, <2>2, SettleGateStep, ParkedStarts
  <1>3. CASE /\ ~Blocked(d) /\ last_direction' = d /\ light_changed' = TRUE
             /\ LoopPass(d, [l \in Leaf |-> Plan(l, leaf[l], d)], FALSE,
                         Report(d, position, wind_locked, barrier_bypass))
    <2> DEFINE fs == [l \in Leaf |-> Plan(l, leaf[l], d)]
               said == Report(d, position, wind_locked, barrier_bypass)
    <2>1. fs \in [Leaf -> LeafRecord] /\ \A l \in Leaf : InMovement(l, fs[l], d)
      BY <1>1, PlanLeaf
    <2>2. said \in [cover : CoverState, wind : BOOLEAN, bypass : BOOLEAN]
      BY <1>1, ReportType DEF TypeOK
    <2>3. LoopPass(d, fs, FALSE, said) /\ last_direction' = d
      BY <1>3
    <2>4. \A l \in Leaf : fs[l].state = leaf[l].state
                           /\ fs[l].rest = leaf[l].rest
      BY <1>1, PlanKeeps
    <2> HIDE DEF fs, said
    <2>5. /\ TaskTypes' /\ Leaves' /\ Shared'
          /\ drive' # "none" =>
               /\ drive' = d /\ ~Blocked(d)
               /\ barrier_bypass' = barrier_bypass
          /\ \A l \in Leaf : leaf'[l].state # "idle" =>
               /\ leaf'[l].state = drive'
               /\ \/ fs[l].state = drive'
                  \/ fs[l].state = "idle" /\ fs[l].rest = 0
      BY <1>1, <2>1, <2>2, <2>3, LoopPassStep
    <2>6. RestedStarts
      BY <2>4, <2>5 DEF RestedStarts
    <2> QED
      BY <1>3, <2>5, <2>6
  <1> QED
    BY <1>2, <1>3 DEF StartDrive, SignalLightChanged

\* What every step of the gate task establishes about its own variables.
TaskStep ==
    /\ TaskTypes' /\ Leaves' /\ Shared'
    /\ last_direction' \in Direction /\ light_changed' \in BOOLEAN
    /\ drive' # "none" =>
         /\ drive' \in Direction /\ ~Blocked(drive')
         /\ barrier_bypass' = barrier_bypass
         /\ drive # "none" => drive' = drive
    /\ RestedStarts

\* How a step may end a movement.
TaskEnds ==
    drive # "none" /\ drive' = "none" =>
        \/ Blocked(drive)
        \/ \A l \in Leaf : AtEnd(leaf'[l], drive)
        \/ command \notin {"none", CommandFor(drive)}

\* Executing one command while idle.
LEMMA ExecuteStep ==
    ASSUME Inv, drive = "none", NEW c, Execute(c)
    PROVE  TaskStep
  <1>1. CASE c = "Open" /\ StartDrive("opening")
    BY <1>1, StartDriveStep DEF Direction, TaskStep
  <1>2. CASE c = "Close" /\ StartDrive("closing")
    BY <1>2, StartDriveStep DEF Direction, TaskStep
  <1>3. CASE /\ c \in {"Stop", "Impulse"} /\ EndDrive(leaf, FALSE, "none")
             /\ UNCHANGED <<last_direction, light_changed>>
    <2>1. TypeOK /\ leaf \in [Leaf -> LeafRecord]
          /\ last_direction \in Direction /\ light_changed \in BOOLEAN
      BY DEF Inv, TypeOK
    <2>2. "none" \in SlotOf({"Open", "Close"})
      BY DEF SlotOf
    <2> QED
      BY <1>3, <2>1, <2>2, EndDriveStep, ParkedStarts DEF TaskStep
  <1> QED
    BY <1>1, <1>2, <1>3 DEF Execute

\* A loop pass from within a movement.
LEMMA DrivePassStep ==
    ASSUME Inv, drive # "none",
           NEW said \in [cover : CoverState, wind : BOOLEAN, bypass : BOOLEAN],
           LoopPass(drive, leaf, moved, said),
           UNCHANGED <<last_direction, light_changed>>
    PROVE  TaskStep /\ TaskEnds
  <1>1. /\ TypeOK /\ drive \in Direction /\ leaf \in [Leaf -> LeafRecord]
        /\ moved \in BOOLEAN /\ last_direction' = drive
        /\ light_changed' \in BOOLEAN
        /\ \A l \in Leaf : InMovement(l, leaf[l], drive)
    BY DEF Inv, TypeOK, Leaves, Shared, SlotOf
  <1>2. /\ TaskTypes' /\ Leaves' /\ Shared'
        /\ drive' # "none" =>
             /\ drive' = drive /\ ~Blocked(drive)
             /\ barrier_bypass' = barrier_bypass
        /\ drive' = "none" =>
             Blocked(drive) \/ \A l \in Leaf : AtEnd(leaf'[l], drive)
        /\ \A l \in Leaf : leaf'[l].state # "idle" =>
             /\ leaf'[l].state = drive'
             /\ \/ leaf[l].state = drive'
                \/ leaf[l].state = "idle" /\ leaf[l].rest = 0
    BY <1>1, LoopPassStep
  <1>3. drive' # "none" => ~Blocked(drive')
    BY <1>2
  <1>4. RestedStarts /\ TaskEnds
    BY <1>2 DEF RestedStarts, TaskEnds
  <1> QED
    BY <1>1, <1>2, <1>3, <1>4 DEF TaskStep

\* A movement ended by a command.
LEMMA DriveEndStep ==
    ASSUME Inv, drive # "none", NEW next \in SlotOf({"Open", "Close"}),
           EndDrive(leaf, moved, next),
           UNCHANGED <<last_direction, light_changed>>
    PROVE  TaskStep
  <1>1. /\ TypeOK /\ leaf \in [Leaf -> LeafRecord] /\ moved \in BOOLEAN
        /\ last_direction' \in Direction /\ light_changed' \in BOOLEAN
    BY DEF Inv, TypeOK
  <1> QED
    BY <1>1, EndDriveStep, ParkedStarts DEF TaskStep

\* The state as it is now is a report.
LEMMA CurrentReportType ==
    ASSUME TypeOK
    PROVE  CurrentReport
             \in [cover : CoverState, wind : BOOLEAN, bypass : BOOLEAN]
  BY ReportType DEF TypeOK, CurrentReport

\* Every step of the gate task, whichever wait it comes from.
LEMMA GateTaskStep ==
    ASSUME Inv, GateTask
    PROVE  /\ TaskStep /\ TaskEnds
           /\ UNCHANGED inputs
           /\ command' \in {command, "none"}
           /\ barrier_changed' \in {barrier_changed, FALSE}
           /\ wind_lock_reset' \in {wind_lock_reset, FALSE}
  <1>0. TypeOK /\ announced \in [cover : CoverState, wind : BOOLEAN, bypass : BOOLEAN]
    BY DEF Inv, TypeOK
  <1>1. CASE StepPending
    BY <1>1, ExecuteStep DEF StepPending, TaskEnds
  <1>2. CASE StepCommand
    BY <1>2, ExecuteStep DEF StepCommand, TaskEnds
  <1>3. CASE StepReset
    <2>1. /\ leaf \in [Leaf -> LeafRecord] /\ \A l \in Leaf : Parked(leaf[l])
          /\ barrier_bypass \in BOOLEAN
          /\ pending' \in SlotOf({"Open", "Close"}) /\ moved' \in BOOLEAN
          /\ last_direction' \in Direction /\ light_changed' \in BOOLEAN
      BY <1>0, <1>3 DEF Inv, TypeOK, Leaves, StepReset
    <2>2. TaskTypes' /\ Leaves' /\ Shared' /\ drive' = "none"
      BY <1>0, <1>3, <2>1, SettleGateStep DEF StepReset
    <2> QED
      BY <1>3, <2>1, <2>2, ParkedStarts DEF StepReset, TaskStep, TaskEnds
  <1>4. CASE DriveTimer
    BY <1>0, <1>4, DrivePassStep DEF DriveTimer
  <1>5. CASE DriveSameCommand
    BY <1>0, <1>5, DrivePassStep DEF DriveSameCommand
  <1>6. CASE DriveStop
    <2>1. TaskEnds
      BY <1>6 DEF DriveStop, TaskEnds, CommandFor
    <2> QED
      BY <1>6, <2>1, DriveEndStep DEF DriveStop, SlotOf
  <1>7. CASE DriveReverse
    <2>1. TaskEnds
      BY <1>7 DEF DriveReverse, TaskEnds
    <2> QED
      BY <1>7, <2>1, DriveEndStep DEF DriveReverse, SlotOf
  <1>8. CASE DriveBarrierChanged
    BY <1>0, <1>8, DrivePassStep DEF DriveBarrierChanged
  <1>9. CASE DriveWindLockReset
    BY <1>0, <1>9, DrivePassStep, CurrentReportType DEF DriveWindLockReset
  <1> QED
    BY <1>1, <1>2, <1>3, <1>4, <1>5, <1>6, <1>7, <1>8, <1>9 DEF GateTask

-----------------------------------------------------------------------------
(* The invariant is inductive.                                             *)

\* Gate::new on any snapshot establishes it.
LEMMA InitInv ==
    ASSUME Init
    PROVE  Inv
  <1>1. PICK s \in OrderedSnapshot : Boot(s)
    BY DEF Init
  <1>2. s.a \in 0..MaxPos /\ s.b \in 0..MaxPos /\ s.wind_locked \in BOOLEAN
    BY DEF OrderedSnapshot, Snapshot
  <1> DEFINE fs == RestoredLeaf(s)
  <1>3. fs \in [Leaf -> LeafRecord] /\ \A l \in Leaf : Parked(fs[l])
    BY <1>2 DEF RestoredLeaf, NewLeaf, LeafRecord, Parked
  <1>4. Classify(fs) \in Position
    BY ClassifyType
  <1>5. Report("idle", Classify(fs), s.wind_locked, FALSE)
          \in [cover : CoverState, wind : BOOLEAN, bypass : BOOLEAN]
    BY <1>2, <1>4, ReportType
  <1> HIDE DEF fs
  <1>6. /\ leaf = fs /\ drive = "none" /\ current_direction = "idle"
        /\ position = Classify(fs) /\ command = "none"
    BY <1>1 DEF Boot, fs
  <1>7. TypeOK
    BY <1>1, <1>2, <1>3, <1>4, <1>5
    DEF Boot, fs, TypeOK, SlotOf, Direction, InitialPending
  <1>8. Leaves /\ Shared
    BY <1>3, <1>6 DEF Leaves, Shared
  <1>9. LockOwnsSlot /\ SafetyWake
    BY <1>6 DEF LockOwnsSlot, SafetyWake
  <1> QED
    BY <1>7, <1>8, <1>9 DEF Inv

\* The gate task keeps it: a movement it goes on with is not blocked.
LEMMA GateTaskInv ==
    ASSUME Inv, GateTask
    PROVE  Inv'
  <1>1. /\ TaskTypes' /\ Leaves' /\ Shared'
        /\ last_direction' \in Direction /\ light_changed' \in BOOLEAN
        /\ drive' # "none" => /\ drive' \in Direction /\ ~Blocked(drive')
                              /\ barrier_bypass' = barrier_bypass
        /\ UNCHANGED inputs
        /\ command' \in {command, "none"}
        /\ barrier_changed' \in {barrier_changed, FALSE}
        /\ wind_lock_reset' \in {wind_lock_reset, FALSE}
    BY GateTaskStep DEF TaskStep
  <1>2. TypeOK'
    BY <1>1 DEF Inv, TypeOK, TaskTypes, inputs, SlotOf
  <1>3. LockOwnsSlot'
    BY <1>1 DEF Inv, LockOwnsSlot, inputs
  <1>4. SafetyWake'
    BY <1>1 DEF SafetyWake, BeamForbids, WindForbids, Blocked, inputs
  <1> QED
    BY <1>1, <1>2, <1>3, <1>4 DEF Inv

\* Every method of Controls keeps it: what it forbids, it also signals.
LEMMA ControlsInv ==
    ASSUME Inv, ControlsInput
    PROVE  Inv'
  <1> USE DEF Inv, LockOwnsSlot, SafetyWake, BeamForbids, WindForbids
  <1> DEFINE Calm == UNCHANGED <<current_direction, last_direction, position,
                                 task>>
  <1>1. ASSUME Calm PROVE Leaves' /\ Shared'
    BY <1>1 DEF Leaves, Shared, task, Classify
  <1>2. ASSUME NEW c \in GateCommand, NormalInput(c) PROVE Inv'
    <2>1. TypeOK'
      BY <1>2 DEF NormalInput, TypeOK, task, SlotOf
    <2>2. Leaves' /\ Shared'
      BY <1>1, <1>2 DEF NormalInput
    <2>3. LockOwnsSlot' /\ SafetyWake'
      BY <1>2 DEF NormalInput, Accepts, task
    <2> QED
      BY <2>1, <2>2, <2>3
  <1>3. CASE WindTrigger
    <2>1. TypeOK'
      BY <1>3 DEF WindTrigger, TypeOK, task, SlotOf, GateCommand
    <2>2. Leaves' /\ Shared'
      BY <1>1, <1>3 DEF WindTrigger
    <2>3. LockOwnsSlot' /\ SafetyWake'
      BY <1>3 DEF WindTrigger, task
    <2> QED
      BY <2>1, <2>2, <2>3
  <1>4. CASE ResetWindLock
    <2>1. TypeOK'
      BY <1>4 DEF ResetWindLock, TypeOK, task
    <2>2. Leaves' /\ Shared'
      BY <1>1, <1>4 DEF ResetWindLock
    <2>3. LockOwnsSlot' /\ SafetyWake'
      BY <1>4 DEF ResetWindLock, task
    <2> QED
      BY <2>1, <2>2, <2>3
  <1>5. ASSUME NEW active \in BOOLEAN, Barrier1Set(active) PROVE Inv'
    <2>1. TypeOK'
      BY <1>5 DEF Barrier1Set, SignalBarrierChanged, RetryForcedOpen, TypeOK,
                  task, SlotOf, GateCommand
    <2>2. Leaves' /\ Shared'
      BY <1>1, <1>5 DEF Barrier1Set
    <2>3. LockOwnsSlot' /\ SafetyWake'
      BY <1>5 DEF Barrier1Set, SignalBarrierChanged, RetryForcedOpen, task
    <2> QED
      BY <2>1, <2>2, <2>3
  <1>6. ASSUME NEW active \in BOOLEAN, Barrier2Set(active) PROVE Inv'
    <2>1. TypeOK'
      BY <1>6 DEF Barrier2Set, SignalBarrierChanged, TypeOK, task
    <2>2. Leaves' /\ Shared'
      BY <1>1, <1>6 DEF Barrier2Set
    <2>3. LockOwnsSlot' /\ SafetyWake'
      BY <1>6 DEF Barrier2Set, SignalBarrierChanged, task
    <2> QED
      BY <2>1, <2>2, <2>3
  <1>7. ASSUME NEW active \in BOOLEAN, SetBarrierBypass(active) PROVE Inv'
    <2>1. Report(current_direction, position, wind_locked, active)
            \in [cover : CoverState, wind : BOOLEAN, bypass : BOOLEAN]
      BY ReportType DEF TypeOK
    <2>2. TypeOK'
      BY <1>7, <2>1
      DEF SetBarrierBypass, SignalBarrierChanged, SignalLightChanged,
          PublishState, TypeOK, task
    <2>3. Leaves' /\ Shared'
      BY <1>1, <1>7 DEF SetBarrierBypass
    <2>4. LockOwnsSlot' /\ SafetyWake'
      BY <1>7 DEF SetBarrierBypass, SignalBarrierChanged, task
    <2> QED
      BY <2>2, <2>3, <2>4
  <1> QED
    BY <1>2, <1>3, <1>4, <1>5, <1>6, <1>7
    DEF ControlsInput, Open, Close, Stop, Impulse, GateCommand

\* Time keeps it.
LEMMA TickInv ==
    ASSUME Inv, Tick
    PROVE  Inv'
  <1>1. leaf' = [l \in Leaf |-> Elapse(l, leaf[l])]
        /\ UNCHANGED <<controls, pending, drive, moved, announced>>
    BY DEF Tick
  <1>2. leaf \in [Leaf -> LeafRecord] /\ drive \in SlotOf(Direction)
    BY DEF Inv, TypeOK
  <1>3. /\ leaf' \in [Leaf -> LeafRecord]
        /\ \A l \in Leaf : leaf'[l].position = leaf[l].position
    BY <1>1, <1>2, ElapseLeaf
  <1>4. TypeOK'
    BY <1>1, <1>3 DEF Inv, TypeOK, controls
  <1>5. Leaves'
    BY <1>1, <1>2, ElapseLeaf DEF Inv, Leaves, SlotOf
  <1>6. Classify(leaf') = Classify(leaf)
    BY <1>3, Zenon DEF Classify
  <1>7. Shared'
    BY <1>1, <1>6 DEF Inv, Shared, controls, Classify
  <1>8. LockOwnsSlot' /\ SafetyWake'
    BY <1>1
    DEF Inv, LockOwnsSlot, SafetyWake, BeamForbids, WindForbids, controls
  <1> QED
    BY <1>4, <1>5, <1>7, <1>8 DEF Inv

\* So does a stuttering step.
LEMMA StutterInv ==
    ASSUME Inv, UNCHANGED vars
    PROVE  Inv'
  BY DEF Inv, TypeOK, Leaves, Shared, LockOwnsSlot, SafetyWake, BeamForbids,
         WindForbids, vars, controls, task, Classify

\* The inductive invariant holds in every behaviour.
THEOREM Invariance == Spec => []Inv
  <1>1. Init => Inv
    BY InitInv
  <1>2. Inv /\ [Next]_vars => Inv'
    BY GateTaskInv, ControlsInv, TickInv, StutterInv DEF Next
  <1> QED
    BY <1>1, <1>2, PTL DEF Spec

-----------------------------------------------------------------------------
(* The results.                                                            *)

\* Every variable keeps its type; no estimate leaves 0..MaxPos.
THEOREM TypeCorrect == Spec => []TypeOK
  <1>1. Inv => TypeOK
    BY DEF Inv
  <1> QED
    BY <1>1, Invariance, PTL

\* No safety condition that arises during a movement is ever lost: the
\* signal or the command that ends the movement is still pending.
THEOREM SafetyIsNeverLost == Spec => []SafetyWake
  <1>1. Inv => SafetyWake
    BY DEF Inv
  <1> QED
    BY <1>1, Invariance, PTL

\* Outside a movement the relays are off and the shared state is fresh.
THEOREM GateSettles == Spec => []SettledWhenIdle
  <1>1. ASSUME Inv PROVE SettledWhenIdle
    <2>1. leaf \in [Leaf -> LeafRecord]
      BY <1>1 DEF Inv, TypeOK
    <2>2. CASE drive = "none"
      BY <1>1, <2>2 DEF Inv, Leaves, Shared, Parked, SettledWhenIdle, Energized
    <2>3. CASE drive # "none"
      <3>1. drive \in Direction
        BY <1>1, <2>3 DEF Inv, TypeOK, SlotOf
      <3>2. drive # "idle"
        BY <3>1 DEF Direction
      <3> QED
        BY <1>1, <2>3, <3>2
        DEF Inv, Leaves, Shared, InMovement, SettledWhenIdle, Energized
    <2> QED
      BY <2>2, <2>3
  <1> QED
    BY <1>1, Invariance, PTL

\* A leaf that is done within a movement is at the end, whatever the travel
\* times and however both computations round.
THEOREM DoneLeavesArrived == Spec => []DoneMeansAtEnd
  <1>1. Inv => DoneMeansAtEnd
    BY DEF Inv, Leaves, InMovement, DoneMeansAtEnd
  <1> QED
    BY <1>1, Invariance, PTL

\* The first step of the gate task in a forbidden movement ends it with
\* every relay released.
THEOREM ForbiddenEnds == Spec => ForbiddenMovementEnds
  <1>1. ASSUME Inv, drive # "none", BeamForbids(drive) \/ WindForbids(drive),
               GateTask
        PROVE  drive' = "none" /\ \A l \in Leaf : leaf'[l].state = "idle"
    <2>1. Blocked(drive)
      BY <1>1 DEF BeamForbids, WindForbids, Blocked
    <2>2. TaskStep
      BY <1>1, GateTaskStep
    <2>3. drive' = "none"
      BY <1>1, <2>1, <2>2 DEF TaskStep
    <2>4. \A l \in Leaf : leaf'[l].state = "idle"
      BY <2>2, <2>3 DEF TaskStep, Leaves, Parked
    <2> QED
      BY <2>3, <2>4
  <1>2. Inv => [ drive # "none" /\ (BeamForbids(drive) \/ WindForbids(drive))
                   /\ GateTask
                 => drive' = "none"
                    /\ \A l \in Leaf : leaf'[l].state = "idle" ]_vars
    BY <1>1
  <1> QED
    BY <1>2, Invariance, PTL DEF ForbiddenMovementEnds

\* Neither a method of Controls nor time switches a relay.
LEMMA OthersKeepRelays ==
    ASSUME Inv, ControlsInput \/ Tick \/ UNCHANGED vars
    PROVE  \A l \in Leaf : leaf'[l].state = leaf[l].state
  <1>1. CASE ControlsInput
    BY <1>1 DEF ControlsInput, Open, Close, Stop, Impulse, NormalInput,
                WindTrigger, ResetWindLock, Barrier1Set, Barrier2Set,
                SetBarrierBypass, task
  <1>2. CASE Tick
    BY <1>2, ElapseLeaf DEF Tick, Inv, TypeOK
  <1>3. CASE UNCHANGED vars
    BY <1>3 DEF vars, task
  <1> QED
    BY <1>1, <1>2, <1>3

\* A relay is energized only after its pause, only in a direction that
\* nothing forbids, and only as part of the movement the system is told of;
\* a leaf is never reversed without a release in between.
THEOREM RelaysStartSafely == Spec => SafeStart
  <1> DEFINE Safe == \A l \in Leaf : leaf'[l].state # leaf[l].state =>
                       \/ leaf'[l].state = "idle"
                       \/ /\ leaf[l].state = "idle"
                          /\ leaf[l].rest = 0
                          /\ ~BeamForbids(leaf'[l].state)
                          /\ ~WindForbids(leaf'[l].state)
                          /\ leaf'[l].state = current_direction'
  <1>1. ASSUME Inv, GateTask PROVE Safe
    <2>1. TaskStep
      BY <1>1, GateTaskStep
    <2> SUFFICES ASSUME NEW l \in Leaf, leaf'[l].state # leaf[l].state,
                        leaf'[l].state # "idle"
                 PROVE  /\ leaf[l].state = "idle"
                        /\ leaf[l].rest = 0
                        /\ ~BeamForbids(leaf'[l].state)
                        /\ ~WindForbids(leaf'[l].state)
                        /\ leaf'[l].state = current_direction'
      OBVIOUS
    <2>2. leaf'[l].state = drive' /\ leaf[l].state = "idle" /\ leaf[l].rest = 0
      BY <2>1 DEF TaskStep, RestedStarts
    <2>3. drive' # "none"
      BY <2>1 DEF TaskStep, Leaves, Parked
    <2>4. ~Blocked(drive') /\ current_direction' = drive'
      BY <2>1, <2>3 DEF TaskStep, Shared
    <2>5. ~BeamForbids(drive') /\ ~WindForbids(drive')
      BY <2>4 DEF Blocked, BeamForbids, WindForbids
    <2> QED
      BY <2>2, <2>4, <2>5
  <1>2. ASSUME Inv, ControlsInput \/ Tick \/ UNCHANGED vars PROVE Safe
    BY <1>2, OthersKeepRelays
  <1>3. Inv /\ [Next]_vars => [Safe]_vars
    BY <1>1, <1>2 DEF Next
  <1> QED
    BY <1>3, Invariance, PTL DEF Spec, SafeStart

\* Only the gate task ends a movement, and only as TaskEnds says.
LEMMA MovementEnds ==
    ASSUME Inv, [Next]_vars, drive # "none", drive' = "none"
    PROVE  \/ Blocked(drive)
           \/ \A l \in Leaf : AtEnd(leaf'[l], drive)
           \/ command \notin {"none", CommandFor(drive)}
  <1>1. CASE GateTask
    BY <1>1, GateTaskStep DEF TaskEnds
  <1>2. CASE ControlsInput
    BY <1>2 DEF ControlsInput, Open, Close, Stop, Impulse, NormalInput,
                WindTrigger, ResetWindLock, Barrier1Set, Barrier2Set,
                SetBarrierBypass, task
  <1>3. CASE Tick
    BY <1>3 DEF Tick
  <1>4. CASE UNCHANGED vars
    BY <1>4 DEF vars, task
  <1> QED
    BY <1>1, <1>2, <1>3, <1>4 DEF Next

\* A movement that ends neither by a command nor by a block has arrived with
\* both leaves.
THEOREM MovementsArrive == Spec => CompletedMovementArrives
  <1>1. Inv /\ [Next]_vars =>
          [ drive # "none" /\ drive' = "none" =>
              \/ command # "none"
              \/ Blocked(drive)
              \/ \A l \in Leaf : AtEnd(leaf'[l], drive) ]_vars
    BY MovementEnds
  <1> QED
    BY <1>1, Invariance, PTL DEF Spec, CompletedMovementArrives

\* Under the wind lock a forced open ends only at light barrier 1 or at the
\* end: no Stop, Close or impulse can be in the command slot.
THEOREM ForcedOpenArrives == Spec => ForcedOpenRunsToTheEnd
  <1>1. ASSUME Inv, [Next]_vars, wind_locked, drive = "opening", drive' = "none"
        PROVE  \/ barrier1_active /\ ~barrier_bypass
               \/ \A l \in Leaf : leaf'[l].position = MaxPos
    <2>1. command \in {"none", "Open"}
      BY <1>1 DEF Inv, LockOwnsSlot
    <2>2. \/ Blocked("opening")
          \/ \A l \in Leaf : AtEnd(leaf'[l], "opening")
      BY <1>1, <2>1, MovementEnds DEF CommandFor
    <2>3. CASE Blocked("opening")
      BY <2>3 DEF Blocked
    <2>4. CASE \A l \in Leaf : AtEnd(leaf'[l], "opening")
      <3>1. leaf' \in [Leaf -> LeafRecord]
        BY <1>1, GateTaskInv, ControlsInv, TickInv, StutterInv
        DEF Next, Inv, TypeOK
      <3>2. \A l \in Leaf : leaf'[l].position \in 0..MaxPos
        BY <3>1 DEF LeafRecord
      <3> QED
        BY <2>4, <3>2, MaxPosAssumption DEF AtEnd, Remaining
    <2> QED
      BY <2>2, <2>3, <2>4
  <1>2. Inv /\ [Next]_vars =>
          [ wind_locked /\ drive = "opening" /\ drive' = "none" =>
              \/ barrier1_active /\ ~barrier_bypass
              \/ \A l \in Leaf : leaf'[l].position = MaxPos ]_vars
    BY <1>1
  <1> QED
    BY <1>2, Invariance, PTL DEF Spec, ForcedOpenRunsToTheEnd

-----------------------------------------------------------------------------
(* A pass over a leaf, in detail.                                          *)

\* The four things a pass can do with a leaf: nothing, find that there is
\* nowhere to go, start it, or stop it.  A leaf is never started and stopped
\* in one pass, as every run has the overrun.
LEMMA PassCases ==
    ASSUME NEW l \in Leaf, NEW f \in LeafRecord, NEW d \in Direction,
           InMovement(l, f, d)
    PROVE  \/ /\ ~(f.phase \in {"waiting", "running"} /\ f.due = 0)
              /\ Pass(l, f, d) = f
           \/ /\ f.phase = "waiting" /\ f.due = 0 /\ AtEnd(f, d)
              /\ Pass(l, f, d) = [f EXCEPT !.phase = "done"]
           \/ /\ f.phase = "waiting" /\ f.due = 0 /\ ~AtEnd(f, d)
              /\ Pass(l, f, d) = [[f EXCEPT !.state = d, !.ran = 0]
                                    EXCEPT !.phase = "running",
                                           !.due = RunTime(l, f, d)]
           \/ /\ f.phase = "running" /\ f.due = 0
              /\ Pass(l, f, d) = [Settle(l, f) EXCEPT !.phase = "done"]
  <1>1. f.phase \in {"waiting", "running", "done"}
    BY FieldTypes
  <1>2. CASE ~(f.phase \in {"waiting", "running"} /\ f.due = 0)
    BY <1>2 DEF Pass, BeginRun, EndRun
  <1>3. CASE f.phase = "waiting" /\ f.due = 0 /\ AtEnd(f, d)
    <2>1. BeginRun(l, f, d) = [f EXCEPT !.phase = "done"]
      BY <1>3 DEF BeginRun
    <2>2. [f EXCEPT !.phase = "done"].phase = "done"
      BY DEF LeafRecord
    <2>3. EndRun(l, [f EXCEPT !.phase = "done"]) = [f EXCEPT !.phase = "done"]
      BY <2>2 DEF EndRun
    <2> QED
      BY <1>3, <2>1, <2>3 DEF Pass
  <1>4. CASE f.phase = "waiting" /\ f.due = 0 /\ ~AtEnd(f, d)
    <2> DEFINE rt == RunTime(l, f, d)
               g == [[f EXCEPT !.state = d, !.ran = 0]
                       EXCEPT !.phase = "running", !.due = rt]
    <2>1. Settle(l, f) = f
      BY <1>4, SettleLeaf DEF InMovement
    <2>2. BeginRun(l, f, d) = g
      BY <1>4, <2>1 DEF BeginRun, Start
    <2>3. rt # 0
      <3> DEFINE q == (Duration[l][d] * Remaining(f, d)) \div MaxPos
      <3>1. Duration[l][d] \in Nat /\ Remaining(f, d) \in Nat
        BY FullDurationType, RemainingType, FieldTypes, MaxPosAssumption
      <3>2. Duration[l][d] * Remaining(f, d) \in Nat
        BY <3>1
      <3>3. q \in Nat
        BY <3>2, DivIsNat, MaxPosAssumption
      <3>4. rt = q + EndStopOverrun
        BY DEF RunTime
      <3> HIDE DEF q, rt
      <3> QED
        BY <3>3, <3>4, OverrunAssumption, TimingAssumption
    <2> HIDE DEF rt
    <2>4. g.due = rt
      BY DEF LeafRecord
    <2>5. EndRun(l, g) = g
      BY <2>3, <2>4 DEF EndRun
    <2> QED
      BY <1>4, <2>2, <2>5 DEF Pass, rt
  <1>5. CASE f.phase = "running" /\ f.due = 0
    BY <1>5 DEF Pass, BeginRun, EndRun
  <1> QED
    BY <1>1, <1>2, <1>3, <1>4, <1>5

\* What a pass does to the fields of a leaf.
LEMMA PassFields ==
    ASSUME NEW l \in Leaf, NEW f \in LeafRecord, NEW d \in Direction,
           InMovement(l, f, d)
    PROVE  /\ f.phase = "done" => Pass(l, f, d) = f
           /\ Pass(l, f, d).phase = "waiting" =>
                Pass(l, f, d) = f /\ f.due # 0
           /\ Pass(l, f, d).phase = "running" =>
                \/ f.phase = "running" /\ Pass(l, f, d) = f
                \/ /\ f.phase = "waiting" /\ f.due = 0 /\ BeginsRun(f, d)
                   /\ Pass(l, f, d).ran = 0
           /\ Pass(l, f, d).phase # "done" =>
                Pass(l, f, d).position = f.position
           /\ Pass(l, f, d).rest \in {f.rest, ReversePause}
           /\ Left(l, Pass(l, f, d), d) = Left(l, f, d)
  <1> DEFINE g == Pass(l, f, d)
  <1>1. f.phase \in {"waiting", "running", "done"} /\ f.rest \in Nat
    BY FieldTypes
  <1>2. CASE ~(f.phase \in {"waiting", "running"} /\ f.due = 0) /\ g = f
    <2> HIDE DEF g
    <2>1. g.phase = "running" => f.phase = "running" /\ g = f
      BY <1>2
    <2>2. g.phase = "waiting" => f.due # 0
      BY <1>2
    <2> QED
      BY <1>2, <2>1, <2>2 DEF g
  <1>3. CASE f.phase = "waiting" /\ f.due = 0 /\ AtEnd(f, d)
             /\ g = [f EXCEPT !.phase = "done"]
    <2> HIDE DEF g
    <2>1. /\ g \in LeafRecord /\ g.phase = "done" /\ g.rest = f.rest
          /\ g.position = f.position /\ g.state = f.state /\ g.ran = f.ran
      BY <1>3 DEF LeafRecord
    <2>2. Left(l, g, d) = Left(l, f, d)
      BY <2>1 DEF Left, Estimate
    <2> QED
      BY <1>3, <2>1, <2>2 DEF g
  <1>4. CASE f.phase = "waiting" /\ f.due = 0 /\ ~AtEnd(f, d)
             /\ g = [[f EXCEPT !.state = d, !.ran = 0]
                       EXCEPT !.phase = "running", !.due = RunTime(l, f, d)]
    <2> DEFINE rt == RunTime(l, f, d)
    <2>1. rt \in Nat
      BY FieldTypes, RunTimeType
    <2>2. g = [[f EXCEPT !.state = d, !.ran = 0]
                 EXCEPT !.phase = "running", !.due = rt]
      BY <1>4
    <2> HIDE DEF g, rt
    <2>3. /\ g \in LeafRecord /\ g.phase = "running" /\ g.rest = f.rest
          /\ g.position = f.position /\ g.state = d /\ g.ran = 0
      BY <2>1, <2>2 DEF LeafRecord
    <2>4. BeginsRun(f, d)
      BY <1>4 DEF BeginsRun
    <2>5. Left(l, g, d) = Left(l, f, d)
      <3>1. f.state = "idle"
        BY <1>4 DEF InMovement
      <3>2. Travelled(l, 0, d) = 0
        <4>1. FullDuration(l, d) \in Nat \ {0}
          BY FullDurationType
        <4>2. 0 \div FullDuration(l, d) = 0
          BY <4>1, SMT
        <4>3. 0 * MaxPos = 0
          BY MaxPosAssumption
        <4> QED
          BY <4>2, <4>3, MaxPosAssumption DEF Travelled, Lesser
      <3>3. Remaining(g, d) = Remaining(f, d) /\ Remaining(f, d) \in 0..MaxPos
        BY <2>3, RemainingType, FieldTypes DEF Remaining
      <3>4. Left(l, g, d) = Greater(Remaining(g, d) - 0, 0)
        BY <2>3, <3>2, LeftValue
      <3>5. Left(l, f, d) = Remaining(f, d)
        BY <3>1, LeftValue
      <3> QED
        BY <3>3, <3>4, <3>5, MaxPosAssumption DEF Greater
    <2> QED
      BY <1>4, <2>3, <2>4, <2>5 DEF g
  <1>5. CASE f.phase = "running" /\ f.due = 0
             /\ g = [Settle(l, f) EXCEPT !.phase = "done"]
    <2> DEFINE s == Settle(l, f)
    <2>1. s \in LeafRecord
      BY SettleLeaf
    <2>2. s.rest \in {f.rest, ReversePause}
      BY TimingAssumption DEF Settle, LeafRecord
    <2>3. Left(l, s, d) = Left(l, f, d)
      BY SettleKeepsLeft
    <2>4. g = [s EXCEPT !.phase = "done"]
      BY <1>5
    <2> HIDE DEF g, s
    <2>5. /\ g.phase = "done" /\ g.rest = s.rest
          /\ g.position = s.position /\ g.state = s.state /\ g.ran = s.ran
      BY <2>1, <2>4 DEF LeafRecord
    <2>6. Left(l, g, d) = Left(l, s, d)
      BY <2>5 DEF Left, Estimate
    <2> QED
      BY <1>5, <2>2, <2>3, <2>5, <2>6 DEF g
  <1> QED
    BY <1>2, <1>3, <1>4, <1>5, PassCases

-----------------------------------------------------------------------------
(* A movement makes progress, and what it has to do with the bypass.       *)

\* While the gate opens it is not as far closed as it was, and the other way
\* round: a gate that was not closed when it began to open has a leaf that is
\* not, and likewise at the open end.
Travel ==
    /\ drive = "opening" /\ position # "closed"
         => \E l \in Leaf : leaf[l].position # 0
    /\ drive = "closing" /\ position # "open"
         => \E l \in Leaf : leaf[l].position # MaxPos

\* drive() remembers that it has energized a motor.
MovedIfOn == (\E l \in Leaf : leaf[l].state # "idle") => moved

-----------------------------------------------------------------------------
(* The order of the leaves.                                                *)

\* In a movement towards d the leaf that goes first, f, stays ahead of the
\* other, g: it starts no later, began no further from the end, has been on
\* for no less time (or long enough), and has no more left to travel.
Ahead(f, g, d) ==
    /\ g.phase = "running" => f.phase # "waiting"
    /\ f.phase = "waiting" /\ g.phase = "waiting" => f.due <= g.due
    /\ f.phase # "done" /\ g.phase # "done" => Remaining(f, d) <= Remaining(g, d)
    /\ f.phase = "running" /\ g.phase = "running"
         => f.ran >= g.ran \/ f.ran >= FullDuration(First(d), d)
    /\ Left(First(d), f, d) <= Left(Second(d), g, d)

\* The two leaves of a movement.
LEMMA FirstAndSecond ==
    ASSUME NEW d \in Direction
    PROVE  /\ First(d) \in Leaf /\ Second(d) \in Leaf
           /\ Leaf = {First(d), Second(d)}
           /\ Duration[First(d)][d] <= Duration[Second(d)][d]
           /\ InitialDelay[First(d)][d] <= InitialDelay[Second(d)][d]
           /\ ReversePause <= InitialDelay[Second(d)][d]
           /\ InitialDelay[First(d)][d] \in Nat
           /\ InitialDelay[Second(d)][d] \in Nat
  <1>1. First(d) \in Leaf /\ Second(d) \in Leaf /\ Leaf = {First(d), Second(d)}
    BY DEF First, Second, Leaf, Direction
  <1> QED
    BY <1>1, HeadStartAssumption, TimingAssumption

\* What plan() does to the fields of a leaf.
LEMMA PlanFields ==
    ASSUME NEW l \in Leaf, NEW f \in LeafRecord, NEW d \in Direction, Parked(f)
    PROVE  /\ Plan(l, f, d) \in LeafRecord
           /\ Plan(l, f, d).position = f.position
           /\ Plan(l, f, d).state = "idle"
           /\ Plan(l, f, d).rest = f.rest
           /\ Left(l, Plan(l, f, d), d) = Left(l, f, d)
           /\ AtEnd(f, d) => Plan(l, f, d).phase = "done"
           /\ ~AtEnd(f, d) => /\ Plan(l, f, d).phase = "waiting"
                              /\ Plan(l, f, d).due = StartDelay(l, f, d)
  <1> DEFINE g == Plan(l, f, d)
             w == StartDelay(l, f, d)
  <1>1. f.rest \in Nat /\ InitialDelay[l][d] \in Nat
    BY FieldTypes, TimingAssumption
  <1>2. w \in Nat
    BY <1>1 DEF StartDelay, Greater
  <1>3. g = IF AtEnd(f, d) THEN [f EXCEPT !.phase = "done", !.due = 0]
            ELSE [f EXCEPT !.phase = "waiting", !.due = w]
    BY DEF Plan
  <1> HIDE DEF g, w
  <1>4. /\ g \in LeafRecord /\ g.position = f.position /\ g.state = f.state
        /\ g.rest = f.rest /\ g.ran = f.ran
        /\ AtEnd(f, d) => g.phase = "done"
        /\ ~AtEnd(f, d) => g.phase = "waiting" /\ g.due = w
    BY <1>2, <1>3 DEF LeafRecord
  <1>5. Left(l, g, d) = Left(l, f, d)
    BY <1>4 DEF Left, Estimate
  <1> QED
    BY <1>4, <1>5 DEF g, w, Parked

\* plan() gives the first leaf its head start, whatever pause it still has.
LEMMA PlanAhead ==
    ASSUME NEW d \in Direction, NEW f \in LeafRecord, NEW g \in LeafRecord,
           Parked(f), Parked(g), f.rest <= ReversePause,
           Left(First(d), f, d) <= Left(Second(d), g, d)
    PROVE  Ahead(Plan(First(d), f, d), Plan(Second(d), g, d), d)
  <1> DEFINE F == Plan(First(d), f, d)
             G == Plan(Second(d), g, d)
  <1>1. First(d) \in Leaf /\ Second(d) \in Leaf
    BY FirstAndSecond
  <1>2. /\ F.position = f.position /\ F.phase \in {"waiting", "done"}
        /\ Left(First(d), F, d) = Left(First(d), f, d)
        /\ F.phase = "waiting" => F.due = StartDelay(First(d), f, d)
    BY <1>1, PlanFields
  <1>3. /\ G.position = g.position /\ G.phase \in {"waiting", "done"}
        /\ Left(Second(d), G, d) = Left(Second(d), g, d)
        /\ G.phase = "waiting" => G.due = StartDelay(Second(d), g, d)
    BY <1>1, PlanFields
  <1>4. StartDelay(First(d), f, d) <= StartDelay(Second(d), g, d)
    <2>1. f.rest \in Nat /\ g.rest \in Nat /\ ReversePause \in Nat
      BY FieldTypes, TimingAssumption
    <2> QED
      BY <2>1, FirstAndSecond DEF StartDelay, Greater
  <1>5. Remaining(f, d) <= Remaining(g, d)
    <2>1. Left(First(d), f, d) = Remaining(f, d)
          /\ Left(Second(d), g, d) = Remaining(g, d)
      BY <1>1, LeftValue DEF Parked
    <2> QED
      BY <2>1
  <1>6. Remaining(F, d) = Remaining(f, d) /\ Remaining(G, d) = Remaining(g, d)
    BY <1>2, <1>3 DEF Remaining
  <1> HIDE DEF F, G
  <1>7. Ahead(F, G, d)
    BY <1>2, <1>3, <1>4, <1>5, <1>6 DEF Ahead
  <1> QED
    BY <1>7 DEF F, G

\* A pass over both leaves keeps the first one ahead.
LEMMA PassAhead ==
    ASSUME NEW d \in Direction, NEW f \in LeafRecord, NEW g \in LeafRecord,
           InMovement(First(d), f, d), InMovement(Second(d), g, d),
           Ahead(f, g, d)
    PROVE  Ahead(Pass(First(d), f, d), Pass(Second(d), g, d), d)
  <1> DEFINE F == Pass(First(d), f, d)
             G == Pass(Second(d), g, d)
  <1>1. First(d) \in Leaf /\ Second(d) \in Leaf
    BY FirstAndSecond
  <1>2. F \in LeafRecord /\ G \in LeafRecord
    BY <1>1, PassLeaf
  <1>3. /\ f.phase = "done" => F = f
        /\ F.phase = "waiting" => F = f /\ f.due # 0
        /\ F.phase = "running" => \/ f.phase = "running" /\ F = f
                                  \/ f.phase = "waiting" /\ F.ran = 0
        /\ F.phase # "done" => F.position = f.position
        /\ Left(First(d), F, d) = Left(First(d), f, d)
    BY <1>1, PassFields
  <1>4. /\ g.phase = "done" => G = g
        /\ G.phase = "waiting" => G = g
        /\ G.phase = "running" =>
             \/ g.phase = "running" /\ G = g
             \/ g.phase = "waiting" /\ g.due = 0 /\ G.ran = 0
        /\ G.phase # "done" => G.position = g.position
        /\ Left(Second(d), G, d) = Left(Second(d), g, d)
    BY <1>1, PassFields
  <1> HIDE DEF F, G
  <1>5. /\ f.due \in Nat /\ g.due \in Nat /\ f.ran \in Nat /\ g.ran \in Nat
        /\ F.ran \in Nat /\ G.ran \in Nat
        /\ f.phase \in {"waiting", "running", "done"}
        /\ F.phase \in {"waiting", "running", "done"}
        /\ G.phase \in {"waiting", "running", "done"}
    BY <1>2, FieldTypes
  <1>6. G.phase = "running" => F.phase # "waiting"
    BY <1>3, <1>4, <1>5 DEF Ahead
  <1>7. F.phase = "waiting" /\ G.phase = "waiting" => F.due <= G.due
    BY <1>3, <1>4 DEF Ahead
  <1>8. F.phase # "done" /\ G.phase # "done" =>
          Remaining(F, d) <= Remaining(G, d)
    BY <1>3, <1>4, <1>5 DEF Ahead, Remaining
  <1>9. F.phase = "running" /\ G.phase = "running" =>
          F.ran >= G.ran \/ F.ran >= FullDuration(First(d), d)
    BY <1>3, <1>4, <1>5 DEF Ahead
  <1>10. Left(First(d), F, d) <= Left(Second(d), G, d)
    BY <1>3, <1>4 DEF Ahead
  <1>11. Ahead(F, G, d)
    BY <1>6, <1>7, <1>8, <1>9, <1>10 DEF Ahead
  <1> QED
    BY <1>11 DEF F, G

\* What time does to the fields of a leaf.
LEMMA ElapseFields ==
    ASSUME NEW l \in Leaf, NEW f \in LeafRecord
    PROVE  /\ Elapse(l, f) \in LeafRecord
           /\ Elapse(l, f).position = f.position
           /\ Elapse(l, f).state = f.state
           /\ Elapse(l, f).phase = f.phase
           /\ Elapse(l, f).due = Greater(f.due - 1, 0)
           /\ Elapse(l, f).rest = Greater(f.rest - 1, 0)
           /\ f.state \in Direction =>
                Elapse(l, f).ran = Lesser(f.ran + 1, FullDuration(l, f.state))
  <1> DEFINE r == IF f.state = "idle" THEN 0
                  ELSE Lesser(f.ran + 1, FullDuration(l, f.state))
             p == Greater(f.rest - 1, 0)
             w == Greater(f.due - 1, 0)
  <1>1. Elapse(l, f) \in LeafRecord
    BY ElapseLeaf
  <1>2. Elapse(l, f) = [f EXCEPT !.ran = r, !.rest = p, !.due = w]
    BY DEF Elapse
  <1>3. f.state \in Direction =>
          r = Lesser(f.ran + 1, FullDuration(l, f.state))
    BY DEF Direction
  <1> HIDE DEF r, p, w
  <1>4. /\ Elapse(l, f).position = f.position /\ Elapse(l, f).state = f.state
        /\ Elapse(l, f).phase = f.phase /\ Elapse(l, f).ran = r
        /\ Elapse(l, f).rest = p /\ Elapse(l, f).due = w
    BY <1>2 DEF LeafRecord
  <1> QED
    BY <1>1, <1>3, <1>4 DEF p, w

\* What a leaf has left only shrinks while it runs, and stays while it rests.
LEMMA ElapseLeft ==
    ASSUME NEW l \in Leaf, NEW f \in LeafRecord, NEW d \in Direction,
           f.state \in {"idle", d}
    PROVE  /\ Left(l, Elapse(l, f), d) <= Left(l, f, d)
           /\ f.state = "idle" => Left(l, Elapse(l, f), d) = Left(l, f, d)
  <1> DEFINE g == Elapse(l, f)
  <1>1. /\ g \in LeafRecord /\ g.position = f.position /\ g.state = f.state
        /\ f.state \in Direction =>
             g.ran = Lesser(f.ran + 1, FullDuration(l, f.state))
    BY ElapseFields
  <1> HIDE DEF g
  <1>2. Remaining(g, d) = Remaining(f, d) /\ Remaining(f, d) \in 0..MaxPos
    BY <1>1, RemainingType, FieldTypes DEF Remaining
  <1>3. CASE f.state = "idle"
    <2>1. Left(l, g, d) = Remaining(g, d) /\ Left(l, f, d) = Remaining(f, d)
      BY <1>1, <1>3, LeftValue
    <2> QED
      BY <1>2, <2>1, MaxPosAssumption DEF g
  <1>4. CASE f.state = d
    <2>1. /\ Left(l, g, d) = Greater(Remaining(g, d) - Travelled(l, g.ran, d), 0)
          /\ Left(l, f, d) = Greater(Remaining(f, d) - Travelled(l, f.ran, d), 0)
      BY <1>1, <1>4, LeftValue
    <2>2. f.ran \in Nat /\ g.ran \in Nat /\ FullDuration(l, d) \in Nat
          /\ Duration[l][d] \in Nat
      BY <1>1, FieldTypes, FullDurationType
    <2>3. Travelled(l, f.ran, d) \in 0..MaxPos
          /\ Travelled(l, g.ran, d) \in 0..MaxPos
      BY <2>2, TravelledType
    <2>4. g.ran >= f.ran \/ g.ran >= FullDuration(l, d)
      BY <1>1, <1>4, <2>2 DEF Lesser
    <2>5. Travelled(l, f.ran, d) <= Travelled(l, g.ran, d)
      <3>1. CASE g.ran >= f.ran
        BY <2>2, <3>1, TravelledMonotone
      <3>2. CASE g.ran >= FullDuration(l, d)
        BY <2>2, <2>3, <3>2, TravelledFull, MaxPosAssumption
      <3> QED
        BY <2>4, <3>1, <3>2
    <2>6. d # "idle"
      BY DEF Direction
    <2> QED
      BY <1>2, <1>4, <2>1, <2>3, <2>5, <2>6, MaxPosAssumption DEF Greater, g
  <1> QED
    BY <1>3, <1>4

\* Time keeps the first leaf ahead.
LEMMA ElapseAhead ==
    ASSUME NEW d \in Direction, NEW f \in LeafRecord, NEW g \in LeafRecord,
           InMovement(First(d), f, d), InMovement(Second(d), g, d),
           Ahead(f, g, d)
    PROVE  Ahead(Elapse(First(d), f), Elapse(Second(d), g), d)
  <1> DEFINE F == Elapse(First(d), f)
             G == Elapse(Second(d), g)
             p == First(d)
             q == Second(d)
  <1>1. p \in Leaf /\ q \in Leaf /\ Duration[p][d] <= Duration[q][d]
    BY FirstAndSecond
  <1>2. /\ F \in LeafRecord /\ F.position = f.position /\ F.phase = f.phase
        /\ F.state = f.state /\ F.due = Greater(f.due - 1, 0)
        /\ f.state = d => F.ran = Lesser(f.ran + 1, FullDuration(p, d))
    BY <1>1, ElapseFields
  <1>3. /\ G \in LeafRecord /\ G.position = g.position /\ G.phase = g.phase
        /\ G.state = g.state /\ G.due = Greater(g.due - 1, 0)
        /\ g.state = d => G.ran = Lesser(g.ran + 1, FullDuration(q, d))
    BY <1>1, ElapseFields
  <1>4. /\ f.phase \in {"waiting", "running", "done"}
        /\ g.phase \in {"waiting", "running", "done"}
        /\ f.phase = "running" => f.state = d
        /\ f.phase # "running" => f.state = "idle"
        /\ g.phase = "running" => g.state = d
        /\ g.phase # "running" => g.state = "idle"
    BY FieldTypes DEF InMovement
  <1>5. /\ Left(p, F, d) <= Left(p, f, d)
        /\ f.state = "idle" => Left(p, F, d) = Left(p, f, d)
        /\ g.state = "idle" => Left(q, G, d) = Left(q, g, d)
    BY <1>1, <1>4, ElapseLeft
  <1>6. /\ Left(p, F, d) \in 0..MaxPos /\ Left(p, f, d) \in 0..MaxPos
        /\ Left(q, G, d) \in 0..MaxPos /\ Left(q, g, d) \in 0..MaxPos
    BY <1>1, <1>2, <1>3, LeftValue
  <1>7. /\ f.ran \in Nat /\ g.ran \in Nat /\ F.ran \in Nat /\ G.ran \in Nat
        /\ f.due \in Nat /\ g.due \in Nat
        /\ FullDuration(p, d) \in Nat /\ FullDuration(q, d) \in Nat
    BY <1>1, <1>2, <1>3, FieldTypes, FullDurationType
  <1>8. Remaining(F, d) = Remaining(f, d) /\ Remaining(G, d) = Remaining(g, d)
    BY <1>2, <1>3 DEF Remaining
  <1> HIDE DEF F, G, p, q
  <1>9. F.phase = "running" /\ G.phase = "running" =>
          F.ran >= G.ran \/ F.ran >= FullDuration(p, d)
    BY <1>2, <1>3, <1>4, <1>7 DEF Ahead, Lesser, p
  <1>10. Left(p, F, d) <= Left(q, G, d)
    <2>1. Left(p, f, d) <= Left(q, g, d)
      BY DEF Ahead, p, q
    <2>2. CASE g.phase # "running"
      BY <1>4, <1>5, <1>6, <2>1, <2>2
    <2>3. CASE g.phase = "running" /\ f.phase = "done"
      <3>1. Left(p, F, d) = Remaining(f, d)
        BY <1>1, <1>2, <1>4, <1>8, <2>3, LeftValue
      <3>2. Remaining(f, d) = 0
        BY <2>3 DEF InMovement, AtEnd, p
      <3> QED
        BY <1>6, <3>1, <3>2
    <2>4. CASE g.phase = "running" /\ f.phase = "running"
      <3>1. Remaining(f, d) <= Remaining(g, d)
        BY <2>4 DEF Ahead
      <3>2. /\ Left(p, F, d) = Greater(Remaining(f, d) - Travelled(p, F.ran, d), 0)
            /\ Left(q, G, d) = Greater(Remaining(g, d) - Travelled(q, G.ran, d), 0)
        BY <1>1, <1>2, <1>3, <1>4, <1>8, <2>4, LeftValue
      <3>3. Travelled(p, F.ran, d) \in 0..MaxPos
            /\ Travelled(q, G.ran, d) \in 0..MaxPos
        BY <1>1, <1>7, TravelledType
      <3>4. Travelled(q, G.ran, d) <= Travelled(p, F.ran, d)
        <4>1. CASE F.ran >= G.ran
          BY <1>1, <1>7, <4>1, TravelledMonotone
        <4>2. CASE F.ran >= FullDuration(p, d)
          BY <1>1, <1>7, <3>3, <4>2, TravelledFull, MaxPosAssumption
        <4> QED
          BY <1>2, <1>3, <1>9, <2>4, <4>1, <4>2
      <3>5. Remaining(f, d) \in 0..MaxPos /\ Remaining(g, d) \in 0..MaxPos
        BY RemainingType, FieldTypes
      <3> QED
        BY <3>1, <3>2, <3>3, <3>4, <3>5, MaxPosAssumption DEF Greater
    <2>5. ~(g.phase = "running" /\ f.phase = "waiting")
      BY DEF Ahead
    <2> QED
      BY <1>4, <2>2, <2>3, <2>4, <2>5
  <1>11. F.phase = "waiting" /\ G.phase = "waiting" => F.due <= G.due
    BY <1>2, <1>3, <1>7 DEF Ahead, Greater
  <1>12. Ahead(F, G, d)
    BY <1>2, <1>3, <1>8, <1>9, <1>10, <1>11 DEF Ahead, p, q
  <1> QED
    BY <1>12 DEF F, G

\* The leaves are in order.
InOrder(fs) == Estimate("A", fs["A"]) >= Estimate("B", fs["B"])

\* The invariant of the order: no pause is longer than the reverse pause, the
\* leaves are in order, and in a movement the first leaf is ahead.
Order ==
    /\ \A l \in Leaf : leaf[l].rest <= ReversePause
    /\ LeafOrder
    /\ drive # "none" => Ahead(leaf[First(drive)], leaf[Second(drive)], drive)

\* In either direction: the leaves are in order when the one that goes first
\* has no more left to travel than the other.
LEMMA InOrderLeft ==
    ASSUME NEW fs \in [Leaf -> LeafRecord], NEW d \in Direction
    PROVE  InOrder(fs) <=> Left(First(d), fs[First(d)], d)
                             <= Left(Second(d), fs[Second(d)], d)
  <1>1. fs["A"] \in LeafRecord /\ fs["B"] \in LeafRecord
    BY DEF Leaf
  <1> QED
    BY <1>1, LeftOrder DEF InOrder, First, Second

\* Stopping the leaves keeps their order.
LEMMA StoppedOrder ==
    ASSUME NEW fs \in [Leaf -> LeafRecord], InOrder(fs),
           \A l \in Leaf : fs[l].rest <= ReversePause
    PROVE  /\ InOrder(Stopped(fs))
           /\ \A l \in Leaf : Stopped(fs)[l].rest <= ReversePause
  <1>1. ASSUME NEW l \in Leaf
        PROVE  /\ Left(l, Stopped(fs)[l], "opening") = Left(l, fs[l], "opening")
               /\ Stopped(fs)[l].rest <= ReversePause
    <2> DEFINE s == Settle(l, fs[l])
               g == Stopped(fs)[l]
    <2>1. fs[l] \in LeafRecord /\ fs[l].rest <= ReversePause
      OBVIOUS
    <2>2. s \in LeafRecord /\ Left(l, s, "opening") = Left(l, fs[l], "opening")
      BY <2>1, SettleLeaf, SettleKeepsLeft
    <2>3. s.rest <= ReversePause
      BY <2>1, TimingAssumption DEF Settle, LeafRecord
    <2>4. g = [s EXCEPT !.phase = "done", !.due = 0]
      BY DEF Stopped
    <2> HIDE DEF s, g
    <2>5. /\ g.rest = s.rest /\ g.position = s.position /\ g.state = s.state
          /\ g.ran = s.ran
      BY <2>2, <2>4 DEF LeafRecord
    <2>6. Left(l, g, "opening") = Left(l, s, "opening")
      BY <2>5 DEF Left, Estimate
    <2> QED
      BY <2>2, <2>3, <2>5, <2>6 DEF g
  <1>2. Stopped(fs) \in [Leaf -> LeafRecord]
    BY StoppedLeaf
  <1>3. "opening" \in Direction /\ First("opening") \in Leaf
        /\ Second("opening") \in Leaf
    BY DEF Direction, First, Second, Leaf
  <1> QED
    BY <1>1, <1>2, <1>3, InOrderLeft

\* The end of a movement keeps the order.
LEMMA EndDriveOrder ==
    ASSUME NEW fs \in [Leaf -> LeafRecord], InOrder(fs),
           \A l \in Leaf : fs[l].rest <= ReversePause,
           NEW mv \in BOOLEAN, NEW next, EndDrive(fs, mv, next)
    PROVE  Order'
  <1>1. leaf' = Stopped(fs) /\ drive' = "none"
    BY DEF EndDrive, SettleGate
  <1>2. InOrder(leaf') /\ \A l \in Leaf : leaf'[l].rest <= ReversePause
    BY <1>1, StoppedOrder
  <1> QED
    BY <1>1, <1>2 DEF Order, LeafOrder, InOrder

\* So does every iteration of drive()'s loop.
LEMMA LoopPassOrder ==
    ASSUME NEW d \in Direction, NEW fs \in [Leaf -> LeafRecord],
           \A l \in Leaf : InMovement(l, fs[l], d),
           \A l \in Leaf : fs[l].rest <= ReversePause,
           Ahead(fs[First(d)], fs[Second(d)], d),
           NEW mv \in BOOLEAN, NEW said, LoopPass(d, fs, mv, said)
    PROVE  Order'
  <1> DEFINE passed == [l \in Leaf |-> Pass(l, fs[l], d)]
             runs == mv \/ \E l \in Leaf : BeginsRun(fs[l], d)
  <1>1. First(d) \in Leaf /\ Second(d) \in Leaf
    BY FirstAndSecond
  <1>2. /\ passed \in [Leaf -> LeafRecord]
        /\ \A l \in Leaf : passed[l].rest <= ReversePause
    <2>1. ASSUME NEW l \in Leaf PROVE Pass(l, fs[l], d).rest <= ReversePause
      <3>1. fs[l] \in LeafRecord /\ InMovement(l, fs[l], d)
            /\ fs[l].rest <= ReversePause
        OBVIOUS
      <3>2. Pass(l, fs[l], d).rest \in {fs[l].rest, ReversePause}
        BY <3>1, PassFields
      <3> QED
        BY <3>1, <3>2, TimingAssumption
    <2> QED
      BY <2>1, PassLeaf
  <1>3. Ahead(passed[First(d)], passed[Second(d)], d)
    BY <1>1, PassAhead
  <1>4. InOrder(fs) /\ InOrder(passed)
    BY <1>2, <1>3, InOrderLeft DEF Ahead
  <1>5. \/ EndDrive(fs, mv, "none")
        \/ EndDrive(passed, runs, "none")
        \/ leaf' = passed /\ drive' = d
    BY DEF LoopPass
  <1> HIDE DEF passed, runs
  <1>6. CASE leaf' = passed /\ drive' = d
    BY <1>2, <1>3, <1>4, <1>6 DEF Order, LeafOrder, InOrder
  <1>7. runs \in BOOLEAN
    BY DEF runs
  <1> QED
    BY <1>2, <1>4, <1>5, <1>6, <1>7, EndDriveOrder

\* A gate at rest that stays at rest with its leaves keeps the order.
LEMMA RestOrder ==
    ASSUME Order, leaf' = leaf, drive' \in {drive, "none"}
    PROVE  Order'
  BY DEF Order, LeafOrder

\* Every step of the gate task keeps the order.
LEMMA GateTaskOrder ==
    ASSUME Inv, Order, GateTask
    PROVE  Order'
  <1>1. leaf \in [Leaf -> LeafRecord] /\ drive \in SlotOf(Direction)
        /\ InOrder(leaf) /\ \A l \in Leaf : leaf[l].rest <= ReversePause
    BY DEF Inv, TypeOK, Order, LeafOrder, InOrder
  <1>2. ASSUME drive = "none", NEW d \in Direction, StartDrive(d) PROVE Order'
    <2>1. \A l \in Leaf : Parked(leaf[l])
      BY <1>2 DEF Inv, Leaves
    <2> DEFINE fs == [l \in Leaf |-> Plan(l, leaf[l], d)]
    <2>2. /\ fs \in [Leaf -> LeafRecord]
          /\ \A l \in Leaf : InMovement(l, fs[l], d)
          /\ \A l \in Leaf : fs[l].rest <= ReversePause
      BY <1>1, <2>1, PlanLeaf, PlanFields
    <2>3. First(d) \in Leaf /\ Second(d) \in Leaf
      BY FirstAndSecond
    <2>4. Ahead(fs[First(d)], fs[Second(d)], d)
      BY <1>1, <2>1, <2>3, PlanAhead, InOrderLeft
    <2>5. \/ SettleGate(leaf, barrier_bypass)
          \/ LoopPass(d, fs, FALSE,
                      Report(d, position, wind_locked, barrier_bypass))
      BY <1>2 DEF StartDrive
    <2>6. CASE SettleGate(leaf, barrier_bypass)
      BY <2>6, RestOrder DEF SettleGate
    <2> HIDE DEF fs
    <2> QED
      BY <2>2, <2>4, <2>5, <2>6, LoopPassOrder
  <1>3. ASSUME drive = "none", NEW c, Execute(c) PROVE Order'
    BY <1>1, <1>2, <1>3, EndDriveOrder DEF Execute, Direction
  <1>4. ASSUME drive # "none", NEW said, LoopPass(drive, leaf, moved, said)
        PROVE  Order'
    <2>1. /\ drive \in Direction
          /\ \A l \in Leaf : InMovement(l, leaf[l], drive)
          /\ Ahead(leaf[First(drive)], leaf[Second(drive)], drive)
      BY <1>1, <1>4 DEF Inv, Leaves, Order, SlotOf
    <2>2. moved \in BOOLEAN
      BY DEF Inv, TypeOK
    <2> QED
      BY <1>1, <1>4, <2>1, <2>2, LoopPassOrder
  <1>5. CASE StepPending \/ StepCommand
    BY <1>3, <1>5 DEF StepPending, StepCommand
  <1>6. CASE StepReset
    BY <1>6, RestOrder DEF StepReset, SettleGate
  <1>7. CASE DriveStop \/ DriveReverse
    BY <1>1, <1>7, EndDriveOrder DEF DriveStop, DriveReverse, Inv, TypeOK
  <1>8. CASE DriveTimer \/ DriveSameCommand \/ DriveBarrierChanged
             \/ DriveWindLockReset
    BY <1>4, <1>8 DEF DriveTimer, DriveSameCommand, DriveBarrierChanged,
                      DriveWindLockReset
  <1> QED
    BY <1>5, <1>6, <1>7, <1>8 DEF GateTask

\* Time keeps the order.
LEMMA TickOrder ==
    ASSUME Inv, Order, Tick
    PROVE  Order'
  <1>1. /\ leaf \in [Leaf -> LeafRecord] /\ drive \in SlotOf(Direction)
        /\ InOrder(leaf) /\ \A l \in Leaf : leaf[l].rest <= ReversePause
        /\ leaf' = [l \in Leaf |-> Elapse(l, leaf[l])] /\ drive' = drive
    BY DEF Inv, TypeOK, Order, LeafOrder, InOrder, Tick
  <1>2. leaf' \in [Leaf -> LeafRecord]
    BY <1>1, ElapseFields
  <1>3. \A l \in Leaf : leaf'[l].rest <= ReversePause
    <2>1. ASSUME NEW l \in Leaf PROVE Elapse(l, leaf[l]).rest <= ReversePause
      <3>1. leaf[l].rest \in Nat /\ leaf[l].rest <= ReversePause
        BY <1>1, FieldTypes
      <3> QED
        BY <1>1, <3>1, ElapseFields, TimingAssumption DEF Greater
    <2> QED
      BY <1>1, <2>1
  <1>4. CASE drive = "none"
    <2>1. \A l \in Leaf : leaf[l].state = "idle"
      BY <1>4 DEF Inv, Leaves, Parked
    <2>2. "opening" \in Direction /\ First("opening") \in Leaf
          /\ Second("opening") \in Leaf
      BY DEF Direction, First, Second, Leaf
    <2>3. \A l \in Leaf :
            Left(l, leaf'[l], "opening") = Left(l, leaf[l], "opening")
      BY <1>1, <2>1, <2>2, ElapseLeft
    <2>4. InOrder(leaf')
      BY <1>1, <1>2, <2>2, <2>3, InOrderLeft
    <2> QED
      BY <1>1, <1>3, <1>4, <2>4 DEF Order, LeafOrder, InOrder
  <1>5. CASE drive # "none"
    <2>1. drive \in Direction /\ First(drive) \in Leaf /\ Second(drive) \in Leaf
      BY <1>1, <1>5, FirstAndSecond DEF SlotOf
    <2>2. Ahead(leaf'[First(drive)], leaf'[Second(drive)], drive)
      BY <1>1, <1>5, <2>1, ElapseAhead DEF Inv, Leaves, Order
    <2>3. InOrder(leaf')
      BY <1>2, <2>1, <2>2, InOrderLeft DEF Ahead
    <2> QED
      BY <1>1, <1>3, <2>2, <2>3 DEF Order, LeafOrder, InOrder
  <1> QED
    BY <1>4, <1>5

\* The methods of Controls do not touch the gate task's own variables.
LEMMA ControlsKeepTask ==
    ASSUME ControlsInput
    PROVE  UNCHANGED <<pending, drive, moved, leaf, current_direction,
                       last_direction, position>>
  BY DEF ControlsInput, Open, Close, Stop, Impulse, NormalInput, WindTrigger,
         ResetWindLock, Barrier1Set, Barrier2Set, SetBarrierBypass, task

\* A snapshot in order is restored in order.
LEMMA InitOrder ==
    ASSUME Init
    PROVE  Order
  <1>1. PICK s \in OrderedSnapshot : Boot(s)
    BY DEF Init
  <1>2. s.a \in 0..MaxPos /\ s.b \in 0..MaxPos /\ s.a >= s.b
    BY DEF OrderedSnapshot, Snapshot
  <1>3. /\ leaf["A"] = NewLeaf(s.a) /\ leaf["B"] = NewLeaf(s.b)
        /\ drive = "none"
        /\ \A l \in Leaf : leaf[l].rest = 0
    BY <1>1 DEF Boot, RestoredLeaf, Leaf, NewLeaf
  <1>4. Estimate("A", leaf["A"]) = s.a /\ Estimate("B", leaf["B"]) = s.b
    BY <1>3 DEF Estimate, NewLeaf
  <1> QED
    BY <1>2, <1>3, <1>4, TimingAssumption, SMT DEF Order, LeafOrder

\* The order is invariant together with the invariant of the movements.
LEMMA NextOrder ==
    ASSUME Inv, Order, [Next]_vars
    PROVE  Order'
  <1>1. CASE ControlsInput
    BY <1>1, ControlsKeepTask, RestOrder
  <1>2. CASE UNCHANGED vars
    BY <1>2, RestOrder DEF vars, task
  <1> QED
    BY <1>1, <1>2, GateTaskOrder, TickOrder DEF Next

\* Leaf B is never further open than leaf A, whatever interrupts a movement.
THEOREM LeavesKeepOrder == Spec => []LeafOrder
  <1>1. Init => Order
    BY InitOrder
  <1>2. Order => LeafOrder
    BY DEF Order
  <1> QED
    BY <1>1, <1>2, NextOrder, Invariance, PTL DEF Spec

-----------------------------------------------------------------------------
(* What a step of the gate task looks like from outside.                   *)

\* A pass leaves no leaf with more to travel than it had.
LEMMA PassProgress ==
    ASSUME NEW l \in Leaf, NEW f \in LeafRecord, NEW d \in Direction,
           InMovement(l, f, d)
    PROVE  Remaining(Pass(l, f, d), d) <= Remaining(f, d)
  <1> DEFINE g == Pass(l, f, d)
  <1>1. g \in LeafRecord /\ InMovement(l, g, d)
    BY PassLeaf
  <1>2. Left(l, g, d) = Left(l, f, d)
        /\ (g.phase # "done" => g.position = f.position)
    BY PassFields
  <1> HIDE DEF g
  <1>3. Remaining(f, d) \in 0..MaxPos /\ Remaining(g, d) \in 0..MaxPos
    BY <1>1, FieldTypes, RemainingType
  <1>4. CASE g.phase # "done"
    <2>1. Remaining(g, d) = Remaining(f, d)
      BY <1>2, <1>4 DEF Remaining
    <2> QED
      BY <1>3, <2>1, MaxPosAssumption DEF g
  <1>5. CASE g.phase = "done"
    <2>1. AtEnd(g, d)
      BY <1>1, <1>5 DEF InMovement
    <2> QED
      BY <1>3, <2>1, MaxPosAssumption DEF AtEnd, g
  <1> QED
    BY <1>4, <1>5

\* Neither does stopping, and a leaf at rest stays where it is.
LEMMA StoppedProgress ==
    ASSUME NEW fs \in [Leaf -> LeafRecord], NEW l \in Leaf, NEW d \in Direction,
           fs[l].state \in {"idle", d}
    PROVE  /\ Remaining(Stopped(fs)[l], d) <= Remaining(fs[l], d)
           /\ fs[l].state = "idle" => Stopped(fs)[l].position = fs[l].position
  <1> DEFINE f == fs[l]
             t == Settle(l, f)
             g == Stopped(fs)[l]
  <1>1. f \in LeafRecord
    OBVIOUS
  <1>2. /\ t \in LeafRecord /\ t.state = "idle"
        /\ f.state = "idle" => t = f
        /\ Left(l, t, d) = Left(l, f, d)
    BY <1>1, SettleLeaf, SettleKeepsLeft
  <1>3. g = [t EXCEPT !.phase = "done", !.due = 0]
    BY DEF Stopped
  <1> HIDE DEF f, t, g
  <1>4. g.position = t.position
    BY <1>2, <1>3 DEF LeafRecord
  <1>5. /\ Remaining(f, d) \in 0..MaxPos /\ Remaining(t, d) \in 0..MaxPos
        /\ Travelled(l, f.ran, d) \in 0..MaxPos
    BY <1>1, <1>2, FieldTypes, RemainingType, TravelledType
  <1>6. Remaining(t, d) = Left(l, f, d)
    BY <1>2, LeftValue
  <1>7. Remaining(g, d) = Remaining(t, d)
    BY <1>4 DEF Remaining
  <1>8. Left(l, f, d) <= Remaining(f, d)
    <2>1. CASE f.state = "idle"
      BY <1>1, <1>5, <2>1, LeftValue, MaxPosAssumption
    <2>2. CASE f.state = d
      <3>1. Left(l, f, d) = Greater(Remaining(f, d) - Travelled(l, f.ran, d), 0)
        BY <1>1, <2>2, LeftValue
      <3> QED
        BY <1>5, <3>1, MaxPosAssumption DEF Greater
    <2> QED
      BY <2>1, <2>2 DEF f
  <1> QED
    BY <1>2, <1>4, <1>6, <1>7, <1>8 DEF f, g

\* The end of a movement towards d whose leaves were as in fs and in which a
\* motor ran if mv says so.
StopsMoving(d, fs, mv) ==
    /\ drive' = "none" /\ current_direction' = "idle"
    /\ position' = Classify(leaf')
    /\ \A l \in Leaf : /\ leaf'[l].state = "idle"
                       /\ Remaining(leaf'[l], d) <= Remaining(fs[l], d)
    /\ barrier_bypass' \in {barrier_bypass, FALSE}
    /\ mv => barrier_bypass' = FALSE
    /\ announced' = Report("idle", position', wind_locked, barrier_bypass')

\* The movement goes on.
KeepsMoving(d, fs, said) ==
    /\ drive' = d /\ current_direction' = d
    /\ \A l \in Leaf : Remaining(leaf'[l], d) <= Remaining(fs[l], d)
    /\ MovedIfOn'
    /\ announced' = said
    /\ UNCHANGED <<position, barrier_bypass>>

\* The tail of drive() is the end of the movement.
LEMMA EndDriveOutcome ==
    ASSUME NEW d \in Direction, NEW fs \in [Leaf -> LeafRecord],
           \A l \in Leaf : fs[l].state \in {"idle", d},
           barrier_bypass \in BOOLEAN,
           NEW mv \in BOOLEAN, NEW next, EndDrive(fs, mv, next)
    PROVE  StopsMoving(d, fs, mv)
  <1>1. /\ leaf' = Stopped(fs) /\ drive' = "none"
        /\ current_direction' = "idle" /\ position' = Classify(leaf')
        /\ barrier_bypass' = (barrier_bypass /\ ~mv)
        /\ announced' = Report("idle", position', wind_locked, barrier_bypass')
    BY DEF EndDrive, SettleGate, PublishState, BypassLeft
  <1>2. \A l \in Leaf : /\ leaf'[l].state = "idle"
                        /\ Remaining(leaf'[l], d) <= Remaining(fs[l], d)
    BY <1>1, StoppedLeaf, StoppedProgress DEF Parked
  <1>3. barrier_bypass' \in {barrier_bypass, FALSE}
        /\ (mv => barrier_bypass' = FALSE)
    BY <1>1
  <1> QED
    BY <1>1, <1>2, <1>3 DEF StopsMoving

\* One iteration of drive()'s loop ends the movement or goes on with it.
LEMMA LoopPassOutcome ==
    ASSUME NEW d \in Direction, NEW fs \in [Leaf -> LeafRecord],
           \A l \in Leaf : InMovement(l, fs[l], d),
           barrier_bypass \in BOOLEAN,
           NEW mv \in BOOLEAN, (\E l \in Leaf : fs[l].state # "idle") => mv,
           NEW said, LoopPass(d, fs, mv, said)
    PROVE  StopsMoving(d, fs, mv) \/ KeepsMoving(d, fs, said)
  <1> DEFINE passed == [l \in Leaf |-> Pass(l, fs[l], d)]
             runs == mv \/ \E l \in Leaf : BeginsRun(fs[l], d)
  <1>1. /\ passed \in [Leaf -> LeafRecord]
        /\ \A l \in Leaf : InMovement(l, passed[l], d)
    BY PassLeaf
  <1>2. \A l \in Leaf : Remaining(passed[l], d) <= Remaining(fs[l], d)
    BY PassProgress
  <1>3. \A l \in Leaf : passed[l].phase = "running" =>
          fs[l].phase = "running" \/ BeginsRun(fs[l], d)
    BY PassFields
  <1>4. \/ EndDrive(fs, mv, "none")
        \/ EndDrive(passed, runs, "none")
        \/ /\ leaf' = passed /\ drive' = d /\ current_direction' = d
           /\ moved' = runs /\ announced' = said
           /\ UNCHANGED <<position, barrier_bypass>>
    BY DEF LoopPass
  <1>5. \A l \in Leaf : fs[l].state \in {"idle", d}
    BY DEF InMovement
  <1>6. \A l \in Leaf : passed[l].state \in {"idle", d}
    BY <1>1 DEF InMovement
  <1>7. runs \in BOOLEAN
    OBVIOUS
  <1> HIDE DEF passed
  <1>8. CASE EndDrive(fs, mv, "none")
    BY <1>5, <1>8, EndDriveOutcome
  <1>9. CASE EndDrive(passed, runs, "none")
    <2>1. StopsMoving(d, passed, runs)
      <3> HIDE DEF runs
      <3> QED
        BY <1>1, <1>6, <1>7, <1>9, EndDriveOutcome
    <2>2. \A l \in Leaf : leaf'[l] \in LeafRecord
      <3>1. leaf' = Stopped(passed)
        BY <1>9 DEF EndDrive, SettleGate
      <3> QED
        BY <1>1, <3>1, StoppedLeaf
    <2>3. ASSUME NEW l \in Leaf
          PROVE  Remaining(leaf'[l], d) <= Remaining(fs[l], d)
      <3>1. /\ Remaining(leaf'[l], d) <= Remaining(passed[l], d)
            /\ Remaining(passed[l], d) <= Remaining(fs[l], d)
        BY <1>2, <2>1 DEF StopsMoving
      <3>2. /\ Remaining(leaf'[l], d) \in 0..MaxPos
            /\ Remaining(passed[l], d) \in 0..MaxPos
            /\ Remaining(fs[l], d) \in 0..MaxPos
        BY <1>1, <2>2, FieldTypes, RemainingType
      <3> QED
        BY <3>1, <3>2, MaxPosAssumption
    <2> QED
      BY <2>1, <2>3 DEF StopsMoving
  <1>10. CASE /\ leaf' = passed /\ drive' = d /\ current_direction' = d
              /\ moved' = runs /\ announced' = said
              /\ UNCHANGED <<position, barrier_bypass>>
    <2>1. MovedIfOn'
      <3> SUFFICES ASSUME NEW l \in Leaf, leaf'[l].state # "idle"
                   PROVE  moved'
        BY DEF MovedIfOn
      <3>1. passed[l].phase = "running"
        BY <1>1, <1>10 DEF InMovement
      <3>2. fs[l].phase = "running" => fs[l].state # "idle"
        BY DEF InMovement, Direction
      <3> QED
        BY <1>3, <1>10, <3>1, <3>2
    <2> QED
      BY <1>2, <1>10, <2>1 DEF KeepsMoving
  <1> QED
    BY <1>4, <1>8, <1>9, <1>10

\* The first pass over a leaf that plan() has just put into a movement: it is
\* done at once exactly when it is already at the end, and nothing has run.
LEMMA FirstPass ==
    ASSUME NEW l \in Leaf, NEW f \in LeafRecord, NEW d \in Direction, Parked(f)
    PROVE  /\ Pass(l, Plan(l, f, d), d).phase = "done" <=> AtEnd(f, d)
           /\ AtEnd(f, d) => /\ Pass(l, Plan(l, f, d), d) = Plan(l, f, d)
                             /\ ~BeginsRun(Plan(l, f, d), d)
  <1> DEFINE g == Plan(l, f, d)
             h == Pass(l, g, d)
  <1>1. g \in LeafRecord /\ InMovement(l, g, d)
    BY PlanLeaf
  <1>2. /\ g.position = f.position
        /\ AtEnd(f, d) => g.phase = "done"
        /\ ~AtEnd(f, d) => g.phase = "waiting"
    BY PlanFields
  <1>3. AtEnd(g, d) <=> AtEnd(f, d)
    BY <1>2 DEF AtEnd, Remaining
  <1> HIDE DEF g
  <1>4. g.phase = "done" => h = g /\ ~BeginsRun(g, d)
    BY <1>1, PassFields DEF BeginsRun
  <1>5. ASSUME ~AtEnd(f, d) PROVE h.phase # "done"
    <2> DEFINE rt == RunTime(l, g, d)
               k == [g EXCEPT !.state = d, !.ran = 0]
    <2>1. g.phase = "waiting" /\ ~AtEnd(g, d)
      BY <1>2, <1>3, <1>5
    <2>2. h = g \/ h = [k EXCEPT !.phase = "running", !.due = rt]
      BY <1>1, <2>1, PassCases
    <2>3. rt \in Nat
      BY <1>1, FieldTypes, RunTimeType
    <2> HIDE DEF h, rt
    <2>4. h.phase \in {"waiting", "running"}
      BY <1>1, <2>1, <2>2, <2>3 DEF LeafRecord
    <2> QED
      BY <2>4
  <1> QED
    BY <1>2, <1>4, <1>5 DEF g

\* A call of drive(d) that is not refused.
LEMMA StartDriveOutcome ==
    ASSUME Inv, drive = "none", NEW d \in Direction, StartDrive(d), ~Blocked(d)
    PROVE  \/ /\ \A l \in Leaf : AtEnd(leaf[l], d)
              /\ StopsMoving(d, leaf, FALSE)
              /\ \A l \in Leaf : leaf'[l].position = leaf[l].position
              /\ barrier_bypass' = barrier_bypass
           \/ /\ \E l \in Leaf : ~AtEnd(leaf[l], d)
              /\ KeepsMoving(d, leaf,
                             Report(d, position, wind_locked, barrier_bypass))
  <1> DEFINE fs == [l \in Leaf |-> Plan(l, leaf[l], d)]
             passed == [l \in Leaf |-> Pass(l, fs[l], d)]
             runs == FALSE \/ \E l \in Leaf : BeginsRun(fs[l], d)
             finished == \A l \in Leaf : passed[l].phase = "done"
             said == Report(d, position, wind_locked, barrier_bypass)
  <1>1. /\ leaf \in [Leaf -> LeafRecord] /\ \A l \in Leaf : Parked(leaf[l])
        /\ barrier_bypass \in BOOLEAN
    BY DEF Inv, TypeOK, Leaves
  <1>2. /\ fs \in [Leaf -> LeafRecord]
        /\ \A l \in Leaf : InMovement(l, fs[l], d)
    BY <1>1, PlanLeaf
  <1>3. \A l \in Leaf : fs[l].state = "idle" /\ fs[l].position = leaf[l].position
    BY <1>1, PlanFields
  <1>4. /\ \A l \in Leaf : Remaining(fs[l], d) = Remaining(leaf[l], d)
        /\ \A l \in Leaf : Remaining(leaf[l], d) <= Remaining(leaf[l], d)
    <2>1. \A l \in Leaf : Remaining(leaf[l], d) \in 0..MaxPos
      BY <1>1, FieldTypes, RemainingType
    <2> QED
      BY <1>3, <2>1, MaxPosAssumption DEF Remaining
  <1>5. finished <=> \A l \in Leaf : AtEnd(leaf[l], d)
    BY <1>1, FirstPass
  <1>6. finished => passed = fs /\ runs = FALSE
    BY <1>1, <1>5, FirstPass
  <1>7. LoopPass(d, fs, FALSE, said)
    BY DEF StartDrive
  <1>8. \/ finished /\ EndDrive(passed, runs, "none")
        \/ ~finished /\ drive' = d
    BY <1>7 DEF LoopPass
  <1> HIDE DEF fs, passed, runs, finished, said
  <1>9. CASE finished /\ EndDrive(passed, runs, "none")
    <2>1. EndDrive(fs, FALSE, "none")
      BY <1>6, <1>9
    <2>2. StopsMoving(d, fs, FALSE)
      BY <1>1, <1>2, <1>3, <2>1, EndDriveOutcome
    <2>3. leaf' = Stopped(fs) /\ barrier_bypass' = barrier_bypass
      BY <1>1, <2>1 DEF EndDrive, SettleGate, BypassLeft
    <2>4. \A l \in Leaf : leaf'[l].position = leaf[l].position
      BY <1>2, <1>3, <2>3, StoppedProgress
    <2>5. StopsMoving(d, leaf, FALSE)
      BY <1>4, <2>2 DEF StopsMoving
    <2> QED
      BY <1>5, <1>9, <2>3, <2>4, <2>5
  <1>10. CASE ~finished /\ drive' = d
    <2>1. StopsMoving(d, fs, FALSE) \/ KeepsMoving(d, fs, said)
      BY <1>1, <1>2, <1>3, <1>7, LoopPassOutcome
    <2>2. d # "none"
      BY DEF Direction
    <2>3. KeepsMoving(d, fs, said)
      BY <1>10, <2>1, <2>2 DEF StopsMoving
    <2>4. KeepsMoving(d, leaf, said)
      BY <1>4, <2>3 DEF KeepsMoving
    <2> QED
      BY <1>5, <1>10, <2>4 DEF said
  <1> QED
    BY <1>8, <1>9, <1>10

\* The four outcomes of a step of the gate task.
Rests ==
    /\ drive = "none" /\ drive' = "none" /\ current_direction' = "idle"
    /\ UNCHANGED <<position, barrier_bypass>>
    /\ announced' = Report("idle", position, wind_locked, barrier_bypass)

Begins ==
    /\ drive = "none" /\ drive' \in Direction /\ ~Blocked(drive')
    /\ current_direction' = drive'
    /\ UNCHANGED <<position, barrier_bypass>>
    /\ announced' = Report(drive', position, wind_locked, barrier_bypass)

GoesOn ==
    /\ drive \in Direction /\ drive' = drive /\ current_direction' = drive
    /\ UNCHANGED <<position, barrier_bypass>>
    /\ announced' \in {announced, CurrentReport}

Ends ==
    /\ drive \in Direction /\ drive' = "none" /\ current_direction' = "idle"
    /\ position' \in Position
    /\ drive = "opening" /\ position # "closed" => position' # "closed"
    /\ drive = "closing" /\ position # "open" => position' # "open"
    /\ barrier_bypass' \in {barrier_bypass, FALSE}
    /\ (\E l \in Leaf : leaf[l].state # "idle") => barrier_bypass' = FALSE
    /\ announced' = Report("idle", position', wind_locked, barrier_bypass')

Outcome == (Rests \/ Begins \/ GoesOn \/ Ends) /\ Travel' /\ MovedIfOn'

\* Classifying leaves: what the three positions mean.
LEMMA ClassifyMeans ==
    ASSUME NEW fs
    PROVE  /\ Classify(fs) = "closed" => \A l \in Leaf : fs[l].position = 0
           /\ Classify(fs) # "closed" => \E l \in Leaf : fs[l].position # 0
           /\ Classify(fs) = "open" => \A l \in Leaf : fs[l].position = MaxPos
           /\ Classify(fs) # "open" => \E l \in Leaf : fs[l].position # MaxPos
  <1>1. CASE \A l \in Leaf : fs[l].position = 0
    <2>1. \E l \in Leaf : fs[l].position # MaxPos
      BY <1>1, MaxPosAssumption DEF Leaf
    <2>2. Classify(fs) = "closed"
      BY <1>1, <2>1, Zenon DEF Classify
    <2> QED
      BY <1>1, <2>1, <2>2
  <1>2. CASE /\ \E l \in Leaf : fs[l].position # 0
             /\ \A l \in Leaf : fs[l].position = MaxPos
    <2>1. Classify(fs) = "open"
      BY <1>2, Zenon DEF Classify
    <2> QED
      BY <1>2, <2>1
  <1>3. CASE /\ \E l \in Leaf : fs[l].position # 0
             /\ \E l \in Leaf : fs[l].position # MaxPos
    <2>1. Classify(fs) = "partial"
      BY <1>3, Zenon DEF Classify
    <2> QED
      BY <1>3, <2>1
  <1> QED
    BY <1>1, <1>2, <1>3

\* The gate at rest: the coarse position tells whether a leaf can travel.
LEMMA RestPosition ==
    ASSUME Inv, drive = "none"
    PROVE  /\ leaf \in [Leaf -> LeafRecord] /\ position = Classify(leaf)
           /\ \A l \in Leaf : leaf[l].state = "idle" /\ Parked(leaf[l])
  BY DEF Inv, TypeOK, Shared, Leaves, Parked

\* Positions decide the classification.
LEMMA SamePositions ==
    ASSUME NEW fs, NEW gs, \A l \in Leaf : gs[l].position = fs[l].position
    PROVE  Classify(gs) = Classify(fs)
  BY Zenon DEF Classify

\* A movement towards d that has leaves with something behind them, in the
\* sense of Travel, keeps it: they only get further from where they started.
Behind(fs, d) ==
    \/ d = "opening" /\ \E l \in Leaf : fs[l].position # 0
    \/ d = "closing" /\ \E l \in Leaf : fs[l].position # MaxPos

LEMMA BehindGrows ==
    ASSUME NEW fs \in [Leaf -> LeafRecord], NEW gs \in [Leaf -> LeafRecord],
           NEW d \in Direction, Behind(fs, d),
           \A l \in Leaf : Remaining(gs[l], d) <= Remaining(fs[l], d)
    PROVE  Behind(gs, d)
  <1>1. \A l \in Leaf : gs[l].position \in 0..MaxPos /\ fs[l].position \in 0..MaxPos
    BY DEF LeafRecord
  <1>2. CASE d = "opening"
    <2>1. PICK l \in Leaf : fs[l].position # 0
      BY <1>2 DEF Behind
    <2>2. MaxPos - gs[l].position <= MaxPos - fs[l].position
      BY <1>2 DEF Remaining
    <2>3. gs[l].position # 0
      BY <1>1, <2>1, <2>2, MaxPosAssumption
    <2> QED
      BY <1>2, <2>3 DEF Behind
  <1>3. CASE d = "closing"
    <2>1. PICK l \in Leaf : fs[l].position # MaxPos
      BY <1>3 DEF Behind
    <2>2. gs[l].position <= fs[l].position
      BY <1>3 DEF Remaining
    <2>3. gs[l].position # MaxPos
      BY <1>1, <2>1, <2>2, MaxPosAssumption
    <2> QED
      BY <1>3, <2>3 DEF Behind
  <1> QED
    BY <1>2, <1>3 DEF Direction

\* A step that leaves the gate at rest.
LEMMA RestsOutcome ==
    ASSUME Inv, drive = "none", drive' = "none", current_direction' = "idle",
           position' = Classify(leaf'),
           \A l \in Leaf : leaf'[l].position = leaf[l].position
                            /\ leaf'[l].state = "idle",
           barrier_bypass' = barrier_bypass,
           announced' = Report("idle", position', wind_locked, barrier_bypass')
    PROVE  Outcome
  <1>1. position' = position
    BY RestPosition, SamePositions
  <1>2. Rests
    BY <1>1 DEF Rests
  <1>3. Travel' /\ MovedIfOn'
    BY DEF Travel, MovedIfOn
  <1> QED
    BY <1>2, <1>3 DEF Outcome

\* A step that begins a movement.
LEMMA BeginsOutcome ==
    ASSUME Inv, drive = "none", NEW d \in Direction, ~Blocked(d), Inv',
           KeepsMoving(d, leaf, Report(d, position, wind_locked, barrier_bypass))
    PROVE  Outcome
  <1>1. /\ leaf \in [Leaf -> LeafRecord] /\ leaf' \in [Leaf -> LeafRecord]
        /\ position = Classify(leaf) /\ position' = position
        /\ drive' = d /\ MovedIfOn'
        /\ \A l \in Leaf : Remaining(leaf'[l], d) <= Remaining(leaf[l], d)
    BY RestPosition DEF KeepsMoving, Inv, TypeOK
  <1>2. Begins
    BY <1>1 DEF Begins, KeepsMoving
  <1>3. CASE d = "opening"
    <2>1. position # "closed" => Behind(leaf, d)
      BY <1>1, <1>3, ClassifyMeans DEF Behind
    <2>2. position # "closed" => Behind(leaf', d)
      BY <1>1, <2>1, BehindGrows
    <2>3. Travel'
      BY <1>1, <1>3, <2>2 DEF Travel, Behind
    <2> QED
      BY <1>1, <1>2, <2>3 DEF Outcome
  <1>4. CASE d = "closing"
    <2>1. position # "open" => Behind(leaf, d)
      BY <1>1, <1>4, ClassifyMeans DEF Behind
    <2>2. position # "open" => Behind(leaf', d)
      BY <1>1, <2>1, BehindGrows
    <2>3. Travel'
      BY <1>1, <1>4, <2>2 DEF Travel, Behind
    <2> QED
      BY <1>1, <1>2, <2>3 DEF Outcome
  <1> QED
    BY <1>3, <1>4 DEF Direction

\* A step that goes on with a movement.
LEMMA GoesOnOutcome ==
    ASSUME Inv, Travel, drive # "none", Inv',
           NEW said \in {announced, CurrentReport},
           KeepsMoving(drive, leaf, said)
    PROVE  Outcome
  <1>1. /\ leaf \in [Leaf -> LeafRecord] /\ leaf' \in [Leaf -> LeafRecord]
        /\ drive \in Direction /\ position' = position
        /\ drive' = drive /\ MovedIfOn'
        /\ \A l \in Leaf : Remaining(leaf'[l], drive) <= Remaining(leaf[l], drive)
    BY DEF KeepsMoving, Inv, TypeOK, SlotOf
  <1>2. GoesOn
    BY <1>1 DEF GoesOn, KeepsMoving
  <1>3. Behind(leaf, drive) => Behind(leaf', drive)
    BY <1>1, BehindGrows
  <1>4. Travel'
    BY <1>1, <1>3 DEF Travel, Behind, Direction
  <1> QED
    BY <1>1, <1>2, <1>4 DEF Outcome

\* A step that ends a movement.
LEMMA EndsOutcome ==
    ASSUME Inv, Travel, MovedIfOn, drive # "none", Inv',
           StopsMoving(drive, leaf, moved)
    PROVE  Outcome
  <1>1. /\ leaf \in [Leaf -> LeafRecord] /\ leaf' \in [Leaf -> LeafRecord]
        /\ drive \in Direction /\ drive' = "none" /\ position' = Classify(leaf')
        /\ position' \in Position
        /\ \A l \in Leaf : Remaining(leaf'[l], drive) <= Remaining(leaf[l], drive)
        /\ \A l \in Leaf : leaf'[l].state = "idle"
    BY DEF StopsMoving, Inv, TypeOK, SlotOf
  <1>2. Behind(leaf, drive) => Behind(leaf', drive)
    BY <1>1, BehindGrows
  <1>3. Classify(leaf') = "closed" => \A l \in Leaf : leaf'[l].position = 0
    BY ClassifyMeans
  <1>4. Classify(leaf') = "open" => \A l \in Leaf : leaf'[l].position = MaxPos
    BY ClassifyMeans
  <1>5. drive = "opening" /\ position # "closed" => position' # "closed"
    BY <1>1, <1>2, <1>3 DEF Travel, Behind
  <1>6. drive = "closing" /\ position # "open" => position' # "open"
    BY <1>1, <1>2, <1>4 DEF Travel, Behind
  <1>7. (\E l \in Leaf : leaf[l].state # "idle") => barrier_bypass' = FALSE
    BY DEF MovedIfOn, StopsMoving
  <1>8. Ends
    BY <1>1, <1>5, <1>6, <1>7 DEF Ends, StopsMoving
  <1>9. Travel' /\ MovedIfOn'
    BY <1>1 DEF Travel, MovedIfOn
  <1> QED
    BY <1>8, <1>9 DEF Outcome

\* Every step of the gate task has one of the four outcomes.
LEMMA GateTaskOutcome ==
    ASSUME Inv, Travel, MovedIfOn, GateTask
    PROVE  Outcome
  <1>0. Inv' /\ barrier_bypass \in BOOLEAN /\ moved \in BOOLEAN
        /\ leaf \in [Leaf -> LeafRecord] /\ drive \in SlotOf(Direction)
    BY GateTaskInv DEF Inv, TypeOK
  <1>1. ASSUME drive = "none", NEW fs, SettleGate(fs, barrier_bypass),
               \A l \in Leaf : fs[l].position = leaf[l].position
                                /\ fs[l].state = "idle"
        PROVE  Outcome
    BY <1>1, RestsOutcome DEF SettleGate, PublishState
  <1>2. ASSUME drive = "none", NEW d \in Direction, StartDrive(d) PROVE Outcome
    <2>1. CASE Blocked(d)
      <3>1. SettleGate(leaf, barrier_bypass)
        BY <1>2, <2>1 DEF StartDrive
      <3> QED
        BY <1>1, <1>2, <3>1, RestPosition
    <2>2. CASE ~Blocked(d)
      <3>1. CASE /\ StopsMoving(d, leaf, FALSE)
                 /\ \A l \in Leaf : leaf'[l].position = leaf[l].position
                 /\ barrier_bypass' = barrier_bypass
        BY <1>2, <3>1, RestsOutcome DEF StopsMoving
      <3>2. CASE KeepsMoving(d, leaf,
                             Report(d, position, wind_locked, barrier_bypass))
        BY <1>0, <1>2, <2>2, <3>2, BeginsOutcome
      <3> QED
        BY <1>2, <2>2, <3>1, <3>2, StartDriveOutcome
    <2> QED
      BY <2>1, <2>2
  <1>3. ASSUME drive = "none", EndDrive(leaf, FALSE, "none") PROVE Outcome
    <2>1. SettleGate(Stopped(leaf), barrier_bypass)
      BY <1>0, <1>3 DEF EndDrive, BypassLeft
    <2>2. "opening" \in Direction
      BY DEF Direction
    <2>3. \A l \in Leaf : leaf[l].state = "idle"
      BY <1>3, RestPosition
    <2>4. ASSUME NEW l \in Leaf
          PROVE  Stopped(leaf)[l].position = leaf[l].position
                 /\ Stopped(leaf)[l].state = "idle"
      BY <1>0, <2>2, <2>3, StoppedProgress, StoppedLeaf DEF Parked
    <2> QED
      BY <1>1, <1>3, <2>1, <2>4
  <1>4. ASSUME drive = "none", NEW c, Execute(c) PROVE Outcome
    BY <1>2, <1>3, <1>4 DEF Execute, Direction
  <1>5. ASSUME drive # "none"
        PROVE  /\ drive \in Direction
               /\ \A l \in Leaf : InMovement(l, leaf[l], drive)
               /\ \A l \in Leaf : leaf[l].state \in {"idle", drive}
    BY <1>0, <1>5 DEF Inv, Leaves, InMovement, SlotOf
  <1>6. ASSUME drive # "none", NEW said \in {announced, CurrentReport},
               LoopPass(drive, leaf, moved, said)
        PROVE  Outcome
    <2>1. StopsMoving(drive, leaf, moved) \/ KeepsMoving(drive, leaf, said)
      BY <1>0, <1>5, <1>6, LoopPassOutcome DEF MovedIfOn
    <2> QED
      BY <1>0, <1>6, <2>1, EndsOutcome, GoesOnOutcome
  <1>7. ASSUME drive # "none", NEW next, EndDrive(leaf, moved, next)
        PROVE  Outcome
    <2>1. StopsMoving(drive, leaf, moved)
      BY <1>0, <1>5, <1>7, EndDriveOutcome
    <2> QED
      BY <1>0, <1>7, <2>1, EndsOutcome
  <1>8. CASE StepPending \/ StepCommand
    BY <1>4, <1>8 DEF StepPending, StepCommand
  <1>9. CASE StepReset
    BY <1>1, <1>9, RestPosition DEF StepReset
  <1>10. CASE DriveStop \/ DriveReverse
    BY <1>7, <1>10 DEF DriveStop, DriveReverse
  <1>11. CASE DriveTimer \/ DriveSameCommand \/ DriveBarrierChanged
              \/ DriveWindLockReset
    BY <1>6, <1>11 DEF DriveTimer, DriveSameCommand, DriveBarrierChanged,
                       DriveWindLockReset
  <1> QED
    BY <1>8, <1>9, <1>10, <1>11 DEF GateTask

\* Controls, time and stuttering keep what Outcome keeps.
LEMMA OthersKeepTravel ==
    ASSUME Inv, Travel, MovedIfOn, ControlsInput \/ Tick \/ UNCHANGED vars
    PROVE  Travel' /\ MovedIfOn'
  <1>1. /\ drive' = drive /\ position' = position /\ moved' = moved
        /\ \A l \in Leaf : leaf'[l].position = leaf[l].position
                            /\ leaf'[l].state = leaf[l].state
    <2>1. CASE ControlsInput
      BY <2>1, ControlsKeepTask
    <2>2. CASE Tick
      BY <2>2, ElapseLeaf DEF Tick, Inv, TypeOK, controls
    <2>3. CASE UNCHANGED vars
      BY <2>3 DEF vars, controls, task
    <2> QED
      BY <2>1, <2>2, <2>3
  <1> QED
    BY <1>1 DEF Travel, MovedIfOn

\* Movements make progress, and a motor that is on has been noted.
THEOREM Progress == Spec => [](Travel /\ MovedIfOn)
  <1>1. ASSUME Init PROVE Travel /\ MovedIfOn
    <2>1. PICK s \in OrderedSnapshot : Boot(s)
      BY <1>1 DEF Init
    <2>2. drive = "none" /\ \A l \in Leaf : leaf[l].state = "idle"
      BY <2>1 DEF Boot, RestoredLeaf, NewLeaf
    <2> QED
      BY <2>2 DEF Travel, MovedIfOn
  <1>2. ASSUME Inv, Travel, MovedIfOn, [Next]_vars PROVE Travel' /\ MovedIfOn'
    <2>1. CASE GateTask
      BY <1>2, <2>1, GateTaskOutcome DEF Outcome
    <2> QED
      BY <1>2, <2>1, OthersKeepTravel DEF Next
  <1> QED
    BY <1>1, <1>2, Invariance, PTL DEF Spec

-----------------------------------------------------------------------------
(* The results that rest on the outcomes.                                  *)

\* The service's variables, as the gate has them.
LEMMA ServiceView ==
    ASSUME TypeOK
    PROVE  /\ position \in {"closed", "partial", "open"}
           /\ wind_locked \in BOOLEAN /\ barrier_bypass \in BOOLEAN
  BY DEF TypeOK, Position

\* Gate::new is the service's initial state.
LEMMA InitServes ==
    ASSUME Init
    PROVE  S!ServiceInit
  <1>1. PICK s \in OrderedSnapshot : Boot(s)
    BY DEF Init
  <1>2. position \in {"closed", "partial", "open"} /\ wind_locked \in BOOLEAN
    BY InitInv, ServiceView DEF Inv
  <1>3. /\ current_direction = "idle" /\ barrier_bypass = FALSE
        /\ announced = Report(current_direction, position, wind_locked,
                              barrier_bypass)
    BY <1>1 DEF Boot
  <1> QED
    BY <1>2, <1>3 DEF S!ServiceInit

\* Each outcome of a step of the gate task is a step of the service.
LEMMA OutcomeServes ==
    ASSUME Inv, Inv', Outcome, wind_locked' = wind_locked
    PROVE  S!ServiceNext \/ UNCHANGED S!serviceVars
  <1>1. /\ drive = "none" => current_direction = "idle"
        /\ drive # "none" => current_direction = drive
    BY DEF Inv, Shared
  <1>2. CASE Rests
    <2>1. S!PublishAgain
      BY <1>1, <1>2 DEF Rests, S!PublishAgain, S!Publish
    <2> QED
      BY <2>1 DEF S!ServiceNext
  <1>3. CASE Begins
    <2>1. S!Begin
      BY <1>1, <1>3 DEF Begins, S!Begin, S!Publish, Direction, Blocked
    <2> QED
      BY <2>1 DEF S!ServiceNext
  <1>4. CASE GoesOn
    <2>1. drive # "none"
      BY <1>4 DEF GoesOn, Direction
    <2>2. CASE announced' = announced
      BY <1>1, <1>4, <2>1, <2>2 DEF GoesOn, S!serviceVars
    <2>3. CASE announced' = CurrentReport
      <3>1. S!PublishAgain
        BY <1>1, <1>4, <2>1, <2>3
        DEF GoesOn, S!PublishAgain, S!Publish, CurrentReport
      <3> QED
        BY <3>1 DEF S!ServiceNext
    <2> QED
      BY <1>4, <2>2, <2>3 DEF GoesOn
  <1>5. CASE Ends
    <2>1. drive # "none" /\ drive # "idle"
      BY <1>5 DEF Ends, Direction
    <2>2. S!End
      BY <1>1, <1>5, <2>1 DEF Ends, S!End, S!Publish, Position
    <2> QED
      BY <2>2 DEF S!ServiceNext
  <1> QED
    BY <1>2, <1>3, <1>4, <1>5 DEF Outcome

\* So is each call of a method of Controls.
LEMMA ControlsServe ==
    ASSUME Inv, Inv', ControlsInput
    PROVE  S!ServiceNext \/ UNCHANGED S!serviceVars
  <1>1. wind_locked' \in BOOLEAN
    BY DEF Inv, TypeOK
  <1>2. UNCHANGED <<current_direction, position>>
    BY ControlsKeepTask
  <1>3. ASSUME NEW active \in BOOLEAN, SetBarrierBypass(active)
        PROVE  S!SetBypass
    BY <1>2, <1>3
    DEF SetBarrierBypass, PublishState, S!SetBypass, S!Publish
  <1>4. \/ S!Lock
        \/ \E active \in BOOLEAN : SetBarrierBypass(active)
    BY <1>1, <1>2
    DEF ControlsInput, Open, Close, Stop, Impulse, NormalInput, WindTrigger,
        ResetWindLock, Barrier1Set, Barrier2Set, S!Lock
  <1> QED
    BY <1>3, <1>4 DEF S!ServiceNext

\* Seen from outside, with command slot, signals, motors and time hidden, the
\* gate is what GateService says.
THEOREM GateServes == Spec => ImplementsService
  <1>1. ASSUME Inv, Travel, MovedIfOn, [Next]_vars
        PROVE  [S!ServiceNext]_(S!serviceVars)
    <2>1. Inv'
      BY <1>1, GateTaskInv, ControlsInv, TickInv, StutterInv DEF Next
    <2>2. CASE GateTask
      BY <1>1, <2>1, <2>2, GateTaskOutcome, GateTaskStep, OutcomeServes
      DEF inputs
    <2>3. CASE ControlsInput
      BY <1>1, <2>1, <2>3, ControlsServe
    <2>4. CASE Tick \/ UNCHANGED vars
      BY <2>4 DEF Tick, vars, controls, S!serviceVars
    <2> QED
      BY <1>1, <2>2, <2>3, <2>4 DEF Next
  <1> QED
    BY <1>1, InitServes, Invariance, Progress, PTL
    DEF Spec, ImplementsService, S!ServiceSpec

\* What was last published is what holds, or the gate task still has a
\* reason to run: a wind lock never stays unpublished.
THEOREM AnnouncementsAreFresh == Spec => []NoStaleAnnouncement
  <1>1. ASSUME Init PROVE NoStaleAnnouncement
    <2>1. PICK s \in OrderedSnapshot : Boot(s)
      BY <1>1 DEF Init
    <2> QED
      BY <2>1 DEF Boot, NoStaleAnnouncement, CurrentReport
  <1>2. ASSUME Inv, Travel, MovedIfOn, NoStaleAnnouncement, [Next]_vars
        PROVE  NoStaleAnnouncement'
    <2>1. CASE GateTask
      <3>1. Outcome /\ wind_locked' = wind_locked
        BY <1>2, <2>1, GateTaskOutcome, GateTaskStep DEF inputs
      <3>2. drive' # "none" \/ announced' = CurrentReport'
        BY <3>1
        DEF Outcome, Rests, Begins, GoesOn, Ends, CurrentReport, Direction
      <3> QED
        BY <3>2 DEF NoStaleAnnouncement
    <2>2. CASE ControlsInput
      <3>1. UNCHANGED <<pending, drive, current_direction, position>>
        BY <2>2, ControlsKeepTask
      <3> QED
        BY <1>2, <2>2, <3>1
        DEF ControlsInput, Open, Close, Stop, Impulse, NormalInput,
            WindTrigger, ResetWindLock, Barrier1Set, RetryForcedOpen,
            Barrier2Set, SetBarrierBypass, PublishState, NoStaleAnnouncement,
            CurrentReport
    <2>3. CASE Tick \/ UNCHANGED vars
      BY <1>2, <2>3
      DEF Tick, vars, controls, task, NoStaleAnnouncement, CurrentReport
    <2> QED
      BY <1>2, <2>1, <2>2, <2>3 DEF Next
  <1> QED
    BY <1>1, <1>2, Invariance, Progress, PTL DEF Spec

\* The bypass is one-shot: a movement that ends while a relay is on uses it
\* up, and nothing else does but disarming it.
THEOREM BypassLastsOneMovement == Spec => BypassIsOneShot
  <1> DEFINE OneShot ==
        /\ (drive # "none" /\ drive' = "none" /\ \E l \in Leaf : Energized(l))
              => ~barrier_bypass'
        /\ (barrier_bypass /\ ~barrier_bypass')
              => \/ drive # "none" /\ drive' = "none"
                 \/ SetBarrierBypass(FALSE)
  <1>1. ASSUME Inv, Travel, MovedIfOn, GateTask PROVE OneShot
    <2>1. Outcome
      BY <1>1, GateTaskOutcome
    <2>2. CASE Rests \/ Begins \/ GoesOn
      <3>1. barrier_bypass' = barrier_bypass
            /\ ~(drive # "none" /\ drive' = "none")
        BY <2>2 DEF Rests, Begins, GoesOn, Direction
      <3> QED
        BY <3>1, Zenon
    <2>3. CASE Ends
      BY <2>3 DEF Ends, Energized, Direction
    <2> QED
      BY <2>1, <2>2, <2>3 DEF Outcome
  <1>2. ASSUME Inv, ControlsInput PROVE OneShot
    <2>1. drive' = drive
      BY <1>2, ControlsKeepTask
    <2>2. \/ barrier_bypass' = barrier_bypass
          \/ SetBarrierBypass(TRUE) \/ SetBarrierBypass(FALSE)
      BY <1>2
      DEF ControlsInput, Open, Close, Stop, Impulse, NormalInput, WindTrigger,
          ResetWindLock, Barrier1Set, Barrier2Set
    <2>3. SetBarrierBypass(TRUE) => barrier_bypass' = TRUE
      BY DEF SetBarrierBypass
    <2>4. CASE barrier_bypass' = barrier_bypass
      BY <2>1, <2>4, Zenon
    <2>5. CASE barrier_bypass' = TRUE
      BY <2>1, <2>5
    <2>6. CASE SetBarrierBypass(FALSE)
      BY <2>1, <2>6
    <2> QED
      BY <2>2, <2>3, <2>4, <2>5, <2>6, Zenon
  <1>3. ASSUME Tick PROVE OneShot
    BY <1>3 DEF Tick, controls
  <1>4. Inv /\ Travel /\ MovedIfOn /\ [Next]_vars => [OneShot]_vars
    BY <1>1, <1>2, <1>3 DEF Next
  <1> QED
    BY <1>4, Invariance, Progress, PTL DEF Spec, BypassIsOneShot

\* An impulse accepted while the gate is idle sets it in motion when nothing
\* forbids it: from an end to the other, from mid-travel the other way.
THEOREM ImpulsesMove == Spec => ImpulseMovesTheGate
  <1> DEFINE Moves ==
        /\ drive' # "none"
        /\ drive' = "opening" => \E l \in Leaf : leaf[l].position # MaxPos
        /\ drive' = "closing" => \E l \in Leaf : leaf[l].position # 0
        /\ Classify(leaf) = "partial" => drive' # last_direction
  <1>1. ASSUME Inv, command = "Impulse", StepCommand,
               ~BeamForbids("closing"), ~WindForbids("closing")
        PROVE  Moves
    <2>1. /\ drive = "none" /\ last_direction \in Direction
          /\ leaf \in [Leaf -> LeafRecord] /\ position = Classify(leaf)
          /\ position \in Position
      BY <1>1, RestPosition DEF StepCommand, Inv, TypeOK
    <2>2. \A d \in Direction : ~Blocked(d)
      BY <1>1 DEF BeamForbids, WindForbids, Blocked, Direction
    <2>3. ASSUME NEW d \in Direction, StartDrive(d),
                 \E l \in Leaf : ~AtEnd(leaf[l], d)
          PROVE  drive' = d
      BY <1>1, <2>1, <2>2, <2>3, StartDriveOutcome DEF KeepsMoving
    <2>4. \A l \in Leaf : leaf[l].position \in 0..MaxPos
      BY <2>1, FieldTypes
    <2>5. Execute(ResolveImpulse("Impulse"))
      BY <1>1 DEF StepCommand
    <2>6. CASE position = "closed"
      <3>1. \A l \in Leaf : leaf[l].position = 0
        BY <2>1, <2>6, ClassifyMeans
      <3>2. ResolveImpulse("Impulse") = "Open"
        BY <2>6 DEF ResolveImpulse
      <3>3. StartDrive("opening")
        BY <2>5, <3>2 DEF Execute
      <3>4. \E l \in Leaf : ~AtEnd(leaf[l], "opening")
                             /\ leaf[l].position # MaxPos
        BY <3>1, MaxPosAssumption DEF AtEnd, Remaining, Leaf
      <3>5. drive' = "opening"
        BY <2>3, <3>3, <3>4 DEF Direction
      <3> QED
        BY <2>1, <2>6, <3>4, <3>5
    <2>7. CASE position = "open"
      <3>1. \A l \in Leaf : leaf[l].position = MaxPos
        BY <2>1, <2>7, ClassifyMeans
      <3>2. ResolveImpulse("Impulse") = "Close"
        BY <2>7 DEF ResolveImpulse
      <3>3. StartDrive("closing")
        BY <2>5, <3>2 DEF Execute
      <3>4. \E l \in Leaf : ~AtEnd(leaf[l], "closing") /\ leaf[l].position # 0
        BY <3>1, MaxPosAssumption DEF AtEnd, Remaining, Leaf
      <3>5. drive' = "closing"
        BY <2>3, <3>3, <3>4 DEF Direction
      <3> QED
        BY <2>1, <2>7, <3>4, <3>5
    <2>8. CASE position = "partial"
      <3>1. /\ \E l \in Leaf : leaf[l].position # MaxPos
            /\ \E l \in Leaf : leaf[l].position # 0
        BY <2>1, <2>8, ClassifyMeans
      <3>2. /\ \E l \in Leaf : ~AtEnd(leaf[l], "opening")
            /\ \E l \in Leaf : ~AtEnd(leaf[l], "closing")
        BY <2>4, <3>1, MaxPosAssumption DEF AtEnd, Remaining
      <3>3. CASE last_direction = "opening"
        <4>1. ResolveImpulse("Impulse") = "Close"
          BY <2>8, <3>3 DEF ResolveImpulse
        <4>2. StartDrive("closing")
          BY <2>5, <4>1 DEF Execute
        <4> QED
          BY <2>3, <3>1, <3>2, <3>3, <4>2 DEF Direction
      <3>4. CASE last_direction = "closing"
        <4>1. ResolveImpulse("Impulse") = "Open"
          BY <2>8, <3>4 DEF ResolveImpulse
        <4>2. StartDrive("opening")
          BY <2>5, <4>1 DEF Execute
        <4> QED
          BY <2>3, <3>1, <3>2, <3>4, <4>2 DEF Direction
      <3> QED
        BY <2>1, <3>3, <3>4 DEF Direction
    <2> QED
      BY <2>1, <2>6, <2>7, <2>8 DEF Position
  <1>2. Inv => [ (/\ command = "Impulse" /\ StepCommand
                  /\ ~BeamForbids("closing") /\ ~WindForbids("closing"))
                   => Moves ]_vars
    BY <1>1
  <1> QED
    BY <1>2, Invariance, PTL DEF ImpulseMovesTheGate
=============================================================================
