--------------------------- MODULE FirmwareProofs ---------------------------
(***************************************************************************)
(* Proofs about Firmware, Device and Installation: the gate across power   *)
(* losses, panics and failing flash, beside the task that samples light    *)
(* barrier 1, and the leaves it moves, for every timing of the leaves.     *)
(***************************************************************************)
EXTENDS Device, Installation, GateProofs

-----------------------------------------------------------------------------
(* Booting.                                                                *)

\* A gate that has just been created from a snapshot in order.
LEMMA FreshGate == Init => Inv /\ Order
  BY InitInv, InitOrder

\* The same after a step.
LEMMA FreshGateNext == Init' => Inv' /\ Order'
  BY FreshGate, PTL

\* Before Gate::new: CONTROLS is as Controls::new leaves it, but for the
\* barriers, which their tasks may have told.
Unborn ==
    /\ command = "none" /\ wind_lock_reset = FALSE /\ light_changed = FALSE
    /\ current_direction = "idle" /\ last_direction = "closing"
    /\ wind_locked = FALSE
    /\ barrier_changed \in BOOLEAN
    /\ barrier1_active \in BOOLEAN /\ barrier2_active \in BOOLEAN
    /\ (barrier1_active \/ barrier2_active) => barrier_changed
    /\ barrier_bypass = FALSE
    /\ drive = "none" /\ moved = FALSE
    /\ leaf = RestoredLeaf(saved)
    /\ storing = NotStoring

\* Gate::new then puts the gate into one of Gate's initial states.
LEMMA CreatedGate ==
    ASSUME Unborn, saved \in OrderedSnapshot, GateTaskStarts
    PROVE  Init'
  <1>1. /\ command' = "none" /\ wind_lock_reset' = FALSE
        /\ light_changed' = FALSE /\ last_direction' = "closing"
        /\ barrier_changed' \in BOOLEAN
        /\ barrier1_active' \in BOOLEAN /\ barrier2_active' \in BOOLEAN
        /\ (barrier1_active' \/ barrier2_active') => barrier_changed'
        /\ barrier_bypass' = FALSE /\ drive' = "none" /\ moved' = FALSE
    BY DEF Unborn, GateTaskStarts
  <1>2. /\ wind_locked' = saved.wind_locked
        /\ pending' = InitialPending(saved.wind_locked)
        /\ leaf' = RestoredLeaf(saved)
        /\ current_direction' = "idle"
        /\ position' = Classify(RestoredLeaf(saved))
        /\ announced' = Report("idle", Classify(RestoredLeaf(saved)),
                               saved.wind_locked, FALSE)
    BY DEF Unborn, GateTaskStarts
  <1>3. Boot(saved)'
    <2>1. saved' = saved
      BY DEF GateTaskStarts
    <2> QED
      BY <1>1, <1>2, <2>1 DEF Boot
  <1>4. saved' = saved
    BY DEF GateTaskStarts
  <1> QED
    BY <1>3, <1>4 DEF Init

-----------------------------------------------------------------------------
(* The inductive invariant.                                                *)

\* Nothing is left for the gate task to do.
Quiet == pending = "none" /\ command = "none" /\ ~wind_lock_reset

\* What is in flash, in the cache and on its way are snapshots in order.
StorageOK ==
    /\ flash \in OrderedSnapshot
    /\ saved \in OrderedSnapshot
    /\ storing \in OrderedSnapshot \cup {NotStoring}
    /\ suspect \in {"none", "unsaved", "unread"}

\* While a save is in flight the gate task is inside it, so the gate rests,
\* and the state being saved is out of date only if there is more to do.
SavesCurrent ==
    storing # NotStoring =>
        /\ drive = "none"
        /\ Quiet => storing = SnapshotOf(leaf, wind_locked)

Stored == StorageOK /\ CacheIsFlash /\ SavesCurrent /\ IdleStateDurable

FirmwareInv ==
    /\ created \in BOOLEAN
    /\ Stored
    /\ created => Inv /\ Order
    /\ ~created => Unborn

\* A snapshot is never mistaken for "not storing".
LEMMA SnapshotIsNotIdle ==
    ASSUME NEW s \in OrderedSnapshot
    PROVE  s # NotStoring
  <1>1. DOMAIN s = {"a", "b", "wind_locked"}
    BY DEF OrderedSnapshot, Snapshot
  <1>2. DOMAIN NotStoring = {"a", "b", "wind_locked", "idle"}
    BY DEF NotStoring
  <1> QED
    BY <1>1, <1>2

\* step() returns a snapshot in order.
LEMMA SnapshotInOrder ==
    ASSUME Inv, Order, drive = "none"
    PROVE  SnapshotOf(leaf, wind_locked) \in OrderedSnapshot
  <1>1. /\ leaf["A"] \in LeafRecord /\ leaf["B"] \in LeafRecord
        /\ leaf["A"].state = "idle" /\ leaf["B"].state = "idle"
        /\ wind_locked \in BOOLEAN
    BY DEF Inv, TypeOK, Leaves, Parked, Leaf
  <1>2. leaf["A"].position \in 0..MaxPos /\ leaf["B"].position \in 0..MaxPos
    BY <1>1, FieldTypes
  <1>3. Estimate("A", leaf["A"]) = leaf["A"].position
        /\ Estimate("B", leaf["B"]) = leaf["B"].position
    BY <1>1 DEF Estimate
  <1>4. leaf["A"].position >= leaf["B"].position
    BY <1>3 DEF Order, LeafOrder
  <1> DEFINE s == SnapshotOf(leaf, wind_locked)
  <1>5. s = [a |-> leaf["A"].position, b |-> leaf["B"].position,
             wind_locked |-> wind_locked]
    BY DEF SnapshotOf
  <1> HIDE DEF s
  <1>6. s \in Snapshot /\ s.a = leaf["A"].position /\ s.b = leaf["B"].position
    BY <1>1, <1>2, <1>5 DEF Snapshot
  <1>7. s \in OrderedSnapshot
    BY <1>4, <1>6 DEF OrderedSnapshot
  <1> QED
    BY <1>7 DEF s

\* The same after a step.
RestsInOrder ==
    drive = "none" => SnapshotOf(leaf, wind_locked) \in OrderedSnapshot

LEMMA SnapshotInOrderNext == Inv' /\ Order' => RestsInOrder'
  <1>1. Inv /\ Order => RestsInOrder
    BY SnapshotInOrder DEF RestsInOrder
  <1> QED
    BY <1>1, PTL

\* What a boot restores is what it read.
LEMMA RestoredSnapshot ==
    ASSUME NEW s \in OrderedSnapshot
    PROVE  SnapshotOf(RestoredLeaf(s), s.wind_locked) = s
  BY DEF OrderedSnapshot, Snapshot, SnapshotOf, RestoredLeaf, NewLeaf, Leaf

-----------------------------------------------------------------------------
(* Each step keeps it.                                                     *)

\* A fresh device.
LEMMA FirmwareInitInv ==
    ASSUME FirmwareInit
    PROVE  FirmwareInv
  <1>1. DefaultState \in OrderedSnapshot
    BY MaxPosAssumption DEF DefaultState, OrderedSnapshot, Snapshot
  <1>2. flash \in OrderedSnapshot /\ saved = flash /\ created = FALSE
        /\ storing = NotStoring /\ suspect = "none"
    BY <1>1 DEF FirmwareInit
  <1>3. Unborn
    BY DEF FirmwareInit, Unborn
  <1>4. Stored
    BY <1>2
    DEF Stored, StorageOK, CacheIsFlash, SavesCurrent, IdleStateDurable
  <1> QED
    BY <1>2, <1>3, <1>4 DEF FirmwareInv

\* Gate::new restores what the boot has read.
LEMMA GateTaskStartsInv ==
    ASSUME FirmwareInv, GateTaskStarts
    PROVE  FirmwareInv' /\ Init'
  <1>1. /\ Unborn /\ Stored /\ saved \in OrderedSnapshot
        /\ storing = NotStoring /\ created' = TRUE
        /\ UNCHANGED <<flash, saved, storing, suspect>>
    BY DEF FirmwareInv, GateTaskStarts, Unborn, Stored, StorageOK
  <1>2. Init'
    BY <1>1, CreatedGate
  <1>3. leaf' = RestoredLeaf(saved) /\ wind_locked' = saved.wind_locked
    BY DEF GateTaskStarts
  <1>4. SnapshotOf(leaf', wind_locked') = saved
    BY <1>1, <1>3, RestoredSnapshot
  <1>5. Stored'
    BY <1>1, <1>4
    DEF Stored, StorageOK, CacheIsFlash, SavesCurrent, IdleStateDurable
  <1> QED
    BY <1>1, <1>2, <1>5, FreshGateNext DEF FirmwareInv

\* The gate task's step, and what it hands to the save.
LEMMA RunGateInv ==
    ASSUME FirmwareInv, RunGate
    PROVE  FirmwareInv'
  <1>1. Inv /\ Order /\ Stored /\ GateTask /\ created = TRUE /\ created' = TRUE
    BY DEF FirmwareInv, RunGate
  <1>2. Inv' /\ Order'
    BY <1>1, GateTaskInv, GateTaskOrder
  <1>3. wind_locked' = wind_locked
    BY <1>1, GateTaskStep DEF inputs
  <1>4. UNCHANGED <<flash, saved, suspect>> /\ storing = NotStoring
    BY DEF RunGate
  <1>5. CASE drive' # "none"
    <2>1. storing' = NotStoring
      BY <1>4, <1>5 DEF RunGate
    <2> QED
      BY <1>1, <1>2, <1>4, <1>5, <2>1
      DEF FirmwareInv, Stored, StorageOK, CacheIsFlash, SavesCurrent,
          IdleStateDurable
  <1>6. CASE drive' = "none"
    <2> DEFINE s == SnapshotOf(leaf', wind_locked')
    <2>1. s \in OrderedSnapshot
      BY <1>2, <1>6, SnapshotInOrderNext DEF RestsInOrder
    <2>2. storing' = IF s = saved THEN NotStoring ELSE s
      BY <1>3, <1>6 DEF RunGate, AfterStep
    <2>3. IdleStateDurable'
      BY <1>1, <1>4, <2>1, <2>2, SnapshotIsNotIdle
      DEF IdleStateDurable, Stored, CacheIsFlash
    <2>4. SavesCurrent'
      BY <1>6, <2>2 DEF SavesCurrent
    <2>5. StorageOK' /\ CacheIsFlash'
      BY <1>1, <1>4, <2>1, <2>2 DEF Stored, StorageOK, CacheIsFlash
    <2> QED
      BY <1>1, <1>2, <2>3, <2>4, <2>5 DEF FirmwareInv, Stored
  <1> QED
    BY <1>5, <1>6

\* The save ends, one way or the other.
LEMMA SaveInv ==
    ASSUME FirmwareInv, SaveSucceeds \/ SaveFails
    PROVE  FirmwareInv'
  <1>0. UNCHANGED vars /\ storing # NotStoring /\ created' = created
        /\ storing' = NotStoring
    BY DEF SaveSucceeds, SaveFails
  <1>1. Inv /\ Order /\ Stored /\ UNCHANGED vars /\ storing # NotStoring
        /\ storing' = NotStoring /\ created = TRUE /\ created' = TRUE
    BY <1>0 DEF FirmwareInv, Unborn
  <1>2. Inv' /\ Order'
    BY <1>1, StutterInv, NextOrder
  <1>3. /\ UNCHANGED <<pending, command, wind_lock_reset, leaf, wind_locked,
                       drive>>
    BY <1>1 DEF vars, controls, task
  <1>4. CASE SaveSucceeds
    <2>1. flash' = storing /\ saved' = storing /\ suspect' = "none"
      BY <1>4 DEF SaveSucceeds
    <2>2. storing \in OrderedSnapshot
      BY <1>1 DEF Stored, StorageOK
    <2>3. StorageOK' /\ CacheIsFlash' /\ SavesCurrent'
      BY <1>1, <2>1, <2>2 DEF StorageOK, CacheIsFlash, SavesCurrent
    <2>4. IdleStateDurable'
      BY <1>1, <1>3, <2>1 DEF Stored, SavesCurrent, Quiet, IdleStateDurable
    <2> QED
      BY <1>1, <1>2, <2>3, <2>4 DEF FirmwareInv, Stored
  <1>5. CASE SaveFails
    <2>1. UNCHANGED <<flash, saved>> /\ suspect' = Worse(suspect)
      BY <1>5 DEF SaveFails
    <2>2. suspect' \in {"unsaved", "unread"}
          /\ (suspect' # "unread" => suspect # "unread")
      BY <1>1, <2>1 DEF Worse, Stored, StorageOK
    <2>3. StorageOK' /\ CacheIsFlash' /\ SavesCurrent' /\ IdleStateDurable'
      BY <1>1, <2>1, <2>2
      DEF Stored, StorageOK, CacheIsFlash, SavesCurrent, IdleStateDurable
    <2> QED
      BY <1>1, <1>2, <2>3 DEF FirmwareInv, Stored
  <1> QED
    BY <1>4, <1>5

\* A reset at any moment, also between step() and the end of its save.
LEMMA ResetInv ==
    ASSUME FirmwareInv, Reset
    PROVE  FirmwareInv'
  <1>1. flash' \in OrderedSnapshot
    BY DEF FirmwareInv, Stored, StorageOK, Reset, PowerLoss,
           PowerLossUnreadable
  <1>2. DefaultState \in OrderedSnapshot
    BY MaxPosAssumption DEF DefaultState, OrderedSnapshot, Snapshot
  <1>3. ASSUME NEW s \in OrderedSnapshot, BootFrom(s),
               \/ s = flash' /\ suspect' = "none"
               \/ suspect' = "unread"
        PROVE  FirmwareInv'
    <2>1. saved' = s /\ storing' = NotStoring /\ created' = FALSE
      BY <1>3 DEF BootFrom
    <2>2. Unborn'
      BY <1>3 DEF BootFrom, Unborn
    <2>3. StorageOK' /\ CacheIsFlash' /\ SavesCurrent' /\ IdleStateDurable'
      BY <1>1, <1>3, <2>1
      DEF StorageOK, CacheIsFlash, SavesCurrent, IdleStateDurable
    <2> QED
      BY <2>1, <2>2, <2>3 DEF FirmwareInv, Stored
  <1> QED
    BY <1>1, <1>2, <1>3 DEF Reset, PowerLoss, PowerLossUnreadable

\* Before Gate::new the other tasks only tell the barriers, and time does not
\* touch a leaf that has not run.
LEMMA UnbornInv ==
    ASSUME FirmwareInv, ~created, EarlyInput \/ Tick \/ UNCHANGED vars,
           UNCHANGED storage
    PROVE  FirmwareInv'
  <1>1. /\ Unborn /\ Stored /\ created = FALSE
        /\ UNCHANGED <<flash, saved, created, storing, suspect>>
    BY DEF FirmwareInv, storage
  <1>2. Stored'
    BY <1>1
    DEF Unborn, Stored, StorageOK, CacheIsFlash, SavesCurrent, IdleStateDurable
  <1>3. CASE EarlyInput
    <2>1. PICK active \in BOOLEAN : Barrier1Set(active) \/ Barrier2Set(active)
      BY <1>3 DEF EarlyInput
    <2>2. /\ barrier_changed' = TRUE
          /\ barrier1_active' \in BOOLEAN /\ barrier2_active' \in BOOLEAN
          /\ command' = "none"
      BY <1>1, <2>1
      DEF Barrier1Set, Barrier2Set, RetryForcedOpen, SignalBarrierChanged,
          Unborn
    <2>3. UNCHANGED <<wind_lock_reset, wind_locked, light_changed,
                      current_direction,
                      last_direction, barrier_bypass, drive, moved, leaf>>
      BY <2>1 DEF Barrier1Set, Barrier2Set, task
    <2> QED
      BY <1>1, <1>2, <2>2, <2>3 DEF Unborn, FirmwareInv
  <1>4. CASE Tick
    <2>1. ASSUME NEW l \in Leaf
          PROVE  Elapse(l, RestoredLeaf(saved)[l]) = RestoredLeaf(saved)[l]
      <3> DEFINE p == IF l = "A" THEN saved.a ELSE saved.b
                 f == [position |-> p, state |-> "idle", ran |-> 0, rest |-> 0,
                       phase |-> "done", due |-> 0]
      <3>1. RestoredLeaf(saved)[l] = f
        BY DEF RestoredLeaf, NewLeaf
      <3>2. p \in 0..MaxPos
        BY <1>1 DEF Stored, StorageOK, OrderedSnapshot, Snapshot
      <3> HIDE DEF p
      <3>3. Greater(0 - 1, 0) = 0
        BY DEF Greater
      <3>4. f.state = "idle" /\ f.ran = 0 /\ f.rest = 0 /\ f.due = 0
        OBVIOUS
      <3>5. Elapse(l, f) = [f EXCEPT !.ran = 0, !.rest = 0, !.due = 0]
        BY <3>3, <3>4 DEF Elapse
      <3>6. f \in LeafRecord
        BY <3>2 DEF LeafRecord
      <3>7. [f EXCEPT !.ran = 0, !.rest = 0, !.due = 0] = f
        BY <3>4, <3>6 DEF LeafRecord
      <3> QED
        BY <3>1, <3>5, <3>7
    <2>2. leaf' = [l \in Leaf |-> RestoredLeaf(saved)[l]]
      BY <1>1, <1>4, <2>1 DEF Tick, Unborn
    <2>3. leaf' = RestoredLeaf(saved)
      BY <2>2 DEF RestoredLeaf
    <2> QED
      BY <1>1, <1>2, <1>4, <2>3 DEF Tick, controls, Unborn, FirmwareInv
  <1>5. CASE UNCHANGED vars
    BY <1>1, <1>2, <1>5 DEF vars, controls, task, Unborn, FirmwareInv
  <1> QED
    BY <1>3, <1>4, <1>5

\* The other tasks and time, with or without a save in flight.
LEMMA OthersInv ==
    ASSUME FirmwareInv, created, ControlsInput \/ Tick \/ UNCHANGED vars,
           UNCHANGED storage
    PROVE  FirmwareInv'
  <1>1. Inv /\ Order /\ Stored
        /\ UNCHANGED <<flash, saved, created, storing, suspect>>
    BY DEF FirmwareInv, storage
  <1>2. Inv' /\ Order'
    BY <1>1, ControlsInv, TickInv, StutterInv, NextOrder DEF Next
  <1>3. /\ drive' = drive
        /\ Quiet' => Quiet /\ wind_locked' = wind_locked
        /\ \A l \in Leaf : leaf'[l].position = leaf[l].position
    <2>1. CASE ControlsInput
      <3>1. UNCHANGED <<pending, drive, leaf>>
        BY <2>1, ControlsKeepTask
      <3>2. Quiet' => Quiet /\ wind_locked' = wind_locked
        BY <1>1, <2>1, <3>1
        DEF ControlsInput, Open, Close, Stop, Impulse, NormalInput,
            WindTrigger, ResetWindLock, Barrier1Set, RetryForcedOpen,
            Barrier2Set, SetBarrierBypass, Quiet
      <3> QED
        BY <3>1, <3>2
    <2>2. CASE Tick
      BY <1>1, <2>2, ElapseLeaf DEF Tick, Inv, TypeOK, controls, Quiet
    <2>3. CASE UNCHANGED vars
      BY <2>3 DEF vars, controls, task, Quiet
    <2> QED
      BY <2>1, <2>2, <2>3
  <1>4. Quiet' => SnapshotOf(leaf', wind_locked') = SnapshotOf(leaf, wind_locked)
    BY <1>3 DEF SnapshotOf, Leaf
  <1>5. StorageOK' /\ CacheIsFlash'
    BY <1>1 DEF Stored, StorageOK, CacheIsFlash
  <1>6. SavesCurrent'
    BY <1>1, <1>3, <1>4 DEF Stored, SavesCurrent
  <1>7. IdleStateDurable'
    BY <1>1, <1>3, <1>4 DEF Stored, IdleStateDurable, Quiet
  <1> QED
    BY <1>1, <1>2, <1>5, <1>6, <1>7 DEF FirmwareInv, Stored

\* So does every step.
LEMMA FirmwareStepInv ==
    ASSUME FirmwareInv, [FirmwareNext]_firmwareVars
    PROVE  FirmwareInv'
  <1>1. CASE GateTaskStarts \/ RunGate \/ SaveSucceeds \/ SaveFails \/ Reset
    BY <1>1, GateTaskStartsInv, RunGateInv, SaveInv, ResetInv
  <1>2. CASE AnyInput
    BY <1>2, UnbornInv, OthersInv DEF AnyInput
  <1>3. CASE (Tick \/ UNCHANGED vars) /\ UNCHANGED storage
    BY <1>3, UnbornInv, OthersInv DEF FirmwareInv
  <1> QED
    BY <1>1, <1>2, <1>3 DEF FirmwareNext, FirmwareStep, firmwareVars

\* The invariant holds however the power fails and the flash errs.
THEOREM FirmwareInvariance == FirmwareSpec => []FirmwareInv
  <1>1. FirmwareInit => FirmwareInv
    BY FirmwareInitInv
  <1>2. FirmwareInv /\ [FirmwareNext]_firmwareVars => FirmwareInv'
    BY FirmwareStepInv
  <1> QED
    BY <1>1, <1>2, PTL DEF FirmwareSpec

-----------------------------------------------------------------------------
(* The results.                                                            *)

\* A gate that stands still with nothing left to do is in flash.
THEOREM IdleStatesAreDurable == FirmwareSpec => []IdleStateDurable
  <1>1. FirmwareInv => IdleStateDurable
    BY DEF FirmwareInv, Stored
  <1> QED
    BY <1>1, FirmwareInvariance, PTL

\* The cache that decides whether a state is saved is what flash holds.
THEOREM CachesAreFlash == FirmwareSpec => []CacheIsFlash
  <1>1. FirmwareInv => CacheIsFlash
    BY DEF FirmwareInv, Stored
  <1> QED
    BY <1>1, FirmwareInvariance, PTL

\* From Gate::new to the next reset the firmware runs the gate of module Gate:
\* it starts in one of Gate's initial states, whatever the barriers were told
\* before and however flash came to hold what was restored, and goes on with
\* Gate's steps.
RunsTheGate ==
    [][ /\ GateTaskStarts => Init'
        /\ (created /\ created') => [Next]_vars ]_firmwareVars

\* So all that is proved of Gate holds between two resets.  For the leaves this
\* is bookkeeping: the estimates a boot restores are in the order Gate assumes,
\* which says nothing of the leaves themselves (see Installation).
THEOREM BootsInOrder == FirmwareSpec => RunsTheGate
  <1>1. ASSUME FirmwareInv, [FirmwareNext]_firmwareVars
        PROVE  /\ GateTaskStarts => Init'
               /\ (created /\ created') => [Next]_vars
    <2>1. GateTaskStarts => Init'
      BY <1>1, GateTaskStartsInv
    <2>2. ASSUME created, created'
          PROVE  [Next]_vars
      <3>1. ~GateTaskStarts /\ ~Reset
        BY <2>2 DEF GateTaskStarts, Reset, PowerLoss, PowerLossUnreadable, BootFrom
      <3> QED
        BY <1>1, <2>2, <3>1
        DEF FirmwareNext, FirmwareStep, RunGate, SaveSucceeds, SaveFails,
            AnyInput, firmwareVars, Next
    <2> QED
      BY <2>1, <2>2
  <1> QED
    BY <1>1, FirmwareInvariance, PTL DEF FirmwareSpec, RunsTheGate

\* The gate's own safety condition survives resets: after each of them, too,
\* what forbids a movement is never lost.
THEOREM SafeAcrossRestarts == FirmwareSpec => []SafetyWake
  <1>1. FirmwareInv => SafetyWake
    BY DEF FirmwareInv, Inv, Unborn, SafetyWake
  <1> QED
    BY <1>1, FirmwareInvariance, PTL

-----------------------------------------------------------------------------
(* The device.                                                             *)

\* What level_task has seen since the boot is what the gate knows of barrier 1.
Sampled ==
    /\ pin \in BOOLEAN /\ sampled \in BOOLEAN /\ last_active \in BOOLEAN
    /\ barrier1_active <=> sampled /\ last_active

\* Each step of the device is one of Firmware, or nothing to it.
LEMMA DeviceStep ==
    ASSUME FirmwareInv, pin \in BOOLEAN, [DeviceNext]_deviceVars
    PROVE  [FirmwareNext]_firmwareVars
  <1>0. created \in BOOLEAN
    BY DEF FirmwareInv
  <1>1. CASE Starts \/ Runs \/ Saves \/ Ticks \/ DeviceReset
    BY <1>1
    DEF Starts, Runs, Saves, Ticks, DeviceReset, FirmwareNext, FirmwareStep
  <1>2. CASE LevelTask
    <2>1. Barrier1Set(pin) /\ UNCHANGED storage
      BY <1>2 DEF LevelTask, LevelTaskStarts, LevelChanged, FirstCall
    <2> QED
      BY <1>0, <2>1
      DEF ControlsInput, EarlyInput, AnyInput, FirmwareNext, FirmwareStep
  <1>3. CASE OtherInput /\ UNCHANGED <<storage, sampling>>
    BY <1>0, <1>3
    DEF OtherInput, ControlsInput, EarlyInput, AnyInput, FirmwareNext,
        FirmwareStep
  <1>4. CASE PinChanges \/ UNCHANGED deviceVars
    BY <1>4 DEF PinChanges, deviceVars
  <1> QED
    BY <1>1, <1>2, <1>3, <1>4 DEF DeviceNext

\* Nobody else changes what the gate knows of barrier 1, and a reset makes the
\* gate and level_task forget it together.
LEMMA SampledStep ==
    ASSUME FirmwareInv, Sampled, [DeviceNext]_deviceVars
    PROVE  Sampled'
  <1>1. CASE Runs
    <2>1. GateTask /\ UNCHANGED <<pin, sampled, last_active>>
      BY <1>1 DEF Runs, RunGate, sampling
    <2>2. barrier1_active' = barrier1_active
      BY <1>1, <2>1, GateTaskStep DEF Runs, RunGate, FirmwareInv, inputs
    <2> QED
      BY <2>1, <2>2 DEF Sampled
  <1>2. CASE Starts \/ Saves \/ Ticks
    BY <1>2
    DEF Starts, GateTaskStarts, Saves, SaveSucceeds, Ticks, Tick, vars,
        controls, sampling, Sampled
  <1>3. CASE LevelTask
    <2>1. /\ barrier1_active' = pin /\ last_active' = pin /\ pin' = pin
          /\ sampled' = TRUE \/ (sampled /\ sampled' = sampled)
      BY <1>3
      DEF LevelTask, LevelTaskStarts, LevelChanged, FirstCall, Barrier1Set
    <2>2. pin \in BOOLEAN /\ sampled \in BOOLEAN
      BY DEF Sampled
    <2>3. sampled' = TRUE
      BY <2>1, <2>2
    <2> QED
      BY <2>1, <2>2, <2>3 DEF Sampled
  <1>4. CASE DeviceReset
    <2>1. /\ sampled' = FALSE /\ last_active' = FALSE /\ pin' = pin
          /\ barrier1_active' = FALSE
      BY <1>4 DEF DeviceReset, Reset, PowerLoss, PowerLossUnreadable, BootFrom
    <2> QED
      BY <2>1 DEF Sampled
  <1>5. CASE OtherInput /\ UNCHANGED <<storage, sampling>>
    BY <1>5
    DEF OtherInput, Open, Close, Stop, Impulse, NormalInput, WindTrigger,
        ResetWindLock, Barrier2Set, SetBarrierBypass, sampling, Sampled
  <1>6. CASE PinChanges
    <2>1. pin' = ~pin /\ UNCHANGED <<sampled, last_active, barrier1_active>>
      BY <1>6 DEF PinChanges, firmwareVars, vars, controls
    <2> QED
      BY <2>1 DEF Sampled
  <1>7. CASE UNCHANGED deviceVars
    BY <1>7
    DEF deviceVars, firmwareVars, vars, controls, sampling, Sampled
  <1> QED
    BY <1>1, <1>2, <1>3, <1>4, <1>5, <1>6, <1>7 DEF DeviceNext

\* The device's part of the invariant holds, resets included.
LEMMA DeviceInvariance == DeviceSpec => [](FirmwareInv /\ Sampled)
  <1>1. DeviceInit => FirmwareInv /\ Sampled
    <2> SUFFICES ASSUME DeviceInit PROVE FirmwareInv /\ Sampled
      OBVIOUS
    <2>1. /\ pin \in BOOLEAN /\ sampled = FALSE /\ last_active = FALSE
          /\ barrier1_active = FALSE
      BY DEF DeviceInit, FirmwareInit
    <2> QED
      BY <2>1, FirmwareInitInv DEF DeviceInit, Sampled
  <1>2. FirmwareInv /\ Sampled /\ [DeviceNext]_deviceVars => FirmwareInv' /\ Sampled'
    <2> SUFFICES ASSUME FirmwareInv, Sampled, [DeviceNext]_deviceVars
                 PROVE  FirmwareInv' /\ Sampled'
      OBVIOUS
    <2>1. [FirmwareNext]_firmwareVars
      BY DeviceStep DEF Sampled
    <2> QED
      BY <2>1, FirmwareStepInv, SampledStep
  <1> QED
    BY <1>1, <1>2, PTL DEF DeviceSpec

\* Beside the sampled light barrier the gate, its persistence and the resets
\* are what Firmware says, whose inputs come at any time: what is proved of
\* Firmware holds of the device.
THEOREM DeviceRunsFirmware == DeviceSpec => FirmwareSpec
  <1>1. DeviceInit => FirmwareInit
    BY DEF DeviceInit
  <1>2. FirmwareInv /\ Sampled /\ [DeviceNext]_deviceVars
          => [FirmwareNext]_firmwareVars
    BY DeviceStep DEF Sampled
  <1> QED
    BY <1>1, <1>2, DeviceInvariance, PTL DEF DeviceSpec, FirmwareSpec

\* A movement with the beam interrupted and no bypass armed does not go on
\* unnoticed: the gate task is about to look at the barriers, or level_task has
\* yet to see what the pin shows - in whatever order they started, and across
\* resets in the middle of a movement.
BrokenBeamIsNoticed ==
    (drive # "none" /\ pin /\ ~barrier_bypass)
        => barrier_changed \/ ~sampled \/ ~last_active

\* No movement goes on unnoticed with the beam interrupted: once level_task has
\* seen it, the gate task is about to look at the barriers.
THEOREM BeamIsNoticed == DeviceSpec => []BrokenBeamIsNoticed
  <1>1. FirmwareInv /\ Sampled => BrokenBeamIsNoticed
    BY DEF FirmwareInv, Inv, Unborn, SafetyWake, BeamForbids, Sampled,
           BrokenBeamIsNoticed
  <1> QED
    BY <1>1, DeviceInvariance, PTL

-----------------------------------------------------------------------------
(* The leaves themselves.                                                  *)

\* What a step of the gate task does to a leaf's relays and books of its run:
\* f is the leaf before it, g after it.
Booked(l, f, g) ==
    /\ g.state = "idle" => g.position = Estimate(l, f)
    /\ g.state # "idle" => g.ran = 0 \/ (g.state = f.state /\ g.ran = f.ran)

\* Stopping books the estimate.
LEMMA StoppedBooked ==
    ASSUME NEW fs \in [Leaf -> LeafRecord], NEW l \in Leaf
    PROVE  /\ Stopped(fs)[l].state = "idle"
           /\ Stopped(fs)[l].position = Estimate(l, fs[l])
  <1> DEFINE f == fs[l]
             t == Settle(l, f)
  <1>1. f \in LeafRecord
    OBVIOUS
  <1>2. Stopped(fs)[l] = [t EXCEPT !.phase = "done", !.due = 0]
    BY DEF Stopped
  <1>3. t \in LeafRecord /\ t.state = "idle"
    BY <1>1, SettleLeaf
  <1>4. t.position = Estimate(l, f)
    <2>1. CASE f.state = "idle"
      <3>1. t = f
        BY <2>1 DEF Settle
      <3>2. Estimate(l, f) = f.position
        BY <2>1 DEF Estimate
      <3> QED
        BY <3>1, <3>2
    <2>2. CASE f.state # "idle"
      BY <1>1, <2>2 DEF Settle, LeafRecord
    <2> QED
      BY <2>1, <2>2
  <1> HIDE DEF t, f
  <1> QED
    BY <1>2, <1>3, <1>4 DEF LeafRecord, f

\* A pass starts a run, leaves one alone or books it.
LEMMA PassBooked ==
    ASSUME NEW l \in Leaf, NEW f \in LeafRecord, NEW d \in Direction,
           InMovement(l, f, d)
    PROVE  Booked(l, f, Pass(l, f, d))
  <1> DEFINE g == Pass(l, f, d)
  <1>1. CASE g = f
    BY <1>1 DEF Booked, Estimate
  <1>2. CASE f.phase = "waiting" /\ g = [f EXCEPT !.phase = "done"]
    <2>1. f.state = "idle"
      BY <1>2 DEF InMovement
    <2>2. g.state = "idle" /\ g.position = f.position
      BY <1>2, <2>1 DEF LeafRecord
    <2> HIDE DEF g
    <2> QED
      BY <2>1, <2>2 DEF Booked, Estimate, g
  <1>3. CASE g = [[f EXCEPT !.state = d, !.ran = 0]
                    EXCEPT !.phase = "running", !.due = RunTime(l, f, d)]
    <2> DEFINE rt == RunTime(l, f, d)
    <2>1. g = [[f EXCEPT !.state = d, !.ran = 0]
                 EXCEPT !.phase = "running", !.due = rt]
      BY <1>3
    <2> HIDE DEF rt, g
    <2>2. g.state = d /\ g.ran = 0
      BY <2>1 DEF LeafRecord
    <2> QED
      BY <2>2 DEF Booked, Direction, g
  <1>4. CASE f.phase = "running" /\ g = [Settle(l, f) EXCEPT !.phase = "done"]
    <2> DEFINE t == Settle(l, f)
    <2>1. f.state # "idle"
      BY <1>4 DEF InMovement, Direction
    <2>2. t \in LeafRecord /\ t.state = "idle" /\ t.position = Estimate(l, f)
      BY <2>1, SettleLeaf DEF Settle, LeafRecord
    <2> HIDE DEF t
    <2>3. g.state = "idle" /\ g.position = t.position
      BY <1>4, <2>2 DEF LeafRecord, t
    <2> QED
      BY <2>2, <2>3 DEF Booked
  <1> QED
    BY <1>1, <1>2, <1>3, <1>4, PassCases

\* So does one iteration of drive()'s loop.
LEMMA LoopPassBooked ==
    ASSUME NEW d \in Direction, NEW fs \in [Leaf -> LeafRecord],
           \A l \in Leaf : InMovement(l, fs[l], d),
           NEW mv, NEW said, LoopPass(d, fs, mv, said), NEW l \in Leaf
    PROVE  Booked(l, fs[l], leaf'[l])
  <1> DEFINE passed == [m \in Leaf |-> Pass(m, fs[m], d)]
  <1>1. passed \in [Leaf -> LeafRecord] /\ InMovement(l, passed[l], d)
        /\ Booked(l, fs[l], passed[l])
    BY PassLeaf, PassBooked
  <1>2. \/ leaf' = Stopped(fs)
        \/ leaf' = Stopped(passed) /\ passed[l].phase = "done"
        \/ leaf' = passed
    BY DEF LoopPass, EndDrive, SettleGate
  <1> HIDE DEF passed
  <1>3. CASE leaf' = Stopped(fs)
    BY <1>3, StoppedBooked DEF Booked
  <1>4. CASE leaf' = Stopped(passed) /\ passed[l].phase = "done"
    <2>1. passed[l].state = "idle"
      BY <1>1, <1>4 DEF InMovement
    <2>2. Estimate(l, passed[l]) = Estimate(l, fs[l])
      BY <1>1, <2>1 DEF Booked, Estimate
    <2> QED
      BY <1>1, <1>4, <2>2, StoppedBooked DEF Booked
  <1>5. CASE leaf' = passed
    BY <1>1, <1>5
  <1> QED
    BY <1>2, <1>3, <1>4, <1>5

\* And every step of the gate task.
LEMMA GateTaskBooked ==
    ASSUME Inv, GateTask, NEW l \in Leaf
    PROVE  Booked(l, leaf[l], leaf'[l])
  <1>1. leaf \in [Leaf -> LeafRecord] /\ drive \in SlotOf(Direction)
    BY DEF Inv, TypeOK
  <1>2. CASE leaf' = leaf \/ leaf' = Stopped(leaf)
    BY <1>1, <1>2, StoppedBooked DEF Booked, Estimate
  <1>3. ASSUME drive # "none", NEW said, LoopPass(drive, leaf, moved, said)
        PROVE  Booked(l, leaf[l], leaf'[l])
    <2>1. drive \in Direction /\ \A m \in Leaf : InMovement(m, leaf[m], drive)
      BY <1>1, <1>3 DEF SlotOf, Inv, Leaves
    <2> QED
      BY <1>1, <1>3, <2>1, LoopPassBooked
  <1>4. ASSUME drive = "none", NEW c, Execute(c)
        PROVE  Booked(l, leaf[l], leaf'[l])
    <2>1. \A m \in Leaf : Parked(leaf[m])
      BY <1>4 DEF Inv, Leaves
    <2>2. ASSUME NEW d \in Direction, StartDrive(d)
          PROVE  Booked(l, leaf[l], leaf'[l])
      <3> DEFINE fs == [m \in Leaf |-> Plan(m, leaf[m], d)]
      <3>1. fs \in [Leaf -> LeafRecord] /\ \A m \in Leaf : InMovement(m, fs[m], d)
        BY <1>1, <2>1, PlanLeaf
      <3>2. fs[l].state = leaf[l].state /\ fs[l].position = leaf[l].position
        <4>1. fs[l] \in {[leaf[l] EXCEPT !.phase = "done", !.due = 0],
                         [leaf[l] EXCEPT !.phase = "waiting",
                                         !.due = StartDelay(l, leaf[l], d)]}
          BY DEF Plan
        <4> QED
          BY <1>1, <4>1 DEF LeafRecord
      <3>3. leaf[l].state = "idle"
        BY <2>1 DEF Parked
      <3>4. CASE leaf' = leaf
        BY <1>2, <3>4
      <3>5. CASE LoopPass(d, fs, FALSE, Report(d, position, wind_locked,
                                               barrier_bypass))
        <4>1. Booked(l, fs[l], leaf'[l])
          BY <3>1, <3>5, LoopPassBooked
        <4>2. Estimate(l, fs[l]) = Estimate(l, leaf[l])
          BY <3>2, <3>3 DEF Estimate
        <4> QED
          BY <3>2, <3>3, <4>1, <4>2 DEF Booked
      <3> QED
        BY <2>2, <3>4, <3>5 DEF StartDrive, SettleGate
    <2> QED
      BY <1>2, <1>4, <2>2 DEF Execute, EndDrive, SettleGate, Direction
  <1> QED
    BY <1>2, <1>3, <1>4
    DEF GateTask, StepPending, StepCommand, StepReset, DriveTimer,
        DriveSameCommand, DriveStop, DriveReverse, DriveBarrierChanged,
        DriveWindLockReset, EndDrive, SettleGate

\* How long a relay has been on is how far the leaf has come at least, from
\* wherever it was.
Swept(l) ==
    /\ real[l] \in 0..FullWay(l)
    /\ leaf[l].state = "opening" =>
         /\ leaf[l].ran \in 0..FullDuration(l, "opening")
         /\ real[l] >= leaf[l].ran * FullDuration(l, "closing")
    /\ leaf[l].state = "closing" =>
         /\ leaf[l].ran \in 0..FullDuration(l, "closing")
         /\ FullWay(l) - real[l] >= leaf[l].ran * FullDuration(l, "opening")

AllSwept == real \in [Leaf -> Nat] /\ \A l \in Leaf : Swept(l)

\* A leaf's way has a length, the product of its two travel times.
LEMMA FullWayType ==
    ASSUME NEW l \in Leaf
    PROVE  /\ FullWay(l) \in Nat
           /\ FullDuration(l, "opening") \in Nat \ {0}
           /\ FullDuration(l, "closing") \in Nat \ {0}
           /\ FullWay(l) = FullDuration(l, "opening") * FullDuration(l, "closing")
  <1>1. /\ FullDuration(l, "opening") \in Nat \ {0}
        /\ FullDuration(l, "closing") \in Nat \ {0}
    BY FullDurationType DEF Direction
  <1> QED
    BY <1>1 DEF FullWay

\* One more tick of `full` keeps the distance ahead of the time: the relay was
\* on for r ticks, each worth p units, and x units are covered of full * p.
LEMMA SweepTick ==
    ASSUME NEW full \in Nat, NEW p \in Nat, NEW r \in 0..full,
           NEW x \in 0..(full * p), x >= r * p
    PROVE  /\ Lesser(r + 1, full) \in 0..full
           /\ Lesser(x + p, full * p) \in 0..(full * p)
           /\ Lesser(x + p, full * p) >= Lesser(r + 1, full) * p
  <1>1. full * p \in Nat /\ r * p \in Nat
    OBVIOUS
  <1>2. (r + 1) * p = r * p + p
    OBVIOUS
  <1> DEFINE w == full * p
             y == r * p
  <1>3. CASE r + 1 < full
    <2>1. Lesser(r + 1, full) = r + 1
      BY <1>3 DEF Lesser
    <2>2. (r + 1) * p <= full * p
      BY <1>3
    <2>3. w \in Nat /\ y \in Nat /\ y + p <= w /\ x \in 0..w /\ x >= y
      BY <1>1, <1>2, <2>2
    <2> HIDE DEF w, y
    <2>4. Lesser(x + p, w) \in 0..w /\ Lesser(x + p, w) >= y + p
      BY <2>3 DEF Lesser
    <2> QED
      BY <1>2, <1>3, <2>1, <2>4 DEF w, y
  <1>4. CASE ~(r + 1 < full)
    <2>1. Lesser(r + 1, full) = full
      BY <1>4 DEF Lesser
    <2>2. r = full \/ r + 1 = full
      BY <1>4
    <2>3. w = y \/ w = y + p
      BY <1>2, <2>2
    <2>4. w \in Nat /\ y \in Nat /\ x \in 0..w /\ x >= y
      BY <1>1
    <2> HIDE DEF w, y
    <2>5. Lesser(x + p, w) = w
      BY <2>3, <2>4 DEF Lesser
    <2> QED
      BY <2>1, <2>4, <2>5 DEF w
  <1> QED
    BY <1>3, <1>4

\* Time moves a leaf and counts it.
LEMMA TickSwept ==
    ASSUME leaf \in [Leaf -> LeafRecord], AllSwept, TimePasses
    PROVE  AllSwept'
  <1>1. ASSUME NEW l \in Leaf
        PROVE  Swept(l)' /\ real'[l] \in Nat
    <2> DEFINE fo == FullDuration(l, "opening")
               fc == FullDuration(l, "closing")
               w == FullWay(l)
               x == real[l]
               f == leaf[l]
    <2>1. w \in Nat /\ fo \in Nat \ {0} /\ fc \in Nat \ {0} /\ w = fo * fc
      BY FullWayType
    <2>2. f \in LeafRecord /\ x \in 0..w
      BY DEF AllSwept, Swept
    <2>3. leaf'[l] = Elapse(l, f) /\ real'[l] = Moved(l)
      BY DEF TimePasses, Tick
    <2>4. leaf'[l].state = f.state
      BY <2>2, <2>3, ElapseLeaf
    <2>5. f.state # "idle" =>
            leaf'[l].ran = Lesser(f.ran + 1, FullDuration(l, f.state))
      BY <2>2, <2>3 DEF Elapse, LeafRecord
    <2>6. CASE f.state = "opening"
      <3>1. f.ran \in 0..fo /\ x >= f.ran * fc
        BY <2>6 DEF AllSwept, Swept
      <3>2. leaf'[l].ran = Lesser(f.ran + 1, fo)
        BY <2>5, <2>6
      <3>3. real'[l] = Lesser(x + fc, w)
        BY <2>3, <2>6 DEF Moved
      <3> HIDE DEF fo, fc, w, x, f
      <3>4. /\ leaf'[l].ran \in 0..fo /\ real'[l] \in 0..w
            /\ real'[l] >= leaf'[l].ran * fc
        BY <2>1, <2>2, <3>1, <3>2, <3>3, SweepTick
      <3> QED
        BY <2>1, <2>4, <2>6, <3>4 DEF Swept, fo, fc, w, f
    <2>7. CASE f.state = "closing"
      <3>1. f.ran \in 0..fc /\ w - x >= f.ran * fo
        BY <2>7 DEF AllSwept, Swept
      <3>2. leaf'[l].ran = Lesser(f.ran + 1, fc)
        BY <2>5, <2>7
      <3>3. real'[l] = Greater(x - fo, 0)
        BY <2>3, <2>7 DEF Moved
      <3> HIDE DEF fo, fc, w, x, f
      <3>4. w = fc * fo
        BY <2>1
      <3>5. w - x \in 0..(fc * fo)
        BY <2>1, <2>2, <3>4
      <3>6. /\ Lesser(f.ran + 1, fc) \in 0..fc
            /\ Lesser((w - x) + fo, fc * fo) >= Lesser(f.ran + 1, fc) * fo
        BY <2>1, <3>1, <3>5, SweepTick
      <3>7. real'[l] \in 0..w /\ w - real'[l] = Lesser((w - x) + fo, w)
        BY <2>1, <2>2, <3>3 DEF Lesser, Greater
      <3>8. w - real'[l] >= leaf'[l].ran * fo
        BY <3>2, <3>4, <3>6, <3>7
      <3> QED
        BY <2>1, <2>4, <2>7, <3>2, <3>6, <3>7, <3>8 DEF Swept, fo, fc, w, f
    <2>8. CASE f.state = "idle"
      <3>1. real'[l] = x
        BY <2>3, <2>8 DEF Moved
      <3> QED
        BY <2>1, <2>2, <2>4, <2>8, <3>1 DEF Swept
    <2> QED
      BY <2>2, <2>6, <2>7, <2>8, FieldTypes
  <1>2. real' \in [Leaf -> Nat]
    <2>1. real' = [l \in Leaf |-> real'[l]]
      BY DEF TimePasses
    <2> QED
      BY <1>1, <2>1
  <1> QED
    BY <1>1, <1>2 DEF AllSwept

\* The tasks do not move a leaf: they start, stop or leave alone what runs.
LEMMA StepSwept ==
    ASSUME FirmwareInv, AllSwept, FirmwareStep \/ UNCHANGED firmwareVars,
           UNCHANGED real
    PROVE  AllSwept'
  <1>1. ASSUME NEW l \in Leaf,
               \/ leaf'[l].state = "idle"
               \/ leaf'[l].ran = 0
               \/ leaf'[l].state = leaf[l].state /\ leaf'[l].ran = leaf[l].ran
        PROVE  Swept(l)'
    <2>1. /\ FullWay(l) \in Nat
          /\ FullDuration(l, "opening") \in Nat /\ FullDuration(l, "closing") \in Nat
      BY FullWayType
    <2>2. Swept(l) /\ real'[l] = real[l]
      BY DEF AllSwept
    <2>3. CASE leaf'[l].state = "idle"
      BY <2>2, <2>3 DEF Swept
    <2>4. CASE leaf'[l].ran = 0
      <3>1. 0 * FullDuration(l, "closing") = 0 /\ 0 * FullDuration(l, "opening") = 0
        BY <2>1
      <3>2. real[l] \in 0..FullWay(l)
        BY <2>2 DEF Swept
      <3>3. FullWay(l) - real[l] >= 0 /\ real[l] >= 0
        BY <2>1, <3>2
      <3> QED
        BY <2>1, <2>2, <2>4, <3>1, <3>2, <3>3 DEF Swept
    <2>5. CASE leaf'[l].state = leaf[l].state /\ leaf'[l].ran = leaf[l].ran
      BY <2>2, <2>5 DEF Swept
    <2> QED
      BY <1>1, <2>3, <2>4, <2>5
  <1>2. ASSUME NEW l \in Leaf
        PROVE  \/ leaf'[l].state = "idle"
               \/ leaf'[l].ran = 0
               \/ leaf'[l].state = leaf[l].state /\ leaf'[l].ran = leaf[l].ran
    <2>1. CASE RunGate
      <3>1. Inv /\ GateTask
        BY <2>1 DEF RunGate, FirmwareInv
      <3> QED
        BY <3>1, GateTaskBooked DEF Booked
    <2>2. CASE GateTaskStarts \/ Reset
      BY <2>2
      DEF GateTaskStarts, Reset, PowerLoss, PowerLossUnreadable, BootFrom,
          RestoredLeaf, NewLeaf
    <2>3. CASE SaveSucceeds \/ SaveFails \/ UNCHANGED firmwareVars
      BY <2>3 DEF SaveSucceeds, SaveFails, firmwareVars, vars, task
    <2>4. CASE AnyInput
      <3>1. ControlsInput
        BY <2>4 DEF AnyInput, EarlyInput, ControlsInput
      <3> QED
        BY <3>1, ControlsKeepTask
    <2> QED
      BY <2>1, <2>2, <2>3, <2>4 DEF FirmwareStep
  <1> QED
    BY <1>1, <1>2 DEF AllSwept

\* The installation runs the firmware, and its leaves are at least as far as
\* the time they ran for.
LEMMA InstallationInvariance == InstallationSpec => [](FirmwareInv /\ AllSwept)
  <1>1. InstallationInit => FirmwareInv /\ AllSwept
    <2> SUFFICES ASSUME InstallationInit PROVE FirmwareInv /\ AllSwept
      OBVIOUS
    <2>1. real = [l \in Leaf |-> 0] /\ leaf = RestoredLeaf(DefaultState)
      BY DEF InstallationInit, FirmwareInit
    <2>2. \A l \in Leaf : leaf[l].state = "idle"
      BY <2>1 DEF RestoredLeaf, NewLeaf
    <2>3. \A l \in Leaf : 0 \in 0..FullWay(l)
      BY FullWayType
    <2>4. AllSwept
      BY <2>1, <2>2, <2>3 DEF AllSwept, Swept
    <2> QED
      BY <2>4, FirmwareInitInv DEF InstallationInit
  <1>2. FirmwareInv /\ AllSwept /\ [InstallationNext]_installationVars
          => FirmwareInv' /\ AllSwept'
    <2> SUFFICES ASSUME FirmwareInv, AllSwept,
                        [InstallationNext]_installationVars
                 PROVE  FirmwareInv' /\ AllSwept'
      OBVIOUS
    <2>1. FirmwareInv'
      BY FirmwareStepInv
      DEF InstallationNext, TimePasses, FirmwareNext, installationVars
    <2>2. CASE TimePasses
      <3>1. leaf \in [Leaf -> LeafRecord]
        <4>1. CASE created
          BY <4>1 DEF FirmwareInv, Inv, TypeOK
        <4>2. CASE ~created
          BY <4>2
          DEF FirmwareInv, Unborn, Stored, StorageOK, OrderedSnapshot,
              Snapshot, RestoredLeaf, NewLeaf, LeafRecord
        <4> QED
          BY <4>1, <4>2
      <3> QED
        BY <2>1, <2>2, <3>1, TickSwept
    <2>3. CASE ~TimePasses
      <3>1. (FirmwareStep \/ UNCHANGED firmwareVars) /\ UNCHANGED real
        BY <2>3 DEF InstallationNext, installationVars
      <3> QED
        BY <2>1, <3>1, StepSwept
    <2> QED
      BY <2>2, <2>3
  <1> QED
    BY <1>1, <1>2, PTL DEF InstallationSpec

\* The full way is booked only for the full travel time.
LEMMA FullWayTakesFullTime ==
    ASSUME NEW l \in Leaf, NEW d \in Direction, NEW r \in Nat,
           Travelled(l, r, d) = MaxPos
    PROVE  r >= FullDuration(l, d)
  <1> DEFINE full == FullDuration(l, d)
             q == (r * MaxPos) \div full
  <1>1. full \in Nat \ {0} /\ MaxPos \in Nat \ {0}
    BY FullDurationType, MaxPosAssumption
  <1>2. r * MaxPos \in Nat
    BY <1>1
  <1>3. q \in Nat /\ q * full <= r * MaxPos
    BY <1>1, <1>2, DivIsNat, DivAtMost
  <1>4. q >= MaxPos
    <2>1. Lesser(q, MaxPos) = MaxPos
      BY DEF Travelled
    <2> HIDE DEF q
    <2> QED
      BY <1>1, <1>3, <2>1 DEF Lesser
  <1> HIDE DEF full, q
  <1>5. MaxPos * full <= q * full
    BY <1>1, <1>3, <1>4
  <1>6. MaxPos * full <= r * MaxPos
    BY <1>1, <1>2, <1>3, <1>5
  <1>7. CASE r < full
    <2>1. r + 1 <= full
      BY <1>1, <1>7
    <2>2. MaxPos * (r + 1) <= MaxPos * full
      BY <1>1, <2>1
    <2>3. MaxPos * (r + 1) = r * MaxPos + MaxPos
      BY <1>1
    <2> QED
      BY <1>1, <1>2, <1>6, <2>2, <2>3
  <1> QED
    BY <1>1, <1>7 DEF full

\* However wrong the estimates are after resets, a run booked from one end to
\* the other has brought the leaf to its end stop: estimate and leaf agree
\* again.
THEOREM FullRunsReference == InstallationSpec => FullRunFindsTheEndStop
  <1>1. ASSUME FirmwareInv, AllSwept, RunGate, NEW l \in Leaf,
               NEW d \in Direction, leaf[l].state = d,
               leaf[l].position = FarEnd(d), leaf'[l].state = "idle",
               AtEnd(leaf'[l], d)
        PROVE  real[l] = EndStop(l, d)
    <2>1. Inv /\ GateTask
      BY <1>1 DEF RunGate, FirmwareInv
    <2>2. leaf'[l].position = Estimate(l, leaf[l])
      BY <1>1, <2>1, GateTaskBooked DEF Booked
    <2>3. Swept(l)
      BY <1>1 DEF AllSwept
    <2>4. leaf[l].ran \in Nat
      BY <2>1, FieldTypes DEF Inv, TypeOK
    <2>5. Travelled(l, leaf[l].ran, d) \in 0..MaxPos
      BY <2>4, TravelledType
    <2> DEFINE fo == FullDuration(l, "opening")
               fc == FullDuration(l, "closing")
               w == FullWay(l)
               tr == Travelled(l, leaf[l].ran, d)
               r == leaf[l].ran
    <2>6. fo \in Nat \ {0} /\ fc \in Nat \ {0} /\ w = fo * fc /\ w \in Nat
      BY FullWayType
    <2>7. CASE d = "opening"
      <3>1. leaf'[l].position = Lesser(0 + tr, MaxPos)
        BY <1>1, <2>2, <2>7 DEF Estimate, FarEnd
      <3>2. MaxPos - leaf'[l].position = 0
        BY <1>1, <2>7 DEF AtEnd, Remaining
      <3>3. r \in 0..fo /\ real[l] >= r * fc /\ real[l] \in 0..w
        BY <1>1, <2>3, <2>7 DEF Swept
      <3> HIDE DEF tr
      <3>4. tr = MaxPos
        BY <2>5, <3>1, <3>2, MaxPosAssumption DEF Lesser, tr
      <3>5. r >= fo
        BY <2>4, <2>7, <3>4, FullWayTakesFullTime DEF tr
      <3>6. r = fo
        BY <2>6, <3>3, <3>5
      <3>7. real[l] = w
        BY <2>6, <3>3, <3>6
      <3> QED
        BY <2>7, <3>7 DEF EndStop
    <2>8. CASE d = "closing"
      <3>1. leaf'[l].position = Greater(MaxPos - tr, 0)
        BY <1>1, <2>2, <2>8 DEF Estimate, FarEnd
      <3>2. leaf'[l].position = 0
        BY <1>1, <2>8 DEF AtEnd, Remaining
      <3>3. r \in 0..fc /\ w - real[l] >= r * fo /\ real[l] \in 0..w
        BY <1>1, <2>3, <2>8 DEF Swept
      <3> HIDE DEF tr
      <3>4. tr = MaxPos
        BY <2>5, <3>1, <3>2, MaxPosAssumption DEF Greater, tr
      <3>5. r >= fc
        BY <2>4, <2>8, <3>4, FullWayTakesFullTime DEF tr
      <3>6. r = fc
        BY <2>6, <3>3, <3>5
      <3>7. real[l] = 0
        BY <2>6, <3>3, <3>6
      <3> QED
        BY <2>8, <3>7 DEF EndStop
    <2> QED
      BY <2>7, <2>8 DEF Direction
  <1>2. FirmwareInv /\ AllSwept /\ [InstallationNext]_installationVars
          => (RunGate => \A l \in Leaf, d \in Direction :
                (/\ leaf[l].state = d /\ leaf[l].position = FarEnd(d)
                 /\ leaf'[l].state = "idle" /\ AtEnd(leaf'[l], d))
                   => real[l] = EndStop(l, d))
    BY <1>1
  <1> QED
    BY <1>2, InstallationInvariance, PTL
    DEF InstallationSpec, FullRunFindsTheEndStop
=============================================================================
