------------------------------ MODULE Firmware ------------------------------
(***************************************************************************)
(* The firmware's gate task (src/physical/gate.rs): it runs the gate       *)
(* forever and persists what step() returns, and the device under it loses *)
(* power, panics or is reset at any moment and boots from flash.           *)
(*                                                                         *)
(* A boot reads the record, spawns all tasks together and leaves them to   *)
(* the executor.  CONTROLS is a static in its initial state until the gate *)
(* task is polled and runs Gate::new, which restores the wind lock.  The   *)
(* executor polls every spawned task once before any of them again, so     *)
(* what can come before Gate::new is the first poll of the other tasks:    *)
(* the light barriers' tasks tell the level they start with; a button's    *)
(* task only takes the first of its EDGE_STABLE_SAMPLES samples, and there *)
(* is no network yet to bring a command.                                   *)
(*                                                                         *)
(* Saving is awaited (the flash mutex, then the write), so between the     *)
(* step() that returned a state and the moment that state is durable other *)
(* tasks run and the power may fail.  The key-value store underneath       *)
(* (sequential-storage, external) is power-loss safe: an interrupted write *)
(* leaves the old record or the new one.                                   *)
(***************************************************************************)
EXTENDS Gate

CONSTANT StorageErrors   \* whether reading and writing flash may fail

ASSUME StorageErrorsAssumption == StorageErrors \in BOOLEAN

VARIABLES
    flash,     \* the gate state record, as a boot would read it
    saved,     \* the task's cache of it, so unchanged state isn't rewritten;
               \* before Gate::new the record main() read, its argument
    created,   \* the gate task has run Gate::new since the boot
    storing,   \* the state the task is saving, NotStoring between saves
    suspect    \* history: the storage error, if any, that separates flash
               \* from the task: "none", "unsaved" or "unread"

storage == <<flash, saved, created, storing, suspect>>
firmwareVars == <<vars, storage>>

NotStoring == [a |-> 0, b |-> 0, wind_locked |-> FALSE, idle |-> TRUE]

\* GateState::default(): closed, unlocked.
DefaultState == [a |-> 0, b |-> 0, wind_locked |-> FALSE]

\* Gate::snapshot.
SnapshotOf(fs, locked) ==
    [a |-> fs["A"].position, b |-> fs["B"].position, wind_locked |-> locked]

\* Mutant of AfterStep: a changed wind lock alone is not saved.
AfterStepComparingPositions(s) ==
    storing' = IF s.a = saved.a /\ s.b = saved.b THEN NotStoring ELSE s

\* The body of the task's loop once step() has returned state s.
AfterStep(s) == storing' = IF s = saved THEN NotStoring ELSE s

\* The gate task runs until its step() returns, which is when no movement is
\* in flight any more; then the state goes to flash unless it is unchanged.
RunGate ==
    /\ created
    /\ storing = NotStoring
    /\ GateTask
    /\ IF drive' = "none" THEN AfterStep(SnapshotOf(leaf', wind_locked))
       ELSE UNCHANGED storing
    /\ UNCHANGED <<flash, saved, created, suspect>>

SaveSucceeds ==
    /\ storing # NotStoring
    /\ flash' = storing
    /\ saved' = storing
    /\ storing' = NotStoring
    /\ suspect' = "none"
    /\ UNCHANGED <<vars, created>>

Worse(error) == IF error = "none" THEN "unsaved" ELSE error

\* Mutant of SaveFails: the cache is updated all the same.
SaveFailsCachingAnyway ==
    /\ StorageErrors
    /\ storing # NotStoring
    /\ storing' = NotStoring
    /\ saved' = storing
    /\ suspect' = Worse(suspect)
    /\ UNCHANGED <<vars, flash, created>>

\* A failed save is only logged; `saved` keeps its value, so the next step()
\* that returns a state other than that one tries again.
SaveFails ==
    /\ StorageErrors
    /\ storing # NotStoring
    /\ storing' = NotStoring
    /\ suspect' = Worse(suspect)
    /\ UNCHANGED <<vars, flash, saved, created>>

\* What the tasks find after a reset: CONTROLS as Controls::new leaves it, the
\* relays released, and for the gate task the state s read at boot.  Nothing is
\* published yet.
BootFrom(s) ==
    /\ command' = "none"
    /\ barrier_changed' = FALSE
    /\ wind_lock_reset' = FALSE
    /\ light_changed' = FALSE
    /\ current_direction' = "idle"
    /\ last_direction' = "closing"
    /\ position' = "closed"
    /\ wind_locked' = FALSE
    /\ barrier1_active' = FALSE
    /\ barrier2_active' = FALSE
    /\ barrier_bypass' = FALSE
    /\ pending' = "none"
    /\ drive' = "none"
    /\ moved' = FALSE
    /\ leaf' = RestoredLeaf(s)
    /\ announced' = announced
    /\ saved' = s
    /\ created' = FALSE
    /\ storing' = NotStoring

\* The first poll of the gate task, up to the await in step(): Motor::new for
\* both leaves and Gate::new, which restores the wind lock over whatever is in
\* CONTROLS, leaves a forced open for the first step() and settles.
GateTaskStarts ==
    /\ ~created
    /\ created' = TRUE
    /\ wind_locked' = saved.wind_locked
    /\ pending' = InitialPending(saved.wind_locked)
    /\ leaf' = RestoredLeaf(saved)
    /\ current_direction' = "idle"
    /\ position' = Classify(RestoredLeaf(saved))
    /\ announced' = Report("idle", Classify(RestoredLeaf(saved)),
                           saved.wind_locked, barrier_bypass)
    /\ UNCHANGED <<command, barrier_changed, wind_lock_reset, light_changed,
                   last_direction, barrier1_active, barrier2_active,
                   barrier_bypass, drive, moved, flash, saved, storing,
                   suspect>>

\* What the other tasks may call, before and after Gate::new.
EarlyInput == \E active \in BOOLEAN : Barrier1Set(active) \/ Barrier2Set(active)

AnyInput ==
    \/ ~created /\ EarlyInput /\ UNCHANGED storage
    \/ created /\ ControlsInput /\ UNCHANGED storage

\* Power loss, panic (main.rs resets the chip) or the software reset at the
\* end of provisioning: at any moment, also in the middle of a movement or of
\* a write.
PowerLoss ==
    /\ flash' \in {flash} \cup ({storing} \ {NotStoring})
    /\ BootFrom(flash')
    /\ suspect' = "none"

\* The same when the record cannot be read at boot: load_gate_state logs and
\* the default state is used, while flash keeps what it holds.
PowerLossUnreadable ==
    /\ StorageErrors
    /\ flash' \in {flash} \cup ({storing} \ {NotStoring})
    /\ BootFrom(DefaultState)
    /\ suspect' = "unread"

Reset == PowerLoss \/ PowerLossUnreadable

\* A fresh device, powered on for the first time.
FirmwareInit ==
    /\ command = "none"
    /\ barrier_changed = FALSE
    /\ wind_lock_reset = FALSE
    /\ light_changed = FALSE
    /\ current_direction = "idle"
    /\ last_direction = "closing"
    /\ position = "closed"
    /\ wind_locked = FALSE
    /\ barrier1_active = FALSE
    /\ barrier2_active = FALSE
    /\ barrier_bypass = FALSE
    /\ pending = "none"
    /\ drive = "none"
    /\ moved = FALSE
    /\ leaf = RestoredLeaf(DefaultState)
    /\ announced = CurrentReport
    /\ flash = DefaultState
    /\ saved = flash
    /\ created = FALSE
    /\ storing = NotStoring
    /\ suspect = "none"

\* Everything but time passing.
FirmwareStep ==
    \/ GateTaskStarts \/ RunGate
    \/ SaveSucceeds \/ SaveFails
    \/ Reset
    \/ AnyInput

FirmwareNext == FirmwareStep \/ (Tick /\ UNCHANGED storage)

FirmwareSpec == FirmwareInit /\ [][FirmwareNext]_firmwareVars

-----------------------------------------------------------------------------
\* When the gate stands still with nothing left to do and no storage error
\* came in between, flash holds exactly what a reboot should restore.
IdleStateDurable ==
    (/\ created /\ drive = "none" /\ pending = "none" /\ command = "none"
     /\ ~wind_lock_reset /\ storing = NotStoring /\ suspect = "none")
        => flash = SnapshotOf(leaf, wind_locked)

\* The task's cache is what flash holds, however often saves fail, unless
\* the boot could not read its record: otherwise a state that is not in
\* flash would be skipped as unchanged.
CacheIsFlash == suspect # "unread" => saved = flash

\* "so a power loss never loses track of where the gate was or whether the
\* wind lock was engaged".  Even the weaker promise, that a reset does not
\* lose both: the positions the leaves had when it struck, and a wind lock
\* whose forced open the gate task has picked up.  (saved' is what Gate::new
\* will restore.)
PowerLossKeepsTrack ==
    [][ PowerLoss =>
          \/ \A l \in Leaf : leaf'[l].position = Estimate(l, leaf[l])
          \/ (created /\ wind_locked /\ command = "none" /\ pending = "none")
                => saved'.wind_locked ]_firmwareVars
=============================================================================
