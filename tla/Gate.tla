-------------------------------- MODULE Gate --------------------------------
(***************************************************************************)
(* The gate controller (gate-core/src/gate.rs): the shared `Controls`, and *)
(* the gate task that alone owns the two leaf motors and executes one      *)
(* command at a time - start, wait or get interrupted, settle.             *)
(*                                                                         *)
(* The firmware runs on one cooperative executor, so a step is what a task *)
(* does between two awaits.  The gate task waits in two places: idle in    *)
(* `step` for a command or a wind lock reset, and inside `drive` in a      *)
(* select over a timer, a command, a barrier change and a wind lock reset. *)
(* Everything else (input watchers, the MQTT handler) calls the methods of *)
(* `Controls`, which never wait.  Any of those calls, and any amount of    *)
(* time, may come between a wakeup and the moment the gate task acts on it.*)
(*                                                                         *)
(* Where a wait is over at once the code goes on without yielding; here    *)
(* that is a step of its own, and others may come in between.  The model   *)
(* allows every interleaving of the code, and those too.                   *)
(***************************************************************************)
EXTENDS Motor

VARIABLES
    command,            \* the latest-wins command slot, "none" when empty
    barrier_changed,    \* signal: a barrier or the bypass changed
    wind_lock_reset,    \* signal: the wind lock was reset
    light_changed,      \* signal: the warning light may have to come on
    current_direction,  \* what the rest of the system sees of a movement
    last_direction,     \* the most recent non-idle direction
    position,           \* coarse classification of the leaf positions
    wind_locked,
    barrier1_active,
    barrier2_active,
    barrier_bypass,
    pending,            \* a command that interrupted the previous movement
    drive,              \* direction of the call of drive() in flight, or "none"
    moved,              \* that call has energized a motor
    leaf,               \* the two motors and their phases
    announced           \* the state last handed to MQTT for publishing

controls == <<command, barrier_changed, wind_lock_reset, light_changed,
              current_direction, last_direction, position, wind_locked,
              barrier1_active, barrier2_active, barrier_bypass>>
task == <<pending, drive, moved, leaf>>
vars == <<controls, task, announced>>

GateCommand == {"Open", "Close", "Stop", "Impulse"}
CoverState == {"open", "opening", "closed", "closing"}
Position == {"closed", "partial", "open"}

\* The command slot of `pending` and of the signal.
SlotOf(S) == S \cup {"none"}

-----------------------------------------------------------------------------
(* Reading the shared state.                                               *)

CommandFor(d) == IF d = "opening" THEN "Open" ELSE "Close"

\* cover_state(): the direction wins, a partially open gate counts as open.
Cover(direction, pos) ==
    CASE direction \in Direction -> direction
      [] direction = "idle" /\ pos = "closed" -> "closed"
      [] OTHER -> "open"

\* What publish_state() hands to the MQTT client: three retained messages.
Report(direction, pos, locked, bypass) ==
    [cover |-> Cover(direction, pos), wind |-> locked, bypass |-> bypass]

CurrentReport ==
    Report(current_direction, position, wind_locked, barrier_bypass)

\* Mutant of Blocked: the wind lock is not asked.
BlockedOnlyByBarriers(d) ==
    ~barrier_bypass /\ (barrier1_active \/ (d = "closing" /\ barrier2_active))

\* Why the gate may not move towards d right now, if anything.
Blocked(d) ==
    \/ ~barrier_bypass /\ barrier1_active
    \/ ~barrier_bypass /\ d = "closing" /\ barrier2_active
    \/ d = "closing" /\ wind_locked

\* Mutant of ResolveImpulse: goes on in the interrupted direction.
ResolveImpulseRepeating(c) ==
    CASE c # "Impulse" -> c
      [] position = "closed" -> "Open"
      [] position = "open" -> "Close"
      [] OTHER -> IF last_direction = "opening" THEN "Open" ELSE "Close"

\* Turns an impulse into a concrete command while the gate is idle.
ResolveImpulse(c) ==
    CASE c # "Impulse" -> c
      [] position = "closed" -> "Open"
      [] position = "open" -> "Close"
      [] OTHER -> IF last_direction = "opening" THEN "Close" ELSE "Open"

\* Coarse classification of the leaf positions.
Classify(fs) ==
    CASE \A l \in Leaf : fs[l].position = 0 -> "closed"
      [] \A l \in Leaf : fs[l].position = MaxPos -> "open"
      [] OTHER -> "partial"

-----------------------------------------------------------------------------
(* The methods of Controls.  Each is called by the input watchers and the  *)
(* MQTT handler, at any time.                                              *)

\* Mutant of Accepts: the early return is missing.
AcceptsAnyway == TRUE

\* The early return of open, close, stop and impulse.
Accepts == ~wind_locked

NormalInput(c) ==
    /\ Accepts
    /\ command' = c
    /\ UNCHANGED <<barrier_changed, wind_lock_reset, light_changed,
                   current_direction, last_direction, position, wind_locked,
                   barrier1_active, barrier2_active, barrier_bypass,
                   task, announced>>

Open == NormalInput("Open")
Close == NormalInput("Close")
Stop == NormalInput("Stop")
Impulse == NormalInput("Impulse")

\* Latches the lock and forces the gate open.
WindTrigger ==
    /\ wind_locked' = TRUE
    /\ command' = "Open"
    /\ UNCHANGED <<barrier_changed, wind_lock_reset, light_changed,
                   current_direction, last_direction, position,
                   barrier1_active, barrier2_active, barrier_bypass,
                   task, announced>>

\* Clears the lock; never moves or stops the gate.
ResetWindLock ==
    /\ wind_locked' = FALSE
    /\ wind_lock_reset' = TRUE
    /\ UNCHANGED <<command, barrier_changed, light_changed,
                   current_direction, last_direction, position,
                   barrier1_active, barrier2_active, barrier_bypass,
                   task, announced>>

\* Mutant of SignalBarrierChanged: the signal is forgotten.
BarrierChangedUnsignalled == barrier_changed' = barrier_changed

\* Makes a running movement re-check whether it is still allowed to move.
SignalBarrierChanged == barrier_changed' = TRUE

\* Mutant of RetryForcedOpen: a blocked forced open is given up.
NoRetry(active) == command

\* The command slot after barrier 1 was set to `active`.
RetryForcedOpen(active) ==
    IF ~active /\ wind_locked THEN "Open" ELSE command

\* Light barrier 1 stops the gate in either direction.  Once it clears, a
\* forced open is pursued again.
Barrier1Set(active) ==
    /\ barrier1_active' = active
    /\ SignalBarrierChanged
    /\ command' = RetryForcedOpen(active)
    /\ UNCHANGED <<wind_lock_reset, light_changed, current_direction,
                   last_direction, position, wind_locked, barrier2_active,
                   barrier_bypass, task, announced>>

\* Light barrier 2 only stops closing.
Barrier2Set(active) ==
    /\ barrier2_active' = active
    /\ SignalBarrierChanged
    /\ UNCHANGED <<command, wind_lock_reset, light_changed, current_direction,
                   last_direction, position, wind_locked, barrier1_active,
                   barrier_bypass, task, announced>>

\* Mutant of SignalLightChanged: the light is not told.
LightUnsignalled == light_changed' = light_changed

\* Makes the warning light task look again.
SignalLightChanged == light_changed' = TRUE

\* Mutant of PublishState: the bypass is cleared only afterwards.
PublishStaleBypass(direction, pos, bypass) ==
    announced' = Report(direction, pos, wind_locked, barrier_bypass)

\* publish_state() when direction, pos and bypass have just been stored.
PublishState(direction, pos, bypass) ==
    announced' = Report(direction, pos, wind_locked, bypass)

\* Arms or disarms the one-shot bypass.  It never goes through the gate
\* task, so the firmware's execute() publishes the new state in the same call.
SetBarrierBypass(active) ==
    /\ barrier_bypass' = active
    /\ SignalBarrierChanged
    /\ SignalLightChanged
    /\ PublishState(current_direction, position, active)
    /\ UNCHANGED <<command, wind_lock_reset, current_direction,
                   last_direction, position, wind_locked, barrier1_active,
                   barrier2_active, task>>

-----------------------------------------------------------------------------
(* The gate task.                                                          *)

\* Gate::settle with the leaves as they are in fs: no movement is in flight,
\* the positions are re-classified, the state is published.
SettleGate(fs, bypass) ==
    /\ leaf' = fs
    /\ drive' = "none"
    /\ current_direction' = "idle"
    /\ position' = Classify(fs)
    /\ barrier_bypass' = bypass
    /\ PublishState("idle", Classify(fs), bypass)

\* Mutant of Stopped: the relays stay as they are.
StoppedKeepingRelays(fs) ==
    [l \in Leaf |-> [fs[l] EXCEPT !.phase = "done", !.due = 0]]

\* Every motor is stopped on every way out of drive().
Stopped(fs) ==
    [l \in Leaf |-> [Settle(l, fs[l]) EXCEPT !.phase = "done", !.due = 0]]

\* Mutant of BypassLeft: the bypass is not used up.
BypassKept(mv) == barrier_bypass

\* An armed bypass is used up by a movement in which a motor ran.
BypassLeft(mv) == barrier_bypass /\ ~mv

\* The tail of drive() and of the step() that called it, with `next` handed
\* back.
EndDrive(fs, mv, next) ==
    /\ pending' = next
    /\ moved' = FALSE
    /\ SettleGate(Stopped(fs), BypassLeft(mv))

\* Mutants of StartDelay: the reverse pause is ignored; the delays of the two
\* directions are swapped.
StartDelayWithoutPause(l, f, d) == InitialDelay[l][d]
StartDelaySwapped(l, f, d) ==
    LET o == CHOOSE o \in Direction : o # d IN Greater(InitialDelay[l][o], f.rest)

\* A leaf starts after its initial delay, and not before its pause is over.
StartDelay(l, f, d) == Greater(InitialDelay[l][d], f.rest)

\* plan(): when leaf l may start towards d.
Plan(l, f, d) ==
    IF AtEnd(f, d) THEN [f EXCEPT !.phase = "done", !.due = 0]
    ELSE [f EXCEPT !.phase = "waiting", !.due = StartDelay(l, f, d)]

\* The pass over one leaf: a leaf whose wait is over starts (unless it has
\* nowhere to go), a leaf whose run is over stops.
BeginsRun(f, d) == f.phase = "waiting" /\ f.due = 0 /\ ~AtEnd(f, d)

BeginRun(l, f, d) ==
    IF f.phase = "waiting" /\ f.due = 0
    THEN IF AtEnd(f, d)
         THEN [f EXCEPT !.phase = "done"]
         ELSE [Start(l, f, d) EXCEPT !.phase = "running",
                                     !.due = RunTime(l, f, d)]
    ELSE f

EndRun(l, f) ==
    IF f.phase = "running" /\ f.due = 0
    THEN [Settle(l, f) EXCEPT !.phase = "done"]
    ELSE f

Pass(l, f, d) == EndRun(l, BeginRun(l, f, d))

\* One iteration of the loop in drive() up to its select: stop if blocked,
\* pass over both leaves, stop if both are done, otherwise wait on.  `said`
\* is the state published last if the movement goes on.
LoopPass(d, fs, mv, said) ==
    LET passed == [l \in Leaf |-> Pass(l, fs[l], d)]
        runs == mv \/ \E l \in Leaf : BeginsRun(fs[l], d)
        finished == \A l \in Leaf : passed[l].phase = "done"
    IN  \/ /\ Blocked(d)
           /\ EndDrive(fs, mv, "none")
        \/ /\ ~Blocked(d)
           /\ finished
           /\ EndDrive(passed, runs, "none")
        \/ /\ ~Blocked(d)
           /\ ~finished
           /\ leaf' = passed
           /\ drive' = d
           /\ current_direction' = d
           /\ moved' = runs
           /\ pending' = "none"
           /\ announced' = said
           /\ UNCHANGED <<position, barrier_bypass>>

\* The call of drive(d) from step(): refused when blocked, otherwise it
\* announces the direction, plans both leaves and enters its loop.
StartDrive(d) ==
    \/ /\ Blocked(d)
       /\ pending' = "none"
       /\ SettleGate(leaf, barrier_bypass)
       /\ UNCHANGED <<moved, last_direction, light_changed>>
    \/ /\ ~Blocked(d)
       /\ last_direction' = d
       /\ SignalLightChanged
       /\ LoopPass(d, [l \in Leaf |-> Plan(l, leaf[l], d)], FALSE,
                   Report(d, position, wind_locked, barrier_bypass))

\* The rest of step() once it has a command.
Execute(c) ==
    \/ c = "Open" /\ StartDrive("opening")
    \/ c = "Close" /\ StartDrive("closing")
    \/ /\ c \in {"Stop", "Impulse"}
       /\ EndDrive(leaf, FALSE, "none")
       /\ UNCHANGED <<last_direction, light_changed>>

inputs == <<wind_locked, barrier1_active, barrier2_active>>

StepPending ==
    /\ drive = "none"
    /\ pending # "none"
    /\ Execute(ResolveImpulse(pending))
    /\ UNCHANGED <<command, barrier_changed, wind_lock_reset, inputs>>

StepCommand ==
    /\ drive = "none"
    /\ pending = "none"
    /\ command # "none"
    /\ command' = "none"
    /\ Execute(ResolveImpulse(command))
    /\ UNCHANGED <<barrier_changed, wind_lock_reset, inputs>>

\* A wind lock reset while idle settles right away.
StepReset ==
    /\ drive = "none"
    /\ pending = "none"
    /\ command = "none"
    /\ wind_lock_reset
    /\ wind_lock_reset' = FALSE
    /\ SettleGate(leaf, barrier_bypass)
    /\ UNCHANGED <<command, barrier_changed, light_changed, last_direction,
                   inputs, pending, moved>>

\* The arms of the select in drive(), first ready one wins.
TimerDue == \E l \in Leaf : leaf[l].phase # "done" /\ leaf[l].due = 0

DriveTimer ==
    /\ drive # "none"
    /\ TimerDue
    /\ LoopPass(drive, leaf, moved, announced)
    /\ UNCHANGED <<command, barrier_changed, wind_lock_reset, light_changed,
                   last_direction, inputs>>

DriveSameCommand ==
    /\ drive # "none"
    /\ ~TimerDue
    /\ command = CommandFor(drive)
    /\ command' = "none"
    /\ LoopPass(drive, leaf, moved, announced)
    /\ UNCHANGED <<barrier_changed, wind_lock_reset, light_changed,
                   last_direction, inputs>>

DriveStop ==
    /\ drive # "none"
    /\ ~TimerDue
    /\ command \in {"Stop", "Impulse"}
    /\ command' = "none"
    /\ EndDrive(leaf, moved, "none")
    /\ UNCHANGED <<barrier_changed, wind_lock_reset, light_changed,
                   last_direction, inputs>>

DriveReverse ==
    /\ drive # "none"
    /\ ~TimerDue
    /\ command \in {"Open", "Close"} \ {CommandFor(drive)}
    /\ command' = "none"
    /\ EndDrive(leaf, moved, command)
    /\ UNCHANGED <<barrier_changed, wind_lock_reset, light_changed,
                   last_direction, inputs>>

DriveBarrierChanged ==
    /\ drive # "none"
    /\ ~TimerDue
    /\ command = "none"
    /\ barrier_changed
    /\ barrier_changed' = FALSE
    /\ LoopPass(drive, leaf, moved, announced)
    /\ UNCHANGED <<command, wind_lock_reset, light_changed, last_direction,
                   inputs>>

\* Keeps moving, only announces the cleared lock.
DriveWindLockReset ==
    /\ drive # "none"
    /\ ~TimerDue
    /\ command = "none"
    /\ ~barrier_changed
    /\ wind_lock_reset
    /\ wind_lock_reset' = FALSE
    /\ LoopPass(drive, leaf, moved, CurrentReport)
    /\ UNCHANGED <<command, barrier_changed, light_changed, last_direction,
                   inputs>>

GateTask ==
    \/ StepPending \/ StepCommand \/ StepReset
    \/ DriveTimer \/ DriveSameCommand \/ DriveStop \/ DriveReverse
    \/ DriveBarrierChanged \/ DriveWindLockReset

-----------------------------------------------------------------------------
(* Time passes, whatever the gate task is about to do.                     *)
Tick ==
    /\ leaf' = [l \in Leaf |-> Elapse(l, leaf[l])]
    /\ UNCHANGED <<controls, pending, drive, moved, announced>>

ControlsInput ==
    \/ Open \/ Close \/ Stop \/ Impulse
    \/ WindTrigger \/ ResetWindLock
    \/ \E active \in BOOLEAN : \/ Barrier1Set(active)
                               \/ Barrier2Set(active)
                               \/ SetBarrierBypass(active)

\* Mutant of InitialPending: the restored lock is left to the barrier's task.
NothingPending(locked) == "none"

\* A restored wind lock makes the first step() pursue "always open".
InitialPending(locked) == IF locked THEN "Open" ELSE "none"

\* A snapshot read back from flash: the default of a fresh device (closed,
\* unlocked), or one that step() returned.  LeafOrder, below, holds for
\* every snapshot that step() returns, so it holds here; that no reset and no
\* storage error brings another one is BootsInOrder of FirmwareProofs.
Snapshot == [a : 0..MaxPos, b : 0..MaxPos, wind_locked : BOOLEAN]
OrderedSnapshot == {s \in Snapshot : s.a >= s.b}

RestoredLeaf(s) == [l \in Leaf |-> NewLeaf(IF l = "A" THEN s.a ELSE s.b)]

\* Controls::new, Motor::new for both leaves and Gate::new on snapshot s.  The
\* tasks that sample the light barriers are spawned together with the gate task
\* (main.rs) and may have told what they see before it runs Gate::new.
Boot(s) ==
    /\ command = "none"
    /\ barrier_changed \in BOOLEAN
    /\ wind_lock_reset = FALSE
    /\ light_changed = FALSE
    /\ current_direction = "idle"
    /\ last_direction = "closing"
    /\ position = Classify(RestoredLeaf(s))
    /\ wind_locked = s.wind_locked
    /\ barrier1_active \in BOOLEAN
    /\ barrier2_active \in BOOLEAN
    /\ (barrier1_active \/ barrier2_active) => barrier_changed
    /\ barrier_bypass = FALSE
    /\ pending = InitialPending(s.wind_locked)
    /\ drive = "none"
    /\ moved = FALSE
    /\ leaf = RestoredLeaf(s)
    /\ announced = Report("idle", Classify(RestoredLeaf(s)), s.wind_locked,
                          FALSE)

Init == \E s \in OrderedSnapshot : Boot(s)

Next == GateTask \/ ControlsInput \/ Tick

Spec == Init /\ [][Next]_vars

-----------------------------------------------------------------------------
(* Properties.                                                             *)

\* Every variable keeps its type; in particular no estimate ever leaves
\* 0..MaxPos (the saturating arithmetic of Motor::settle).
TypeOK ==
    /\ command \in SlotOf(GateCommand)
    /\ barrier_changed \in BOOLEAN
    /\ wind_lock_reset \in BOOLEAN
    /\ light_changed \in BOOLEAN
    /\ current_direction \in Direction \cup {"idle"}
    /\ last_direction \in Direction
    /\ position \in Position
    /\ wind_locked \in BOOLEAN
    /\ barrier1_active \in BOOLEAN
    /\ barrier2_active \in BOOLEAN
    /\ barrier_bypass \in BOOLEAN
    /\ pending \in SlotOf({"Open", "Close"})
    /\ drive \in SlotOf(Direction)
    /\ moved \in BOOLEAN
    /\ leaf \in [Leaf -> LeafRecord]
    /\ announced \in [cover : CoverState, wind : BOOLEAN, bypass : BOOLEAN]

\* What the light barriers forbid, and what the wind lock forbids.
BeamForbids(d) ==
    ~barrier_bypass /\ (barrier1_active \/ (d = "closing" /\ barrier2_active))
WindForbids(d) == wind_locked /\ d = "closing"

Energized(l) == leaf[l].state # "idle"

\* No safety condition is lost: while a movement that a barrier forbids is
\* still in flight, the signal that makes drive() look again is set; while
\* the wind lock forbids it, the forced Open is still in the command slot.
\* This is what "Safety conditions are re-checked by the gate itself when it
\* acts, so they can't be lost here" (Controls::command) rests on.
SafetyWake ==
    drive # "none" =>
        /\ BeamForbids(drive) => barrier_changed
        /\ WindForbids(drive) => command = "Open"

\* The first thing the gate task does in a movement that has become
\* forbidden - whichever arm of the select woke it - is to end it with every
\* relay released.
ForbiddenMovementEnds ==
    [][ drive # "none" /\ (BeamForbids(drive) \/ WindForbids(drive)) /\ GateTask
          => drive' = "none" /\ \A l \in Leaf : leaf'[l].state = "idle" ]_vars

\* A relay is energized only when its motor has rested for the reverse
\* pause, nothing forbids the direction, and the movement in that direction
\* is what the rest of the system is told; a relay is never swapped for the
\* opposite one without a release in between.
SafeStart ==
    [][ \A l \in Leaf : leaf'[l].state # leaf[l].state =>
          \/ leaf'[l].state = "idle"
          \/ /\ leaf[l].state = "idle"
             /\ leaf[l].rest = 0
             /\ ~BeamForbids(leaf'[l].state)
             /\ ~WindForbids(leaf'[l].state)
             /\ leaf'[l].state = current_direction' ]_vars

\* Outside a movement no relay is on and the shared state is fresh: idle,
\* and the coarse position is the classification of the leaves.  Within a
\* movement only the relays of its direction are on.
SettledWhenIdle ==
    IF drive = "none"
    THEN /\ current_direction = "idle"
         /\ position = Classify(leaf)
         /\ \A l \in Leaf : ~Energized(l)
    ELSE /\ current_direction = drive
         /\ last_direction = drive
         /\ \A l \in Leaf : Energized(l) <=> leaf[l].phase = "running"
         /\ \A l \in Leaf : Energized(l) => leaf[l].state = drive

\* The leaves overlap: leaf A opens first and closes last.  However a
\* movement is interrupted, reversed or resumed, and however late the gate
\* task comes to run, leaf B is never estimated further open than leaf A
\* (gate_config.rs: "the order the leaves move in is always preserved - which
\* matters for overlapping leaves that must close in a fixed order").
LeafOrder == Estimate("A", leaf["A"]) >= Estimate("B", leaf["B"])

\* A leaf that is done within a movement has its estimate at the end: the
\* overrun makes up for both roundings, of run_time and of settle.
DoneMeansAtEnd ==
    drive # "none" =>
        \A l \in Leaf : leaf[l].phase = "done" => AtEnd(leaf[l], drive)

\* A movement that ends without a command and without a block ends with both
\* leaves at the end it was heading for.
CompletedMovementArrives ==
    [][ drive # "none" /\ drive' = "none" =>
          \/ command # "none"
          \/ Blocked(drive)
          \/ \A l \in Leaf : AtEnd(leaf'[l], drive) ]_vars

\* With the wind lock engaged nothing ends a forced open but light barrier 1
\* or arriving: not Stop, not Close, not an impulse, from whatever source
\* and however they raced with the trigger.
ForcedOpenRunsToTheEnd ==
    [][ wind_locked /\ drive = "opening" /\ drive' = "none" =>
          \/ barrier1_active /\ ~barrier_bypass
          \/ \A l \in Leaf : leaf'[l].position = MaxPos ]_vars

\* An impulse accepted while the gate is idle always sets it in motion when
\* nothing forbids movement: to the far end from an end position, and
\* against the interrupted direction from mid-travel.
ImpulseMovesTheGate ==
    [][ (/\ command = "Impulse" /\ StepCommand
         /\ ~BeamForbids("closing") /\ ~WindForbids("closing"))
          => /\ drive' # "none"
             /\ drive' = "opening" => \E l \in Leaf : leaf[l].position # MaxPos
             /\ drive' = "closing" => \E l \in Leaf : leaf[l].position # 0
             /\ Classify(leaf) = "partial" => drive' # last_direction ]_vars

\* The bypass is one-shot: a movement that ends while a relay is on leaves
\* no bypass armed, and the bypass never disappears otherwise than by being
\* disarmed or by the end of a movement.
BypassIsOneShot ==
    [][ /\ (drive # "none" /\ drive' = "none" /\ \E l \in Leaf : Energized(l))
              => ~barrier_bypass'
        /\ (barrier_bypass /\ ~barrier_bypass')
              => \/ drive # "none" /\ drive' = "none"
                 \/ SetBarrierBypass(FALSE) ]_vars

\* What was last published is what holds, or the gate task still has a
\* reason to run that will publish again.
NoStaleAnnouncement ==
    announced # CurrentReport =>
        \/ drive # "none" \/ pending # "none" \/ command # "none"
        \/ wind_lock_reset

S == INSTANCE GateService WITH
        Seen <- Report, motion <- current_direction, where <- position,
        locked <- wind_locked, bypass <- barrier_bypass, shown <- announced

\* Seen from outside, with signals, motors and time hidden, the gate is what
\* GateService says: no movement turns into the opposite one without a rest
\* in between, opening never leaves a gate closed that was not, and every
\* state that is published is the state of that moment.
ImplementsService == S!ServiceSpec
=============================================================================
