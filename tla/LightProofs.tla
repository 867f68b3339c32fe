---------------------------- MODULE LightProofs -----------------------------
(***************************************************************************)
(* Proofs about WarningLight: the light task beside the gate task, for     *)
(* every timing of the leaves and every period of the lamp.                *)
(***************************************************************************)
EXTENDS WarningLight, GateProofs

\* The gate's invariant beside the light task, and what is to be shown.
LightInv == Inv /\ LampWake

\* The light task changes nothing of the gate but the signal it consumes.
LEMMA LampTaskInv ==
    ASSUME Inv, LampTask
    PROVE  Inv' /\ UNCHANGED <<current_direction, barrier_bypass>>
  <1>1. CASE UNCHANGED vars
    <2>1. Inv'
      BY <1>1, StutterInv
    <2> QED
      BY <1>1, <2>1 DEF vars, controls
  <1>2. CASE LampSignal
    <2>1. TypeOK'
      BY <1>2 DEF LampSignal, Inv, TypeOK, task
    <2>2. Leaves' /\ Shared'
      BY <1>2 DEF LampSignal, Inv, Leaves, Shared, Classify, task
    <2>3. LockOwnsSlot' /\ SafetyWake'
      BY <1>2 DEF LampSignal, Inv, LockOwnsSlot, SafetyWake, BeamForbids,
                  WindForbids, task
    <2> QED
      BY <1>2, <2>1, <2>2, <2>3 DEF LampSignal, Inv
  <1> QED
    BY <1>1, <1>2 DEF LampTask, LampStart, LampTimer

\* A step of the gate task that gives a reason to blink also signals it:
\* only the start of a movement does, and drive() signals it before its loop.
LEMMA GateTaskSignals ==
    ASSUME Inv, GateTask
    PROVE  \/ light_changed' = TRUE
           \/ /\ light_changed' = light_changed
              /\ WarningLightActive' => WarningLightActive
  <1> DEFINE Signals == \/ light_changed' = TRUE
                        \/ /\ light_changed' = light_changed
                           /\ WarningLightActive' => WarningLightActive
  <1>1. ASSUME drive # "none", UNCHANGED light_changed
        PROVE  Signals
    <2>1. current_direction \in Direction
      BY <1>1 DEF Inv, TypeOK, Shared, SlotOf
    <2> QED
      BY <1>1, <2>1 DEF WarningLightActive, Direction
  <1>2. ASSUME NEW d, StartDrive(d) PROVE Signals
    <2>1. CASE light_changed' = TRUE
      BY <2>1
    <2>2. CASE SettleGate(leaf, barrier_bypass) /\ UNCHANGED light_changed
      BY <2>2 DEF SettleGate, WarningLightActive
    <2> QED
      BY <1>2, <2>1, <2>2 DEF StartDrive, SignalLightChanged
  <1>3. ASSUME NEW c, Execute(c) PROVE Signals
    <2>1. CASE EndDrive(leaf, FALSE, "none") /\ UNCHANGED light_changed
      BY <2>1 DEF EndDrive, SettleGate, BypassLeft, WarningLightActive
    <2> QED
      BY <1>2, <1>3, <2>1 DEF Execute
  <1>4. CASE StepPending \/ StepCommand
    BY <1>3, <1>4 DEF StepPending, StepCommand
  <1>5. CASE StepReset
    BY <1>5 DEF StepReset, SettleGate, WarningLightActive
  <1>6. CASE \/ DriveTimer \/ DriveSameCommand \/ DriveStop \/ DriveReverse
             \/ DriveBarrierChanged \/ DriveWindLockReset
    BY <1>1, <1>6 DEF DriveTimer, DriveSameCommand, DriveStop, DriveReverse,
                      DriveBarrierChanged, DriveWindLockReset
  <1> QED
    BY <1>4, <1>5, <1>6 DEF GateTask

\* So does every method of Controls: arming the bypass is the only one.
LEMMA ControlsSignal ==
    ASSUME ControlsInput
    PROVE  \/ light_changed' = TRUE
           \/ UNCHANGED <<light_changed, current_direction, barrier_bypass>>
  BY DEF ControlsInput, Open, Close, Stop, Impulse, NormalInput, WindTrigger,
         ResetWindLock, Barrier1Set, Barrier2Set, SetBarrierBypass,
         SignalLightChanged

\* The invariant is inductive.
LEMMA LightStep ==
    ASSUME LightInv, [LightNext]_lightVars
    PROVE  LightInv'
  <1> USE DEF LightInv, LampWake
  <1>1. CASE LampTask
    <2>1. Inv' /\ (WarningLightActive' <=> WarningLightActive)
      BY <1>1, LampTaskInv DEF WarningLightActive
    <2>2. LampLoop
      BY <1>1 DEF LampTask, LampStart, LampTimer, LampSignal
    <2> QED
      BY <2>1, <2>2 DEF LampLoop
  <1>2. CASE LightTick
    <2>1. Inv'
      BY <1>2, TickInv DEF LightTick
    <2> QED
      BY <1>2, <2>1 DEF LightTick, Tick, controls, WarningLightActive
  <1>3. CASE GateTask /\ UNCHANGED lamp
    <2>1. Inv'
      BY <1>3, GateTaskInv
    <2>2. \/ light_changed' = TRUE
          \/ /\ light_changed' = light_changed
             /\ WarningLightActive' => WarningLightActive
      BY <1>3, GateTaskSignals
    <2> QED
      BY <1>3, <2>1, <2>2 DEF lamp
  <1>4. CASE ControlsInput /\ UNCHANGED lamp
    <2>1. Inv'
      BY <1>4, ControlsInv
    <2>2. \/ light_changed' = TRUE
          \/ UNCHANGED <<light_changed, current_direction, barrier_bypass>>
      BY <1>4, ControlsSignal
    <2> QED
      BY <1>4, <2>1, <2>2 DEF lamp, WarningLightActive
  <1>5. CASE UNCHANGED lightVars
    <2>1. Inv'
      BY <1>5, StutterInv DEF lightVars
    <2> QED
      BY <1>5, <2>1 DEF lightVars, lamp, vars, controls, WarningLightActive
  <1> QED
    BY <1>1, <1>2, <1>3, <1>4, <1>5 DEF LightNext

\* The light task never sleeps through a reason to blink, and never leaves
\* the lamp lit while it sleeps on the signal.
THEOREM LightNeverSleepsThrough == LightSpec => []LampWake
  <1>1. LightInit => LightInv
    BY InitInv DEF LightInit, LightInv, LampWake
  <1>2. LightInv => LampWake
    BY DEF LightInv
  <1> QED
    BY <1>1, <1>2, LightStep, PTL DEF LightSpec
=============================================================================
