------------------------------- MODULE Device -------------------------------
(***************************************************************************)
(* The device with light barrier 1 wired up: a task samples its pin        *)
(* (level_task, src/physical/inputs.rs) and tells the gate, beside the     *)
(* gate task, its persistence and resets.  At each boot all tasks start    *)
(* over, in any order: the gate may be moving before anyone looked at the  *)
(* barrier, and the barrier may be told before Gate::new has restored the  *)
(* wind lock.  The other inputs come at any time from then on.  Barrier 2, *)
(* whose task runs the same code, is told at any time with any value, which*)
(* includes every sequence the task produces.                              *)
(***************************************************************************)
EXTENDS Firmware

VARIABLES
    pin,          \* what the pin shows, TRUE for an interrupted beam
    sampled,      \* level_task has looked at it since boot
    last_active   \* what it saw last

sampling == <<pin, sampled, last_active>>
deviceVars == <<firmwareVars, sampling>>

\* Mutant of FirstCall: the setter is called for changes only.
NoFirstCall == UNCHANGED vars

\* level_task tells the level it starts with.  Before Gate::new that finds no
\* wind lock, restored or not, and so sends no forced open.
FirstCall == Barrier1Set(pin)

LevelTaskStarts ==
    /\ ~sampled
    /\ FirstCall
    /\ sampled' = TRUE
    /\ last_active' = pin
    /\ UNCHANGED <<storage, pin>>

\* A poll that sees a change; one that sees none does nothing.
LevelChanged ==
    /\ sampled
    /\ pin # last_active
    /\ Barrier1Set(pin)
    /\ last_active' = pin
    /\ UNCHANGED <<storage, pin, sampled>>

LevelTask == LevelTaskStarts \/ LevelChanged

\* The beam is interrupted or cleared, also between two polls.
PinChanges ==
    /\ pin' = ~pin
    /\ UNCHANGED <<firmwareVars, sampled, last_active>>

DeviceReset ==
    /\ Reset
    /\ sampled' = FALSE
    /\ last_active' = FALSE
    /\ UNCHANGED pin

OtherInput ==
    \/ \E active \in BOOLEAN : Barrier2Set(active)
    \/ /\ created
       /\ \/ Open \/ Close \/ Stop \/ Impulse \/ WindTrigger \/ ResetWindLock
          \/ \E active \in BOOLEAN : SetBarrierBypass(active)

DeviceInit ==
    /\ FirmwareInit
    /\ pin \in BOOLEAN
    /\ sampled = FALSE
    /\ last_active = FALSE

Starts == GateTaskStarts /\ UNCHANGED sampling
Runs == RunGate /\ UNCHANGED sampling
Saves == SaveSucceeds /\ UNCHANGED sampling
Ticks == Tick /\ UNCHANGED <<storage, sampling>>

DeviceNext ==
    \/ Starts \/ Runs \/ Saves \/ Ticks \/ LevelTask \/ DeviceReset \/ PinChanges
    \/ OtherInput /\ UNCHANGED <<storage, sampling>>

\* The executor polls every woken task, flash answers, time goes on.
DeviceSpec ==
    /\ DeviceInit /\ [][DeviceNext]_deviceVars
    /\ WF_deviceVars(Starts)
    /\ WF_deviceVars(Runs) /\ WF_deviceVars(Saves) /\ WF_deviceVars(Ticks)
    /\ WF_deviceVars(LevelTask)

-----------------------------------------------------------------------------
ResetsEnd == <>[][~DeviceReset]_deviceVars

\* Once the device is no longer reset, an engaged wind lock gets the gate open
\* and the lock into flash when beam 1 stays clear, whatever happened to the
\* forced open in the meantime - also a lock restored from flash, whichever of
\* Gate::new and the first call of barrier1_set came first.
WindLockPursuedAndDurable ==
    (ResetsEnd /\ <>[](wind_locked /\ ~pin))
        => <>(flash.wind_locked /\ drive = "none" /\ position = "open")

\* Once the device is no longer reset, a beam that stays interrupted with no
\* bypass armed brings the gate to rest for good - also one that was
\* interrupted before the boot, and in a movement begun before anyone looked.
BrokenBeamStopsGate ==
    (ResetsEnd /\ <>[](pin /\ ~barrier_bypass)) => <>[](drive = "none")

\* Whatever happens, the announced state is right again and again.
AnnouncementCatchesUp == []<>(announced = CurrentReport)
=============================================================================
