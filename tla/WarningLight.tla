---------------------------- MODULE WarningLight ----------------------------
(***************************************************************************)
(* The warning light task (gate-core/src/warning_light.rs) beside the gate *)
(* task.  It reads the shared state and otherwise only sleeps: on a timer  *)
(* while blinking, on the light_changed signal while dark.                 *)
(***************************************************************************)
EXTENDS Gate

CONSTANT HalfPeriod   \* ticks between two toggles of the lamp

ASSUME HalfPeriodAssumption == HalfPeriod \in Nat \ {0}

VARIABLES
    lit,        \* the lamp's pin
    lamp_at,    \* where the task is: "start", "timer" or "signal"
    lamp_due    \* ticks until the blink timer fires

lamp == <<lit, lamp_at, lamp_due>>
lightVars == <<vars, lamp>>

\* Mutant of WarningLightActive: the bypass is not looked at.
MovementOnlyActive == current_direction # "idle"

\* Blinks while the gate moves and for as long as the bypass is armed.
WarningLightActive == current_direction # "idle" \/ barrier_bypass

\* Mutant of LampLoop: the pin keeps its level.
LampLoopLeavingPinAlone ==
    \/ /\ WarningLightActive
       /\ lit' = ~lit
       /\ lamp_at' = "timer"
       /\ lamp_due' = HalfPeriod
    \/ /\ ~WarningLightActive
       /\ lit' = lit
       /\ lamp_at' = "signal"
       /\ lamp_due' = 0

\* One iteration of the loop, up to its await.
LampLoop ==
    \/ /\ WarningLightActive
       /\ lit' = ~lit
       /\ lamp_at' = "timer"
       /\ lamp_due' = HalfPeriod
    \/ /\ ~WarningLightActive
       /\ lit' = FALSE
       /\ lamp_at' = "signal"
       /\ lamp_due' = 0

LampStart == lamp_at = "start" /\ LampLoop /\ UNCHANGED vars

LampTimer == lamp_at = "timer" /\ lamp_due = 0 /\ LampLoop /\ UNCHANGED vars

\* Waiting on the signal consumes it.
LampSignal ==
    /\ lamp_at = "signal"
    /\ light_changed
    /\ light_changed' = FALSE
    /\ LampLoop
    /\ UNCHANGED <<command, barrier_changed, wind_lock_reset,
                   current_direction, last_direction, position, wind_locked,
                   barrier1_active, barrier2_active, barrier_bypass,
                   task, announced>>

LampTask == LampStart \/ LampTimer \/ LampSignal

LightTick == Tick /\ lamp_due' = Greater(lamp_due - 1, 0)
                  /\ UNCHANGED <<lit, lamp_at>>

LightInit == Init /\ lit = FALSE /\ lamp_at = "start" /\ lamp_due = 0

LightNext ==
    \/ LampTask
    \/ LightTick
    \/ GateTask /\ UNCHANGED lamp
    \/ ControlsInput /\ UNCHANGED lamp

LightSpec == LightInit /\ [][LightNext]_lightVars

\* The light task runs independently of the gate task: what follows needs no
\* fairness of the latter.
LightFairSpec ==
    /\ LightSpec
    /\ WF_lightVars(LampTask)
    /\ WF_lightVars(LightTick)

-----------------------------------------------------------------------------
\* The task never sleeps through a reason to blink: whenever it waits for
\* the signal although the light should be active, the signal is set, and a
\* lamp that is still lit is never left to the signal alone.
LampWake ==
    /\ (lamp_at = "signal" /\ WarningLightActive) => light_changed
    /\ lit => lamp_at = "timer"

\* Once nothing moves and no bypass is armed any more, the lamp goes dark
\* for good.
LampGoesDark ==
    <>[](current_direction = "idle" /\ ~barrier_bypass) => <>[]~lit

\* While the bypass stays armed the lamp keeps blinking, even though the gate
\* stands still.
LampBlinks == <>[]barrier_bypass => []<>lit /\ []<>~lit

\* A movement that lasts is warned about: the lamp comes on, or the movement
\* is over before the light task had its turn.
MovementIsWarnedAbout ==
    current_direction # "idle" ~> lit \/ current_direction = "idle"
=============================================================================
