---------------------------- MODULE Provisioning ----------------------------
(***************************************************************************)
(* From power-on to station mode: the reset button, the choice of a mode,  *)
(* the provisioning form and the save that ends provisioning (bin/main.rs, *)
(* infra/reset_button.rs, infra/provisioning_http.rs, infra/storage.rs),   *)
(* beside the gate task, which shares the flash.                           *)
(*                                                                         *)
(* The device may lose power at any moment; the record map in flash        *)
(* (sequential-storage, external) then holds the record from before an     *)
(* interrupted write or the one after it.  What a config says is left out, *)
(* except whether its form is valid.                                       *)
(***************************************************************************)
EXTENDS Naturals

CONSTANTS
    ValidForms,     \* forms that SubmittedForm::into_config accepts
    InvalidForms,   \* forms it refuses
    StorageErrors   \* whether reading and writing flash may fail

ASSUME FormsAssumption ==
    /\ ValidForms \cap InvalidForms = {}
    /\ "none" \notin ValidForms \cup InvalidForms
    /\ StorageErrors \in BOOLEAN

VARIABLES
    config,     \* the config record in flash, "none" if there is none
    at,         \* where main() is
    running,    \* the config main() has loaded, "none" for None
    submitted,  \* the CONFIG_SUBMITTED signal
    chosen,     \* the submission main() is saving
    told,       \* history: the configs the form's page has called saved
    gate,       \* the gate task's use of flash
    holder      \* who holds the flash mutex

vars == <<config, at, running, submitted, chosen, told, gate, holder>>
gateTask == <<gate, holder>>

Forms == ValidForms \cup InvalidForms
MaybeConfig == Forms \cup {"none"}

\* The provisioning server is up from the start of provisioning to the reset.
Serving == at \in {"provisioning", "locking", "saving", "flushing"}

-----------------------------------------------------------------------------
(* Power-on and reset.                                                     *)

\* RAM after a reset: main() at its beginning, no other task.
Restart ==
    /\ at' = "button"
    /\ running' = "none"
    /\ submitted' = "none"
    /\ chosen' = "none"
    /\ gate' = "off"
    /\ holder' = "none"
    /\ UNCHANGED told

\* The records an interrupted write may leave.
AfterInterruption ==
    CASE at = "erasing" -> {config, "none"}
      [] at = "saving" -> {config, chosen}
      [] OTHER -> {config}

PowerLoss == config' \in AfterInterruption /\ Restart

-----------------------------------------------------------------------------
(* main() up to its mode.                                                  *)

\* check_and_maybe_erase: the button is let go before its time ...
ButtonUp ==
    /\ at = "button"
    /\ at' = "loading"
    /\ UNCHANGED <<config, running, submitted, chosen, told, gateTask>>

\* ... or held for all of it.
ButtonHeld ==
    /\ at = "button"
    /\ at' = "erasing"
    /\ UNCHANGED <<config, running, submitted, chosen, told, gateTask>>

EraseSucceeds ==
    /\ at = "erasing"
    /\ config' = "none"
    /\ at' = "loading"
    /\ UNCHANGED <<running, submitted, chosen, told, gateTask>>

\* A failed erase is only logged.
EraseFails ==
    /\ StorageErrors
    /\ at = "erasing"
    /\ at' = "loading"
    /\ UNCHANGED <<config, running, submitted, chosen, told, gateTask>>

\* storage::load, then the gate task is spawned, whatever was loaded.
LoadSucceeds ==
    /\ at = "loading"
    /\ running' = config
    /\ at' = "wifi"
    /\ gate' = "idle"
    /\ UNCHANGED <<config, submitted, chosen, told, holder>>

\* A record that cannot be read counts as "nothing is configured yet".
LoadFails ==
    /\ StorageErrors
    /\ at = "loading"
    /\ running' = "none"
    /\ at' = "wifi"
    /\ gate' = "idle"
    /\ UNCHANGED <<config, submitted, chosen, told, holder>>

\* Mutant of ChooseMode: flash is locked before the wait for a submission.
ChooseModeHoldingFlash ==
    /\ at = "wifi"
    /\ at' = IF running # "none" THEN "station" ELSE "provisioning"
    /\ holder = "none"
    /\ holder' = IF running # "none" THEN holder ELSE "main"
    /\ UNCHANGED <<config, running, submitted, chosen, told, gate>>

ChooseMode ==
    /\ at = "wifi"
    /\ at' = IF running # "none" THEN "station" ELSE "provisioning"
    /\ UNCHANGED <<config, running, submitted, chosen, told, gateTask>>

\* Without a working Wi-Fi controller, or if it refuses the configuration of
\* the mode, only local control remains.
WifiFails ==
    /\ at = "wifi"
    /\ at' = "local"
    /\ UNCHANGED <<config, running, submitted, chosen, told, gateTask>>

-----------------------------------------------------------------------------
(* The form, and run_provisioning_mode.                                    *)

\* Mutant of Accepted: into_config refuses nothing.
AcceptedUnseen(form) == TRUE

\* SubmittedForm::into_config.
Accepted(form) == form \in ValidForms

\* submit(): a valid form is signalled, replacing one not yet taken, and
\* answered with "Saved" at once; for any other the form is shown again.
Submit(form) ==
    /\ Serving
    /\ Accepted(form)
    /\ submitted' = form
    /\ told' = told \cup {form}
    /\ UNCHANGED <<config, at, running, chosen, gateTask>>

TakeSubmission ==
    /\ at = "provisioning"
    /\ submitted # "none"
    /\ submitted' = "none"
    /\ chosen' = submitted
    /\ at' = "locking"
    /\ UNCHANGED <<config, running, told, gateTask>>

LockFlash ==
    /\ at = "locking"
    /\ holder = "none"
    /\ holder' = "main"
    /\ at' = "saving"
    /\ UNCHANGED <<config, running, submitted, chosen, told, gate>>

SaveSucceeds ==
    /\ at = "saving"
    /\ config' = chosen
    /\ at' = "flushing"
    /\ holder' = "none"
    /\ UNCHANGED <<running, submitted, chosen, told, gate>>

\* Mutant of AfterFailedSave: gives up instead of rebooting.
NoRebootAfterFailedSave == "local"

AfterFailedSave == "flushing"

\* A failed save is logged and followed by the same reset.
SaveFails ==
    /\ StorageErrors
    /\ at = "saving"
    /\ at' = AfterFailedSave
    /\ holder' = "none"
    /\ UNCHANGED <<config, running, submitted, chosen, told, gate>>

\* The 500 ms in which the response leaves, then the software reset.
Flushed == at = "flushing" /\ Restart /\ UNCHANGED config

-----------------------------------------------------------------------------
(* The gate task's saves: at any time once it is spawned.                  *)

GateWantsFlash ==
    /\ gate = "idle"
    /\ gate' = "locking"
    /\ UNCHANGED <<config, at, running, submitted, chosen, told, holder>>

GateLocksFlash ==
    /\ gate = "locking"
    /\ holder = "none"
    /\ holder' = "gate"
    /\ gate' = "saving"
    /\ UNCHANGED <<config, at, running, submitted, chosen, told>>

GateSaved ==
    /\ gate = "saving"
    /\ holder' = "none"
    /\ gate' = "idle"
    /\ UNCHANGED <<config, at, running, submitted, chosen, told>>

-----------------------------------------------------------------------------
Init ==
    /\ config = "none"
    /\ at = "button"
    /\ running = "none"
    /\ submitted = "none"
    /\ chosen = "none"
    /\ told = {}
    /\ gate = "off"
    /\ holder = "none"

EndBoot == ButtonUp \/ EraseSucceeds \/ EraseFails \/ LoadSucceeds \/ LoadFails
           \/ ChooseMode \/ WifiFails
EndSave == SaveSucceeds \/ SaveFails

Next ==
    \/ ButtonHeld \/ EndBoot
    \/ \E form \in Forms : Submit(form)
    \/ TakeSubmission \/ LockFlash \/ EndSave \/ Flushed
    \/ GateWantsFlash \/ GateLocksFlash \/ GateSaved
    \/ PowerLoss

\* A task that can go on does.  Each time the gate task lets go of the mutex
\* it awaits its next step before it may want it again, so main() gets its
\* turn (and the other way round).
Fairness ==
    /\ WF_vars(EndBoot)
    /\ WF_vars(TakeSubmission) /\ SF_vars(LockFlash) /\ WF_vars(EndSave)
    /\ WF_vars(Flushed)
    /\ SF_vars(GateLocksFlash) /\ WF_vars(GateSaved)

Spec == Init /\ [][Next]_vars
FairSpec == Spec /\ Fairness

-----------------------------------------------------------------------------
\* Station mode runs exactly the config that flash holds - so the next boot
\* joins the same network - and that is a valid one the user was told is
\* saved: an invalid form never gets there, nor does an erased config survive in RAM.
StationRunsSavedConfig ==
    at = "station" => running = config /\ running \in told \cap ValidForms

\* A submission ends provisioning: whatever the gate task does with flash and
\* whether or not the save works, the device reboots.
SubmissionEndsInReboot == submitted # "none" ~> at = "button"

\* "Local gate control ... keeps working without Wi-Fi/MQTT and even in
\* provisioning mode": a gate task that wants to save is never shut out of
\* flash for good.
GateIsNeverShutOut == gate = "locking" ~> gate # "locking"

\* The last config the form's page has called saved.
Answered == IF submitted # "none" THEN submitted ELSE chosen

\* "Saved. Rebooting into station mode...": when the device reboots at the
\* end of provisioning, flash holds what the page said was saved.
SavedPageIsTrue == [][ Flushed => config = Answered ]_vars
=============================================================================
