------------------------- MODULE ProvisioningProofs -------------------------
(***************************************************************************)
(* Proofs about Provisioning, for every set of forms, with and without     *)
(* storage errors.                                                         *)
(***************************************************************************)
EXTENDS Provisioning, TLAPS

\* What may become the config: a valid form that was answered, or none.
Known == (told \cap ValidForms) \cup {"none"}

\* main() has loaded its config and has not yet come to a halt or a reset.
Loaded == at \in {"wifi", "station", "local"}

\* The inductive invariant: every config under way - in flash, signalled, or
\* being saved - is a known one, and what main() runs with is what flash
\* holds, as nothing but the end of provisioning writes the record once it
\* has been loaded.
Inv ==
    /\ config \in Known
    /\ submitted \in Known
    /\ chosen \in Known
    /\ Loaded => running \in {config, "none"}
    /\ at = "station" => running # "none"

\* A fresh device.
LEMMA InitInv ==
    ASSUME Init
    PROVE  Inv
  BY DEF Init, Inv, Known, Loaded

\* A reset keeps it, whatever an interrupted write leaves in flash.
LEMMA RestartInv ==
    ASSUME Inv, Restart, config' \in {config, chosen, "none"}
    PROVE  Inv'
  BY DEF Inv, Known, Loaded, Restart

\* main() on its way to a mode.
LEMMA BootInv ==
    ASSUME Inv, ButtonHeld \/ EndBoot
    PROVE  Inv'
  <1> USE DEF Inv, Known, Loaded
  <1>1. CASE ButtonHeld \/ ButtonUp \/ EraseFails
    BY <1>1 DEF ButtonHeld, ButtonUp, EraseFails, gateTask
  <1>2. CASE EraseSucceeds
    BY <1>2 DEF EraseSucceeds, gateTask
  <1>3. CASE LoadSucceeds \/ LoadFails
    BY <1>3 DEF LoadSucceeds, LoadFails
  <1>4. CASE ChooseMode \/ WifiFails
    BY <1>4 DEF ChooseMode, WifiFails, gateTask
  <1> QED
    BY <1>1, <1>2, <1>3, <1>4 DEF EndBoot

\* The form and the save.
LEMMA ProvisioningInv ==
    ASSUME Inv,
           \/ \E form \in Forms : Submit(form)
           \/ TakeSubmission \/ LockFlash \/ EndSave
    PROVE  Inv'
  <1> USE DEF Inv, Known, Loaded
  <1>1. ASSUME NEW form \in Forms, Submit(form) PROVE Inv'
    BY <1>1 DEF Submit, Accepted, Serving, gateTask
  <1>2. CASE TakeSubmission
    BY <1>2 DEF TakeSubmission, gateTask
  <1>3. CASE LockFlash
    BY <1>3 DEF LockFlash
  <1>4. CASE SaveSucceeds
    BY <1>4 DEF SaveSucceeds
  <1>5. CASE SaveFails
    BY <1>5 DEF SaveFails, AfterFailedSave
  <1> QED
    BY <1>1, <1>2, <1>3, <1>4, <1>5 DEF EndSave

\* The end of provisioning, and power loss at any moment.
LEMMA ResetInv ==
    ASSUME Inv, Flushed \/ PowerLoss
    PROVE  Inv'
  <1>1. Restart
    BY DEF Flushed, PowerLoss
  <1>2. config' \in {config, chosen, "none"}
    BY DEF Flushed, PowerLoss, AfterInterruption
  <1> QED
    BY <1>1, <1>2, RestartInv

\* The gate task touches neither the config nor main(), nor does a
\* stuttering step.
LEMMA GateTaskInv ==
    ASSUME Inv,
           GateWantsFlash \/ GateLocksFlash \/ GateSaved \/ UNCHANGED vars
    PROVE  Inv'
  BY DEF Inv, Known, Loaded, GateWantsFlash, GateLocksFlash, GateSaved, vars

\* The inductive invariant holds in every behaviour.
THEOREM Invariance == Spec => []Inv
  <1>1. Init => Inv
    BY InitInv
  <1>2. Inv /\ [Next]_vars => Inv'
    BY BootInv, ProvisioningInv, ResetInv, GateTaskInv DEF Next
  <1> QED
    BY <1>1, <1>2, PTL DEF Spec

\* Whatever is submitted, erased, interrupted or lost: station mode runs the
\* config that flash holds, and that is a valid one the user was told of.
THEOREM StationIsConfigured == Spec => []StationRunsSavedConfig
  <1>1. Inv => StationRunsSavedConfig
    BY DEF Inv, Known, Loaded, StationRunsSavedConfig
  <1> QED
    BY <1>1, Invariance, PTL
=============================================================================
