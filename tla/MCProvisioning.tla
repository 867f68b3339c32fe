--------------------------- MODULE MCProvisioning ---------------------------
(* A small instance of Provisioning for TLC.                               *)
EXTENDS Provisioning

TwoForms == {"home", "garden"}
OneInvalid == {"blank"}
=============================================================================
