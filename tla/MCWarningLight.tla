--------------------------- MODULE MCWarningLight ---------------------------
(* A small instance of WarningLight for TLC.                               *)
EXTENDS WarningLight

Both(opening, closing) == [opening |-> opening, closing |-> closing]

LampDuration == [A |-> Both(1, 1), B |-> Both(1, 1)]
LampInitialDelay == [A |-> Both(0, 1), B |-> Both(1, 0)]
=============================================================================
