----------------------------- MODULE MCFirmware -----------------------------
(* A small instance of Firmware for TLC.                                    *)
EXTENDS Firmware

Both(opening, closing) == [opening |-> opening, closing |-> closing]

FlashDuration == [A |-> Both(2, 2), B |-> Both(2, 2)]
FlashInitialDelay == [A |-> Both(0, 1), B |-> Both(1, 0)]
=============================================================================
