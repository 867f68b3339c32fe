------------------------------ MODULE MCDevice ------------------------------
(* The smallest instance of Device with all interleavings, for TLC.        *)
EXTENDS Device

Both(opening, closing) == [opening |-> opening, closing |-> closing]
OneTick == [A |-> Both(1, 1), B |-> Both(1, 1)]
HeadStart == [A |-> Both(0, 1), B |-> Both(1, 0)]
=============================================================================
