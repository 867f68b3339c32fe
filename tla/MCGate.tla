------------------------------- MODULE MCGate -------------------------------
(* Small instances of Gate for TLC.                                        *)
EXTENDS Gate

Both(opening, closing) == [opening |-> opening, closing |-> closing]

\* The installation's shape (gate_config.rs): both leaves equally fast, leaf
\* A opens first, leaf B closes first, the head start at least the pause.
MCDuration == [A |-> Both(5, 4), B |-> Both(5, 4)]
MCInitialDelay == [A |-> Both(0, 2), B |-> Both(2, 0)]
=============================================================================
