---------------------------- MODULE MCDebouncer -----------------------------
(* A small instance of Debouncer for TLC: every history of MaxSamples.     *)
EXTENDS Debouncer
=============================================================================
