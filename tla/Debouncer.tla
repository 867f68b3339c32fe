----------------------------- MODULE Debouncer ------------------------------
(***************************************************************************)
(* The debounced inputs: gate-core/src/debounce.rs, sampled by edge_task   *)
(* (src/physical/inputs.rs), which calls its action once per accepted      *)
(* press.  The pin may show anything at each sample.                       *)
(***************************************************************************)
EXTENDS Naturals, Sequences

CONSTANTS
    StableSamples,   \* EDGE_STABLE_SAMPLES
    MaxSamples       \* bound: length of the recorded history

ASSUME SamplesAssumption ==
    /\ StableSamples \in 1..255
    /\ MaxSamples \in Nat

VARIABLES
    armed,     \* released, waiting for a press
    stable,    \* consecutive samples of the awaited kind, a u8
    samples,   \* history: what the pin showed, TRUE for pressed
    fired      \* history: how often the action was called

vars == <<armed, stable, samples, fired>>

\* Debouncer::new.
Init ==
    /\ armed = TRUE
    /\ stable = 0
    /\ samples = <<>>
    /\ fired = 0

\* Mutant of AfterMismatch: the count is not restarted.
CountKept == stable

AfterMismatch == 0

\* The three exits of Debouncer::sample, and the call of the action.
Mismatch(pressed) ==
    /\ pressed # armed
    /\ stable' = AfterMismatch
    /\ UNCHANGED <<armed, fired>>

Count(pressed) ==
    /\ pressed = armed
    /\ stable + 1 < StableSamples
    /\ stable' = stable + 1
    /\ UNCHANGED <<armed, fired>>

Accept(pressed) ==
    /\ pressed = armed
    /\ stable + 1 >= StableSamples
    /\ stable' = 0
    /\ armed' = ~armed
    /\ fired' = IF armed THEN fired + 1 ELSE fired

Sample(pressed) ==
    /\ Len(samples) < MaxSamples
    /\ samples' = Append(samples, pressed)
    /\ Mismatch(pressed) \/ Count(pressed) \/ Accept(pressed)

Next == \E pressed \in BOOLEAN : Sample(pressed)

Spec == Init /\ [][Next]_vars

-----------------------------------------------------------------------------
(* Reference: the level of a debounced input is that of the last           *)
(* StableSamples samples that agreed, released before there are any; a     *)
(* press is a change of that level from released to pressed.               *)

\* The StableSamples samples of s up to the n-th are all this level.
AgreeAt(s, n, level) ==
    n >= StableSamples /\ \A i \in (n - StableSamples + 1)..n : s[i] = level

Pressed(s) ==
    \E n \in 1..Len(s) :
        /\ AgreeAt(s, n, TRUE)
        /\ \A k \in (n + 1)..Len(s) : ~AgreeAt(s, k, FALSE)

-----------------------------------------------------------------------------
\* The action is called once per press of the reference, neither for a spike
\* nor twice for one press, nor for bounce on release.
OncePerPress ==
    [][ fired' = IF Pressed(samples') /\ ~Pressed(samples) THEN fired + 1
                 ELSE fired ]_vars
=============================================================================
