---------------------------- MODULE Installation ----------------------------
(***************************************************************************)
(* The gate's leaves themselves, under the firmware that only estimates    *)
(* where they are.  A leaf moves while one of its relays is on, at the     *)
(* pace its travel time says (gate_config.rs), and stands at its end stops *)
(* however long the relay stays on.  A reset releases the relays and leaves*)
(* the leaf where it is; what the firmware believes is then what flash     *)
(* held.                                                                   *)
(*                                                                         *)
(* Paces need no rounding in units of the product of a leaf's two travel   *)
(* times: an opening tick covers as many of them as closing takes ticks,   *)
(* and the other way round.                                                *)
(***************************************************************************)
EXTENDS Firmware

VARIABLE real   \* how far open each leaf is, from 0 to FullWay(l)

installationVars == <<firmwareVars, real>>

FullWay(l) == FullDuration(l, "opening") * FullDuration(l, "closing")

\* Where leaf l is a tick later.
Moved(l) ==
    CASE leaf[l].state = "opening" ->
            Lesser(real[l] + FullDuration(l, "closing"), FullWay(l))
      [] leaf[l].state = "closing" ->
            Greater(real[l] - FullDuration(l, "opening"), 0)
      [] OTHER -> real[l]

TimePasses ==
    /\ Tick
    /\ real' = [l \in Leaf |-> Moved(l)]
    /\ UNCHANGED storage

\* A fresh device is put into service with the gate closed.
InstallationInit == FirmwareInit /\ real = [l \in Leaf |-> 0]

InstallationNext == TimePasses \/ (FirmwareStep /\ UNCHANGED real)

InstallationSpec == InstallationInit /\ [][InstallationNext]_installationVars

-----------------------------------------------------------------------------
\* The end of leaf l's way towards d, and its estimate at the other end.
EndStop(l, d) == IF d = "opening" THEN FullWay(l) ELSE 0
FarEnd(d) == IF d = "opening" THEN 0 ELSE MaxPos

\* However far off an estimate is after resets, lost saves and a record that
\* could not be read, a run that was begun at one end and is booked at the other
\* has really brought the leaf to its end stop, so that estimate and leaf agree
\* again: settle() never books the full way for less than the full travel time.
FullRunFindsTheEndStop ==
    [][ RunGate => \A l \in Leaf, d \in Direction :
          (/\ leaf[l].state = d /\ leaf[l].position = FarEnd(d)
           /\ leaf'[l].state = "idle" /\ AtEnd(leaf'[l], d))
             => real[l] = EndStop(l, d) ]_installationVars
=============================================================================
