--------------------------- MODULE MCInstallation ---------------------------
(* Small instances of Installation for TLC.                                *)
EXTENDS Installation

Both(opening, closing) == [opening |-> opening, closing |-> closing]

\* Closing takes leaf A longer than opening.
SlowClosing == [A |-> Both(1, 2), B |-> Both(1, 1)]

HeadStart == [A |-> Both(0, 1), B |-> Both(1, 0)]
=============================================================================
