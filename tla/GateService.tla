----------------------------- MODULE GateService ----------------------------
(***************************************************************************)
(* The gate as the rest of the system sees it, without command slot,       *)
(* signals, motors or time: it stands still or moves towards one end, each *)
(* movement begins and ends at rest, and every state it publishes is the   *)
(* state of that moment.  Gate implements it.                              *)
(***************************************************************************)
CONSTANT Seen(_, _, _, _)   \* the state published for motion, place, ...

VARIABLES
    motion,   \* "idle", "opening" or "closing"
    where,    \* "closed", "partial" or "open", as of the last rest
    locked,   \* the wind lock
    bypass,   \* the one-shot light barrier bypass
    shown     \* the state published last

serviceVars == <<motion, where, locked, bypass, shown>>

Publish == shown' = Seen(motion', where', locked', bypass')

\* A movement begins at rest; none begins towards closed under the wind lock.
Begin ==
    /\ motion = "idle"
    /\ motion' \in {"opening", "closing"}
    /\ motion' = "closing" => ~locked
    /\ Publish
    /\ UNCHANGED <<where, locked, bypass>>

\* It ends somewhere in its direction, and may have used up the bypass.
End ==
    /\ motion # "idle"
    /\ motion' = "idle"
    /\ where' \in {"closed", "partial", "open"}
    /\ motion = "opening" /\ where # "closed" => where' # "closed"
    /\ motion = "closing" /\ where # "open" => where' # "open"
    /\ bypass' \in {bypass, FALSE}
    /\ Publish
    /\ UNCHANGED locked

\* The lock and the bypass change at any time; the lock is not published at
\* once.
Lock ==
    /\ locked' \in BOOLEAN
    /\ UNCHANGED <<motion, where, bypass, shown>>

SetBypass ==
    /\ bypass' \in BOOLEAN
    /\ Publish
    /\ UNCHANGED <<motion, where, locked>>

PublishAgain == Publish /\ UNCHANGED <<motion, where, locked, bypass>>

ServiceInit ==
    /\ motion = "idle"
    /\ where \in {"closed", "partial", "open"}
    /\ locked \in BOOLEAN
    /\ bypass = FALSE
    /\ shown = Seen(motion, where, locked, bypass)

ServiceNext == Begin \/ End \/ Lock \/ SetBypass \/ PublishAgain

ServiceSpec == ServiceInit /\ [][ServiceNext]_serviceVars
=============================================================================
