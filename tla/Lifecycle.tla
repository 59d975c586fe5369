------------------------------ MODULE Lifecycle ------------------------------
(***************************************************************************)
(* What the VPN engine promises to whoever watches it: the status a        *)
(* supervisor (the GUI helper, the Android service) derives from the       *)
(* client's events, as a small state machine.  The detailed Supervisor     *)
(* specification implements this one.                                      *)
(***************************************************************************)

VARIABLES
    status,   \* what the last event received says of the tunnel
    stop      \* the supervisor has asked the engine to shut down

vars == <<status, stop>>

Statuses == {"idle", "connecting", "established", "reconnecting",
             "disconnected", "failed"}

\* A run of the engine ends in exactly one of these, and stays there.
Terminal == {"disconnected", "failed"}

TypeOK ==
    /\ status \in Statuses
    /\ stop \in BOOLEAN

Init ==
    /\ status = "idle"
    /\ stop = FALSE

RequestStop ==
    /\ ~stop
    /\ stop' = TRUE
    /\ UNCHANGED status

Attempt ==
    /\ status \in {"idle", "reconnecting"}
    /\ status' = "connecting"
    /\ UNCHANGED stop

Up ==
    /\ status = "connecting"
    /\ status' = "established"
    /\ UNCHANGED stop

\* A transient failure: of the attempt, or of the tunnel it had brought up.
Retry ==
    /\ status \in {"connecting", "established"}
    /\ status' = "reconnecting"
    /\ UNCHANGED stop

\* The engine only stops because it was asked to ...
Stopped ==
    /\ stop
    /\ status \notin Terminal
    /\ status' = "disconnected"
    /\ UNCHANGED stop

\* ... or because the attempt can never succeed (bad credentials).
Refused ==
    /\ status = "connecting"
    /\ status' = "failed"
    /\ UNCHANGED stop

Next == RequestStop \/ Attempt \/ Up \/ Retry \/ Stopped \/ Refused

Spec == Init /\ [][Next]_vars
==============================================================================
