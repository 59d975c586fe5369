------------------------------- MODULE Attempt -------------------------------
(***************************************************************************)
(* One handshake as its caller sees it: the login, the session, the tunnel *)
(* and, for Check Point, the sign-out.  Supervisor takes these for single  *)
(* steps with the outcomes below; Handshake, with its requests, replies,   *)
(* retries and closed connections, implements this specification.          *)
(***************************************************************************)

VARIABLES
    proto,     \* the protocol
    stage,     \* "auth", "session", "up", "signout" or "done"
    outcome    \* "none", "ok", "transient" or "permanent"

vars == <<proto, stage, outcome>>

Init ==
    /\ proto \in {"AnyConnect", "FortiGate", "CheckPoint"}
    /\ stage = "auth"
    /\ outcome = "none"

\* Only credentials can be refused for good: by the login, and by a FortiGate
\* also when PPP asks for an authentication the client cannot give.
AuthErrors == {"transient", "permanent"}
SessionErrors == IF proto = "FortiGate" THEN {"transient", "permanent"} ELSE {"transient"}

\* Past the session there is the sign-out, for Check Point; a session without
\* an identifier, and one a failed probe leaves, go without.
Left == stage' = "done" \/ (proto = "CheckPoint" /\ stage' = "signout")

Authenticate ==
    /\ stage = "auth"
    /\ stage' = "session"
    /\ UNCHANGED <<proto, outcome>>

AuthFails ==
    /\ stage = "auth"
    /\ stage' = "done"
    /\ outcome' \in AuthErrors
    /\ UNCHANGED proto

SessionUp ==
    /\ stage = "session"
    /\ stage' = "up"
    /\ outcome' = "ok"
    /\ UNCHANGED proto

\* The session fails, or it was all a probe asked for.
SessionEnds ==
    /\ stage = "session"
    /\ outcome' \in SessionErrors \cup {"ok"}
    /\ Left
    /\ UNCHANGED proto

TunnelEnds ==
    /\ stage = "up"
    /\ Left
    /\ UNCHANGED <<proto, outcome>>

SignOut ==
    /\ stage = "signout"
    /\ stage' = "done"
    /\ UNCHANGED <<proto, outcome>>

Next ==
    \/ Authenticate \/ AuthFails \/ SessionUp \/ SessionEnds \/ TunnelEnds
    \/ SignOut

Spec == Init /\ [][Next]_vars
==============================================================================
