------------------------------ MODULE Supervisor ------------------------------
(***************************************************************************)
(* The client lifecycle of crates/vpn-engine/src/client.rs: the reconnect  *)
(* loop run_client_supervised, one connection attempt of each protocol,    *)
(* the TUN device, the routes owned by RoutingGuard (routing.rs), their    *)
(* teardown (the tail of forward.rs), the Check Point session sign-out,    *)
(* the shutdown watch channel and the bounded channel of ClientEvents.     *)
(*                                                                         *)
(* The network exchanges of a handshake are one step each with every       *)
(* outcome the code distinguishes; the forwarding loop itself is module    *)
(* Forwarding.  Time only matters against MIN_SUSTAINED_SESSION, so the    *)
(* clock saturates there.                                              *)
(***************************************************************************)
EXTENDS Naturals, Sequences

CONSTANTS
    Protocols,     \* the protocols a configuration may select
    RouteCount,    \* length of the route list handed to install_routes
    EventCap,      \* capacity of the event channel
    U32Max,        \* largest value of the u32 attempt counter
    MinSustained   \* MIN_SUSTAINED_SESSION in clock ticks

ASSUME ProtocolsAssumption ==
    Protocols \subseteq {"AnyConnect", "Checkpoint", "FortiGate"}
ASSUME RouteCountAssumption == RouteCount \in Nat \ {0}
ASSUME EventCapAssumption == EventCap \in Nat \ {0}
ASSUME U32MaxAssumption == U32Max \in Nat \ {0}
ASSUME MinSustainedAssumption == MinSustained \in Nat \ {0}

VARIABLES
    proto,         \* config.protocol
    shutdown,      \* value of the shutdown watch channel
    pc,            \* where run_client_supervised (and the calls below it) is
    attempt,       \* consecutive failures, the exponent of the backoff
    established,   \* this attempt reached the forwarding loop
    outcome,       \* what connect() returned, or is about to return
    lasted,        \* ticks since `started`, saturating
    tun,           \* the TUN device is open
    added,         \* routes RoutingGuard has recorded (a prefix of the list)
    removed,       \* routes the running removal loop has already visited
    table,         \* the OS routing table: entries this client put there
    stuck,         \* entries whose deletion failed (logged, never retried)
    ccc,           \* the CCC session of this attempt at the gateway, see below
    out,           \* event whose send() is being awaited, or "none"
    events,        \* the event channel
    seen           \* last event the receiver took

engineVars == <<pc, attempt, established, outcome>>
routeVars == <<added, removed, table, stuck>>
channelVars == <<events, seen>>
vars == <<proto, shutdown, engineVars, lasted, tun, routeVars, ccc,
          out, channelVars>>

ClientEvent == {"Connecting", "Established", "Reconnecting", "Disconnected",
                "PermanentError"}
Outcomes == {"none", "ok", "transient", "permanent"}

\* The gateway has no session of this attempt, has one that connect_checkpoint
\* still has to sign out, or has one that the client will not release any more.
CccStates == {"none", "held", "left"}

\* Steps that wait for the network with no timeout of their own; "writing" is
\* the forwarding loop awaiting a write to the gateway.
NetworkWaits == {"auth", "session", "writing", "signout"}
\* Steps of one connection attempt, from `started` to connect()'s return.
InAttempt == NetworkWaits \cup {"tun", "routes", "rollback", "forwarding",
                                "teardown"}
Steps == InAttempt \cup {"top", "result", "backoff", "done"}

Routes == 1 .. RouteCount

TypeOK ==
    /\ proto \in Protocols
    /\ shutdown \in BOOLEAN
    /\ pc \in Steps
    /\ attempt \in 0 .. U32Max
    /\ established \in BOOLEAN
    /\ outcome \in Outcomes
    /\ lasted \in 0 .. MinSustained
    /\ tun \in BOOLEAN
    /\ added \in 0 .. RouteCount
    /\ removed \in 0 .. RouteCount
    /\ table \subseteq Routes
    /\ stuck \subseteq Routes
    /\ ccc \in CccStates
    /\ out \in ClientEvent \cup {"none"}
    /\ events \in Seq(ClientEvent)
    /\ seen \in ClientEvent \cup {"none"}

Init ==
    /\ proto \in Protocols
    /\ shutdown = FALSE
    /\ pc = "top"
    /\ attempt = 0
    /\ established = FALSE
    /\ outcome = "none"
    /\ lasted = 0
    /\ tun = FALSE
    /\ added = 0
    /\ removed = 0
    /\ table = {}
    /\ stuck = {}
    /\ ccc = "none"
    /\ out = "none"
    /\ events = <<>>
    /\ seen = "none"

-------------------------------------------------------------------------------
(* The environment: the supervisor's side of the two channels, and time.  *)

\* The owner of the watch sender stops the engine (a signal, the helper's
\* Session::stop, stopEngine): send(true), at most once.
RequestShutdown ==
    /\ ~shutdown
    /\ shutdown' = TRUE
    /\ UNCHANGED <<proto, engineVars, lasted, tun, routeVars, ccc, out,
                   channelVars>>

Receive ==
    /\ events # <<>>
    /\ seen' = Head(events)
    /\ events' = Tail(events)
    /\ UNCHANGED <<proto, shutdown, engineVars, lasted, tun, routeVars,
                   ccc, out>>

Tick ==
    /\ pc \in InAttempt
    /\ lasted < MinSustained
    /\ lasted' = lasted + 1
    /\ UNCHANGED <<proto, shutdown, engineVars, tun, routeVars, ccc, out,
                   channelVars>>

-------------------------------------------------------------------------------
(* The engine task.  Every step but Send waits for the send in progress.  *)

\* events.send(ev).await: waits for room.  Whoever runs the engine keeps the
\* receiver until the engine has returned, so the channel is never closed.
Send ==
    /\ out # "none"
    /\ Len(events) < EventCap
    /\ events' = Append(events, out)
    /\ out' = "none"
    /\ UNCHANGED <<proto, shutdown, engineVars, lasted, tun, routeVars,
                   ccc, seen>>

\* `if *shutdown_rx.borrow()` at the top of the loop.
MutLoopTopStops == FALSE
LoopTopStops == shutdown

\* Top of the loop: honour a shutdown already set, else start an attempt.
LoopTop ==
    /\ pc = "top" /\ out = "none"
    /\ IF LoopTopStops
         THEN /\ out' = "Disconnected"
              /\ pc' = "done"
              /\ UNCHANGED <<established, outcome, lasted, ccc>>
         ELSE /\ out' = "Connecting"
              /\ pc' = "auth"
              /\ established' = FALSE
              /\ outcome' = "none"
              /\ lasted' = 0
              /\ ccc' = "none"
    /\ UNCHANGED <<proto, shutdown, attempt, tun, routeVars, channelVars>>

\* Where connect() goes with result r once the tunnel part is over: the Check
\* Point path signs its session out first, the others return.
MutAfterTunnel == "result"
AfterTunnel == IF proto = "Checkpoint" THEN "signout" ELSE "result"

\* How a step of connect() ends: the next step, or an error for the caller.
Proceed(step) == pc' = step /\ UNCHANGED outcome
GiveUp(step, errors) == pc' = step /\ outcome' \in errors

\* Each authentication connects a TLS socket first.  VpnError::AuthFailed is the
\* only permanent error of the three; I/O, TLS and protocol errors are transient.
AuthenticateAnyConnect ==
    /\ pc = "auth" /\ out = "none"
    /\ proto = "AnyConnect"
    /\ Proceed("session") \/ GiveUp("result", {"transient", "permanent"})
    /\ UNCHANGED <<proto, shutdown, attempt, established, lasted, tun,
                   routeVars, ccc, out, channelVars>>

\* A CCC answer 600 opens a session on the gateway.  One that does not arrive, or
\* whose active_key is missing or cannot be decoded, leaves through `?`, before
\* the block that signs the session out: the gateway keeps that session.
AuthenticateCheckpoint ==
    /\ pc = "auth" /\ out = "none"
    /\ proto = "Checkpoint"
    /\ \/ /\ Proceed("session")
          /\ ccc' = "held"
       \/ /\ GiveUp("result", {"transient"})
          /\ ccc' \in {"none", "left"}
       \/ /\ GiveUp("result", {"permanent"})
          /\ ccc' = "none"
    /\ UNCHANGED <<proto, shutdown, attempt, established, lasted, tun,
                   routeVars, out, channelVars>>

AuthenticateFortiGate ==
    /\ pc = "auth" /\ out = "none"
    /\ proto = "FortiGate"
    /\ Proceed("session") \/ GiveUp("result", {"transient", "permanent"})
    /\ UNCHANGED <<proto, shutdown, attempt, established, lasted, tun,
                   routeVars, ccc, out, channelVars>>

\* CSTP CONNECT on the authenticated socket.
CstpConnect ==
    /\ pc = "session" /\ out = "none"
    /\ proto = "AnyConnect"
    /\ Proceed("tun") \/ GiveUp(AfterTunnel, {"transient"})
    /\ UNCHANGED <<proto, shutdown, attempt, established, lasted, tun,
                   routeVars, ccc, out, channelVars>>

\* The SLIM socket and its client_hello / hello_reply.
SlimHello ==
    /\ pc = "session" /\ out = "none"
    /\ proto = "Checkpoint"
    /\ Proceed("tun") \/ GiveUp(AfterTunnel, {"transient"})
    /\ UNCHANGED <<proto, shutdown, attempt, established, lasted, tun,
                   routeVars, ccc, out, channelVars>>

\* Configuration, tunnel socket and PPP, which may still find that the gateway
\* wants an authentication the client cannot give.
OpenTunnel ==
    /\ pc = "session" /\ out = "none"
    /\ proto = "FortiGate"
    /\ Proceed("tun") \/ GiveUp(AfterTunnel, {"transient", "permanent"})
    /\ UNCHANGED <<proto, shutdown, attempt, established, lasted, tun,
                   routeVars, ccc, out, channelVars>>

-------------------------------------------------------------------------------
(* run_pipeline: TUN device, routes, forwarding, teardown.                *)

\* open_tun and if_index; on an error the device is dropped on return.
OpenTun ==
    /\ pc = "tun" /\ out = "none"
    /\ \/ /\ tun' = TRUE
          /\ added' = 0
          /\ pc' = "routes"
          /\ UNCHANGED outcome
       \/ /\ pc' = AfterTunnel
          /\ outcome' = "transient"
          /\ UNCHANGED <<tun, added>>
    /\ UNCHANGED <<proto, shutdown, attempt, established, lasted, removed,
                   table, stuck, ccc, out, channelVars>>

\* One iteration of install_routes' loop.  A failed add (or no handle at all)
\* starts the rollback of the entries added so far.
InstallRoute ==
    /\ pc = "routes" /\ out = "none"
    /\ added < RouteCount
    /\ removed' = 0
    /\ \/ /\ added' = added + 1
          /\ table' = table \cup {added + 1}
          /\ stuck' = stuck \ {added + 1}
          /\ UNCHANGED pc
       \/ /\ pc' = "rollback"
          /\ UNCHANGED <<added, table, stuck>>
    /\ UNCHANGED <<proto, shutdown, attempt, established, outcome, lasted,
                   tun, ccc, out, channelVars>>

\* The for loop over the routes has ended.
MutRoutesInstalled == added + 1 >= RouteCount
RoutesInstalled == added = RouteCount

\* Every route is in: the guard is returned, `established` is set and the
\* Established event is sent before the forwarding loop starts.
TunnelUp ==
    /\ pc = "routes" /\ out = "none"
    /\ RoutesInstalled
    /\ established' = TRUE
    /\ out' = "Established"
    /\ pc' = "forwarding"
    /\ UNCHANGED <<proto, shutdown, attempt, outcome, lasted, tun, routeVars,
                   ccc, channelVars>>

\* One deletion of the rollback or of remove_all: best effort, an error is
\* ignored (rollback) or logged (remove_all) and the entry stays.
MutLastRemoved == IF added > 0 THEN added - 1 ELSE 0
LastRemoved == added

RemoveRoute ==
    /\ pc \in {"rollback", "teardown"} /\ out = "none"
    /\ removed < LastRemoved
    /\ removed' = removed + 1
    /\ \/ /\ table' = table \ {removed + 1}
          /\ UNCHANGED stuck
       \/ /\ stuck' = stuck \cup {removed + 1}
          /\ UNCHANGED table
    /\ UNCHANGED <<proto, shutdown, engineVars, lasted, tun, added, ccc,
                   out, channelVars>>

\* The removal loop is over and the TUN device (its two halves) is dropped.
CloseTun ==
    /\ pc \in {"rollback", "teardown"} /\ out = "none"
    /\ removed = LastRemoved
    /\ tun' = FALSE
    /\ pc' = AfterTunnel
    /\ outcome' = IF pc = "rollback" THEN "transient" ELSE outcome
    /\ UNCHANGED <<proto, shutdown, attempt, established, lasted, routeVars,
                   ccc, out, channelVars>>

\* An arm of run_forwarding's select awaits its write to the gateway; nothing
\* else is polled meanwhile.  One such wait stands for all the writes of the arm.
WriteToGateway ==
    /\ pc = "forwarding" /\ out = "none"
    /\ ~shutdown
    /\ pc' = "writing"
    /\ UNCHANGED <<proto, shutdown, attempt, established, outcome, lasted, tun,
                   routeVars, ccc, out, channelVars>>

WriteDone ==
    /\ pc = "writing" /\ outcome = "none"
    /\ pc' = "forwarding"
    /\ UNCHANGED <<proto, shutdown, attempt, established, outcome, lasted, tun,
                   routeVars, ccc, out, channelVars>>

\* run_forwarding's shutdown arm: the receiver is a clone that has not seen
\* the change, so a shutdown sent before the loop started fires it as well.
\* All framers but SLIM's first write a goodbye.
ForwardingStops ==
    /\ pc = "forwarding" /\ out = "none"
    /\ shutdown
    /\ outcome' = "ok"
    /\ removed' = 0
    /\ pc' = IF proto = "Checkpoint" THEN "teardown" ELSE "writing"
    /\ UNCHANGED <<proto, shutdown, attempt, established, lasted, tun, added,
                   table, stuck, ccc, out, channelVars>>

\* Written or not, the goodbye is followed by the teardown.
GoodbyeDone ==
    /\ pc = "writing" /\ outcome = "ok"
    /\ removed' = 0
    /\ pc' = "teardown"
    /\ UNCHANGED <<proto, shutdown, attempt, established, outcome, lasted, tun,
                   added, table, stuck, ccc, out, channelVars>>

\* Any other exit of the loop; all its errors are transient.
ForwardingFails ==
    /\ pc \in {"forwarding", "writing"} /\ out = "none"
    /\ outcome = "none"
    /\ outcome' = "transient"
    /\ removed' = 0
    /\ pc' = "teardown"
    /\ UNCHANGED <<proto, shutdown, attempt, established, lasted, tun, added,
                   table, stuck, ccc, out, channelVars>>

\* Best-effort sign-out of the CCC session.  Without a session_id nothing is
\* sent, and an error is only logged: either way the gateway keeps the session.
SignOut ==
    /\ pc = "signout" /\ out = "none"
    /\ ccc' \in {"none", "left"}
    /\ pc' = "result"
    /\ UNCHANGED <<proto, shutdown, attempt, established, outcome, lasted,
                   tun, routeVars, out, channelVars>>

-------------------------------------------------------------------------------
(* What the loop does with the result of an attempt.                      *)

\* The session counts as sustained: `attempt` starts again from zero.
Sustained == established /\ lasted >= MinSustained

\* VpnError::is_permanent, as the loop uses it.
MutIsPermanent == outcome # "ok"
IsPermanent == outcome = "permanent"

Succeeded ==
    /\ pc = "result" /\ out = "none"
    /\ outcome = "ok"
    /\ out' = "Disconnected"
    /\ pc' = "done"
    /\ UNCHANGED <<proto, shutdown, attempt, established, outcome, lasted,
                   tun, routeVars, ccc, channelVars>>

FailedForGood ==
    /\ pc = "result" /\ out = "none"
    /\ IsPermanent
    /\ out' = "PermanentError"
    /\ pc' = "done"
    /\ UNCHANGED <<proto, shutdown, attempt, established, outcome, lasted,
                   tun, routeVars, ccc, channelVars>>

\* Announced before the backoff sleep starts.
MutBackoffEvent == "none"
BackoffEvent == "Reconnecting"

WillRetry ==
    /\ pc = "result" /\ out = "none"
    /\ outcome # "ok" /\ ~IsPermanent
    /\ attempt' = IF Sustained THEN 0 ELSE attempt
    /\ IF shutdown
         THEN out' = "Disconnected" /\ pc' = "done"
         ELSE out' = BackoffEvent /\ pc' = "backoff"
    /\ UNCHANGED <<proto, shutdown, established, outcome, lasted, tun,
                   routeVars, ccc, channelVars>>

\* attempt.saturating_add(1)
MutNextAttempt == attempt + 1
NextAttempt == IF attempt < U32Max THEN attempt + 1 ELSE attempt

BackoffElapses ==
    /\ pc = "backoff" /\ out = "none"
    /\ attempt' = NextAttempt
    /\ pc' = "top"
    /\ UNCHANGED <<proto, shutdown, established, outcome, lasted, tun,
                   routeVars, ccc, out, channelVars>>

BackoffInterrupted ==
    /\ pc = "backoff" /\ out = "none"
    /\ shutdown
    /\ out' = "Disconnected"
    /\ pc' = "done"
    /\ UNCHANGED <<proto, shutdown, attempt, established, outcome, lasted,
                   tun, routeVars, ccc, channelVars>>

\* run_client_supervised has returned and every event has been taken.
Finished ==
    /\ pc = "done" /\ out = "none" /\ events = <<>>
    /\ UNCHANGED vars

Environment == RequestShutdown \/ Receive \/ Tick

\* Steps the engine task takes by itself: no peer has to answer.
Local ==
    \/ Send \/ LoopTop \/ OpenTun \/ InstallRoute \/ TunnelUp
    \/ RemoveRoute \/ CloseTun \/ ForwardingStops
    \/ Succeeded \/ FailedForGood \/ WillRetry
    \/ BackoffElapses \/ BackoffInterrupted

\* Steps that wait for the gateway, or for traffic to send to it.
Remote ==
    \/ AuthenticateAnyConnect \/ AuthenticateCheckpoint \/ AuthenticateFortiGate
    \/ CstpConnect \/ SlimHello \/ OpenTunnel
    \/ WriteToGateway \/ WriteDone \/ GoodbyeDone \/ ForwardingFails \/ SignOut

Next == Environment \/ Local \/ Remote \/ Finished

\* The runtime keeps polling the engine task and the task that drains the
\* events.  Nothing is assumed of the gateway: a handshake, a write of the
\* forwarding loop or a sign-out may wait for ever, since none of them has an
\* overall timeout.
Fairness == WF_vars(Local) /\ WF_vars(Receive)

Spec == Init /\ [][Next]_vars /\ Fairness

-------------------------------------------------------------------------------
(* Properties.                                                            *)

\* What each step of an attempt owns: the part of the invariants below that
\* makes them inductive.
Owned ==
    /\ tun <=> pc \in {"routes", "rollback", "forwarding", "writing", "teardown"}
    /\ ~tun => table \subseteq stuck
    /\ pc = "routes" => 1 .. added \subseteq table /\ table \ stuck \subseteq 1 .. added
    /\ pc \in {"rollback", "teardown"} =>
          removed <= added /\ table \ stuck \subseteq removed + 1 .. added
    /\ pc \in {"forwarding", "writing"} =>
          added = RouteCount /\ Routes \subseteq table
    /\ ccc = "held" => proto = "Checkpoint" /\ pc \in InAttempt \ {"auth"}

\* No entry of the routing table outlives the TUN device it points at, except
\* one whose deletion the OS refused: the rollback of install_routes and
\* remove_all run before the device is dropped, on every exit path.
RoutesNeedTun == table \ stuck # {} => tun

\* Whenever the engine waits between attempts or has returned, the attempt has
\* given back what it could: no device, no route but the undeletable ones, and no
\* CCC session that was never offered its sign-out.  Sessions do stay at the
\* gateway, although client.rs says they are released "on EVERY exit path": after
\* a failed sign-out, an empty session_id or an unusable active_key (ccc = "left").
QuietBetweenAttempts ==
    pc \in {"top", "backoff", "result", "done"} =>
        /\ ~tun
        /\ table \subseteq stuck
        /\ ccc # "held"

\* While packets are forwarded the device is up and carries every route of the
\* list: Established is never announced for a partially routed tunnel.
FullyRouted == pc \in {"forwarding", "writing"} => tun /\ Routes \subseteq table

\* The status a supervisor derives from the events it has received ...
StatusOf(ev) ==
    CASE ev = "none" -> "idle"
      [] ev = "Connecting" -> "connecting"
      [] ev = "Established" -> "established"
      [] ev = "Reconnecting" -> "reconnecting"
      [] ev = "Disconnected" -> "disconnected"
      [] ev = "PermanentError" -> "failed"

Abstract == INSTANCE Lifecycle WITH status <- StatusOf(seen), stop <- shutdown

\* ... follows the life cycle: each attempt is announced, a drop is announced
\* before the next attempt, Disconnected only comes after a stop request, a
\* permanent error only from an attempt that was not up, and nothing follows
\* either, whatever the channel's backlog and whenever the stop arrives.
ImplementsLifecycle == Abstract!Spec

\* A stop request made outside the waits for the gateway ends the run, from the
\* backoff sleep, from forwarding (the cloned receiver still sees a change sent
\* before), half-way through the route installation or at the loop's top, unless
\* the goodbye or the sign-out that follows never returns; and made anywhere, it
\* fails to end the run only if some single wait for the gateway never returns.
StopIsHonoured ==
    /\ (shutdown /\ pc \notin NetworkWaits)
          ~> (pc = "done" \/ [](pc = "writing") \/ [](pc = "signout"))
    /\ shutdown ~> (pc = "done" \/ \E w \in NetworkWaits : [](pc = w))

\* A transient failure is always followed by another attempt unless the run is
\* stopped: the retry loop never gives up and never gets stuck.
AlwaysRetries ==
    (pc = "result" /\ outcome = "transient")
        ~> (pc = "auth" \/ (pc = "done" /\ shutdown))
==============================================================================
