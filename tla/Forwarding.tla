------------------------------ MODULE Forwarding ------------------------------
(***************************************************************************)
(* The forwarding loop of crates/vpn-engine/src/forward.rs and the         *)
(* classification of inbound frames by the three framers of framer.rs.     *)
(*                                                                         *)
(* run_forwarding is one task around a biased select: shutdown, keepalive  *)
(* timer, TUN -> TLS, TLS -> TUN.  While it awaits a write nothing else is *)
(* polled, so writes are steps of their own.  Bytes are abstracted to      *)
(* units: a frame is a header unit followed by a body unit, a read takes   *)
(* any number of units, and the decoder needs both.  Frames carry a        *)
(* sequence number modulo SeqMod, which exceeds what is ever in flight.    *)
(* Teardown after the loop is in module Supervisor.                        *)
(***************************************************************************)
EXTENDS Naturals, Sequences

CONSTANTS
    Framers,      \* the framers in use, a subset of {"CSTP", "SLIM", "PPP"}
    SentKinds,    \* bound: the kinds of frame the peer sends
    Primes,       \* how many units the handshake may have read ahead
    MaxMissed,    \* MAX_MISSED_KEEPALIVES
    MaxBatch,     \* MAX_TX_BATCH
    WireCap,      \* bound: frames in flight from the peer
    TunCap,       \* bound: packets waiting in the TUN device
    DueCap        \* bound: expired timer ticks not yet served

ASSUME FramersAssumption == Framers \subseteq {"CSTP", "SLIM", "PPP"}
ASSUME PrimesAssumption == Primes \subseteq 0 .. 2 * WireCap
ASSUME BoundsAssumption ==
    {MaxMissed, MaxBatch, WireCap, TunCap, DueCap} \subseteq Nat \ {0}

VARIABLES
    framer,     \* the TunnelFramer chosen by the protocol
    wire,       \* units the peer has sent and the loop has not read
    inbound,    \* the persistent accumulator `inbound`
    nextSeq,    \* number of the next frame the peer sends
    decoded,    \* number of the next frame the decoder should yield
    peer,       \* "up", "hung" (silent for ever) or "closed"
    tunQ,       \* packets ready in the TUN device
    tunState,   \* "open", "closed" (reads return 0) or "failed"
    due,        \* keepalive ticks that have expired and are not served
    missed,     \* keepalives sent since the last inbound frame
    shutdown,   \* value of the shutdown watch channel
    pc,         \* "select", "drain", "write" or "exited"
    writing,    \* what the write in progress is, or "nothing"
    tunAfter,   \* what ended the last batch: `eof` / `read_err`, or "open"
    result      \* the loop's exit status, or "none"

streamVars == <<wire, inbound, nextSeq, decoded>>
tunVars == <<tunQ, tunState, tunAfter>>
timerVars == <<due, missed>>
vars == <<framer, streamVars, peer, tunVars, timerVars, shutdown, pc, writing,
          result>>

SeqMod == WireCap + 1

\* What each framer makes of the frames its peer may send (try_decode).
CstpEvent ==
    [Data |-> "Data", DpdOut |-> "Reply", DpdResp |-> "Ignore",
     Keepalive |-> "Ignore", Compressed |-> "Ignore",
     Disconnect |-> "Disconnect", TermServer |-> "Disconnect",
     BadHeader |-> "Malformed"]

SlimEvent ==
    [Data |-> "Data", Control |-> "Ignore", DisconnectControl |-> "Disconnect",
     BadHeader |-> "Malformed", BadBody |-> "Malformed"]

PppEvent ==
    [IPv4 |-> "Data", EchoReq |-> "Reply", ConfReq |-> "Reply",
     TermReq |-> "Disconnect", OtherControl |-> "Ignore",
     MalformedControl |-> "Ignore",
     BadHeader |-> "Malformed", BadBody |-> "Malformed"]

FrameEvent == [CSTP |-> CstpEvent, SLIM |-> SlimEvent, PPP |-> PppEvent]

Kinds == SentKinds \cap DOMAIN FrameEvent[framer]
AllKinds == UNION {DOMAIN FrameEvent[f] : f \in Framers}
Unit == [kind : AllKinds, seq : 0 .. SeqMod - 1, part : {"header", "body"}]

FrameUnits(kind, seq) ==
    <<[kind |-> kind, seq |-> seq, part |-> "header"],
      [kind |-> kind, seq |-> seq, part |-> "body"]>>

\* try_decode yields something once the whole frame is buffered; a header that
\* cannot be right is refused as soon as it is complete.
Decodable(buf) ==
    \/ Len(buf) >= 2
    \/ Len(buf) = 1 /\ buf[1].kind = "BadHeader"

Drop(s, n) == SubSeq(s, n + 1, Len(s))

Results == {"none", "ok", "deadPeer", "serverDisconnect", "malformed",
            "peerClosed", "tunClosed", "io"}
Writes == {"nothing", "shutdown", "keepalive", "batch", "reply"}

TypeOK ==
    /\ framer \in Framers
    /\ wire \in Seq(Unit) /\ Len(wire) <= 2 * WireCap
    /\ inbound \in Seq(Unit) /\ Len(inbound) <= 2 * WireCap
    /\ nextSeq \in 0 .. SeqMod - 1
    /\ decoded \in 0 .. SeqMod - 1
    /\ peer \in {"up", "hung", "closed"}
    /\ tunQ \in 0 .. TunCap
    /\ tunState \in {"open", "closed", "failed"}
    /\ tunAfter \in {"open", "closed", "failed"}
    /\ due \in 0 .. DueCap
    /\ missed \in 0 .. MaxMissed
    /\ shutdown \in BOOLEAN
    /\ pc \in {"select", "drain", "write", "exited"}
    /\ writing \in Writes
    /\ result \in Results

\* The first n units of the frames the peer sends as data while the handshake
\* is still running; the rest of a frame it has begun is on its way.
EarlyUnits(n) ==
    LET kind == IF framer = "PPP" THEN "IPv4" ELSE "Data"
    IN  [i \in 1 .. n + (n % 2) |->
            FrameUnits(kind, (i - 1) \div 2)[1 + ((i - 1) % 2)]]

Init ==
    /\ framer \in Framers
    /\ \E n \in Primes :
          LET early == EarlyUnits(n)
          IN  /\ inbound = SubSeq(early, 1, n)
              /\ wire = Drop(early, n)
              /\ nextSeq = (n + (n % 2)) \div 2
    /\ decoded = 0
    /\ peer = "up"
    /\ tunQ = 0
    /\ tunState = "open"
    /\ tunAfter = "open"
    /\ due = 0
    /\ missed = 0
    /\ shutdown = FALSE
    /\ pc = "select"
    /\ writing = "nothing"
    /\ result = "none"

-------------------------------------------------------------------------------
(* The environment: the peer, the TUN device, the timer, the supervisor.  *)

PeerSends ==
    /\ pc # "exited"
    /\ peer = "up"
    /\ Len(wire) + Len(inbound) <= 2 * (WireCap - 1)
    /\ \E kind \in Kinds : wire' = wire \o FrameUnits(kind, nextSeq)
    /\ nextSeq' = (nextSeq + 1) % SeqMod
    /\ UNCHANGED <<framer, inbound, decoded, peer, tunVars, timerVars, shutdown,
                   pc, writing, result>>

PeerStops ==
    /\ pc # "exited"
    /\ peer = "up"
    /\ peer' \in {"hung", "closed"}
    /\ UNCHANGED <<framer, streamVars, tunVars, timerVars, shutdown, pc,
                   writing, result>>

PacketArrives ==
    /\ pc # "exited"
    /\ tunState = "open"
    /\ tunQ < TunCap
    /\ tunQ' = tunQ + 1
    /\ UNCHANGED <<framer, streamVars, peer, tunState, tunAfter, timerVars,
                   shutdown, pc, writing, result>>

TunStops ==
    /\ pc # "exited"
    /\ tunState = "open"
    /\ tunState' \in {"closed", "failed"}
    /\ UNCHANGED <<framer, streamVars, peer, tunQ, tunAfter, timerVars,
                   shutdown, pc, writing, result>>

RequestShutdown ==
    /\ pc # "exited"
    /\ ~shutdown
    /\ shutdown' = TRUE
    /\ UNCHANGED <<framer, streamVars, peer, tunVars, timerVars, pc, writing,
                   result>>

-------------------------------------------------------------------------------
(* The loop.                                                              *)

Exit(r) ==
    /\ pc' = "exited"
    /\ writing' = "nothing"
    /\ result' = r

StartWrite(what) ==
    /\ pc' = "write"
    /\ writing' = what
    /\ UNCHANGED result

GoTo(step) ==
    /\ pc' = step
    /\ writing' = "nothing"
    /\ UNCHANGED result

\* encode_shutdown: SLIM has no in-tunnel goodbye.
ShutdownArm ==
    /\ pc = "select"
    /\ shutdown
    /\ IF framer = "SLIM" THEN Exit("ok") ELSE StartWrite("shutdown")
    /\ UNCHANGED <<framer, streamVars, peer, tunVars, timerVars, shutdown>>

KeepaliveArm ==
    /\ pc = "select"
    /\ ~shutdown
    /\ due > 0
    /\ due' = due - 1
    /\ StartWrite("keepalive")
    /\ UNCHANGED <<framer, streamVars, peer, tunVars, missed, shutdown>>

\* The select is biased: the TUN arm is only looked at when the two arms above
\* it are not ready.
MutTunArmYieldsToTimer == due > 0
MutTunArmYieldsToShutdown == shutdown
TunArmYields == shutdown \/ due > 0

TunReady == tunQ > 0 \/ tunState # "open"

TunError(state) == IF state = "closed" THEN "tunClosed" ELSE "io"

\* TUN -> TLS: a batch of the packets that are ready, written at once.
TunArm ==
    /\ pc = "select"
    /\ ~TunArmYields
    /\ TunReady
    /\ IF tunQ = 0
         THEN /\ Exit(TunError(tunState))
              /\ UNCHANGED <<tunQ, tunAfter>>
         ELSE LET n == IF tunQ < MaxBatch THEN tunQ ELSE MaxBatch
              IN  /\ tunQ' = tunQ - n
                  /\ tunAfter' = IF n < MaxBatch THEN tunState ELSE "open"
                  /\ StartWrite("batch")
    /\ UNCHANGED <<framer, streamVars, peer, tunState, timerVars, shutdown>>

\* TLS -> inbound: last arm of the select; reads what is there, 0 at the end.
InboundArm ==
    /\ pc = "select"
    /\ ~TunArmYields
    /\ ~TunReady
    /\ \/ /\ wire # <<>>
          /\ \E n \in 1 .. Len(wire) :
                /\ inbound' = inbound \o SubSeq(wire, 1, n)
                /\ wire' = Drop(wire, n)
          /\ GoTo("drain")
       \/ /\ wire = <<>>
          /\ peer = "closed"
          /\ \E r \in {"peerClosed", "io"} : Exit(r)
          /\ UNCHANGED <<wire, inbound>>
    /\ UNCHANGED <<framer, nextSeq, decoded, peer, tunVars, timerVars, shutdown>>

\* One iteration of the drain loop that finds a frame.
DrainFrame ==
    /\ pc = "drain"
    /\ Decodable(inbound)
    /\ LET event == FrameEvent[framer][inbound[1].kind]
       IN  IF event = "Malformed"
             THEN /\ Exit("malformed")
                  /\ UNCHANGED <<inbound, decoded, missed>>
             ELSE /\ inbound' = Drop(inbound, 2)
                  /\ decoded' = (decoded + 1) % SeqMod
                  /\ missed' = 0
                  /\ CASE event = "Data" -> GoTo("drain") \/ Exit("io")
                       [] event = "Reply" -> StartWrite("reply")
                       [] event = "Ignore" -> GoTo("drain")
                       [] event = "Disconnect" -> Exit("serverDisconnect")
    /\ UNCHANGED <<framer, wire, nextSeq, peer, tunVars, due, shutdown>>

\* What the drain loop leaves in the accumulator when no frame is complete.
MutPartialFrame == <<>>
PartialFrame == inbound

DrainEnds ==
    /\ pc = "drain"
    /\ ~Decodable(inbound)
    /\ inbound' = PartialFrame
    /\ GoTo("select")
    /\ UNCHANGED <<framer, wire, nextSeq, decoded, peer, tunVars, timerVars,
                   shutdown>>

\* A keepalive has gone out: one more without an answer.
MutPeerDead == missed >= MaxMissed
PeerDead == missed + 1 >= MaxMissed

KeepaliveWritten ==
    /\ pc = "write" /\ writing = "keepalive"
    /\ missed' = missed + 1
    /\ IF PeerDead THEN Exit("deadPeer") ELSE GoTo("select")
    /\ UNCHANGED <<framer, streamVars, peer, tunVars, due, shutdown>>

BatchWritten ==
    /\ pc = "write" /\ writing = "batch"
    /\ IF tunAfter = "open" THEN GoTo("select") ELSE Exit(TunError(tunAfter))
    /\ tunAfter' = "open"
    /\ UNCHANGED <<framer, streamVars, peer, tunQ, tunState, timerVars, shutdown>>

\* After a reply the loop goes on draining what is already buffered.
MutAfterReply == "select"
AfterReply == "drain"

ReplyWritten ==
    /\ pc = "write" /\ writing = "reply"
    /\ GoTo(AfterReply)
    /\ UNCHANGED <<framer, streamVars, peer, tunVars, timerVars, shutdown>>

\* The goodbye is best effort: written or not, the loop leaves with Ok.
GoodbyeWritten ==
    /\ pc = "write" /\ writing = "shutdown"
    /\ Exit("ok")
    /\ UNCHANGED <<framer, streamVars, peer, tunVars, timerVars, shutdown>>

MutWriteError == "ok"
WriteError == "io"

WriteFails ==
    /\ pc = "write" /\ writing # "shutdown"
    /\ Exit(WriteError)
    /\ UNCHANGED <<framer, streamVars, peer, tunVars, timerVars, shutdown>>

-------------------------------------------------------------------------------
(* Time.                                                                  *)

\* The task is waiting: for a write to be accepted, or for something to do.
\* Its own steps take no time against keepalive intervals of seconds.
Waiting ==
    \/ pc = "write"
    \/ /\ pc = "select"
       /\ ~TunArmYields /\ ~TunReady
       /\ wire = <<>> /\ peer # "closed"

\* A keepalive interval passes while the task waits.  tokio's interval keeps
\* the ticks it could not deliver and hands them out in a burst.
TimerExpires ==
    /\ Waiting
    /\ due < DueCap
    /\ due' = due + 1
    /\ UNCHANGED <<framer, streamVars, peer, tunVars, missed, shutdown,
                   pc, writing, result>>

\* Steps the task takes by itself.
Loop ==
    \/ ShutdownArm \/ KeepaliveArm \/ TunArm \/ InboundArm
    \/ DrainFrame \/ DrainEnds

\* How an awaited write comes back: the peer's TCP stack has taken it, or the
\* connection has failed.  No timeout bounds the wait.
WriteReturns ==
    \/ KeepaliveWritten \/ BatchWritten \/ ReplyWritten \/ GoodbyeWritten
    \/ WriteFails

Environment ==
    \/ PeerSends \/ PeerStops \/ PacketArrives \/ TunStops \/ TimerExpires
    \/ RequestShutdown

Exited == pc = "exited" /\ UNCHANGED vars

Next == Loop \/ WriteReturns \/ Environment \/ Exited

\* The task is polled, and time passes while it waits again and again.  Nothing
\* is assumed of a write: write_all and flush have no timeout and the socket
\* only TCP_NODELAY, so a peer that stops reading may hold one for ever.
Fairness == WF_vars(Loop) /\ SF_vars(TimerExpires)

Spec == Init /\ [][Next]_vars /\ Fairness

-------------------------------------------------------------------------------
(* Properties.                                                            *)

\* Cancellation safety: whichever arm wins between the partial reads of a frame
\* and however reads split the stream, what is buffered followed by what is on
\* the wire is exactly the frames not yet acted on, whole and in order.
InboundInOrder ==
    LET units == inbound \o wire
    IN  /\ \A i \in DOMAIN units :
              units[i].seq = (decoded + ((i - 1) \div 2)) % SeqMod
        /\ nextSeq = (decoded + ((Len(units) + 1) \div 2)) % SeqMod

\* A frame that had completely arrived before the loop ended on a closed
\* stream, a closed TUN, a silent peer or a stop request was acted on.
NothingDecodableDropped ==
    result \in {"ok", "deadPeer", "peerClosed", "tunClosed"}
        => ~Decodable(inbound)

\* The loop reports success only for a stop request: every other end is an
\* error, so the supervisor reconnects.
OkMeansStop == result = "ok" => shutdown

\* A stop request ends the loop although the TUN always has packets ready and
\* the peer always sends: its arm is polled first.  Only a write that never
\* returns, the farewell included, can keep the loop from it: no arm is polled
\* while one is awaited, and the code gives it no timeout.
ShutdownEnds == shutdown ~> (pc = "exited" \/ [](pc = "write"))

\* A peer that has gone silent is noticed although the TUN always has packets
\* ready: the keepalive arm is polled before the TUN arm.  This too stops at a
\* write that never returns: the timer is not polled behind one, so a peer that
\* no longer empties its receive window is not noticed by the keepalives.
HungPeerDetected == peer = "hung" ~> (pc = "exited" \/ [](pc = "write"))
===============================================================================
