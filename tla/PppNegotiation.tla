---------------------------- MODULE PppNegotiation ----------------------------
(***************************************************************************)
(* negotiate() of crates/vpn-engine/src/fortigate/ppp.rs: LCP, then IPCP,  *)
(* over the hijacked TLS stream, against a gateway that answers each       *)
(* request by Ack, Nak or Reject, repeats its answer to a retransmitted    *)
(* request, and may send data, its own requests, echoes, a termination,    *)
(* garbage, or close at any time.                                          *)
(*                                                                         *)
(* A stream is a queue of frames: a partly arrived frame stays in the      *)
(* buffer untouched, so it is the same as a frame that has not arrived.    *)
(* Options are partial functions from option names to small values (0 is   *)
(* the unspecified address), which is what parse_options and build_options *)
(* exchange.  The magic number never changes and is left out as a value.   *)
(***************************************************************************)
EXTENDS Naturals, Sequences

CONSTANTS
    MaxRounds,        \* MAX_ROUNDS
    IdMod,            \* identifiers are counted modulo this (2^8 in the code)
    Values,           \* bound: values of options other than 0
    DefaultMru,       \* DEFAULT_MRU
    Prologues,        \* what the stream may start with: codes of HTTP blocks
    GatewayNaks,      \* counter-proposals of the gateway, per protocol
    GatewayRejects,   \* the sets of options a gateway may be set to reject
    GatewayRequests,  \* option lists of its own requests, per protocol
    GatewayFrames,    \* the other frames it may send unasked
    MaxAsked,         \* bound: requests of its own per protocol
    MaxUnasked,       \* bound: other frames it sends unasked
    WireCap,          \* bound: it sends unasked only if fewer are under way
    ReadCap           \* bound: frames one read may return

Protos == {"LCP", "IPCP"}
LcpOptions == {"MRU", "MAGIC"}
IpcpOptions == {"ADDR", "DNS1", "DNS2"}
OptionNames == LcpOptions \cup IpcpOptions \cup {"AUTH", "EXTRA"}

\* Lists of options with values in S.
IsOptions(o, S) ==
    /\ DOMAIN o \subseteq OptionNames
    /\ o \in [DOMAIN o -> S]
Optional(S) == S \cup {0}
NoOptions == [o \in {} |-> 0]

ASSUME RoundsAssumption ==
    MaxRounds \in Nat \ {0} /\ IdMod \in Nat /\ MaxRounds + 1 < IdMod
ASSUME ValuesAssumption == Values \subseteq Nat \ {0} /\ DefaultMru \in Values
ASSUME BoundsAssumption ==
    {MaxAsked, MaxUnasked, WireCap, ReadCap} \subseteq Nat \ {0} /\ MaxAsked < IdMod
ASSUME GatewayAssumption ==
    /\ \A p \in Protos : \A o \in GatewayNaks[p] : IsOptions(o, Values)
    /\ \A p \in Protos : \A o \in GatewayRequests[p] : IsOptions(o, Values)
    /\ GatewayRejects \subseteq SUBSET OptionNames
    /\ Prologues \subseteq {"ok", "refused", "oversized"}

VARIABLES
    pc,        \* "LCP", "IPCP" (the two loops), "up" or "failed"
    result,    \* how negotiate() returned, "none" before
    opts,      \* lcp_opts, then ipcp_opts
    id,        \* lcp_id, then ipcp_id
    ours,      \* ours_acked, then ip_ours
    theirs,    \* theirs_acked, then ip_theirs
    rounds,    \* completed rounds of the current loop
    checked,   \* http_checked
    mru,       \* agreed MRU
    address,   \* the address harvested, 0 for None
    dns,       \* the servers harvested
    peer,      \* the gateway's address, 0 for None
    early,     \* numbers of the packets staged by stage_early
    buf,       \* frames read and not yet decoded
    prime,     \* what is handed to the forwarding loop
    c2g,       \* frames on their way to the gateway
    g2c,       \* frames on their way to the client
    rejects,   \* the options this gateway rejects
    answered,  \* its last answer per protocol: <<request, answer>> or <<>>
    granted,   \* per protocol, the options it has acknowledged, if any
    asked,     \* requests of its own it has sent, per protocol
    unasked,   \* other frames it has sent unasked
    packets    \* IPv4 packets among them

loopVars == <<opts, id, ours, theirs, rounds>>
agreedVars == <<mru, address, dns, peer>>
bufVars == <<early, buf, prime, checked>>
gatewayVars == <<rejects, answered, granted, asked, unasked, packets>>
vars == <<pc, result, loopVars, agreedVars, bufVars, c2g, g2c, gatewayVars>>

\* A PPP frame: encode_ppp and build_cp write one, try_decode_ppp, split_ppp and
\* parse_cp read it back.  IPv4 packets carry their number as id; "BAD" frames
\* are those the decoders refuse.
Frame(proto, code, i, o) == [proto |-> proto, code |-> code, id |-> i, opts |-> o]
Codes == {"ConfReq", "ConfAck", "ConfNak", "ConfRej", "EchoReq", "EchoRep",
          "TermReq", "TermAck", "Malformed", "Other"}
IsFrame(f) ==
    /\ f.proto \in Protos \cup {"IPV4", "PAP", "BAD", "UNKNOWN", "HTTP"}
    /\ f.code \in IF f.proto = "HTTP" THEN Prologues ELSE Codes
    /\ f.id \in Nat /\ (f.proto # "IPV4" => f.id < IdMod)
    /\ IsOptions(f.opts, Optional(Values))
AllFrames(s) == \A i \in DOMAIN s : IsFrame(s[i])
Answers == {"ConfAck", "ConfNak", "ConfRej"}

\* The gateway answers what it was asked; packets have an action of their own.
ASSUME FramesAssumption ==
    \A f \in GatewayFrames : IsFrame(f) /\ f.proto # "IPV4" /\ f.code \notin Answers

Results == {"none", "ok", "auth", "protocol", "tls", "io"}

TypeOK ==
    /\ pc \in {"LCP", "IPCP", "up", "failed"}
    /\ result \in Results
    /\ IsOptions(opts, Optional(Values))
    /\ id \in 1 .. IdMod - 1
    /\ ours \in BOOLEAN /\ theirs \in BOOLEAN
    /\ rounds \in 0 .. MaxRounds
    /\ checked \in BOOLEAN
    /\ {mru, address, peer} \subseteq Optional(Values)
    /\ dns \in Seq(Values)
    /\ early \in Seq(Nat)
    /\ AllFrames(prime) /\ AllFrames(buf) /\ AllFrames(c2g) /\ AllFrames(g2c)
    /\ rejects \in GatewayRejects
    /\ \A p \in Protos :
          /\ AllFrames(answered[p])
          /\ \A g \in granted[p] : IsOptions(g, Optional(Values))
    /\ asked \in [Protos -> 0 .. MaxAsked]
    /\ unasked \in 0 .. MaxUnasked /\ packets \in 0 .. MaxUnasked

\* Both loops send their first request before the first round.
LcpRequest == [o \in LcpOptions |-> IF o = "MRU" THEN DefaultMru ELSE 0]
IpcpRequest == [o \in IpcpOptions |-> 0]

Init ==
    /\ pc = "LCP" /\ result = "none"
    /\ opts = LcpRequest /\ id = 1
    /\ ours = FALSE /\ theirs = FALSE /\ rounds = 0
    /\ checked = FALSE
    /\ mru = DefaultMru /\ address = 0 /\ dns = <<>> /\ peer = 0
    /\ early = <<>> /\ buf = <<>> /\ prime = <<>>
    /\ c2g = <<Frame("LCP", "ConfReq", 1, LcpRequest)>>
    /\ \/ g2c = <<>>
       \/ \E c \in Prologues : g2c = <<Frame("HTTP", c, 0, NoOptions)>>
    /\ rejects \in GatewayRejects
    /\ answered = [p \in Protos |-> <<>>]
    /\ granted = [p \in Protos |-> {}]
    /\ asked = [p \in Protos |-> 0] /\ unasked = 0 /\ packets = 0

----------------------------------------------------------------------------
\* The two loops

Negotiating == pc \in Protos
Send(proto, code, i, o) == c2g' = Append(c2g, Frame(proto, code, i, o))

\* Returning an error drops everything negotiate() holds, and its caller the
\* connection, with which the gateway's side of the negotiation ends.
Fail(r) ==
    /\ pc' = "failed" /\ result' = r
    /\ opts' = NoOptions /\ id' = 1 /\ ours' = FALSE /\ theirs' = FALSE /\ rounds' = 0
    /\ mru' = DefaultMru /\ address' = 0 /\ dns' = <<>> /\ peer' = 0
    /\ early' = <<>> /\ buf' = <<>> /\ prime' = <<>> /\ checked' = FALSE
    /\ c2g' = <<>> /\ g2c' = <<>>
    /\ answered' = [p \in Protos |-> <<>>] /\ granted' = [p \in Protos |-> {}]
    /\ asked' = [p \in Protos |-> 0] /\ unasked' = 0 /\ packets' = 0
    /\ UNCHANGED rejects

\* A loop ends when both directions are acknowledged.  Otherwise it starts
\* another round, which ends with a frame or a timeout, unless there were too
\* many rounds or NEGOTIATE_DEADLINE has passed.
Looping == Negotiating /\ ~(ours /\ theirs)
MutTooManyRounds == FALSE
TooManyRounds == rounds >= MaxRounds
InRound == Looping /\ ~TooManyRounds

RoundOver == rounds' = IF rounds < MaxRounds THEN rounds + 1 ELSE rounds

Diverge ==
    /\ Looping /\ TooManyRounds
    /\ Fail("protocol")

DeadlinePassed ==
    /\ Looping
    /\ Fail("protocol")

LcpUp ==
    /\ pc = "LCP" /\ ours /\ theirs
    /\ pc' = "IPCP"
    /\ opts' = IpcpRequest /\ id' = 1
    /\ ours' = FALSE /\ theirs' = FALSE /\ rounds' = 0
    /\ Send("IPCP", "ConfReq", 1, IpcpRequest)
    /\ UNCHANGED <<result, agreedVars, bufVars, g2c, gatewayVars>>

\* The staged packets, framed again, before what is left in the buffer.
Staged == [i \in 1 .. Len(early) |-> Frame("IPV4", "Other", early[i], NoOptions)]
MutPrimeOut == Staged
PrimeOut == Staged \o buf

IpcpUp ==
    /\ pc = "IPCP" /\ ours /\ theirs
    /\ IF address = 0
       THEN Fail("protocol")
       ELSE /\ pc' = "up" /\ result' = "ok"
            /\ prime' = PrimeOut
            /\ early' = <<>> /\ buf' = <<>>
            /\ UNCHANGED <<checked, loopVars, agreedVars, c2g, g2c, gatewayVars>>

----------------------------------------------------------------------------
\* PppIo::recv

\* strip_http_prologue, on the first bytes of the stream only: an HTTP block is
\* dropped if its status is 200 and an error otherwise.
Refusals == [refused |-> "tls", oversized |-> "protocol"]
StartsWithHttp(frames) == ~checked /\ frames[1].proto = "HTTP"

\* A read returns some of the frames that have arrived; it is only tried when the
\* buffer holds no complete frame.
Read ==
    /\ InRound /\ buf = <<>>
    /\ \E n \in 1 .. (IF Len(g2c) < ReadCap THEN Len(g2c) ELSE ReadCap) :
          LET got == SubSeq(g2c, 1, n) IN
          /\ IF StartsWithHttp(got) /\ got[1].code # "ok"
             THEN Fail(Refusals[got[1].code])
             ELSE /\ buf' = IF StartsWithHttp(got) THEN Tail(got) ELSE got
                  /\ checked' = TRUE
                  /\ g2c' = SubSeq(g2c, n + 1, Len(g2c))
                  /\ UNCHANGED <<pc, result, loopVars, agreedVars, early, prime, c2g,
                                 gatewayVars>>

\* The gateway closes the stream, or the read fails.  Frames sent before the end
\* are read first, so the end is noticed once nothing is under way.
ReadEof ==
    /\ InRound /\ buf = <<>> /\ g2c = <<>>
    /\ \E r \in {"tls", "io"} : Fail(r)

\* PppIo::send fails: an answer, a repeated request or the first one of IPCP.
SendFails ==
    /\ Looping \/ pc = "LCP"
    /\ Fail("io")

\* Nothing came for RECV_TIMEOUT, which is longer than RESTART_INTERVAL: the
\* outstanding request is sent again.
RecvTimeout ==
    /\ InRound /\ buf = <<>>
    /\ RoundOver
    /\ IF ours THEN UNCHANGED c2g ELSE Send(pc, "ConfReq", id, opts)
    /\ UNCHANGED <<pc, result, opts, id, ours, theirs, agreedVars, bufVars, g2c,
                   gatewayVars>>

\* The frame recv returns, the rest stays buffered.
Recv(f) ==
    /\ InRound /\ buf # <<>>
    /\ f = buf[1]

----------------------------------------------------------------------------
\* One action per kind of frame

Handled ==
    /\ buf' = Tail(buf)
    /\ RoundOver
    /\ UNCHANGED <<pc, result, prime, checked, g2c, gatewayVars>>
SameRequest == UNCHANGED <<opts, id>>

\* stage_early.
OnIpv4(f) ==
    /\ Recv(f) /\ f.proto = "IPV4"
    /\ early' = Append(early, f.id)
    /\ Handled /\ SameRequest
    /\ UNCHANGED <<ours, theirs, agreedVars, c2g>>

\* A frame or control packet that does not decode ends the attempt; a control
\* packet is only parsed where its protocol is handled.
OnMalformed(f) ==
    /\ Recv(f)
    /\ \/ f.proto = "BAD" /\ Fail("protocol")
       \/ /\ f.proto = "LCP" \/ f.proto = pc
          /\ f.code = "Malformed" /\ Fail("protocol")

\* Link authentication is refused while LCP is negotiated.
OnAuthDemand(f) ==
    /\ Recv(f) /\ pc = "LCP"
    /\ \/ f.proto = "PAP"
       \/ f.proto = "LCP" /\ f.code = "ConfReq" /\ "AUTH" \in DOMAIN f.opts
    /\ Fail("auth")

Unknown(o) == [n \in DOMAIN o \ LcpOptions |-> o[n]]

OnLcpRequest(f) ==
    /\ Recv(f) /\ pc = "LCP"
    /\ f.proto = "LCP" /\ f.code = "ConfReq" /\ "AUTH" \notin DOMAIN f.opts
    /\ IF DOMAIN Unknown(f.opts) = {}
       THEN theirs' = TRUE /\ Send("LCP", "ConfAck", f.id, f.opts)
       ELSE UNCHANGED theirs /\ Send("LCP", "ConfRej", f.id, Unknown(f.opts))
    /\ Handled /\ SameRequest
    /\ UNCHANGED <<ours, agreedVars, early>>

\* A request to reopen LCP during IPCP is acknowledged whatever it asks.
OnLcpRequestLate(f) ==
    /\ Recv(f) /\ pc = "IPCP"
    /\ f.proto = "LCP" /\ f.code = "ConfReq"
    /\ Send("LCP", "ConfAck", f.id, f.opts)
    /\ Handled /\ SameRequest
    /\ UNCHANGED <<ours, theirs, agreedVars, early>>

OnIpcpRequest(f) ==
    /\ Recv(f) /\ pc = "IPCP"
    /\ f.proto = "IPCP" /\ f.code = "ConfReq"
    /\ peer' = IF "ADDR" \in DOMAIN f.opts THEN f.opts["ADDR"] ELSE peer
    /\ theirs' = TRUE
    /\ Send("IPCP", "ConfAck", f.id, f.opts)
    /\ Handled /\ SameRequest
    /\ UNCHANGED <<ours, mru, address, dns, early>>

\* harvest_ipcp: the last address that is not 0, and every server once.
HarvestAddress(o) ==
    IF "ADDR" \in DOMAIN o /\ o["ADDR"] # 0 THEN o["ADDR"] ELSE address
MutHarvestServer(o, n, servers) ==
    IF n \in DOMAIN o /\ \A i \in DOMAIN servers : servers[i] # o[n]
    THEN Append(servers, o[n]) ELSE servers
HarvestServer(o, n, servers) ==
    IF n \in DOMAIN o /\ o[n] # 0 /\ \A i \in DOMAIN servers : servers[i] # o[n]
    THEN Append(servers, o[n]) ELSE servers
HarvestDns(o) == HarvestServer(o, "DNS2", HarvestServer(o, "DNS1", dns))
Harvest(o) == address' = HarvestAddress(o) /\ dns' = HarvestDns(o)

MutAckMatches(f) == TRUE
AckMatches(f) == f.id = id

OnConfAck(f) ==
    /\ Recv(f) /\ f.proto = pc /\ f.code = "ConfAck" /\ AckMatches(f)
    /\ ours' = TRUE
    /\ IF pc = "LCP"
       THEN /\ mru' = IF "MRU" \in DOMAIN f.opts THEN f.opts["MRU"] ELSE mru
            /\ UNCHANGED <<address, dns>>
       ELSE Harvest(f.opts) /\ UNCHANGED mru
    /\ Handled /\ SameRequest
    /\ UNCHANGED <<theirs, peer, early, c2g>>

\* Counter-proposals replace our values; IPCP also takes up options we had not
\* sent.  Neither looks at the identifier.
AdoptLcp(o) == [n \in DOMAIN opts |-> IF n \in DOMAIN o THEN o[n] ELSE opts[n]]
AdoptIpcp(o) ==
    [n \in DOMAIN opts \cup DOMAIN o |-> IF n \in DOMAIN o THEN o[n] ELSE opts[n]]

MutNextId == id
NextId == (id + 1) % IdMod
AskAgain(o) == opts' = o /\ id' = NextId /\ Send(pc, "ConfReq", NextId, o)

OnConfNak(f) ==
    /\ Recv(f) /\ f.proto = pc /\ f.code = "ConfNak"
    /\ IF pc = "LCP"
       THEN AskAgain(AdoptLcp(f.opts)) /\ UNCHANGED <<address, dns>>
       ELSE AskAgain(AdoptIpcp(f.opts)) /\ Harvest(f.opts)
    /\ Handled
    /\ UNCHANGED <<ours, theirs, mru, peer, early>>

OnConfRej(f) ==
    /\ Recv(f) /\ f.proto = pc /\ f.code = "ConfRej"
    /\ AskAgain([n \in DOMAIN opts \ DOMAIN f.opts |-> opts[n]])
    /\ Handled
    /\ UNCHANGED <<ours, theirs, agreedVars, early>>

\* echo_reply.
OnEchoReq(f) ==
    /\ Recv(f) /\ f.proto = "LCP" /\ f.code = "EchoReq"
    /\ Send("LCP", "EchoRep", f.id, NoOptions)
    /\ Handled /\ SameRequest
    /\ UNCHANGED <<ours, theirs, agreedVars, early>>

\* A Terminate-Ack is written to the connection that is then dropped.
OnTermReq(f) ==
    /\ Recv(f) /\ f.proto = "LCP" /\ f.code = "TermReq"
    /\ Fail("protocol")

\* Everything else falls through the matches.
Skipped(f) ==
    \/ f.proto \in {"UNKNOWN", "HTTP"}
    \/ f.proto = "PAP" /\ pc = "IPCP"
    \/ f.proto = "IPCP" /\ pc = "LCP"
    \/ f.proto = pc /\ f.code = "ConfAck" /\ ~AckMatches(f)
    \/ f.proto = pc /\ f.code \in {"EchoRep", "TermAck", "Other"}
    \/ f.proto = "IPCP" /\ pc = "IPCP" /\ f.code \in {"EchoReq", "TermReq"}
    \/ /\ f.proto = "LCP" /\ pc = "IPCP"
       /\ f.code \in {"ConfAck", "ConfNak", "ConfRej", "EchoRep", "TermAck", "Other"}

OnOther(f) ==
    /\ Recv(f) /\ Skipped(f)
    /\ Handled /\ SameRequest
    /\ UNCHANGED <<ours, theirs, agreedVars, early, c2g>>

Handle ==
    \E f \in (IF buf = <<>> THEN {} ELSE {buf[1]}) :
        \/ OnIpv4(f) \/ OnMalformed(f) \/ OnAuthDemand(f)
        \/ OnLcpRequest(f) \/ OnLcpRequestLate(f) \/ OnIpcpRequest(f)
        \/ OnConfAck(f) \/ OnConfNak(f) \/ OnConfRej(f)
        \/ OnEchoReq(f) \/ OnTermReq(f) \/ OnOther(f)

----------------------------------------------------------------------------
\* The gateway

Deliver(f) == g2c' = Append(g2c, f)

\* Its answers to a request: the options it rejects, a counter-proposal that
\* differs from the request, or an acknowledgement.
AnswersTo(f) ==
    LET refused == DOMAIN f.opts \cap rejects
        Differs(n) == \E o \in DOMAIN n : o \notin DOMAIN f.opts \/ f.opts[o] # n[o]
    IN  IF refused # {}
        THEN {Frame(f.proto, "ConfRej", f.id, [o \in refused |-> f.opts[o]])}
        ELSE {Frame(f.proto, "ConfAck", f.id, f.opts)}
               \cup {Frame(f.proto, "ConfNak", f.id, n) :
                       n \in {n \in GatewayNaks[f.proto] :
                                Differs(n) /\ DOMAIN n \cap rejects = {}}}

\* A retransmitted request gets the answer it got before.
Repeated(f) == answered[f.proto] # <<>> /\ answered[f.proto][1].id = f.id

GatewayAnswer ==
    /\ c2g # <<>>
    /\ LET f == c2g[1] IN
         /\ c2g' = Tail(c2g)
         /\ IF f.code # "ConfReq" THEN UNCHANGED <<g2c, answered, granted>>
            ELSE \E a \in (IF Repeated(f) THEN {answered[f.proto][2]} ELSE AnswersTo(f)) :
                   /\ Deliver(a)
                   /\ answered' = [answered EXCEPT ![f.proto] = <<f, a>>]
                   /\ granted' = [granted EXCEPT ![f.proto] =
                                    IF a.code = "ConfAck" THEN {f.opts} ELSE {}]
    /\ UNCHANGED <<pc, result, loopVars, agreedVars, bufVars,
                   rejects, asked, unasked, packets>>

GatewayRequest ==
    /\ Negotiating /\ Len(g2c) < WireCap
    /\ \E p \in Protos : \E o \in GatewayRequests[p] :
          /\ asked[p] < MaxAsked
          /\ asked' = [asked EXCEPT ![p] = @ + 1]
          /\ Deliver(Frame(p, "ConfReq", asked[p] + 1, o))
    /\ UNCHANGED <<pc, result, loopVars, agreedVars, bufVars, c2g, rejects,
                   answered, granted, unasked, packets>>

GatewayUnasked ==
    /\ Negotiating /\ unasked < MaxUnasked /\ Len(g2c) < WireCap
    /\ unasked' = unasked + 1
    /\ \/ /\ packets' = packets + 1
          /\ Deliver(Frame("IPV4", "Other", packets + 1, NoOptions))
       \/ \E f \in GatewayFrames : Deliver(f) /\ UNCHANGED packets
    /\ UNCHANGED <<pc, result, loopVars, agreedVars, bufVars, c2g, rejects,
                   answered, granted, asked>>

Ended == ~Negotiating /\ UNCHANGED vars

Client ==
    \/ Diverge \/ LcpUp \/ IpcpUp
    \/ Read \/ RecvTimeout \/ Handle

Next ==
    \/ Client \/ DeadlinePassed \/ ReadEof \/ SendFails
    \/ GatewayAnswer \/ GatewayRequest \/ GatewayUnasked
    \/ Ended

\* The runtime polls the task and its timers run; nothing is assumed of the
\* gateway.
Spec == Init /\ [][Next]_vars /\ WF_vars(Client)

----------------------------------------------------------------------------

\* When the link is up the gateway has acknowledged exactly the address and the
\* MRU the session uses, and has not gone back on it: no answer to an earlier
\* request was taken for the answer to the last one (the identifier compared in
\* `CODE_CONF_ACK if pkt.id == ipcp_id`).
Agreement ==
    pc = "up" =>
        /\ \E g \in granted["IPCP"] : "ADDR" \in DOMAIN g /\ g["ADDR"] = address
        /\ \E g \in granted["LCP"] :
              mru = IF "MRU" \in DOMAIN g THEN g["MRU"] ELSE DefaultMru

\* No packet the gateway sends during the handshake is lost, repeated or
\* reordered: staged, handed over, buffered or on the way, they are all there in
\* the order they were sent ("Dropping them would silently lose the first packets
\* of the session").
EarlyPacketsKept ==
    pc # "failed" =>
        LET frames == prime \o buf \o g2c
            ips == {i \in DOMAIN frames : frames[i].proto = "IPV4"}
        IN  /\ early = [i \in 1 .. Len(early) |-> i]
            /\ {frames[i].id : i \in ips} = Len(early) + 1 .. packets
            /\ \A i, j \in ips : i < j => frames[i].id < frames[j].id

\* Two requests under the same identifier ask for the same options, so a gateway
\* that answers a retransmission as it answered the original answers what is asked.
IdIdentifiesRequest ==
    LET requests == {c2g[i] : i \in DOMAIN c2g}
                      \cup {answered[p][1] : p \in {p \in Protos : answered[p] # <<>>}}
    IN  \A f, g \in {f \in requests : f.code = "ConfReq"} :
            f.proto = g.proto /\ f.id = g.id => f.opts = g.opts

\* Negotiation ends whatever the gateway does: it may be silent, answer every
\* request with another counter-proposal, or keep sending other frames.
NegotiationEnds == <>(~Negotiating)

===============================================================================
