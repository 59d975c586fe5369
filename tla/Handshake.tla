------------------------------ MODULE Handshake ------------------------------
(***************************************************************************)
(* From the first byte to an established session, for the three protocols: *)
(* AnyConnect (auth.rs, tunnel.rs), FortiGate (fortigate/http.rs, auth.rs, *)
(* config.rs, session.rs) and Check Point (checkpoint/auth.rs,             *)
(* session.rs), as client.rs and the probe command of vpn-cli chain them.  *)
(*                                                                         *)
(* A step is one request and its reply.  A reply is a head, then, if it    *)
(* has one, a body, and after a chunked body the CRLF that ends it; a read *)
(* returns any number of the units under way, and the gateway may close    *)
(* after any of them.  The three protocols differ in when they stop        *)
(* reading: at the end of the headers (AnyConnect), at the end of the body *)
(* (FortiGate), at the end of the stream (Check Point's CCC), or at the    *)
(* first control frame (its SLIM hello).  The PPP negotiation that ends    *)
(* FortiGate's handshake is module PppNegotiation, here only its outcome.  *)
(***************************************************************************)
EXTENDS SessionConfig

CONSTANTS
    Protocols,    \* the protocols in use
    Modes,        \* "connect" (client.rs), "probe" (vpn-cli)
    Delims,       \* how FortiGate's replies are delimited
    Documents,    \* bound: the XML documents a FortiGate may send
    RangeLists,   \* bound: the range lists a Check Point may send
    PppSession,   \* what PPP negotiates: an address and resolvers
    MaxStray      \* bound: data frames before Check Point's hello_reply

ASSUME ProtocolsAssumption == Protocols \subseteq {"AnyConnect", "FortiGate", "CheckPoint"}
ASSUME ModesAssumption == Modes \subseteq {"connect", "probe"}
ASSUME StrayAssumption == MaxStray \in Nat
ASSUME DocumentsAssumption == Documents \subseteq Seq(Elements)
ASSUME RangeListsAssumption == RangeLists \subseteq Seq(Ranges)
\* harvest_ipcp takes a resolver only once.
ASSUME PppSessionAssumption == PppSession.dns \in Seq(Addresses) /\ IsInjective(PppSession.dns)

VARIABLES
    proto,     \* config.protocol
    mode,      \* connect or probe
    step,      \* the request being made, "up" or "ended"
    phase,     \* "send" (nothing written yet), "read" or "ppp"
    conn,      \* the TLS connection in use: "none", "open" or "closed" by the gateway
    wire,      \* units sent by the gateway and not read
    buf,       \* units read for this reply
    attempt,   \* HttpSession::request: 0, then 1 after a failure
    cookie,    \* SVPNCOOKIE, webvpn or active_key: 1 is the real one, 0 none
    sid,       \* Check Point's session_id is not empty
    params,    \* the parameters and routes of the session
    result,    \* outcome of the handshake, "none" before
    inbox,     \* the request the gateway has not answered, "none"
    login,     \* what the gateway has decided of the credentials
    tunnel,    \* what it has decided of the tunnel
    sent       \* the document or the ranges it has sent

dataVars == <<cookie, sid, params, result>>
clientVars == <<step, phase, buf, attempt, dataVars>>
decisions == <<login, tunnel, sent>>
vars == <<proto, mode, clientVars, conn, wire, inbox, decisions>>

\* The requests of each protocol, in order; a host check may follow the login.
FortiSteps == {"page", "login", "hostcheck", "index", "alloc", "xml", "tunnel"}
Steps == FortiSteps \cup {"init", "auth", "cstp"} \cup {"userpass", "hello", "signout"}
FirstStep == [AnyConnect |-> "init", FortiGate |-> "page", CheckPoint |-> "userpass"]
NextStep == [init |-> "auth", auth |-> "cstp", page |-> "login", login |-> "index",
             hostcheck |-> "index", index |-> "alloc", alloc |-> "xml", xml |-> "tunnel",
             userpass |-> "hello"]

Results == {"none", "ok", "auth", "protocol", "tls", "io", "disconnected"}
NoParams == [routes |-> <<>>]

----------------------------------------------------------------------------
\* What the gateways answer

Reply(s, verdict) ==
    [step |-> s, verdict |-> verdict, delim |-> "none", close |-> FALSE,
     cookies |-> <<>>, config |-> <<>>]

\* Set-Cookie headers: 1 is the session cookie, 0 the empty value or the "0" that
\* delete it, which also accompany a pending host check.
Issuing == {<<1>>, <<0, 1>>, <<1, 0>>}
IssuedAlone == {<<1>>}
Deleting == {<<0>>}
WithCookies(r, lists) == {[r EXCEPT !.cookies = c] : c \in lists}
WithConfigs(r, configs) == {[r EXCEPT !.config = c] : c \in configs}
Framed(r, delim, close) == [r EXCEPT !.delim = delim, !.close = close]
Delimited(replies) == {Framed(r, d, c) : r \in replies, d \in Delims, c \in BOOLEAN}
Ending(replies, delim) == {[r EXCEPT !.delim = delim] : r \in replies}

FortiReplies(s) ==
    CASE s = "login" ->
            Delimited(WithCookies(Reply(s, "grant"), Issuing)
                        \cup WithCookies(Reply(s, "hostcheck"), Deleting)
                        \cup {Reply(s, v) : v \in {"refuse", "failure", "twofactor"}})
      [] s = "hostcheck" ->
            Delimited(WithCookies(Reply(s, "grant"), IssuedAlone)
                        \cup {Reply(s, "refuse"), Reply(s, "failure")})
      [] s = "xml" ->
            Ending(WithConfigs(Reply(s, "config"), Documents) \cup {Reply(s, "refuse")},
                   "length")
      [] OTHER -> Delimited({Reply(s, "page")})

AnyReplies(s) ==
    CASE s = "init" -> Ending({Reply(s, "form")}, "length")
      [] s = "auth" ->
            Ending(WithCookies(Reply(s, "grant"), IssuedAlone) \cup {Reply(s, "refuse")}, "length")
      [] s = "cstp" -> {Reply(s, v) : v \in {"grant", "refuse", "noaddress"}}

CheckReplies(s) ==
    CASE s = "userpass" ->
            Ending({Reply(s, v) : v \in {"grant", "grantnoid", "badkey", "nokey", "refuse",
                                         "garbage"}}, "eof")
      [] s = "hello" -> WithConfigs(Reply(s, "grant"), RangeLists)
                          \cup {Reply(s, v) : v \in {"disconnect", "noaddress", "malformed"}}
      [] s = "signout" -> Ending({Reply(s, "released"), Reply(s, "garbage")}, "eof")

Replies(s) ==
    CASE proto = "FortiGate" -> FortiReplies(s)
      [] proto = "AnyConnect" -> AnyReplies(s)
      [] proto = "CheckPoint" -> CheckReplies(s)

\* The units of a reply.  The answer to Check Point's hello is a control frame,
\* which stray data frames may precede.
Unit(part, r) == [part |-> part, of |-> r]
Units(r) ==
    CASE r.delim = "none" -> <<Unit("head", r)>>
      [] r.delim = "chunked" -> <<Unit("head", r), Unit("body", r), Unit("crlf", r)>>
      [] OTHER -> <<Unit("head", r), Unit("body", r)>>
Stray(n, r) == [i \in 1 .. n |-> Unit("data", r)]

TypeOK ==
    /\ proto \in Protocols /\ mode \in Modes
    /\ step \in Steps \cup {"up", "ended"}
    /\ phase \in {"send", "read", "ppp"}
    /\ conn \in {"none", "open", "closed"}
    /\ \A s \in {wire, buf} : \A i \in DOMAIN s :
          s[i].part \in {"head", "body", "crlf", "data"} /\ s[i].of.step \in Steps
    /\ attempt \in {0, 1} /\ (attempt = 1 => step \in FortiSteps \ {"tunnel"})
    /\ cookie \in {0, 1} /\ sid \in BOOLEAN
    /\ result \in Results
    /\ step \in {"up", "ended", "signout"} => result # "none"
    /\ inbox \in Steps \cup {"none"} /\ (inbox # "none" => conn = "open")
    /\ login \in {"none", "granted", "refused"}
    /\ tunnel \in {"none", "granted", "refused"}

Init ==
    /\ proto \in Protocols /\ mode \in Modes
    /\ mode = "probe" => proto # "AnyConnect"
    /\ step = FirstStep[proto] /\ phase = "send"
    /\ conn = "none" /\ wire = <<>> /\ buf = <<>> /\ attempt = 0
    /\ cookie = 0 /\ sid = FALSE /\ params = NoParams /\ result = "none"
    /\ inbox = "none" /\ login = "none" /\ tunnel = "none" /\ sent = <<>>

----------------------------------------------------------------------------
\* How a step ends

SameRun == UNCHANGED <<proto, mode>>
Dropped == conn' = "none" /\ wire' = <<>> /\ inbox' = "none"

\* The step is done and the next one starts.
MutGoTo(s) == step' = s /\ phase' = "send" /\ buf' = <<>> /\ UNCHANGED attempt
GoTo(s) == step' = s /\ phase' = "send" /\ buf' = <<>> /\ attempt' = 0

\* Whether Check Point's session is released when the handshake or the tunnel has
\* ended: connect_checkpoint does so for every outcome past the login, the probe
\* only after a completed handshake.
MutSignsOut(ok) == ok /\ sid
SignsOut(ok) == IF mode = "probe" THEN ok ELSE sid

\* The handshake returns r.
Return(r) ==
    /\ result' = r
    /\ IF step = "hello" /\ SignsOut(r = "ok") THEN GoTo("signout")
       ELSE GoTo("ended")
    /\ Dropped
    /\ UNCHANGED <<cookie, sid, params, decisions>>
    /\ SameRun

\* A session is established: client.rs hands the connection to the forwarding loop
\* (module Forwarding), the probe hangs up.
Establish(p) ==
    /\ result' = "ok" /\ params' = p
    /\ IF mode = "connect" THEN GoTo("up")
       ELSE IF proto = "CheckPoint" /\ SignsOut(TRUE) THEN GoTo("signout")
       ELSE GoTo("ended")
    /\ Dropped
    /\ UNCHANGED <<cookie, sid, decisions>>
    /\ SameRun

\* The tunnel comes down, whatever ended it.
TunnelEnds ==
    /\ step = "up"
    /\ IF proto = "CheckPoint" /\ SignsOut(TRUE) THEN GoTo("signout") ELSE GoTo("ended")
    /\ UNCHANGED <<dataVars, conn, wire, inbox, decisions>>
    /\ SameRun

\* The caller of HttpSession::request gets an error: the login page and the two
\* warm-up requests go on without their reply.
RequestFails(e) ==
    IF step \in {"page", "index", "alloc"}
    THEN /\ GoTo(NextStep[step])
         /\ Dropped
         /\ UNCHANGED <<dataVars, decisions>>
         /\ SameRun
    ELSE Return(e)

\* HttpSession::request drops the connection on any error and tries once more.
MutAfterError == UNCHANGED <<conn, wire>> /\ inbox' = "none"
AfterError == Dropped
HttpError(e) ==
    IF attempt = 0
    THEN /\ attempt' = 1 /\ phase' = "send" /\ buf' = <<>>
         /\ AfterError
         /\ UNCHANGED <<step, dataVars, decisions>>
         /\ SameRun
    ELSE RequestFails(e)

\* Any other error of a step; the outcome of a signout is only logged.
StepFails(e) ==
    IF step = "signout"
    THEN GoTo("ended") /\ Dropped /\ UNCHANGED <<dataVars, decisions>> /\ SameRun
    ELSE Return(e)

IsHttp == step \in FortiSteps \ {"tunnel"}
Fails(e) == IF IsHttp THEN HttpError(e) ELSE StepFails(e)

----------------------------------------------------------------------------
\* Writing a request

Running == step \in Steps

\* connect_tls.
Connect ==
    /\ Running /\ phase = "send" /\ conn = "none"
    /\ conn' = "open"
    /\ UNCHANGED <<clientVars, wire, inbox, decisions>>
    /\ SameRun

\* A failed connect is not retried by HttpSession::request.
ConnectFails ==
    /\ Running /\ phase = "send" /\ conn = "none"
    /\ IF IsHttp THEN RequestFails("tls") ELSE StepFails("tls")

\* A write to a connection the gateway has closed may still succeed.
SendRequest ==
    /\ Running /\ phase = "send" /\ conn # "none"
    /\ phase' = IF step = "tunnel" THEN "ppp" ELSE "read"
    /\ inbox' = IF conn = "open" THEN step ELSE "none"
    /\ UNCHANGED <<step, buf, attempt, dataVars, conn, wire, decisions>>
    /\ SameRun

SendFails ==
    /\ Running /\ phase = "send" /\ conn = "closed"
    /\ Fails("io")

----------------------------------------------------------------------------
\* The gateway

GatewayReply ==
    /\ inbox \notin {"none", "tunnel"} /\ conn = "open"
    /\ inbox' = "none"
    /\ \E r \in Replies(inbox) :
          /\ IF inbox = "hello" THEN \E n \in 0 .. MaxStray : wire' = wire \o Stray(n, r) \o Units(r)
             ELSE wire' = wire \o Units(r)
          /\ login' = CASE inbox \in {"login", "hostcheck", "auth", "userpass"} /\
                           r.verdict \in {"grant", "grantnoid", "badkey", "nokey"} -> "granted"
                        [] inbox \in {"login", "hostcheck", "auth", "userpass"} /\
                           r.verdict \in {"refuse", "failure", "twofactor"} -> "refused"
                        [] OTHER -> login
          /\ tunnel' = CASE inbox \in {"cstp", "hello"} /\ r.verdict = "grant" -> "granted"
                         [] inbox \in {"cstp", "hello"} /\ r.verdict # "grant" -> "refused"
                         [] OTHER -> tunnel
          /\ sent' = IF r.verdict = "config" \/ inbox = "hello" THEN r.config ELSE sent
    /\ UNCHANGED <<clientVars, conn>>
    /\ SameRun

\* Its decision on the tunnel, taken in the course of PPP.
GatewayTunnel ==
    /\ inbox = "tunnel"
    /\ inbox' = "none"
    /\ tunnel' \in {"granted", "refused"}
    /\ UNCHANGED <<clientVars, conn, wire, login, sent>>
    /\ SameRun

\* It closes the connection: as it should after a reply that the close delimits,
\* or too early, when the rest of what it was sending is lost.
GatewayClose ==
    /\ conn = "open" /\ phase # "ppp"
    /\ conn' = "closed"
    /\ \E n \in 0 .. Len(wire) : wire' = SubSeq(wire, 1, n)
    /\ inbox' = "none"
    /\ UNCHANGED <<clientVars, decisions>>
    /\ SameRun

----------------------------------------------------------------------------
\* Reading a reply

HasHead == \E i \in DOMAIN buf : buf[i].part = "head"
Control ==
    LET first == CHOOSE i \in DOMAIN buf :
                    buf[i].part = "head" /\ \A j \in 1 .. i - 1 : buf[j].part # "head"
    IN  buf[first]

\* When the read loop of the step stops without the end of the stream.
Complete ==
    CASE proto = "AnyConnect" -> HasHead
      [] proto = "FortiGate" ->
            /\ HasHead
            /\ buf[1].part = "head" /\ buf[1].of.delim # "none" =>
                  Len(buf) >= 2 /\ buf[1].of.delim # "eof"
      [] step = "hello" -> HasHead
      [] OTHER -> FALSE

Read ==
    /\ phase = "read" /\ ~Complete
    /\ \E n \in 1 .. Len(wire) :
          buf' = buf \o SubSeq(wire, 1, n) /\ wire' = SubSeq(wire, n + 1, Len(wire))
    /\ UNCHANGED <<step, phase, attempt, dataVars, conn, inbox, decisions>>
    /\ SameRun

\* The gateway has reset the connection instead of ending the stream.
ReadFails ==
    /\ phase = "read" /\ ~Complete /\ conn = "closed"
    /\ Fails("io")

AtEof == phase = "read" /\ ~Complete /\ wire = <<>> /\ conn = "closed"
ReplyRead == phase = "read" /\ Complete

\* REQUEST_TIMEOUT and HELLO_REPLY_TIMEOUT_SECS: FortiGate's requests and the hello.
MutTimed == step = "hello"
Timed == IsHttp \/ step = "hello"
ReadTimeout ==
    /\ phase = "read" /\ ~Complete /\ Timed
    /\ Fails(IF IsHttp THEN "tls" ELSE "protocol")

\* The step succeeds with cookie c, on the same connection.
Proceed(s, c) ==
    /\ GoTo(s)
    /\ cookie' = c
    /\ UNCHANGED <<sid, params, result, conn, wire, inbox, decisions>>
    /\ SameRun

----------------------------------------------------------------------------
\* AnyConnect: read_http_response stops at the end of the headers; parse_auth_response
\* searches all that was read, parse_connect_response takes the first line for the
\* status line.

AnyInit ==
    /\ step = "init"
    /\ ReplyRead \/ AtEof
    /\ Proceed("auth", 0)

\* A cookie is the only proof of success: an early end of the stream is a refusal.
AnyAuth ==
    /\ step = "auth"
    /\ ReplyRead \/ AtEof
    /\ IF \E i \in DOMAIN buf : buf[i].part = "head" /\ buf[i].of.cookies # <<>>
       THEN Proceed("cstp", 1) ELSE Return("auth")

AnyCstp ==
    /\ step = "cstp"
    /\ \/ /\ ReplyRead
          /\ IF buf[1].part = "head" /\ buf[1].of.verdict = "grant"
             THEN Establish([routes |-> DefaultRoutes]) ELSE Return("tls")
       \/ AtEof /\ Return("tls")

----------------------------------------------------------------------------
\* FortiGate: read_response delimits the body.

\* HttpResponse::cookie: the last value that is not a deletion.
MutCookieOf(r) == IF r.cookies = <<>> THEN 0 ELSE 1
CookieOf(r) == IF \E i \in DOMAIN r.cookies : r.cookies[i] # 0 THEN 1 ELSE 0

\* request() honours `Connection: close`.  A reply that was cut off keeps the dead
\* connection, which the next request finds out.
AfterOk(r) ==
    IF r.close THEN Dropped ELSE UNCHANGED <<conn, wire, inbox>>

Continue(s, c, r) ==
    /\ GoTo(s) /\ cookie' = c
    /\ AfterOk(r)
    /\ UNCHANGED <<sid, params, result, decisions>>
    /\ SameRun

\* classify_login and authenticate_on: `whole` tells whether the body was there,
\* which holds the redirect of a host check.
OnLogin(r, whole) ==
    IF r.verdict # "refuse" /\ CookieOf(r) # 0 THEN Continue("index", CookieOf(r), r)
    ELSE IF r.verdict = "hostcheck" /\ whole THEN Continue("hostcheck", 0, r)
    ELSE Return("auth")

OnHostcheck(r) ==
    IF r.verdict # "refuse" /\ CookieOf(r) # 0 THEN Continue("index", CookieOf(r), r)
    ELSE Return("auth")

\* fetch_config_on parses what there is of the document; the tunnel then needs a
\* connection of its own.
OnXml(r, doc) ==
    IF r.verdict = "refuse" THEN Return("protocol")
    ELSE /\ GoTo("tunnel") /\ Dropped
         /\ params' = ParseConfig(doc)
         /\ UNCHANGED <<cookie, sid, result, decisions>>
         /\ SameRun

OnHttpReply(r, whole) ==
    CASE step = "login" -> OnLogin(r, whole)
      [] step = "hostcheck" -> OnHostcheck(r)
      [] step = "xml" ->
            IF whole THEN OnXml(r, r.config)
            ELSE \E n \in 0 .. Len(r.config) : OnXml(r, SubSeq(r.config, 1, n))
      [] OTHER -> Continue(NextStep[step], cookie, r)

\* The reply is complete, or begins with the CRLF of the one before, which
\* parse_head refuses.
HttpReply ==
    /\ IsHttp /\ ReplyRead
    /\ IF buf[1].part = "head" THEN OnHttpReply(buf[1].of, TRUE) ELSE HttpError("protocol")

\* The end of the stream ends any reply whose head is there.
HttpEof ==
    /\ IsHttp /\ AtEof
    /\ IF HasHead /\ buf[1].part = "head"
       THEN OnHttpReply(buf[1].of, buf[1].of.delim = "eof" /\ Len(buf) >= 2)
       ELSE HttpError("protocol")

\* open_tunnel: the outcome of PPP on the new connection.
PppUp ==
    /\ step = "tunnel" /\ phase = "ppp" /\ tunnel = "granted"
    /\ Establish(FortiParams(params, PppSession))

PppFails ==
    /\ step = "tunnel" /\ phase = "ppp"
    /\ \/ \E e \in {"tls", "protocol", "io"} : Return(e)
       \/ tunnel = "refused" /\ Return("auth")

----------------------------------------------------------------------------
\* Check Point: read_http_body reads to the end of the stream.

CccBody == IF \E i \in DOMAIN buf : buf[i].part = "body" THEN buf[1].of.verdict ELSE "garbage"

\* authenticate_checkpoint; connect_checkpoint then decodes the key, still before
\* the part whose every exit signs out.
CheckUserpass ==
    /\ step = "userpass" /\ AtEof
    /\ CASE CccBody \in {"grant", "grantnoid"} ->
                 /\ GoTo("hello") /\ Dropped
                 /\ cookie' = 1 /\ sid' = (CccBody = "grant")
                 /\ UNCHANGED <<params, result, decisions>>
                 /\ SameRun
         [] CccBody = "refuse" -> Return("auth")
         [] OTHER -> Return("protocol")

\* A (disconnect ...) is the gateway's refusal, anything else a malformed reply.
MutHelloError(verdict) == IF verdict = "disconnect" THEN "auth" ELSE "protocol"
HelloError(verdict) == IF verdict = "disconnect" THEN "disconnected" ELSE "protocol"

\* establish_session skips data frames; parse_hello_reply reads the first control
\* frame.
CheckHello ==
    /\ step = "hello"
    /\ \/ /\ ReplyRead
          /\ LET r == Control.of IN
             IF r.verdict = "grant"
             THEN Establish([routes |-> OrDefault(HelloRoutes(r.config))])
             ELSE Return(HelloError(r.verdict))
       \/ AtEof /\ Return("protocol")

\* Whatever the gateway answers to the sign-out, and if it does not (StepFails),
\* the attempt is over: the answer is only logged.
CheckSignout ==
    /\ step = "signout" /\ AtEof
    /\ GoTo("ended") /\ Dropped
    /\ UNCHANGED <<dataVars, decisions>>
    /\ SameRun

----------------------------------------------------------------------------

Ended == step = "ended" /\ UNCHANGED vars

Client ==
    \/ SendRequest \/ Read
    \/ AnyInit \/ AnyAuth \/ AnyCstp
    \/ HttpReply \/ HttpEof
    \/ CheckUserpass \/ CheckHello \/ CheckSignout

Next ==
    \/ Client \/ ReadTimeout
    \/ Connect \/ ConnectFails \/ SendFails \/ ReadFails \/ PppUp \/ PppFails \/ TunnelEnds
    \/ GatewayReply \/ GatewayTunnel \/ GatewayClose
    \/ Ended

\* The task runs and its timers expire; nothing is assumed of the gateway, nor of
\* the time a connect takes.
Spec == Init /\ [][Next]_vars /\ WF_vars(Client) /\ WF_vars(ReadTimeout)

----------------------------------------------------------------------------

\* The client acts on the reply to the request it has made, never on one that was
\* under way for an earlier request: HttpSession drops the connection on which a
\* request failed before it sends the request again.
ReplyMatches ==
    phase = "read" => \A i \in DOMAIN buf : buf[i].part = "head" => buf[i].of.step = step

\* Past the login the client holds the cookie of a session the gateway has
\* granted, not the deletion that goes with a pending host check.
CookieIsIssued ==
    step \in {"index", "alloc", "xml", "tunnel", "cstp", "hello", "up"} =>
        cookie = 1 /\ login = "granted"

\* A FortiGate session has the routes and the exclusions its document, as far as it
\* was read, lists, each by the negate of the list it stands in, and none that no
\* list precedes; IPCP's resolvers come first and none twice; and the keepalive
\* leaves the gateway's idle timeout room for two lost probes where it is long
\* enough (15 s).
FortiConfigSound ==
    /\ step = "tunnel" =>
          \E n \in 0 .. Len(sent) :
              LET doc == SubSeq(sent, 1, n) IN
              /\ RoutesGiven(doc, FALSE) \subseteq ToSet(params.routes)
              /\ ToSet(params.routes) \subseteq RoutesGiven(doc, FALSE) \cup RoutesAfter(doc)
              /\ RoutesGiven(doc, TRUE) \subseteq ToSet(params.excludes)
              /\ ToSet(params.excludes) \subseteq RoutesGiven(doc, TRUE) \cup RoutesAfter(doc)
    /\ step = "up" /\ proto = "FortiGate" =>
          /\ params.keepalive \in 5 .. 60
          /\ params.timeout >= 15 => 3 * params.keepalive <= params.timeout
          /\ IsPrefix(PppSession.dns, params.dns)
          /\ Cardinality(ToSet(params.dns)) = Len(params.dns)

\* The subnets of a Check Point session cover the addresses of the ranges the
\* gateway sent and no other, aligned as routes must be; the default private
\* ranges are installed only if there are none.  A range of the whole space is no
\* exception: it becomes the route 0.0.0.0/0, which nothing else does.  Only ranges
\* that begin at the 0.0.0.1 sentinel are dropped, although routing.rs says that
\* 0.0.0.0/0 is "stripped in parse_hello_reply".
HelloRoutesExact ==
    step = "up" /\ proto = "CheckPoint" =>
        IF RangeAddresses(sent) = {} THEN params.routes = DefaultRoutes
        ELSE /\ UNION {Block(b) : b \in ToSet(params.routes)} = RangeAddresses(sent)
             /\ \A b \in ToSet(params.routes) : b[1] % Pow2[Bits - b[2]] = 0
             /\ FullTunnel \in ToSet(params.routes) <=> WholeSpace \in ToSet(sent)

\* A Check Point attempt does not end before it has tried to sign its session out,
\* if that has a session_id and a key that decodes: whatever became of the tunnel,
\* for connect; after a completed handshake, for the probe.  Trying is all the code
\* does (connect_checkpoint says "released on EVERY exit path"): a sign-out that
\* fails is logged and the session stays with the gateway until it expires.
SignOutAttempted ==
    [][step' = "ended" /\ proto = "CheckPoint" /\ sid /\ (mode = "connect" \/ result' = "ok")
          => step = "signout"]_vars

AwaitsTimedReply == phase = "read" /\ step \in (FortiSteps \ {"tunnel"}) \cup {"hello"}

\* A request to a FortiGate and Check Point's hello do not wait for ever for a
\* silent gateway (REQUEST_TIMEOUT, HELLO_REPLY_TIMEOUT_SECS).
TimedStepEnds == AwaitsTimedReply ~> ~AwaitsTimedReply

\* The caller's view of the handshake.
StageOf(s) ==
    CASE s \in {"init", "auth", "page", "login", "hostcheck", "userpass"} -> "auth"
      [] s \in {"cstp", "index", "alloc", "xml", "tunnel", "hello"} -> "session"
      [] s = "ended" -> "done"
      [] OTHER -> s
OutcomeOf(r) ==
    CASE r \in {"none", "ok"} -> r
      [] r = "auth" -> "permanent"
      [] OTHER -> "transient"

Abstract == INSTANCE Attempt WITH stage <- StageOf(step), outcome <- OutcomeOf(result)

\* Whatever is lost, cut short, retried or refused on the way, the handshake goes
\* through its stages in order, has one outcome, and a permanent one only where
\* credentials are at stake: what Supervisor assumes of its steps.
ImplementsAttempt == Abstract!Spec

\* An <addr> outside <split-tunnel-info> is no route: the routes are those the
\* lists of the document enclose.
SplitListEnds ==
    step = "tunnel" =>
        \E n \in 0 .. Len(sent) :
            ToSet(params.routes) = RoutesGiven(SubSeq(sent, 1, n), FALSE)

\* AuthFailed is "Authentication rejected by server": the client gives up for good
\* only if the gateway has refused the credentials.
PermanentMeansRefused == result = "auth" => "refused" \in {login, tunnel}
==============================================================================
