---------------------------- MODULE HandshakeProofs ----------------------------
(***************************************************************************)
(* Proofs, for every value of the constants, about Handshake: that it      *)
(* implements Attempt, that Check Point's session is released, that the    *)
(* client acts on the right reply and holds the right cookie, and that the *)
(* session is configured as the gateway's document or ranges say.          *)
(***************************************************************************)
EXTENDS Handshake, SessionConfigProofs

USE ProtocolsAssumption, ModesAssumption

(* The steps of each protocol. *)
StepsOf == [AnyConnect |-> {"init", "auth", "cstp"},
            FortiGate |-> FortiSteps,
            CheckPoint |-> {"userpass", "hello", "signout"}]

(* Where the run is: a step of its own protocol, waiting for an answer only as
   long as there is a request, and with a result and no connection once it has
   ended (the connection of a tunnel that is up belongs to the forwarding loop). *)
Staged ==
    /\ proto \in Protocols /\ mode \in Modes
    /\ step \in StepsOf[proto] \cup {"up", "ended"}
    /\ phase \in {"send", "read", "ppp"}
    /\ phase # "send" => step \in Steps
    /\ phase = "ppp" <=> step = "tunnel" /\ phase # "send"
    /\ result \in Results
    /\ result = "none" <=> step \in Steps \ {"signout"}
    /\ step = "userpass" => ~sid
    /\ step \in {"up", "ended"} => conn = "none" /\ inbox = "none"

Errors == {"auth", "protocol", "tls", "io", "disconnected"}

(* The next step, without a result ... *)
Onward ==
    /\ <<step, step'>> \in {<<"init", "auth">>, <<"auth", "cstp">>, <<"page", "login">>,
          <<"login", "hostcheck">>, <<"login", "index">>, <<"hostcheck", "index">>,
          <<"index", "alloc">>, <<"alloc", "xml">>, <<"xml", "tunnel">>,
          <<"userpass", "hello">>}
    /\ UNCHANGED result

(* ... a failure, for good only where credentials are at stake ... *)
Failure ==
    /\ step \in Steps \ {"signout"}
    /\ result' \in Errors
    /\ result' = "auth" => step \in {"auth", "login", "hostcheck", "userpass", "tunnel"}
    /\ step' = IF step = "hello" /\ SignsOut(FALSE) THEN "signout" ELSE "ended"

(* ... a session, at once left again by the probe ... *)
Session ==
    /\ step \in {"cstp", "tunnel", "hello"}
    /\ result' = "ok"
    /\ step' = IF mode = "connect" THEN "up"
               ELSE IF proto = "CheckPoint" THEN "signout" ELSE "ended"

(* ... the end of the tunnel, the end of the sign-out. *)
Leaving ==
    /\ \/ /\ step = "up"
          /\ step' = IF proto = "CheckPoint" /\ SignsOut(TRUE) THEN "signout" ELSE "ended"
       \/ step = "signout" /\ step' = "ended"
    /\ UNCHANGED result

Move == Onward \/ Failure \/ Session \/ Leaving

(* Every step of the specification stays at its request or moves on. *)
Moves ==
    /\ UNCHANGED <<proto, mode>>
    /\ \/ /\ UNCHANGED <<step, result>>
          /\ phase' \in {"send", phase, IF step = "tunnel" THEN "ppp" ELSE "read"}
          /\ step \in {"up", "ended"} => UNCHANGED vars
       \/ /\ Move
          /\ phase' = "send"
          /\ step' \in {"up", "ended"} => conn' = "none" /\ inbox' = "none"
    /\ sid' # sid => step' = "hello"

LEMMA ReturnMoves ==
    ASSUME Staged, step \in Steps \ {"signout"}, NEW e \in Errors,
           e = "auth" => step \in {"auth", "login", "hostcheck", "userpass", "tunnel"},
           Return(e)
    PROVE  Moves
BY DEF Return, GoTo, Dropped, SameRun, Moves, Move, Failure, Errors

LEMMA EstablishMoves ==
    ASSUME Staged, step \in {"cstp", "tunnel", "hello"}, NEW p, Establish(p)
    PROVE  Moves
BY DEF Establish, GoTo, Dropped, SameRun, SignsOut, Staged, Moves, Move, Session

(* A failed request is tried again, gone on without, or the end. *)
LEMMA RequestFailsMoves ==
    ASSUME Staged, IsHttp, NEW e \in {"tls", "io", "protocol"}, RequestFails(e)
    PROVE  Moves
<1>1. CASE step \in {"page", "index", "alloc"}
  BY <1>1 DEF RequestFails, NextStep, GoTo, SameRun, dataVars, Moves, Move, Onward
<1>2. CASE step \notin {"page", "index", "alloc"}
  BY <1>2, ReturnMoves DEF RequestFails, IsHttp, FortiSteps, Steps, Errors
<1> QED
  BY <1>1, <1>2

LEMMA HttpErrorMoves ==
    ASSUME Staged, IsHttp, NEW e \in {"tls", "io", "protocol"}, HttpError(e)
    PROVE  Moves
<1>1. CASE attempt = 0
  BY <1>1 DEF HttpError, SameRun, dataVars, Moves, IsHttp, FortiSteps
<1>2. CASE attempt # 0
  BY <1>2, RequestFailsMoves DEF HttpError
<1> QED
  BY <1>1, <1>2

LEMMA StepFailsMoves ==
    ASSUME Staged, step \in Steps, NEW e \in {"tls", "io", "protocol"}, StepFails(e)
    PROVE  Moves
<1>1. CASE step = "signout"
  BY <1>1 DEF StepFails, GoTo, Dropped, SameRun, dataVars, Moves, Move, Leaving
<1>2. CASE step # "signout"
  BY <1>2, ReturnMoves DEF StepFails, Errors
<1> QED
  BY <1>1, <1>2

LEMMA FailsMoves ==
    ASSUME Staged, step \in Steps, NEW e \in {"tls", "io", "protocol"}, Fails(e)
    PROVE  Moves
BY HttpErrorMoves, StepFailsMoves DEF Fails

(* What the client does with a reply to an HTTP request. *)
LEMMA HttpReplyMoves ==
    ASSUME Staged, IsHttp, NEW r, NEW whole \in BOOLEAN, OnHttpReply(r, whole)
    PROVE  Moves
<1> USE DEF IsHttp, FortiSteps
<1>1. CASE step = "login"
  <2>1. OnLogin(r, whole)
    BY <1>1 DEF OnHttpReply
  <2>2. CASE Return("auth")
    BY <1>1, <2>2, ReturnMoves DEF Steps, Errors
  <2>3. CASE Continue("index", CookieOf(r), r) \/ Continue("hostcheck", 0, r)
    BY <1>1, <2>3 DEF Continue, GoTo, SameRun, Moves, Move, Onward
  <2> QED
    BY <2>1, <2>2, <2>3 DEF OnLogin
<1>2. CASE step = "hostcheck"
  <2>1. OnHostcheck(r)
    BY <1>2 DEF OnHttpReply
  <2>2. CASE Return("auth")
    BY <1>2, <2>2, ReturnMoves DEF Steps, Errors
  <2>3. CASE Continue("index", CookieOf(r), r)
    BY <1>2, <2>3 DEF Continue, GoTo, SameRun, Moves, Move, Onward
  <2> QED
    BY <2>1, <2>2, <2>3 DEF OnHostcheck
<1>3. CASE step = "xml"
  <2>1. PICK doc : OnXml(r, doc)
    BY <1>3 DEF OnHttpReply
  <2>2. CASE Return("protocol")
    BY <1>3, <2>2, ReturnMoves DEF Steps, Errors
  <2>3. CASE ~Return("protocol")
    BY <1>3, <2>1, <2>3 DEF OnXml, GoTo, SameRun, Moves, Move, Onward
  <2> QED
    BY <2>2, <2>3
<1>4. CASE step \in {"page", "index", "alloc"}
  <2>1. Continue(NextStep[step], cookie, r)
    BY <1>4 DEF OnHttpReply
  <2> QED
    BY <1>4, <2>1 DEF Continue, NextStep, GoTo, SameRun, Moves, Move, Onward
<1> QED
  BY <1>1, <1>2, <1>3, <1>4

(* Every step of the specification, summed up. *)
LEMMA NextMoves ==
    ASSUME Staged, [Next]_vars
    PROVE  Moves
<1> USE DEF clientVars, dataVars, SameRun
<1>1. CASE SendRequest
  BY <1>1 DEF SendRequest, Moves, Running, Steps, FortiSteps
<1>2. CASE Read \/ Connect \/ GatewayReply \/ GatewayTunnel \/ GatewayClose
  <2>1. UNCHANGED <<proto, mode, step, phase, result, sid>>
    BY <1>2 DEF Read, Connect, GatewayReply, GatewayTunnel, GatewayClose
  <2>2. step \notin {"up", "ended"}
    BY <1>2 DEF Read, Connect, GatewayReply, GatewayTunnel, GatewayClose, Staged,
       Running, Steps, FortiSteps
  <2> QED
    BY <2>1, <2>2 DEF Moves
<1>3. CASE AnyInit
  BY <1>3 DEF AnyInit, Proceed, GoTo, Moves, Move, Onward
<1>4. CASE AnyAuth
  <2>1. CASE Return("auth")
    BY <1>4, <2>1, ReturnMoves DEF AnyAuth, Steps, Errors
  <2>2. CASE Proceed("cstp", 1)
    BY <1>4, <2>2 DEF AnyAuth, Proceed, GoTo, Moves, Move, Onward
  <2> QED
    BY <1>4, <2>1, <2>2 DEF AnyAuth
<1>5. CASE AnyCstp
  BY <1>5, ReturnMoves, EstablishMoves DEF AnyCstp, Steps, Errors
<1>6. CASE HttpReply
  BY <1>6, HttpReplyMoves, HttpErrorMoves DEF HttpReply
<1>7. CASE HttpEof
  BY <1>7, HttpReplyMoves, HttpErrorMoves DEF HttpEof
<1>8. CASE CheckUserpass
  <2>1. CASE \E e \in {"auth", "protocol"} : Return(e)
    BY <1>8, <2>1, ReturnMoves DEF CheckUserpass, Steps, Errors
  <2>2. CASE GoTo("hello") /\ UNCHANGED <<params, result, decisions>> /\ SameRun
    BY <1>8, <2>2 DEF CheckUserpass, GoTo, Moves, Move, Onward
  <2> QED
    BY <1>8, <2>1, <2>2 DEF CheckUserpass
<1>9. CASE CheckHello
  <2>1. CASE \E e \in {"disconnected", "protocol"} : Return(e)
    BY <1>9, <2>1, ReturnMoves DEF CheckHello, Steps, Errors
  <2>2. CASE \E p : Establish(p)
    BY <1>9, <2>2, EstablishMoves DEF CheckHello
  <2> QED
    BY <1>9, <2>1, <2>2 DEF CheckHello, HelloError
<1>10. CASE CheckSignout
  BY <1>10 DEF CheckSignout, GoTo, Dropped, Moves, Move, Leaving
<1>11. CASE ReadTimeout
  BY <1>11, FailsMoves DEF ReadTimeout, Staged
<1>12. CASE ConnectFails
  BY <1>12, RequestFailsMoves, StepFailsMoves DEF ConnectFails, Running
<1>13. CASE SendFails
  BY <1>13, FailsMoves DEF SendFails, Running
<1>14. CASE ReadFails
  BY <1>14, FailsMoves DEF ReadFails, Staged
<1>15. CASE PppUp
  BY <1>15, EstablishMoves DEF PppUp
<1>16. CASE PppFails
  BY <1>16, ReturnMoves DEF PppFails, Steps, FortiSteps, Errors
<1>17. CASE TunnelEnds
  BY <1>17 DEF TunnelEnds, GoTo, Staged, Moves, Move, Leaving
<1>18. CASE UNCHANGED vars
  BY <1>18 DEF vars, Moves
<1> QED
  BY <1>1, <1>2, <1>3, <1>4, <1>5, <1>6, <1>7, <1>8, <1>9, <1>10, <1>11, <1>12,
     <1>13, <1>14, <1>15, <1>16, <1>17, <1>18 DEF Next, Client, Ended

LEMMA StagedInvariant == Spec => []Staged
<1>1. Init => Staged
  BY DEF Init, Staged, FirstStep, StepsOf, FortiSteps, Steps, Results
<1>2. Staged /\ [Next]_vars => Staged'
  <2> SUFFICES ASSUME Staged, [Next]_vars
               PROVE  Staged'
    OBVIOUS
  <2>1. Moves
    BY NextMoves
  <2> USE DEF Staged, Results
  <2>2. CASE UNCHANGED <<step, result>>
    <3>1. step' \in {"up", "ended"} => UNCHANGED <<phase, conn, inbox>>
      BY <2>1, <2>2 DEF Moves, Move, Onward, Failure, Session, Leaving, Errors,
         Steps, FortiSteps, vars, clientVars
    <3>2. step = "hello" \/ sid' = sid
      BY <2>1, <2>2 DEF Moves
    <3>3. phase' \in {"send", phase, IF step = "tunnel" THEN "ppp" ELSE "read"}
      BY <2>1 DEF Moves
    <3>4. UNCHANGED <<proto, mode>>
      BY <2>1 DEF Moves
    <3>5. step \in Steps \cup {"up", "ended"}
      BY DEF StepsOf, Steps, FortiSteps
    <3> QED
      BY <2>2, <3>1, <3>2, <3>3, <3>4, <3>5
  <2>3. CASE Move /\ step' # step
    <3>1. /\ UNCHANGED <<proto, mode>>
          /\ phase' = "send"
          /\ step' \in {"up", "ended"} => conn' = "none" /\ inbox' = "none"
      BY <2>1, <2>3 DEF Moves
    <3> USE DEF StepsOf, FortiSteps, Steps
    <3>2. proto \in {"AnyConnect", "FortiGate", "CheckPoint"}
      OBVIOUS
    <3>3. step' \in StepsOf[proto] \cup {"up", "ended"} /\ step' # "userpass"
      <4>1. CASE Onward
        BY <3>2, <4>1 DEF Onward
      <4>2. CASE Failure
        <5>1. step' = "ended" \/ (step' = "signout" /\ step = "hello")
          BY <4>2 DEF Failure
        <5> QED
          BY <3>2, <5>1
      <4>3. CASE Session
        BY <3>2, <4>3 DEF Session
      <4>4. CASE Leaving
        <5>1. step' = "ended" \/ (step' = "signout" /\ proto = "CheckPoint")
          BY <4>4 DEF Leaving
        <5> QED
          BY <3>2, <5>1
      <4> QED
        BY <2>3, <4>1, <4>2, <4>3, <4>4 DEF Move
    <3>4. result' \in Results /\ (result' = "none" <=> step' \in Steps \ {"signout"})
      <4>1. CASE Onward
        BY <3>2, <4>1 DEF Onward
      <4>2. CASE Failure
        BY <3>2, <4>2 DEF Failure, Errors
      <4>3. CASE Session
        BY <3>2, <4>3 DEF Session
      <4>4. CASE Leaving
        BY <3>2, <4>4 DEF Leaving
      <4> QED
        BY <2>3, <4>1, <4>2, <4>3, <4>4 DEF Move
    <3> QED
      BY <3>1, <3>3, <3>4
  <2>4. step' # step \/ result' = result
    BY <2>1 DEF Moves, Move, Onward, Failure, Session, Leaving, Steps, FortiSteps
  <2> QED
    BY <2>1, <2>2, <2>3, <2>4 DEF Moves
<1> QED
  BY <1>1, <1>2, PTL DEF Spec

(***************************************************************************)
(* The session of a Check Point gateway is signed out on every way out of  *)
(* connect_checkpoint, and by the probe after a completed handshake: no    *)
(* attempt that holds a session_id ends from anywhere but the sign-out.    *)
(***************************************************************************)
THEOREM CheckPointSignOutAttempted == Spec => SignOutAttempted
<1>1. Staged /\ [Next]_vars =>
        [step' = "ended" /\ proto = "CheckPoint" /\ sid
           /\ (mode = "connect" \/ result' = "ok") => step = "signout"]_vars
  <2> SUFFICES ASSUME Staged, [Next]_vars, step' = "ended", proto = "CheckPoint", sid,
                      mode = "connect" \/ result' = "ok",
                      vars' # vars
               PROVE  step = "signout"
    OBVIOUS
  <2>1. Moves
    BY NextMoves
  <2>2. step \in {"hello", "signout", "up", "ended"}
    BY DEF Staged, StepsOf
  <2>3. CASE step = "ended"
    <3>1. UNCHANGED vars
      BY <2>1, <2>3 DEF Moves, Move, Onward, Failure, Session, Leaving, Steps, FortiSteps
    <3> QED
      BY <3>1
  <2>4. CASE step = "hello"
    BY <2>1, <2>4 DEF Moves, Move, Onward, Failure, Session, Leaving, SignsOut, Errors,
       Steps, FortiSteps
  <2>5. CASE step = "up"
    BY <2>1, <2>5 DEF Moves, Move, Onward, Failure, Session, Leaving, SignsOut, Staged,
       Steps, FortiSteps
  <2> QED
    BY <2>2, <2>3, <2>4, <2>5
<1> QED
  BY <1>1, StagedInvariant, PTL DEF Spec, SignOutAttempted

(***************************************************************************)
(* The handshake implements Attempt, for every protocol, reply and cut of  *)
(* the stream into reads: whatever is lost, retried or refused on the way, *)
(* it goes through its stages in order with one outcome, and a permanent   *)
(* one only where credentials are at stake.                                *)
(***************************************************************************)
THEOREM HandshakeImplementsAttempt == Spec => ImplementsAttempt
<1>1. Init => Abstract!Init
  BY DEF Init, Abstract!Init, StageOf, OutcomeOf, FirstStep
<1>2. Staged /\ [Next]_vars => [Abstract!Next]_(Abstract!vars)
  <2> SUFFICES ASSUME Staged, [Next]_vars
               PROVE  [Abstract!Next]_(Abstract!vars)
    OBVIOUS
  <2>1. Moves
    BY NextMoves
  <2>2. UNCHANGED <<proto, mode>>
    BY <2>1 DEF Moves
  <2>3. CASE UNCHANGED <<step, result>>
    BY <2>2, <2>3 DEF Abstract!vars, StageOf, OutcomeOf
  <2>4. CASE Onward
    <3>1. CASE StageOf(step') = StageOf(step)
      BY <2>2, <2>4, <3>1 DEF Abstract!vars, Onward, OutcomeOf
    <3>2. CASE StageOf(step') # StageOf(step)
      BY <2>2, <2>4, <3>2 DEF Abstract!Next, Abstract!Authenticate, Onward, StageOf,
         OutcomeOf
    <3> QED
      BY <3>1, <3>2
  <2>5. CASE Failure
    <3>1. OutcomeOf(result') = IF result' = "auth" THEN "permanent" ELSE "transient"
      BY <2>5 DEF Failure, Errors, OutcomeOf
    <3>2. CASE StageOf(step) = "auth"
      BY <2>2, <2>5, <3>1, <3>2 DEF Abstract!Next, Abstract!AuthFails,
         Abstract!AuthErrors, Failure, StageOf
    <3>3. CASE StageOf(step) # "auth"
      <4>1. step \in {"cstp", "index", "alloc", "xml", "tunnel", "hello"}
        BY <2>5, <3>3 DEF Failure, Steps, FortiSteps, StageOf
      <4>2. /\ step = "tunnel" => proto = "FortiGate"
            /\ step = "hello" => proto = "CheckPoint"
        BY DEF Staged, StepsOf, FortiSteps
      <4>3. StageOf(step) = "session"
        BY <4>1 DEF StageOf
      <4>4. StageOf(step') = "done" \/ (proto = "CheckPoint" /\ StageOf(step') = "signout")
        BY <2>5, <4>2 DEF Failure, StageOf
      <4>5. OutcomeOf(result') \in Abstract!SessionErrors
        BY <2>5, <3>1, <4>1, <4>2 DEF Failure, Abstract!SessionErrors
      <4> QED
        BY <2>2, <4>3, <4>4, <4>5 DEF Abstract!Next, Abstract!SessionEnds, Abstract!Left
    <3> QED
      BY <3>2, <3>3
  <2>6. CASE Session
    <3>1. StageOf(step) = "session" /\ OutcomeOf(result') = "ok"
      BY <2>6 DEF Session, StageOf, OutcomeOf
    <3>2. \/ StageOf(step') \in {"up", "done"}
          \/ proto = "CheckPoint" /\ StageOf(step') = "signout"
      BY <2>6 DEF Session, StageOf
    <3> QED
      BY <2>2, <3>1, <3>2 DEF Abstract!Next, Abstract!SessionUp, Abstract!SessionEnds,
         Abstract!Left
  <2>7. CASE Leaving
    <3>1. UNCHANGED OutcomeOf(result)
      BY <2>7 DEF Leaving, OutcomeOf
    <3>2. CASE step = "up"
      BY <2>2, <2>7, <3>1, <3>2 DEF Leaving, StageOf, Abstract!Next,
         Abstract!TunnelEnds, Abstract!Left
    <3>3. CASE step = "signout"
      BY <2>2, <2>7, <3>1, <3>3 DEF Leaving, StageOf, Abstract!Next, Abstract!SignOut
    <3> QED
      BY <2>7, <3>2, <3>3 DEF Leaving
  <2> QED
    BY <2>1, <2>3, <2>4, <2>5, <2>6, <2>7 DEF Moves, Move
<1> QED
  BY <1>1, <1>2, StagedInvariant, PTL DEF Spec, ImplementsAttempt, Abstract!Spec

-------------------------------------------------------------------------------
(***************************************************************************)
(* The replies.  On the connection in use there is at most one head that   *)
(* was not acted upon, and it is of the request being made: the next       *)
(* request goes out on the same connection only once the head is read, and *)
(* what may be left of a reply then is no head.  So a head stands for what *)
(* the gateway has decided last; Check Point's login looks at the body     *)
(* too, on a connection that has carried nothing else.                     *)
(***************************************************************************)
LoginSteps == {"login", "hostcheck", "auth", "userpass"}
Granting == {"grant", "grantnoid"}

Parts == {"head", "body", "crlf", "data"}
OwnUnits == [part : Parts, of : UNION {Replies(s) : s \in StepsOf[proto]}]
Headless == {u \in OwnUnits : u.part # "head"}
Current ==
    {u \in OwnUnits :
        /\ u.part = "head" => u.of.step = step
        /\ u.part = "head" \/ step = "userpass" =>
              (step \in LoginSteps /\ u.of.verdict \in Granting => login = "granted")
        /\ u.part = "head" /\ (u.of.verdict = "config" \/ u.of.step = "hello") =>
              u.of.config = sent}

OneHead(s) ==
    \A i, j \in 1 .. Len(s) : s[i].part = "head" /\ s[j].part = "head" => i = j

Stream ==
    /\ wire \in Seq(Current) /\ buf \in Seq(Current)
    /\ OneHead(wire)
    /\ wire \in Seq(Headless) \/ buf \in Seq(Headless)
    /\ phase = "send" => buf = <<>> /\ wire \in Seq(Headless)
    /\ inbox # "none" =>
          /\ inbox = step /\ phase # "send" /\ conn = "open"
          /\ wire \in Seq(Headless) /\ buf \in Seq(Headless)
    /\ step = "userpass" /\ (phase = "send" \/ inbox # "none") => wire = <<>> /\ buf = <<>>

(* A reply is to the request it answers, and its cookies go with a grant. *)
LEMMA FortiReplyShape ==
    ASSUME NEW s \in FortiSteps, NEW r \in FortiReplies(s)
    PROVE  r.step = s /\ (s \in LoginSteps /\ CookieOf(r) # 0 => r.verdict = "grant")
<1> DEFINE G(lists) == WithCookies(Reply(s, "grant"), lists)
           Plain == {Reply(s, v) : v \in {"refuse", "failure", "twofactor", "page"}}
<1>1. ASSUME NEW q \in G(Issuing) \cup WithCookies(Reply(s, "hostcheck"), Deleting)
                        \cup Plain,
             NEW d, NEW c, r = Framed(q, d, c)
      PROVE  r.step = s /\ (CookieOf(r) # 0 => r.verdict = "grant")
  <2>1. CASE q \in G(Issuing)
    BY <1>1, <2>1 DEF WithCookies, Reply, Framed
  <2>2. CASE q \in WithCookies(Reply(s, "hostcheck"), Deleting)
    BY <1>1, <2>2 DEF WithCookies, Deleting, CookieOf, Reply, Framed
  <2>3. CASE q \in Plain
    BY <1>1, <2>3 DEF CookieOf, Reply, Framed
  <2> QED
    BY <1>1, <2>1, <2>2, <2>3
<1>2. CASE s = "login"
  <2>1. PICK q \in G(Issuing) \cup WithCookies(Reply(s, "hostcheck"), Deleting)
                     \cup {Reply(s, v) : v \in {"refuse", "failure", "twofactor"}},
             d \in Delims, c \in BOOLEAN : r = Framed(q, d, c)
    <3>1. r \in Delimited(G(Issuing)
                     \cup WithCookies(Reply(s, "hostcheck"), Deleting)
                     \cup {Reply(s, v) : v \in {"refuse", "failure", "twofactor"}})
      BY <1>2 DEF FortiReplies
    <3> QED
      BY <3>1 DEF Delimited
  <2> QED
    BY <1>1, <2>1
<1>3. CASE s = "hostcheck"
  <2>1. PICK q \in G(IssuedAlone) \cup {Reply(s, "refuse"), Reply(s, "failure")},
             d \in Delims, c \in BOOLEAN : r = Framed(q, d, c)
    <3>1. r \in Delimited(G(IssuedAlone) \cup {Reply(s, "refuse"), Reply(s, "failure")})
      BY <1>3 DEF FortiReplies
    <3> QED
      BY <3>1 DEF Delimited
  <2>2. G(IssuedAlone) \subseteq G(Issuing)
    BY DEF WithCookies, Issuing, IssuedAlone
  <2> QED
    BY <1>1, <2>1, <2>2
<1>4. CASE s = "xml"
  BY <1>4 DEF FortiReplies, Ending, WithConfigs, LoginSteps, Reply
<1>5. CASE s \in FortiSteps \ {"login", "hostcheck", "xml"}
  <2>1. r \in Delimited({Reply(s, "page")})
    BY <1>5 DEF FortiReplies
  <2>2. PICK d \in Delims, c \in BOOLEAN : r = Framed(Reply(s, "page"), d, c)
    BY <2>1 DEF Delimited
  <2> QED
    BY <1>1, <2>2
<1> QED
  BY <1>2, <1>3, <1>4, <1>5

LEMMA AnyReplyShape ==
    ASSUME NEW s \in {"init", "auth", "cstp"}, NEW r \in AnyReplies(s)
    PROVE  r.step = s /\ (s = "auth" /\ r.cookies # <<>> => r.verdict = "grant")
<1> USE DEF Reply
<1>1. CASE s = "init"
  BY <1>1 DEF AnyReplies, Ending
<1>2. CASE s = "auth"
  <2>1. PICK q \in WithCookies(Reply(s, "grant"), IssuedAlone) \cup {Reply(s, "refuse")} :
             r = [q EXCEPT !.delim = "length"]
    BY <1>2 DEF AnyReplies, Ending
  <2>2. CASE q \in WithCookies(Reply(s, "grant"), IssuedAlone)
    BY <2>1, <2>2 DEF WithCookies
  <2>3. CASE q = Reply(s, "refuse")
    BY <2>1, <2>3
  <2> QED
    BY <2>1, <2>2, <2>3
<1>3. CASE s = "cstp"
  BY <1>3 DEF AnyReplies
<1> QED
  BY <1>1, <1>2, <1>3

LEMMA CheckReplyShape ==
    ASSUME NEW s \in {"userpass", "hello", "signout"}, NEW r \in CheckReplies(s)
    PROVE  r.step = s
<1> USE DEF Reply
<1>1. CASE s = "userpass"
  BY <1>1 DEF CheckReplies, Ending
<1>2. CASE s = "hello"
  BY <1>2 DEF CheckReplies, WithConfigs
<1>3. CASE s = "signout"
  BY <1>3 DEF CheckReplies, Ending
<1> QED
  BY <1>1, <1>2, <1>3

LEMMA ReplyShape ==
    ASSUME proto \in Protocols, NEW s \in StepsOf[proto], NEW r \in Replies(s)
    PROVE  /\ r.step = s
           /\ proto = "FortiGate" /\ s \in LoginSteps /\ CookieOf(r) # 0 => r.verdict = "grant"
           /\ s = "auth" /\ r.cookies # <<>> => r.verdict = "grant"
<1>1. CASE proto = "FortiGate"
  BY <1>1, FortiReplyShape DEF StepsOf, Replies, FortiSteps
<1>2. CASE proto = "AnyConnect"
  BY <1>2, AnyReplyShape DEF StepsOf, Replies
<1>3. CASE proto = "CheckPoint"
  BY <1>3, CheckReplyShape DEF StepsOf, Replies
<1> QED
  BY <1>1, <1>2, <1>3

(* A reply has one head, which only stray data frames precede. *)
Pieces(r) == [part : Parts, of : {r}]

LEMMA UnitsShape ==
    ASSUME NEW r
    PROVE  /\ Units(r) \in Seq(Pieces(r)) /\ OneHead(Units(r))
           /\ \A n \in Nat : Stray(n, r) \in Seq({u \in Pieces(r) : u.part # "head"})
<1>1. \A p \in Parts : Unit(p, r) \in Pieces(r) /\ Unit(p, r).part = p
  BY DEF Unit, Pieces
<1>2. ASSUME NEW n \in Nat
      PROVE  Stray(n, r) \in Seq({u \in Pieces(r) : u.part # "head"})
  BY <1>1 DEF Stray, Parts
<1>3. ASSUME NEW h \in Pieces(r), NEW b \in Pieces(r), NEW c \in Pieces(r),
             h.part = "head", b.part # "head", c.part # "head",
             NEW s \in {<<h>>, <<h, b>>, <<h, b, c>>}
      PROVE  s \in Seq(Pieces(r)) /\ OneHead(s)
  <2>1. s \in Seq(Pieces(r))
    <3>1. CASE s = <<h>>
      BY <3>1
    <3>2. CASE s = <<h, b>>
      BY <3>2
    <3>3. CASE s = <<h, b, c>>
      BY <3>3
    <3> QED
      BY <1>3, <3>1, <3>2, <3>3
  <2>2. \A i \in 1 .. Len(s) : s[i].part = "head" => i = 1
    <3>1. CASE s = <<h>>
      BY <3>1
    <3>2. CASE s = <<h, b>>
      BY <1>3, <3>2
    <3>3. CASE s = <<h, b, c>>
      BY <1>3, <3>3
    <3> QED
      BY <1>3, <3>1, <3>2, <3>3
  <2> QED
    BY <2>1, <2>2 DEF OneHead
<1>4. Units(r) \in {<<Unit("head", r)>>, <<Unit("head", r), Unit("body", r)>>,
                   <<Unit("head", r), Unit("body", r), Unit("crlf", r)>>}
  BY DEF Units
<1>5. \A p \in {"head", "body", "crlf"} : p \in Parts
  BY DEF Parts
<1>6. Units(r) \in Seq(Pieces(r)) /\ OneHead(Units(r))
  <2> DEFINE h == Unit("head", r)
             b == Unit("body", r)
             c == Unit("crlf", r)
  <2>1. /\ h \in Pieces(r) /\ b \in Pieces(r) /\ c \in Pieces(r)
        /\ h.part = "head" /\ b.part # "head" /\ c.part # "head"
    BY <1>1, <1>5
  <2>2. Units(r) \in {<<h>>, <<h, b>>, <<h, b, c>>}
    BY <1>4
  <2> HIDE DEF h, b, c
  <2> QED
    BY <1>3, <2>1, <2>2
<1> QED
  BY <1>2, <1>6

LEMMA OneHeadAfter ==
    ASSUME NEW S, NEW a \in Seq(S), NEW b \in Seq(S), OneHead(b),
           \A i \in 1 .. Len(a) : a[i].part # "head"
    PROVE  OneHead(a \o b)
<1>1. ASSUME NEW i \in 1 .. Len(a \o b), (a \o b)[i].part = "head"
      PROVE  i - Len(a) \in 1 .. Len(b) /\ (a \o b)[i] = b[i - Len(a)]
  BY <1>1
<1>2. ASSUME NEW i \in 1 .. Len(a \o b), NEW j \in 1 .. Len(a \o b),
             (a \o b)[i].part = "head", (a \o b)[j].part = "head"
      PROVE  i = j
  <2>1. b[i - Len(a)].part = "head" /\ b[j - Len(a)].part = "head"
    BY <1>1, <1>2
  <2>2. i - Len(a) \in 1 .. Len(b) /\ j - Len(a) \in 1 .. Len(b)
    BY <1>1, <1>2
  <2>3. i - Len(a) = j - Len(a)
    BY <2>1, <2>2 DEF OneHead
  <2> QED
    BY <2>3
<1> QED
  BY <1>2 DEF OneHead

LEMMA OneHeadPart ==
    ASSUME NEW S, NEW s \in Seq(S), OneHead(s), NEW n \in 0 .. Len(s)
    PROVE  /\ OneHead(SubSeq(s, 1, n)) /\ OneHead(SubSeq(s, n + 1, Len(s)))
           /\ \/ \A i \in 1 .. Len(SubSeq(s, 1, n)) : SubSeq(s, 1, n)[i].part # "head"
              \/ \A i \in 1 .. Len(SubSeq(s, n + 1, Len(s))) :
                    SubSeq(s, n + 1, Len(s))[i].part # "head"
<1> DEFINE p == SubSeq(s, 1, n)
           q == SubSeq(s, n + 1, Len(s))
<1>1. Len(p) = n /\ \A i \in 1 .. n : p[i] = s[i]
  OBVIOUS
<1>2. Len(q) = Len(s) - n /\ \A i \in 1 .. Len(s) - n : q[i] = s[i + n]
  OBVIOUS
<1> HIDE DEF p, q
<1>3. OneHead(p)
  BY <1>1 DEF OneHead
<1>4. OneHead(q)
  <2>1. \A i \in 1 .. Len(q) : i + n \in 1 .. Len(s) /\ q[i] = s[i + n]
    BY <1>2
  <2>2. ASSUME NEW i \in 1 .. Len(q), NEW j \in 1 .. Len(q), i + n = j + n PROVE i = j
    BY <1>2, <2>2
  <2> QED
    BY <2>1, <2>2 DEF OneHead
<1>5. ASSUME NEW i \in 1 .. Len(p), NEW j \in 1 .. Len(q), p[i].part = "head",
             q[j].part = "head"
      PROVE  FALSE
  BY <1>1, <1>2, <1>5 DEF OneHead
<1> QED
  BY <1>3, <1>4, <1>5 DEF p, q

(* How the client leaves a request: with a new connection to be made, or on the
   same one, the head of the reply read or nothing left to read. *)
Cleared ==
    /\ wire' = <<>> /\ buf' = <<>> /\ conn' = "none" /\ inbox' = "none" /\ phase' = "send"
    /\ UNCHANGED <<login, tunnel, sent>>
Carried ==
    /\ UNCHANGED <<wire, inbox, conn, login, tunnel, sent>>
    /\ buf' = <<>> /\ phase' = "send" /\ step' # "userpass"
    /\ phase = "send" \/ HasHead \/ (wire = <<>> /\ conn = "closed")

(* Attempts are counted within a request. *)
Counted ==
    attempt' \in {0, attempt} \/ (attempt' = 1 /\ IsHttp /\ step' = step)
Left == Counted /\ (Cleared \/ Carried) /\ (attempt' # 0 => step' = step)

LEMMA LeftByFailure ==
    ASSUME Staged, NEW e, RequestFails(e) \/ StepFails(e) \/ (IsHttp /\ HttpError(e))
    PROVE  Left
<1> USE DEF GoTo, Dropped, decisions, Left, Counted, Cleared
<1>1. CASE Return(e)
  BY <1>1 DEF Return
<1>2. CASE RequestFails(e)
  BY <1>1, <1>2 DEF RequestFails
<1>3. CASE StepFails(e)
  BY <1>1, <1>3 DEF StepFails
<1>4. CASE HttpError(e) /\ IsHttp
  BY <1>2, <1>4 DEF HttpError, AfterError
<1> QED
  BY <1>2, <1>3, <1>4

LEMMA LeftByReply ==
    ASSUME Staged, IsHttp, HasHead, NEW r, NEW whole \in BOOLEAN, OnHttpReply(r, whole)
    PROVE  Left
<1> USE DEF GoTo, Dropped, decisions, Left, Counted
<1>1. ASSUME NEW e, Return(e) PROVE Left
  BY <1>1 DEF Return, Cleared
<1>2. ASSUME NEW s \in Steps \ {"userpass"}, NEW c, Continue(s, c, r) PROVE Left
  BY <1>2 DEF Continue, AfterOk, Cleared, Carried
<1>3. CASE step \in {"login", "hostcheck"}
  BY <1>1, <1>2, <1>3 DEF OnHttpReply, OnLogin, OnHostcheck, Steps, FortiSteps
<1>4. CASE step = "xml"
  <2>1. PICK doc : OnXml(r, doc)
    BY <1>4 DEF OnHttpReply
  <2> QED
    BY <1>1, <2>1 DEF OnXml, Cleared
<1>5. CASE step \in {"page", "index", "alloc"}
  <2>1. Continue(NextStep[step], cookie, r)
    BY <1>5 DEF OnHttpReply
  <2>2. NextStep[step] \in Steps \ {"userpass"}
    BY <1>5 DEF NextStep, Steps, FortiSteps
  <2> QED
    BY <1>2, <2>1, <2>2
<1> QED
  BY <1>3, <1>4, <1>5 DEF IsHttp, FortiSteps

LEMMA StreamSteps ==
    ASSUME Staged, [Next]_vars
    PROVE  \/ Left
           \/ SendRequest \/ Read \/ Connect
           \/ GatewayReply \/ GatewayTunnel \/ GatewayClose \/ UNCHANGED vars
<1> USE DEF GoTo, Dropped, decisions
<1>1. ASSUME NEW e, Return(e) PROVE Left
  BY <1>1 DEF Return, Left, Counted, Cleared
<1>2. ASSUME NEW p, Establish(p) PROVE Left
  BY <1>2 DEF Establish, Left, Counted, Cleared
<1>3. CASE AnyInit \/ AnyAuth
  <2>1. proto = "AnyConnect"
    BY <1>3 DEF AnyInit, AnyAuth, Staged, StepsOf, FortiSteps
  <2>2. HasHead \/ (wire = <<>> /\ conn = "closed")
    BY <1>3, <2>1 DEF AnyInit, AnyAuth, ReplyRead, AtEof, Complete
  <2>3. ASSUME NEW s \in {"auth", "cstp"}, NEW c, Proceed(s, c) PROVE Left
    BY <2>2, <2>3 DEF Proceed, Left, Counted, Carried
  <2> QED
    BY <1>1, <1>3, <2>3 DEF AnyInit, AnyAuth
<1>4. CASE AnyCstp
  BY <1>1, <1>2, <1>4 DEF AnyCstp
<1>5. CASE HttpReply
  <2>1. proto = "FortiGate"
    BY <1>5 DEF HttpReply, IsHttp, Staged, StepsOf, FortiSteps
  <2>2. HasHead
    BY <1>5, <2>1 DEF HttpReply, ReplyRead, Complete
  <2> QED
    BY <1>5, <2>2, LeftByReply, LeftByFailure DEF HttpReply
<1>6. CASE HttpEof
  BY <1>6, LeftByReply, LeftByFailure DEF HttpEof
<1>7. CASE CheckUserpass
  BY <1>1, <1>7 DEF CheckUserpass, Left, Counted, Cleared
<1>8. CASE CheckHello
  BY <1>1, <1>2, <1>8 DEF CheckHello
<1>9. CASE CheckSignout
  BY <1>9 DEF CheckSignout, Left, Counted, Cleared
<1>10. CASE ReadTimeout \/ ConnectFails \/ SendFails \/ ReadFails
  BY <1>10, LeftByFailure DEF ReadTimeout, ConnectFails, SendFails, ReadFails, Fails
<1>11. CASE PppUp \/ PppFails
  BY <1>1, <1>2, <1>11 DEF PppUp, PppFails
<1>12. CASE TunnelEnds
  BY <1>12 DEF TunnelEnds, Left, Counted, Carried, Staged, Steps, FortiSteps
<1> QED
  BY <1>3, <1>4, <1>5, <1>6, <1>7, <1>8, <1>9, <1>10, <1>11, <1>12
     DEF Next, Client, Ended

LEMMA SeqIn ==
    ASSUME NEW A, NEW B, A \subseteq B, NEW s \in Seq(A)
    PROVE  s \in Seq(B)
OBVIOUS

LEMMA ConcatIn ==
    ASSUME NEW A, NEW s \in Seq(A), NEW t \in Seq(A)
    PROVE  s \o t \in Seq(A)
OBVIOUS

LEMMA PartIn ==
    ASSUME NEW A, NEW s \in Seq(A), NEW n \in 0 .. Len(s)
    PROVE  /\ SubSeq(s, 1, n) \in Seq(A)
           /\ SubSeq(s, n + 1, Len(s)) \in Seq(A)
OBVIOUS

LEMMA HeadlessFacts ==
    /\ \A s \in Seq(Headless) : \A i \in 1 .. Len(s) : s[i].part # "head"
    /\ \A s \in Seq(Headless) : OneHead(s)
    /\ <<>> \in Seq(Headless) /\ <<>> \in Seq(Current) /\ Len(<<>>) = 0
<1>1. \A s \in Seq(Headless) : \A i \in 1 .. Len(s) : s[i].part # "head"
  BY DEF Headless
<1> QED
  BY <1>1 DEF OneHead

LEMMA CurrentHeadless ==
    ASSUME NEW s \in Seq(Current), \A i \in 1 .. Len(s) : s[i].part # "head"
    PROVE  s \in Seq(Headless)
<1>1. \A i \in 1 .. Len(s) : s[i] \in Headless
  BY DEF Headless, Current
<1> QED
  BY <1>1

LEMMA StreamRead ==
    ASSUME Staged, Stream, Read
    PROVE  Stream'
<1> USE DEF clientVars, dataVars, decisions, SameRun
<1>1. PICK n \in 1 .. Len(wire) :
        buf' = buf \o SubSeq(wire, 1, n) /\ wire' = SubSeq(wire, n + 1, Len(wire))
  BY DEF Read
<1>2. /\ UNCHANGED <<step, phase, conn, inbox, login, proto>> /\ phase = "read"
      /\ Headless' = Headless /\ Current' = Current
  BY DEF Read, Headless, Current, OwnUnits, Replies
<1> DEFINE p == SubSeq(wire, 1, n)
           q == SubSeq(wire, n + 1, Len(wire))
<1>3. wire \in Seq(Current) /\ buf \in Seq(Current) /\ OneHead(wire) /\ n \in 0 .. Len(wire)
  BY DEF Stream
<1>4. p \in Seq(Current) /\ q \in Seq(Current) /\ buf \o p \in Seq(Current)
  BY ONLY <1>3, PartIn, ConcatIn
<1>5. /\ OneHead(q)
      /\ \/ \A i \in 1 .. Len(p) : p[i].part # "head"
         \/ \A i \in 1 .. Len(q) : q[i].part # "head"
  BY ONLY <1>3, OneHeadPart
<1>6. wire \in Seq(Headless) => p \in Seq(Headless) /\ q \in Seq(Headless)
  BY ONLY <1>3, PartIn
<1>7. ~(step = "userpass" /\ inbox # "none")
  BY <1>3, HeadlessFacts DEF Stream
<1> HIDE DEF p, q
<1>8. buf \in Seq(Headless) /\ p \in Seq(Headless) => buf \o p \in Seq(Headless)
  BY ConcatIn
<1>9. q \in Seq(Headless) \/ p \in Seq(Headless)
  BY <1>4, <1>5, CurrentHeadless
<1>10. q \in Seq(Headless) \/ buf \o p \in Seq(Headless)
  BY <1>6, <1>8, <1>9 DEF Stream
<1>11. inbox # "none" => q \in Seq(Headless) /\ buf \o p \in Seq(Headless)
  BY <1>6, <1>8 DEF Stream
<1>12. buf' = buf \o p /\ wire' = q
  BY <1>1 DEF p, q
<1> QED
  BY <1>2, <1>4, <1>5, <1>7, <1>10, <1>11, <1>12 DEF Stream, OneHead

(* The gateway's answer: what is on the connection before it has no head, and it
   is to the request being made. *)
LEMMA StreamReply ==
    ASSUME Staged, Stream, GatewayReply
    PROVE  Stream'
<1> USE DEF clientVars, dataVars, decisions, SameRun
<1>1. PICK r \in Replies(inbox) :
        /\ IF inbox = "hello"
           THEN \E n \in 0 .. MaxStray : wire' = wire \o Stray(n, r) \o Units(r)
           ELSE wire' = wire \o Units(r)
        /\ login' = CASE inbox \in LoginSteps /\
                         r.verdict \in {"grant", "grantnoid", "badkey", "nokey"} -> "granted"
                      [] inbox \in LoginSteps /\
                         r.verdict \in {"refuse", "failure", "twofactor"} -> "refused"
                      [] OTHER -> login
        /\ sent' = IF r.verdict = "config" \/ inbox = "hello" THEN r.config ELSE sent
  BY DEF GatewayReply, LoginSteps
<1>2. /\ UNCHANGED <<step, phase, conn, buf, proto>> /\ inbox' = "none"
      /\ OwnUnits' = OwnUnits /\ Headless' = Headless
  BY DEF GatewayReply, Headless, OwnUnits, Replies
<1>3. /\ inbox = step /\ phase # "send"
      /\ wire \in Seq(Headless) /\ buf \in Seq(Headless)
      /\ step = "userpass" => wire = <<>> /\ buf = <<>>
  BY DEF GatewayReply, Stream
<1>4. step \in StepsOf[proto] /\ proto \in Protocols
  BY <1>3 DEF GatewayReply, Stream, Staged
<1>5. r.step = step /\ r \in UNION {Replies(s) : s \in StepsOf[proto]}
  BY <1>1, <1>3, <1>4, ReplyShape
<1>6. ASSUME step \in LoginSteps, r.verdict \in Granting PROVE login' = "granted"
  <2>1. inbox \in LoginSteps /\ r.verdict \in {"grant", "grantnoid", "badkey", "nokey"}
    BY <1>3, <1>6 DEF Granting
  <2>2. r.verdict \notin {"refuse", "failure", "twofactor"}
    BY <2>1
  <2> QED
    BY ONLY <1>1, <2>1, <2>2
<1>7. Pieces(r) \subseteq Current'
  <2> SUFFICES ASSUME NEW u \in Pieces(r) PROVE u \in Current'
    OBVIOUS
  <2>1. u \in OwnUnits
    BY <1>5 DEF Pieces, OwnUnits
  <2>2. u.of = r
    BY DEF Pieces
  <2>3. u \in OwnUnits' /\ u.of.step = step' /\ step' = step
    BY <1>2, <1>5, <2>1, <2>2
  <2>4. step' \in LoginSteps /\ u.of.verdict \in Granting => login' = "granted"
    BY ONLY <1>6, <2>2, <2>3
  <2>5. u.of.verdict = "config" \/ u.of.step = "hello" => u.of.config = sent'
    BY ONLY <1>1, <1>3, <1>5, <2>2
  <2> QED
    BY <2>3, <2>4, <2>5 DEF Current
<1>8. step # "userpass" => Headless \subseteq Current'
  BY <1>2 DEF Headless, Current
<1>9. buf \in Seq(Current') /\ wire \in Seq(Current')
  BY <1>3, <1>8
<1> DEFINE U == Units(r)
<1>10. U \in Seq(Pieces(r)) /\ OneHead(U)
  BY UnitsShape
<1>11. U \in Seq(Current')
  BY <1>7, <1>10
<1>12. /\ \A i \in 1 .. Len(wire) : wire[i].part # "head"
  BY <1>3, HeadlessFacts
<1> HIDE DEF U
<1>13. wire' \in Seq(Current') /\ OneHead(wire')
  <2>1. CASE inbox = "hello"
    <3>1. PICK n \in 0 .. MaxStray : wire' = wire \o Stray(n, r) \o U
      BY <1>1, <2>1 DEF U
    <3> DEFINE S == Stray(n, r)
    <3>2. n \in Nat
      BY StrayAssumption
    <3>3. S \in Seq({u \in Pieces(r) : u.part # "head"})
      BY <3>2, UnitsShape
    <3> HIDE DEF S
    <3>4. S \in Seq(Current') /\ \A i \in 1 .. Len(S) : S[i].part # "head"
      BY <1>7, <3>3
    <3>5. wire \o S \in Seq(Current') /\ \A i \in 1 .. Len(wire \o S) : (wire \o S)[i].part # "head"
      BY <1>9, <1>12, <3>4
    <3> DEFINE V == wire \o S
    <3>6. wire' = V \o U
      BY <3>1 DEF S
    <3>7. V \in Seq(Current') /\ \A i \in 1 .. Len(V) : V[i].part # "head"
      BY <3>5
    <3> HIDE DEF V
    <3> QED
      BY ONLY <1>10, <1>11, <3>6, <3>7, ConcatIn, OneHeadAfter
  <2>2. CASE inbox # "hello"
    <3>1. wire' = wire \o U
      BY <1>1, <2>2 DEF U
    <3> QED
      BY ONLY <1>9, <1>10, <1>11, <1>12, <3>1, ConcatIn, OneHeadAfter
  <2> QED
    BY <2>1, <2>2
<1> QED
  BY <1>2, <1>3, <1>9, <1>13 DEF Stream, OneHead

LEMMA StreamClose ==
    ASSUME Staged, Stream, GatewayClose
    PROVE  Stream'
<1> USE DEF clientVars, dataVars, decisions, SameRun
<1>1. PICK n \in 0 .. Len(wire) : wire' = SubSeq(wire, 1, n)
  BY DEF GatewayClose
<1>2. /\ UNCHANGED <<step, phase, buf, login, proto>> /\ inbox' = "none"
      /\ Headless' = Headless /\ Current' = Current
  BY DEF GatewayClose, Headless, Current, OwnUnits, Replies
<1> DEFINE p == SubSeq(wire, 1, n)
<1>3. wire \in Seq(Current) /\ OneHead(wire)
  BY DEF Stream
<1>4. p \in Seq(Current)
  BY ONLY <1>3, n \in 0 .. Len(wire), PartIn
<1>5. OneHead(p)
  BY ONLY <1>3, n \in 0 .. Len(wire), OneHeadPart
<1>6. wire \in Seq(Headless) => p \in Seq(Headless)
  BY ONLY n \in 0 .. Len(wire), PartIn
<1>7. wire = <<>> => p = <<>>
  BY <1>3
<1> HIDE DEF p
<1>8. wire' = p
  BY <1>1 DEF p
<1> QED
  BY <1>2, <1>4, <1>5, <1>6, <1>7, <1>8 DEF Stream, OneHead

LEMMA StreamLeft ==
    ASSUME Staged, Stream, Left, proto' = proto
    PROVE  Stream'
<1>1. CASE Cleared
  <2>1. Headless' = Headless
    BY DEF Headless, OwnUnits, Replies
  <2>2. <<>> \in Seq(Headless) /\ <<>> \in Seq(Current') /\ Len(<<>>) = 0
    OBVIOUS
  <2> QED
    BY <1>1, <2>1, <2>2 DEF Cleared, Stream, OneHead
<1>2. CASE Carried
  <2>1. Headless' = Headless
    BY DEF Headless, OwnUnits, Replies
  <2>2. Headless \subseteq Current'
    BY <1>2, <2>1 DEF Carried, Headless, Current
  <2>3. HasHead => buf \notin Seq(Headless)
    BY HeadlessFacts DEF HasHead
  <2>4. inbox = "none" /\ wire \in Seq(Headless)
    BY <1>2, <2>3, HeadlessFacts DEF Carried, Stream
  <2>5. wire \in Seq(Current') /\ <<>> \in Seq(Current') /\ <<>> \in Seq(Headless)
    BY <2>2, <2>4
  <2> QED
    BY <1>2, <2>1, <2>4, <2>5, HeadlessFacts DEF Carried, Stream, OneHead
<1> QED
  BY <1>1, <1>2 DEF Left

LEMMA StreamInvariant == Spec => []Stream
<1>1. Init => Stream
  <2>1. <<>> \in Seq(Headless) /\ <<>> \in Seq(Current) /\ Len(<<>>) = 0
    OBVIOUS
  <2> QED
    BY <2>1 DEF Init, Stream, OneHead
<1>2. Staged /\ Stream /\ [Next]_vars => Stream'
  <2> SUFFICES ASSUME Staged, Stream, [Next]_vars
               PROVE  Stream'
    OBVIOUS
  <2> USE DEF clientVars, dataVars, decisions, SameRun
  <2>1. proto' = proto
    BY NextMoves DEF Moves
  <2>2. CASE SendRequest
    <3>1. Headless' = Headless /\ Current' = Current
      BY <2>2 DEF SendRequest, Headless, Current, OwnUnits, Replies
    <3> QED
      BY <2>2, <3>1, HeadlessFacts DEF SendRequest, Stream, OneHead
  <2>3. CASE Connect \/ GatewayTunnel
    <3>1. Headless' = Headless /\ Current' = Current
      BY <2>3 DEF Connect, GatewayTunnel, Headless, Current, OwnUnits, Replies
    <3> QED
      BY <2>3, <3>1 DEF Connect, GatewayTunnel, Stream, OneHead
  <2>4. CASE UNCHANGED vars
    <3>1. Headless' = Headless /\ Current' = Current
      BY <2>4 DEF vars, Headless, Current, OwnUnits, Replies
    <3> QED
      BY <2>4, <3>1 DEF vars, Stream, OneHead
  <2> QED
    BY <2>1, <2>2, <2>3, <2>4, StreamSteps, StreamLeft, StreamRead, StreamReply, StreamClose
<1> QED
  BY <1>1, <1>2, StagedInvariant, PTL DEF Spec

(***************************************************************************)
(* The client acts on the reply to the request it has made, never on one   *)
(* that was under way for an earlier request, for every way the gateway    *)
(* may cut its answers into reads, delimit them, or close.                 *)
(***************************************************************************)
THEOREM ActsOnOwnReply == Spec => []ReplyMatches
<1>1. Stream => ReplyMatches
  <2> SUFFICES ASSUME Stream, NEW i \in DOMAIN buf, buf[i].part = "head"
               PROVE  buf[i].of.step = step
    BY DEF ReplyMatches
  <2>1. buf[i] \in Current
    BY DEF Stream
  <2> QED
    BY <2>1 DEF Current
<1> QED
  BY <1>1, StreamInvariant, PTL

-------------------------------------------------------------------------------
(* The cookie.  What is past the login, and how a step gets there or stays. *)
PastLogin == {"index", "alloc", "xml", "tunnel", "cstp", "hello", "up"}
Entitled ==
    /\ cookie' \in {0, 1, cookie} /\ sid' \in {sid, TRUE, FALSE}
    /\ step' \in PastLogin =>
          \/ cookie' = 1 /\ login' = "granted"
          \/ step \in PastLogin /\ UNCHANGED <<cookie, login>>

LEMMA HeadIsReply ==
    ASSUME Staged, Stream, step \in Steps, NEW i \in DOMAIN buf, buf[i].part = "head"
    PROVE  /\ buf[i].of \in Replies(step)
           /\ step \in LoginSteps /\ buf[i].of.verdict \in Granting => login = "granted"
<1>1. buf[i] \in Current
  BY DEF Stream
<1>2. PICK s \in StepsOf[proto] : buf[i].of \in Replies(s)
  BY <1>1 DEF Current, OwnUnits
<1>3. buf[i].of.step = s
  BY <1>2, ReplyShape DEF Staged
<1> QED
  BY <1>1, <1>2, <1>3 DEF Current

LEMMA EntitledByFailure ==
    ASSUME Staged, NEW e, RequestFails(e) \/ StepFails(e) \/ HttpError(e) \/ Return(e)
    PROVE  Entitled
<1> USE DEF GoTo, decisions, dataVars, Entitled, PastLogin
<1>1. CASE Return(e)
  BY <1>1 DEF Return
<1>2. CASE RequestFails(e)
  <2>1. CASE step \in {"page", "index", "alloc"}
    <3>1. step' = NextStep[step] /\ UNCHANGED <<cookie, sid, login>>
      BY <1>2, <2>1 DEF RequestFails
    <3>2. step' \in PastLogin => step \in PastLogin
      BY <2>1, <3>1 DEF NextStep
    <3> QED
      BY <3>1, <3>2
  <2> QED
    BY <1>1, <1>2, <2>1 DEF RequestFails
<1>3. CASE StepFails(e)
  BY <1>1, <1>3 DEF StepFails
<1>4. CASE HttpError(e)
  BY <1>2, <1>4 DEF HttpError
<1> QED
  BY <1>1, <1>2, <1>3, <1>4

LEMMA EntitledByReply ==
    ASSUME Staged, Stream, IsHttp, 1 \in DOMAIN buf, buf[1].part = "head",
           NEW whole \in BOOLEAN, OnHttpReply(buf[1].of, whole)
    PROVE  Entitled
<1> DEFINE r == buf[1].of
<1> USE DEF IsHttp, FortiSteps
<1>1. proto = "FortiGate" /\ step \in StepsOf[proto] /\ step \in Steps
  BY DEF Staged, StepsOf, Steps
<1>2. /\ r \in Replies(step)
      /\ step \in LoginSteps /\ r.verdict \in Granting => login = "granted"
  BY <1>1, HeadIsReply
<1> HIDE DEF r
<1>3. CookieOf(r) \in {0, 1} /\ (step \in LoginSteps /\ CookieOf(r) # 0 => login = "granted")
  BY <1>1, <1>2, ReplyShape DEF CookieOf, Granting, Staged
<1>4. CASE step \in {"login", "hostcheck"}
  <2>1. OnLogin(r, whole) \/ OnHostcheck(r)
    BY <1>4 DEF OnHttpReply, r
  <2>2. CASE Return("auth")
    BY <2>2, EntitledByFailure
  <2>3. CASE CookieOf(r) # 0 /\ Continue("index", CookieOf(r), r)
    BY <1>3, <1>4, <2>3 DEF Continue, GoTo, decisions, Entitled, LoginSteps
  <2>4. CASE Continue("hostcheck", 0, r)
    BY <2>4 DEF Continue, GoTo, Entitled, PastLogin
  <2> QED
    BY <2>1, <2>2, <2>3, <2>4 DEF OnLogin, OnHostcheck
<1>5. CASE step = "xml"
  <2>1. PICK doc : OnXml(r, doc)
    BY <1>5 DEF OnHttpReply, r
  <2> QED
    BY <1>5, <2>1, EntitledByFailure DEF OnXml, GoTo, decisions, Entitled, PastLogin
<1>6. CASE step \in {"page", "index", "alloc"}
  <2>1. Continue(NextStep[step], cookie, r)
    BY <1>6 DEF OnHttpReply, r
  <2> QED
    BY <1>6, <2>1 DEF Continue, NextStep, GoTo, decisions, Entitled, PastLogin
<1> QED
  BY <1>4, <1>5, <1>6

LEMMA NextEntitled ==
    ASSUME Staged, Stream, [Next]_vars
    PROVE  Entitled
<1> USE DEF clientVars, dataVars, decisions, GoTo
<1>1. CASE SendRequest \/ Read \/ Connect \/ GatewayTunnel \/ GatewayClose
  BY <1>1 DEF SendRequest, Read, Connect, GatewayTunnel, GatewayClose, Entitled
<1>2. CASE GatewayReply
  <2>1. inbox = step
    BY <1>2 DEF GatewayReply, Stream
  <2>2. step \in PastLogin => UNCHANGED login
    BY <1>2, <2>1 DEF GatewayReply, PastLogin
  <2> QED
    BY <1>2, <2>2 DEF GatewayReply, Entitled
<1>3. CASE AnyInit
  BY <1>3 DEF AnyInit, Proceed, Entitled, PastLogin
<1>4. CASE AnyAuth
  <2>1. CASE Return("auth")
    BY <2>1, EntitledByFailure
  <2>2. CASE ~Return("auth")
    <3>1. PICK i \in DOMAIN buf : buf[i].part = "head" /\ buf[i].of.cookies # <<>>
      BY <1>4, <2>2 DEF AnyAuth
    <3>2. Proceed("cstp", 1) /\ step = "auth" /\ step \in StepsOf[proto] /\ proto \in Protocols
      BY <1>4, <2>2 DEF AnyAuth, Staged
    <3>3. login = "granted"
      BY <3>1, <3>2, HeadIsReply, ReplyShape DEF Granting, LoginSteps, Steps
    <3> QED
      BY <3>2, <3>3 DEF Proceed, Entitled
  <2> QED
    BY <2>1, <2>2
<1>5. ASSUME NEW p, Establish(p), step \in {"cstp", "tunnel", "hello"} PROVE Entitled
  BY <1>5 DEF Establish, Entitled, PastLogin
<1>6. CASE AnyCstp
  BY <1>5, <1>6, EntitledByFailure DEF AnyCstp
<1>7. CASE HttpReply
  <2>1. proto = "FortiGate"
    BY <1>7 DEF HttpReply, IsHttp, Staged, StepsOf, FortiSteps
  <2>2. 1 \in DOMAIN buf
    BY <1>7, <2>1 DEF HttpReply, ReplyRead, Complete, HasHead, Stream
  <2> QED
    BY <1>7, <2>2, EntitledByReply, EntitledByFailure DEF HttpReply
<1>8. CASE HttpEof
  <2>1. HasHead => 1 \in DOMAIN buf
    BY DEF HasHead, Stream
  <2> QED
    BY <1>8, <2>1, EntitledByReply, EntitledByFailure DEF HttpEof
<1>9. CASE CheckUserpass
  <2>1. CASE \E e : Return(e)
    BY <2>1, EntitledByFailure
  <2>2. CASE ~\E e : Return(e)
    <3>1. /\ CccBody \in Granting /\ step = "userpass"
          /\ step' = "hello" /\ cookie' = 1 /\ sid' \in BOOLEAN /\ login' = login
      BY <1>9, <2>2 DEF CheckUserpass, Granting
    <3>2. 1 \in DOMAIN buf /\ buf[1].of.verdict \in Granting
      BY <3>1 DEF CccBody, Stream, Granting
    <3>3. buf[1] \in Current
      BY <3>2 DEF Stream
    <3> QED
      BY <3>1, <3>2, <3>3 DEF Current, LoginSteps, Entitled
  <2> QED
    BY <2>1, <2>2
<1>10. CASE CheckHello
  BY <1>5, <1>10, EntitledByFailure DEF CheckHello
<1>11. CASE CheckSignout
  BY <1>11 DEF CheckSignout, Entitled, PastLogin
<1>12. CASE ReadTimeout \/ ConnectFails \/ SendFails \/ ReadFails
  BY <1>12, EntitledByFailure DEF ReadTimeout, ConnectFails, SendFails, ReadFails, Fails
<1>13. CASE PppUp \/ PppFails
  BY <1>5, <1>13, EntitledByFailure DEF PppUp, PppFails
<1>14. CASE TunnelEnds
  BY <1>14 DEF TunnelEnds, Entitled, PastLogin
<1>15. CASE UNCHANGED vars
  BY <1>15 DEF vars, Entitled
<1> QED
  BY <1>1, <1>2, <1>3, <1>4, <1>6, <1>7, <1>8, <1>9, <1>10, <1>11, <1>12, <1>13,
     <1>14, <1>15 DEF Next, Client, Ended

(***************************************************************************)
(* Past the login the client holds the cookie of a session the gateway has *)
(* granted: never the deletion that goes with a pending host check, nor a  *)
(* cookie of an attempt that was lost and then refused.                    *)
(***************************************************************************)
THEOREM SessionCookieIsIssued == Spec => []CookieIsIssued
<1>1. Init => CookieIsIssued
  BY DEF Init, CookieIsIssued, FirstStep
<1>2. CookieIsIssued /\ Staged /\ Stream /\ [Next]_vars => CookieIsIssued'
  BY NextEntitled DEF CookieIsIssued, Entitled, PastLogin
<1> QED
  BY <1>1, <1>2, StagedInvariant, StreamInvariant, PTL DEF Spec

-------------------------------------------------------------------------------
(* The rest of the type invariant: the counter of attempts and the decisions. *)
Tallies ==
    /\ conn \in {"none", "open", "closed"}
    /\ attempt \in {0, 1} /\ (attempt = 1 => step \in FortiSteps \ {"tunnel"})
    /\ cookie \in {0, 1} /\ sid \in BOOLEAN
    /\ login \in {"none", "granted", "refused"}
    /\ tunnel \in {"none", "granted", "refused"}

LEMMA TalliesInvariant == Spec => []Tallies
<1>1. Init => Tallies
  <2>1. Init => sid \in BOOLEAN
    BY DEF Init
  <2>2. Init => attempt \in {0, 1} /\ attempt # 1
    BY DEF Init
  <2> QED
    BY <2>1, <2>2 DEF Init, Tallies
<1>2. Tallies /\ Staged /\ Stream /\ [Next]_vars => Tallies'
  <2> SUFFICES ASSUME Tallies, Staged, Stream, [Next]_vars
               PROVE  Tallies'
    OBVIOUS
  <2> USE DEF clientVars, dataVars, decisions
  <2>1. cookie' \in {0, 1}
    BY NextEntitled DEF Entitled, Tallies
  <2>2. sid' \in BOOLEAN
    BY NextEntitled DEF Entitled, Tallies
  <2>3. CASE Left
    <3>1. UNCHANGED <<login, tunnel>> /\ conn' \in {conn, "none"}
      BY <2>3 DEF Left, Cleared, Carried
    <3>2. attempt' \in {0, 1} /\ (attempt' = 1 => step' \in FortiSteps \ {"tunnel"})
      BY <2>3 DEF Left, Counted, IsHttp, Tallies
    <3> QED
      BY <2>1, <2>2, <3>1, <3>2 DEF Tallies
  <2>4. CASE SendRequest \/ Read \/ Connect \/ GatewayTunnel \/ GatewayClose
    <3>1. /\ UNCHANGED <<step, attempt, login>> /\ conn' \in {conn, "open", "closed"}
          /\ tunnel' \in {tunnel, "granted", "refused"}
      BY <2>4 DEF SendRequest, Read, Connect, GatewayTunnel, GatewayClose
    <3> QED
      BY <2>1, <2>2, <3>1 DEF Tallies
  <2>5. CASE GatewayReply
    <3>1. UNCHANGED <<step, attempt, conn>>
      BY <2>5 DEF GatewayReply
    <3>2. login' \in {login, "granted", "refused"} /\ tunnel' \in {tunnel, "granted", "refused"}
      BY <2>5 DEF GatewayReply
    <3> QED
      BY <2>1, <2>2, <3>1, <3>2 DEF Tallies
  <2>6. CASE UNCHANGED vars
    BY <2>1, <2>2, <2>6 DEF vars, Tallies
  <2> QED
    BY <2>3, <2>4, <2>5, <2>6, StreamSteps
<1> QED
  BY <1>1, <1>2, StagedInvariant, StreamInvariant, PTL DEF Spec

(***************************************************************************)
(* The type invariant: in particular a second attempt is counted only      *)
(* within a request of HttpSession, an unanswered request has an open      *)
(* connection, and a run that has left the handshake has an outcome.       *)
(***************************************************************************)
THEOREM HandshakeTypes == Spec => []TypeOK
<1>1. Staged /\ Stream /\ Tallies => TypeOK
  <2> SUFFICES ASSUME Staged, Stream, Tallies
               PROVE  TypeOK
    OBVIOUS
  <2>1. step \in Steps \cup {"up", "ended"}
    BY DEF Staged, StepsOf, Steps, FortiSteps
  <2>2. ASSUME NEW u \in OwnUnits
        PROVE  u.part \in Parts /\ u.of.step \in Steps
    <3>1. PICK s \in StepsOf[proto] : u.of \in Replies(s)
      BY DEF OwnUnits
    <3>2. s \in Steps
      BY DEF Staged, StepsOf, Steps, FortiSteps
    <3> QED
      BY <3>1, <3>2, ReplyShape DEF OwnUnits, Staged
  <2>3. \A s \in {wire, buf} : \A i \in DOMAIN s : s[i] \in OwnUnits
    BY DEF Stream, Current
  <2>4. inbox \in Steps \cup {"none"} /\ (inbox # "none" => conn = "open")
    BY DEF Stream, Staged, Steps, FortiSteps
  <2>5. step \in {"up", "ended", "signout"} => result # "none"
    BY DEF Staged, Steps, FortiSteps
  <2>6. /\ proto \in Protocols /\ mode \in Modes
        /\ phase \in {"send", "read", "ppp"} /\ result \in Results
    BY DEF Staged
  <2> QED
    BY <2>1, <2>2, <2>3, <2>4, <2>5, <2>6 DEF TypeOK, Tallies, Parts
<1> QED
  BY <1>1, StagedInvariant, StreamInvariant, TalliesInvariant, PTL

-------------------------------------------------------------------------------
(***************************************************************************)
(* The configuration.  What the client makes of a reply is made of what    *)
(* the gateway has sent last, as far as it was read, and stays as it is    *)
(* until the session is up; SessionConfigProofs says what that is.         *)
(***************************************************************************)
Configured ==
    /\ step = "tunnel" =>
          /\ sent \in Seq(Elements)
          /\ \E n \in 0 .. Len(sent) : params = ParseConfig(SubSeq(sent, 1, n))
    /\ step = "up" /\ proto = "FortiGate" =>
          \E c \in Configs : params = FortiParams(c, PppSession)
    /\ step = "up" /\ proto = "CheckPoint" =>
          /\ sent \in Seq(Ranges)
          /\ params = [routes |-> OrDefault(HelloRoutes(sent))]

(* The steps that set the parameters, and how the others leave them. *)
Parses ==
    /\ step' = "tunnel" /\ UNCHANGED sent
    /\ sent \in Seq(Elements)
    /\ \E n \in 0 .. Len(sent) : params' = ParseConfig(SubSeq(sent, 1, n))
Opens ==
    /\ UNCHANGED sent
    /\ \/ step = "tunnel" /\ params' = FortiParams(params, PppSession)
       \/ proto = "AnyConnect"
       \/ /\ proto = "CheckPoint" /\ sent \in Seq(Ranges)
          /\ params' = [routes |-> OrDefault(HelloRoutes(sent))]
    /\ step' # "tunnel"
Leaves ==
    /\ UNCHANGED <<params, sent>>
    /\ step' = step \/ step' \notin {"tunnel", "up"}
Answers == UNCHANGED <<params, step>> /\ step \notin {"tunnel", "up"}
Settles == Parses \/ Opens \/ Leaves \/ Answers

LEMMA SettledByFailure ==
    ASSUME NEW e, RequestFails(e) \/ StepFails(e) \/ HttpError(e) \/ Return(e)
    PROVE  Settles
<1> USE DEF GoTo, decisions, dataVars, Settles, Leaves
<1>1. CASE Return(e)
  BY <1>1 DEF Return
<1>2. CASE RequestFails(e)
  BY <1>1, <1>2 DEF RequestFails, NextStep
<1>3. CASE StepFails(e)
  BY <1>1, <1>3 DEF StepFails
<1>4. CASE HttpError(e)
  BY <1>2, <1>4 DEF HttpError
<1> QED
  BY <1>1, <1>2, <1>3, <1>4

(* A document that was read whole or in part is a prefix of the one sent. *)
LEMMA XmlReplies ==
    ASSUME NEW r \in FortiReplies("xml"), r.verdict # "refuse"
    PROVE  r.verdict = "config" /\ r.config \in Documents
<1>1. r \in Ending(WithConfigs(Reply("xml", "config"), Documents) \cup {Reply("xml", "refuse")},
                   "length")
  BY DEF FortiReplies
<1>2. PICK q \in WithConfigs(Reply("xml", "config"), Documents) \cup {Reply("xml", "refuse")} :
         r = [q EXCEPT !.delim = "length"]
  BY <1>1 DEF Ending
<1>3. q # Reply("xml", "refuse")
  BY <1>2 DEF Reply
<1>4. PICK d \in Documents : q = [Reply("xml", "config") EXCEPT !.config = d]
  BY <1>2, <1>3 DEF WithConfigs
<1> QED
  BY <1>2, <1>4 DEF Reply

LEMMA HelloReplies ==
    ASSUME NEW r \in CheckReplies("hello"), r.verdict = "grant"
    PROVE  r.config \in RangeLists
<1>1. r \in WithConfigs(Reply("hello", "grant"), RangeLists)
              \cup {Reply("hello", v) : v \in {"disconnect", "noaddress", "malformed"}}
  BY DEF CheckReplies
<1>2. r \notin {Reply("hello", v) : v \in {"disconnect", "noaddress", "malformed"}}
  BY DEF Reply
<1>3. PICK d \in RangeLists : r = [Reply("hello", "grant") EXCEPT !.config = d]
  BY <1>1, <1>2 DEF WithConfigs
<1> QED
  BY <1>3 DEF Reply

LEMMA SettledByReply ==
    ASSUME Staged, Stream, IsHttp, 1 \in DOMAIN buf, buf[1].part = "head",
           NEW whole \in BOOLEAN, OnHttpReply(buf[1].of, whole)
    PROVE  Settles
<1> DEFINE r == buf[1].of
<1> USE DEF IsHttp, FortiSteps
<1>1. proto = "FortiGate" /\ step \in StepsOf[proto] /\ step \in Steps
  BY DEF Staged, StepsOf, Steps
<1>2. r \in Replies(step)
  BY <1>1, HeadIsReply
<1>3. r.verdict = "config" => r.config = sent
  BY DEF Stream, Current
<1> HIDE DEF r
<1>4. ASSUME NEW s, s \notin {"tunnel", "up"}, NEW c, Continue(s, c, r) PROVE Settles
  BY <1>4 DEF Continue, GoTo, decisions, Settles, Leaves
<1>5. CASE step \in {"login", "hostcheck"}
  <2>1. OnLogin(r, whole) \/ OnHostcheck(r)
    BY <1>5 DEF OnHttpReply, r
  <2>2. CASE Return("auth")
    BY <2>2, SettledByFailure
  <2>3. CASE Continue("index", CookieOf(r), r) \/ Continue("hostcheck", 0, r)
    BY <1>4, <2>3
  <2> QED
    BY <2>1, <2>2, <2>3 DEF OnLogin, OnHostcheck
<1>6. CASE step = "xml"
  <2>1. PICK doc : OnXml(r, doc) /\ (doc = r.config \/ \E n \in 0 .. Len(r.config) : doc = SubSeq(r.config, 1, n))
    BY <1>6 DEF OnHttpReply, r
  <2>2. CASE r.verdict = "refuse"
    <3>1. Return("protocol")
      BY <2>1, <2>2 DEF OnXml
    <3> QED
      BY <3>1, SettledByFailure
  <2>3. CASE r.verdict # "refuse"
    <3>1. r.verdict = "config" /\ r.config \in Documents
      BY <1>1, <1>2, <1>6, <2>3, XmlReplies DEF Replies
    <3>2. r.config = sent /\ sent \in Seq(Elements)
      BY <1>3, <3>1, DocumentsAssumption
    <3>3. sent = SubSeq(sent, 1, Len(sent)) /\ Len(sent) \in 0 .. Len(sent)
      BY <3>2
    <3>4. \E n \in 0 .. Len(sent) : doc = SubSeq(sent, 1, n)
      BY <2>1, <3>2, <3>3
    <3>5. step' = "tunnel" /\ params' = ParseConfig(doc) /\ UNCHANGED sent
      BY <2>1, <2>3 DEF OnXml, GoTo, decisions
    <3> QED
      BY <3>2, <3>4, <3>5 DEF Settles, Parses
  <2> QED
    BY <2>2, <2>3
<1>7. CASE step \in {"page", "index", "alloc"}
  <2>1. Continue(NextStep[step], cookie, r)
    BY <1>7 DEF OnHttpReply, r
  <2>2. NextStep[step] \notin {"tunnel", "up"}
    BY <1>7 DEF NextStep
  <2> QED
    BY <1>4, <2>1, <2>2
<1> QED
  BY <1>5, <1>6, <1>7

(* The first control frame is the reply to the hello. *)
LEMMA ControlIsReply ==
    ASSUME Staged, Stream, step = "hello", HasHead, Control.of.verdict = "grant"
    PROVE  Control.of.config = sent /\ sent \in Seq(Ranges)
<1> DEFINE T == {i \in DOMAIN buf : buf[i].part = "head"}
<1>1. T \subseteq Nat /\ T # {}
  BY DEF HasHead, Stream
<1>2. PICK k \in T : \A j \in T : k <= j
  <2> HIDE DEF T
  <2> QED
    BY <1>1, Least
<1>3. k \in DOMAIN buf /\ buf[k].part = "head" /\ DOMAIN buf = 1 .. Len(buf) /\ Len(buf) \in Nat
  BY <1>2 DEF Stream
<1>4. \A j \in 1 .. k - 1 : buf[j].part # "head"
  <2>1. \A j \in 1 .. k - 1 : j \in DOMAIN buf /\ ~(k <= j)
    BY <1>3
  <2> QED
    BY <1>2, <2>1
<1>5. PICK i \in DOMAIN buf : buf[i].part = "head" /\ Control = buf[i]
  BY <1>3, <1>4 DEF Control
<1>6. proto = "CheckPoint"
  BY DEF Staged, StepsOf, FortiSteps
<1>7. buf[i].of \in CheckReplies("hello")
  BY <1>5, <1>6, HeadIsReply DEF Replies, Steps
<1>8. buf[i] \in Current
  BY DEF Stream
<1>9. buf[i].of.config = sent
  BY <1>5, <1>8 DEF Current
<1> QED
  BY <1>5, <1>7, <1>9, HelloReplies, RangeListsAssumption

LEMMA NextSettles ==
    ASSUME Staged, Stream, [Next]_vars
    PROVE  Settles
<1> USE DEF clientVars, dataVars, decisions, GoTo
<1>1. CASE SendRequest \/ Read \/ Connect \/ GatewayTunnel \/ GatewayClose
  BY <1>1 DEF SendRequest, Read, Connect, GatewayTunnel, GatewayClose, Settles, Leaves
<1>2. CASE GatewayReply
  <2>1. inbox = step /\ step \in Steps \ {"tunnel"}
    BY <1>2 DEF GatewayReply, Stream, Staged
  <2> QED
    BY <1>2, <2>1 DEF GatewayReply, Settles, Answers, Steps, FortiSteps
<1>3. CASE AnyInit \/ AnyAuth
  BY <1>3, SettledByFailure DEF AnyInit, AnyAuth, Proceed, Settles, Leaves
<1>4. ASSUME NEW p, Establish(p)
      PROVE  UNCHANGED sent /\ params' = p /\ step' # "tunnel"
  BY <1>4 DEF Establish
<1>5. CASE AnyCstp
  <2>1. proto = "AnyConnect"
    BY <1>5 DEF AnyCstp, Staged, StepsOf, FortiSteps
  <2> QED
    BY <1>4, <1>5, <2>1, SettledByFailure DEF AnyCstp, Settles, Opens
<1>6. CASE HttpReply
  <2>1. proto = "FortiGate"
    BY <1>6 DEF HttpReply, IsHttp, Staged, StepsOf, FortiSteps
  <2>2. 1 \in DOMAIN buf
    BY <1>6, <2>1 DEF HttpReply, ReplyRead, Complete, HasHead, Stream
  <2> QED
    BY <1>6, <2>2, SettledByReply, SettledByFailure DEF HttpReply
<1>7. CASE HttpEof
  <2>1. HasHead => 1 \in DOMAIN buf
    BY DEF HasHead, Stream
  <2> QED
    BY <1>7, <2>1, SettledByReply, SettledByFailure DEF HttpEof
<1>8. CASE CheckUserpass
  BY <1>8, SettledByFailure DEF CheckUserpass, Settles, Leaves
<1>9. CASE CheckHello
  <2>1. proto = "CheckPoint" /\ step = "hello"
    BY <1>9 DEF CheckHello, Staged, StepsOf, FortiSteps
  <2>2. CASE \E e : Return(e)
    BY <2>2, SettledByFailure
  <2>3. CASE ~\E e : Return(e)
    <3>1. /\ ReplyRead /\ Control.of.verdict = "grant"
          /\ Establish([routes |-> OrDefault(HelloRoutes(Control.of.config))])
      BY <1>9, <2>3 DEF CheckHello
    <3>2. HasHead
      BY <2>1, <3>1 DEF ReplyRead, Complete
    <3>3. Control.of.config = sent /\ sent \in Seq(Ranges)
      BY <2>1, <3>1, <3>2, ControlIsReply
    <3> QED
      BY <1>4, <2>1, <3>1, <3>3 DEF Settles, Opens
  <2> QED
    BY <2>2, <2>3
<1>10. CASE CheckSignout
  BY <1>10 DEF CheckSignout, Settles, Leaves
<1>11. CASE ReadTimeout \/ ConnectFails \/ SendFails \/ ReadFails
  BY <1>11, SettledByFailure DEF ReadTimeout, ConnectFails, SendFails, ReadFails, Fails
<1>12. CASE PppUp
  BY <1>4, <1>12 DEF PppUp, Settles, Opens
<1>13. CASE PppFails
  BY <1>13, SettledByFailure DEF PppFails
<1>14. CASE TunnelEnds
  BY <1>14 DEF TunnelEnds, Settles, Leaves
<1>15. CASE UNCHANGED vars
  BY <1>15 DEF vars, Settles, Leaves
<1> QED
  BY <1>1, <1>2, <1>3, <1>5, <1>6, <1>7, <1>8, <1>9, <1>10, <1>11, <1>12, <1>13,
     <1>14, <1>15 DEF Next, Client, Ended

LEMMA PrefixTyped ==
    ASSUME NEW X, NEW s \in Seq(X), NEW n \in 0 .. Len(s)
    PROVE  SubSeq(s, 1, n) \in Seq(X)
OBVIOUS

LEMMA ConfiguredInvariant == Spec => []Configured
<1>1. Init => Configured
  BY DEF Init, Configured, FirstStep
<1>2. Configured /\ Staged /\ Stream /\ [Next]_vars => Configured'
  <2> SUFFICES ASSUME Configured, Staged, Stream, [Next]_vars
               PROVE  Configured'
    OBVIOUS
  <2>1. proto' = proto
    BY NextMoves DEF Moves
  <2>2. CASE Parses
    BY <2>2 DEF Parses, Configured
  <2>3. CASE Opens
    <3>1. CASE step = "tunnel" /\ params' = FortiParams(params, PppSession)
      <4>1. PICK n \in 0 .. Len(sent) : params = ParseConfig(SubSeq(sent, 1, n))
        BY <3>1 DEF Configured
      <4>2. sent \in Seq(Elements)
        BY <3>1 DEF Configured
      <4>3. SubSeq(sent, 1, n) \in Seq(Elements)
        BY <4>2, PrefixTyped
      <4>4. params \in Configs
        BY <4>1, <4>3, ParseConfigSound
      <4>5. proto = "FortiGate"
        BY <3>1 DEF Staged, StepsOf, FortiSteps
      <4> QED
        BY <2>1, <2>3, <3>1, <4>4, <4>5 DEF Opens, Configured
    <3>2. CASE proto = "AnyConnect"
      BY <2>1, <2>3, <3>2 DEF Opens, Configured
    <3>3. CASE /\ proto = "CheckPoint" /\ sent \in Seq(Ranges)
               /\ params' = [routes |-> OrDefault(HelloRoutes(sent))]
      BY <2>1, <2>3, <3>3 DEF Opens, Configured
    <3> QED
      BY <2>3, <3>1, <3>2, <3>3 DEF Opens
  <2>4. CASE Leaves \/ Answers
    BY <2>1, <2>4 DEF Leaves, Answers, Configured
  <2> QED
    BY <2>2, <2>3, <2>4, NextSettles DEF Settles
<1> QED
  BY <1>1, <1>2, StagedInvariant, StreamInvariant, PTL DEF Spec

(***************************************************************************)
(* A FortiGate session has the routes and exclusions of its document, as   *)
(* far as it was read, for every document and every cut: config.rs and     *)
(* to_session_params; its resolvers are IPCP's first and none twice; and   *)
(* the keepalive suits the idle timeout.                                   *)
(***************************************************************************)
THEOREM FortiGateConfiguration == Spec => []FortiConfigSound
<1>1. Configured => FortiConfigSound
  <2> SUFFICES ASSUME Configured PROVE FortiConfigSound
    OBVIOUS
  <2>1. ASSUME step = "tunnel"
        PROVE  \E n \in 0 .. Len(sent) :
                  LET doc == SubSeq(sent, 1, n) IN
                  /\ RoutesGiven(doc, FALSE) \subseteq ToSet(params.routes)
                  /\ ToSet(params.routes) \subseteq RoutesGiven(doc, FALSE) \cup RoutesAfter(doc)
                  /\ RoutesGiven(doc, TRUE) \subseteq ToSet(params.excludes)
                  /\ ToSet(params.excludes) \subseteq RoutesGiven(doc, TRUE) \cup RoutesAfter(doc)
    <3>1. PICK n \in 0 .. Len(sent) : params = ParseConfig(SubSeq(sent, 1, n))
      BY <2>1 DEF Configured
    <3>2. sent \in Seq(Elements)
      BY <2>1 DEF Configured
    <3>3. SubSeq(sent, 1, n) \in Seq(Elements)
      BY <3>2, PrefixTyped
    <3> QED
      BY <3>1, <3>3, ParseConfigSound
  <2>2. ASSUME step = "up", proto = "FortiGate"
        PROVE  /\ params.keepalive \in 5 .. 60
               /\ params.timeout >= 15 => 3 * params.keepalive <= params.timeout
               /\ IsPrefix(PppSession.dns, params.dns)
               /\ Cardinality(ToSet(params.dns)) = Len(params.dns)
    <3>1. PICK c \in Configs : params = FortiParams(c, PppSession)
      BY <2>2 DEF Configured
    <3> DEFINE a == PppSession.dns
    <3>2. a \in Seq(Int) /\ Distinct(a)
      <4>1. a \in Seq(Addresses) /\ IsInjective(a)
        BY PppSessionAssumption
      <4>2. Addresses \subseteq Int
        BY AddressesNat
      <4> HIDE DEF a
      <4>3. a \in Seq(Int) /\ DOMAIN a = 1 .. Len(a)
        <5>1. a \in Seq(Int)
          BY ONLY <4>1, <4>2, SeqIn, Zenon
        <5> QED
          BY <5>1
      <4> QED
        BY <4>1, <4>3 DEF IsInjective, Distinct
    <3>3. c.dns \in Seq(Int) /\ c.idle \in Int
      BY DEF Configs
    <3>4. /\ params.keepalive = KeepaliveSecs(c.idle) /\ params.timeout = c.idle
          /\ params.dns = Merge(a \o c.dns)
      BY <3>1 DEF FortiParams, SessionDns
    <3> HIDE DEF a
    <3>5. params.dns \in Seq(Int) /\ Distinct(params.dns) /\ IsPrefix(a, params.dns)
      BY <3>2, <3>3, <3>4, MergeKeepsOrder
    <3>6. Cardinality(ToSet(params.dns)) = Len(params.dns)
      BY <3>5, DistinctCount
    <3>7. /\ params.keepalive \in 5 .. 60
          /\ params.timeout >= 15 => 3 * params.keepalive <= params.timeout
      BY <3>3, <3>4, KeepaliveBounds
    <3> QED
      BY <3>5, <3>6, <3>7 DEF a
  <2> QED
    BY <2>1, <2>2 DEF FortiConfigSound
<1> QED
  BY <1>1, ConfiguredInvariant, PTL

(***************************************************************************)
(* The subnets of a Check Point session cover the addresses of the ranges  *)
(* the gateway sent and no other, aligned, for every width of an address   *)
(* and every list of ranges: range_to_subnets and parse_hello_reply.  The  *)
(* route 0.0.0.0/0 is among them exactly if a range is the whole space.    *)
(***************************************************************************)
THEOREM CheckPointRoutes == Spec => []HelloRoutesExact
<1>1. Configured => HelloRoutesExact
  <2> SUFFICES ASSUME Configured, step = "up", proto = "CheckPoint"
               PROVE  IF RangeAddresses(sent) = {} THEN params.routes = DefaultRoutes
                      ELSE /\ UNION {Block(b) : b \in ToSet(params.routes)} = RangeAddresses(sent)
                           /\ \A b \in ToSet(params.routes) : b[1] % Pow2[Bits - b[2]] = 0
                           /\ FullTunnel \in ToSet(params.routes) <=> WholeSpace \in ToSet(sent)
    BY DEF HelloRoutesExact
  <2> DEFINE routes == HelloRoutes(sent)
             A == RangeAddresses(sent)
  <2>1. sent \in Seq(Ranges) /\ params.routes = OrDefault(routes)
    BY DEF Configured
  <2>2. Exact(routes, A)
    BY <2>1, HelloRoutesCover
  <2>5. FullTunnel \in ToSet(routes) <=> WholeSpace \in ToSet(sent)
    BY <2>1, HelloRoutesWhole
  <2> HIDE DEF routes, A
  <2>3. A = {} <=> routes = <<>>
    BY <2>2, HelloRoutesEmpty
  <2>4. params.routes = IF A = {} THEN DefaultRoutes ELSE routes
    BY <2>1, <2>3 DEF OrDefault
  <2> QED
    BY <2>2, <2>4, <2>5 DEF Exact, A
<1> QED
  BY <1>1, ConfiguredInvariant, PTL
===============================================================================
