------------------------------- MODULE PppProofs -------------------------------
(***************************************************************************)
(* Proofs, for every value of the constants, about PppNegotiation: its     *)
(* types, that an identifier stands for one request, that the session uses *)
(* what the gateway has agreed to, and that no early packet is lost.       *)
(***************************************************************************)
EXTENDS PppNegotiation, SequenceTheorems, TLAPS

USE RoundsAssumption, ValuesAssumption, BoundsAssumption

(* Frames, as a set for the sequences of them. *)
OptionLists == UNION {[D -> Optional(Values)] : D \in SUBSET OptionNames}
Frames ==
    {f \in [proto : Protos \cup {"IPV4", "PAP", "BAD", "UNKNOWN", "HTTP"},
            code : Codes \cup Prologues, id : Nat, opts : OptionLists] \cup GatewayFrames :
        IsFrame(f)}

(* The types, with the sequences and the bounds that TypeOK leaves implicit. *)
TypedLoop ==
    /\ pc \in {"LCP", "IPCP", "up", "failed"} /\ result \in Results
    /\ opts \in OptionLists
    /\ rounds \in 0 .. MaxRounds /\ id \in 1 .. rounds + 1
    /\ ours \in BOOLEAN /\ theirs \in BOOLEAN /\ checked \in BOOLEAN
TypedSession ==
    /\ mru \in Optional(Values) /\ address \in Optional(Values)
    /\ peer \in Optional(Values) /\ dns \in Seq(Values)
    /\ early \in Seq(Nat)
TypedStreams ==
    /\ prime \in Seq(Frames) /\ buf \in Seq(Frames)
    /\ c2g \in Seq(Frames) /\ g2c \in Seq(Frames)
    /\ pc \in Protos => prime = <<>>
    /\ \A i \in 1 .. Len(c2g) : c2g[i].code = "ConfReq" => c2g[i].proto \in Protos
TypedGateway ==
    /\ rejects \in GatewayRejects
    /\ answered \in [Protos -> Seq(Frames)]
    /\ \A p \in Protos : answered[p] = <<>> \/ Len(answered[p]) = 2
    /\ granted \in [Protos -> SUBSET OptionLists]
    /\ asked \in [Protos -> 0 .. MaxAsked]
    /\ unasked \in 0 .. MaxUnasked /\ packets \in 0 .. unasked
Typed == TypedLoop /\ TypedSession /\ TypedStreams /\ TypedGateway

LEMMA OptionListFacts ==
    ASSUME NEW o
    PROVE  IsOptions(o, Optional(Values)) <=> o \in OptionLists
<1>1. ASSUME IsOptions(o, Optional(Values)) PROVE o \in OptionLists
  <2> DEFINE D == DOMAIN o
  <2>1. D \in SUBSET OptionNames /\ o \in [D -> Optional(Values)]
    BY <1>1 DEF IsOptions
  <2> HIDE DEF D
  <2> QED
    BY <2>1 DEF OptionLists
<1>2. ASSUME o \in OptionLists PROVE IsOptions(o, Optional(Values))
  <2>1. PICK D \in SUBSET OptionNames : o \in [D -> Optional(Values)]
    BY <1>2 DEF OptionLists
  <2> QED
    BY <2>1 DEF IsOptions
<1> QED
  BY <1>1, <1>2

LEMMA FrameFacts ==
    /\ \A f \in Frames : IsFrame(f) /\ f.opts \in OptionLists
    /\ GatewayFrames \subseteq Frames
    /\ \A p \in Protos \cup {"IPV4", "PAP", "BAD", "UNKNOWN", "HTTP"},
          c \in Codes \cup Prologues, i \in Nat, o \in OptionLists :
             (p # "IPV4" => i < IdMod) /\ (c \in IF p = "HTTP" THEN Prologues ELSE Codes)
               => Frame(p, c, i, o) \in Frames
    /\ \A p, c, i, o : /\ Frame(p, c, i, o).proto = p /\ Frame(p, c, i, o).code = c
                        /\ Frame(p, c, i, o).id = i /\ Frame(p, c, i, o).opts = o
<1>1. \A f \in Frames : IsFrame(f) /\ f.opts \in OptionLists
  BY OptionListFacts DEF Frames, IsFrame
<1>2. GatewayFrames \subseteq Frames
  BY FramesAssumption DEF Frames
<1>3. \A p, c, i, o : /\ Frame(p, c, i, o).proto = p /\ Frame(p, c, i, o).code = c
                      /\ Frame(p, c, i, o).id = i /\ Frame(p, c, i, o).opts = o
  BY DEF Frame
<1>4. ASSUME NEW p \in Protos \cup {"IPV4", "PAP", "BAD", "UNKNOWN", "HTTP"},
             NEW c \in Codes \cup Prologues, NEW i \in Nat, NEW o \in OptionLists,
             p # "IPV4" => i < IdMod, c \in IF p = "HTTP" THEN Prologues ELSE Codes
      PROVE  Frame(p, c, i, o) \in Frames
  <2>1. Frame(p, c, i, o) \in [proto : Protos \cup {"IPV4", "PAP", "BAD", "UNKNOWN", "HTTP"},
            code : Codes \cup Prologues, id : Nat, opts : OptionLists]
    BY DEF Frame
  <2>2. IsFrame(Frame(p, c, i, o))
    BY <1>3, <1>4, OptionListFacts DEF IsFrame
  <2> QED
    BY <2>1, <2>2 DEF Frames
<1> QED
  BY <1>1, <1>2, <1>3, <1>4

LEMMA ControlFrame ==
    ASSUME NEW p \in Protos, NEW c \in Codes, NEW i \in Nat, i < IdMod, NEW o \in OptionLists
    PROVE  /\ Frame(p, c, i, o) \in Frames
           /\ Frame(p, c, i, o).proto = p /\ Frame(p, c, i, o).code = c
           /\ Frame(p, c, i, o).id = i /\ Frame(p, c, i, o).opts = o
BY FrameFacts DEF Protos

LEMMA PacketFrame ==
    ASSUME NEW i \in Nat
    PROVE  /\ Frame("IPV4", "Other", i, NoOptions) \in Frames
           /\ Frame("IPV4", "Other", i, NoOptions).proto = "IPV4"
           /\ Frame("IPV4", "Other", i, NoOptions).code = "Other"
           /\ Frame("IPV4", "Other", i, NoOptions).id = i
<1>1. NoOptions \in OptionLists
  BY OptionListFacts DEF NoOptions, IsOptions
<1>2. "Other" \in Codes
  BY DEF Codes
<1>3. Frame("IPV4", "Other", i, NoOptions) \in Frames
  BY <1>1, <1>2, FrameFacts
<1> QED
  BY <1>3, FrameFacts

LEMMA OptionOperations ==
    ASSUME opts \in OptionLists, NEW o \in OptionLists
    PROVE  /\ NoOptions \in OptionLists /\ LcpRequest \in OptionLists
           /\ IpcpRequest \in OptionLists
           /\ AdoptLcp(o) \in OptionLists /\ AdoptIpcp(o) \in OptionLists
           /\ [n \in DOMAIN opts \ DOMAIN o |-> opts[n]] \in OptionLists
           /\ Unknown(o) \in OptionLists
           /\ \A n \in DOMAIN o : o[n] \in Optional(Values)
<1>1. /\ DOMAIN o \subseteq OptionNames /\ DOMAIN opts \subseteq OptionNames
      /\ \A n \in DOMAIN o : o[n] \in Optional(Values)
      /\ \A n \in DOMAIN opts : opts[n] \in Optional(Values)
  BY OptionListFacts DEF IsOptions
<1>2. NoOptions \in OptionLists
  BY OptionListFacts DEF NoOptions, IsOptions, OptionNames
<1>3. LcpRequest \in OptionLists /\ IpcpRequest \in OptionLists
  BY OptionListFacts DEF LcpRequest, IpcpRequest, IsOptions, OptionNames, LcpOptions,
     IpcpOptions, Optional
<1>4. AdoptLcp(o) \in OptionLists
  BY <1>1, OptionListFacts DEF AdoptLcp, IsOptions
<1>5. AdoptIpcp(o) \in OptionLists
  BY <1>1, OptionListFacts DEF AdoptIpcp, IsOptions
<1>6. [n \in DOMAIN opts \ DOMAIN o |-> opts[n]] \in OptionLists
  BY <1>1, OptionListFacts DEF IsOptions
<1>7. Unknown(o) \in OptionLists
  BY <1>1, OptionListFacts DEF Unknown, IsOptions
<1> QED
  BY <1>1, <1>2, <1>3, <1>4, <1>5, <1>6, <1>7

IsRequest(f, p) == f.proto = p /\ f.code = "ConfReq"
IsAnswer(f, p) == f.proto = p /\ f.code \in Answers

-------------------------------------------------------------------------------
(* What a step may be.  It ends the attempt ... *)
Failing == \E r \in Results : Fail(r)

(* ... the link is up ... *)
Finishes ==
    /\ pc = "IPCP" /\ ours /\ theirs /\ address # 0
    /\ pc' = "up" /\ result' = "ok"
    /\ prime' = Staged \o buf /\ early' = <<>> /\ buf' = <<>>
    /\ UNCHANGED <<checked, loopVars, agreedVars, c2g, g2c, gatewayVars>>

(* ... frames arrive, without the HTTP block they may begin with ... *)
Fetches ==
    /\ Negotiating /\ buf = <<>>
    /\ \E n \in 1 .. Len(g2c) :
          /\ g2c' = SubSeq(g2c, n + 1, Len(g2c))
          /\ \/ buf' = SubSeq(g2c, 1, n)
             \/ g2c[1].proto = "HTTP" /\ buf' = Tail(SubSeq(g2c, 1, n))
    /\ checked' = TRUE
    /\ UNCHANGED <<pc, result, loopVars, agreedVars, early, prime, c2g, gatewayVars>>

(* ... a frame is handled, in a round that is not the last: by an answer, which
   is no request, ... *)
Handles ==
    /\ Negotiating /\ rounds < MaxRounds /\ buf # <<>>
    /\ buf' = Tail(buf) /\ rounds' = rounds + 1
    /\ UNCHANGED <<pc, result, prime, checked, g2c, gatewayVars>>

Responds ==
    /\ Handles
    /\ buf[1].proto # "IPV4"
    /\ \E f \in Frames : f.code # "ConfReq" /\ c2g' = Append(c2g, f)
    /\ theirs' \in {theirs, TRUE} /\ peer' \in Optional(Values)
    /\ UNCHANGED <<opts, id, ours, mru, address, dns, early>>

(* ... by ignoring it ... *)
Ignores ==
    /\ Handles
    /\ buf[1].proto # "IPV4"
    /\ UNCHANGED <<opts, id, ours, theirs, agreedVars, early, c2g>>

(* ... by another request, after a Nak or a Reject ... *)
Revises(o) ==
    /\ Handles
    /\ IsAnswer(buf[1], pc)
    /\ \/ /\ buf[1].code = "ConfNak"
          /\ IF pc = "LCP" THEN o = AdoptLcp(buf[1].opts) /\ UNCHANGED <<address, dns>>
             ELSE o = AdoptIpcp(buf[1].opts) /\ Harvest(buf[1].opts)
       \/ /\ buf[1].code = "ConfRej"
          /\ o = [n \in DOMAIN opts \ DOMAIN buf[1].opts |-> opts[n]]
          /\ UNCHANGED <<address, dns>>
    /\ opts' = o /\ id' = id + 1
    /\ c2g' = Append(c2g, Frame(pc, "ConfReq", id + 1, o))
    /\ UNCHANGED <<ours, theirs, mru, peer, early>>

LEMMA SmallRemainder ==
    ASSUME NEW n \in Nat, n < IdMod
    PROVE  n % IdMod = n
<1>1. IdMod > 0
  OBVIOUS
<1> QED
  BY <1>1

LEMMA NextCases ==
    ASSUME Typed, [Next]_vars
    PROVE  \/ Failing \/ LcpUp \/ Finishes \/ Fetches \/ RecvTimeout
           \/ \E f \in {buf[1]} : OnIpv4(f) /\ Handles
           \/ \E f \in {buf[1]} : OnConfAck(f) /\ Handles
           \/ Responds \/ Ignores \/ \E o \in OptionLists : Revises(o)
           \/ GatewayAnswer \/ GatewayRequest \/ GatewayUnasked
           \/ UNCHANGED vars
<1>1. ASSUME NEW f, Recv(f), Handled
      PROVE  Handles
  BY <1>1 DEF Recv, Handled, Handles, InRound, Looping, TooManyRounds, RoundOver, Typed, TypedLoop
<1>2. ASSUME NEW f, Recv(f)
      PROVE  f \in Frames /\ f = buf[1] /\ pc \in Protos /\ rounds < MaxRounds
  BY <1>2 DEF Recv, Typed, TypedLoop, TypedStreams, InRound, Looping, Negotiating,
     TooManyRounds
<1>3. CASE Diverge \/ DeadlinePassed \/ ReadEof \/ SendFails
  BY <1>3 DEF Diverge, DeadlinePassed, ReadEof, SendFails, Failing, Results
<1>4. CASE IpcpUp
  BY <1>4 DEF IpcpUp, PrimeOut, Failing, Finishes, Results
<1>5. CASE Read
  <2>1. PICK n \in 1 .. Len(g2c) :
          \/ /\ StartsWithHttp(SubSeq(g2c, 1, n)) /\ SubSeq(g2c, 1, n)[1].code # "ok"
             /\ Fail(Refusals[SubSeq(g2c, 1, n)[1].code])
          \/ /\ buf' = IF StartsWithHttp(SubSeq(g2c, 1, n)) THEN Tail(SubSeq(g2c, 1, n))
                      ELSE SubSeq(g2c, 1, n)
             /\ checked' = TRUE
             /\ g2c' = SubSeq(g2c, n + 1, Len(g2c))
             /\ UNCHANGED <<pc, result, loopVars, agreedVars, early, prime, c2g, gatewayVars>>
    <3>1. g2c \in Seq(Frames)
      BY DEF Typed, TypedStreams
    <3>2. \A n \in 1 .. (IF Len(g2c) < ReadCap THEN Len(g2c) ELSE ReadCap) :
             n \in 1 .. Len(g2c)
      BY <3>1
    <3> QED
      BY <1>5, <3>2 DEF Read
  <2>2. SubSeq(g2c, 1, n)[1] = g2c[1] /\ g2c[1] \in Frames
    BY DEF Typed, TypedStreams
  <2>3. CASE StartsWithHttp(SubSeq(g2c, 1, n)) /\ g2c[1].code # "ok"
             /\ Fail(Refusals[g2c[1].code])
    <3>1. g2c[1].code \in {"refused", "oversized"}
      BY <2>2, <2>3, FrameFacts, GatewayAssumption DEF StartsWithHttp, IsFrame
    <3>2. Refusals[g2c[1].code] \in Results
      BY <3>1 DEF Refusals, Results
    <3> QED
      BY <2>3, <3>2 DEF Failing
  <2>4. CASE ~(StartsWithHttp(SubSeq(g2c, 1, n)) /\ g2c[1].code # "ok"
               /\ Fail(Refusals[g2c[1].code]))
    BY <1>5, <2>1, <2>2, <2>4 DEF Read, InRound, Looping, Fetches, StartsWithHttp
  <2> QED
    BY <2>3, <2>4
<1>6. ASSUME NEW f \in {buf[1]}, buf # <<>>,
             OnMalformed(f) \/ OnAuthDemand(f) \/ OnTermReq(f)
      PROVE  Failing
  BY <1>6 DEF OnMalformed, OnAuthDemand, OnTermReq, Failing, Results
<1>7. ASSUME NEW f \in {buf[1]}, buf # <<>>,
             \/ OnLcpRequest(f) \/ OnLcpRequestLate(f) \/ OnIpcpRequest(f) \/ OnEchoReq(f)
      PROVE  Responds
  <2>1. Recv(f) /\ Handled /\ SameRequest /\ UNCHANGED <<ours, mru, address, dns, early>>
    BY <1>7 DEF OnLcpRequest, OnLcpRequestLate, OnIpcpRequest, OnEchoReq, agreedVars
  <2>2. f \in Frames /\ f.opts \in OptionLists /\ f.id \in Nat /\ IsFrame(f)
    BY <1>2, <2>1, FrameFacts DEF IsFrame
  <2>3. f.proto \in Protos
    BY <1>7 DEF OnLcpRequest, OnLcpRequestLate, OnIpcpRequest, OnEchoReq, Protos
  <2>4. f.id < IdMod
    BY <2>2, <2>3 DEF IsFrame, Protos
  <2>5. NoOptions \in OptionLists /\ Unknown(f.opts) \in OptionLists
        /\ \A n \in DOMAIN f.opts : f.opts[n] \in Optional(Values)
    BY <2>2, OptionOperations DEF Typed, TypedLoop
  <2>6. \A c \in {"ConfAck", "ConfRej", "EchoRep"},
           o \in {f.opts, NoOptions, Unknown(f.opts)}, q \in Protos :
             /\ Frame(q, c, f.id, o) \in Frames
             /\ Frame(q, c, f.id, o).code = c
    BY <2>2, <2>4, <2>5, FrameFacts DEF Codes, Protos
  <2>7. \E g \in Frames : g.code # "ConfReq" /\ c2g' = Append(c2g, g)
    <3>1. PICK c \in {"ConfAck", "ConfRej", "EchoRep"},
               o \in {f.opts, NoOptions, Unknown(f.opts)}, q \in Protos :
                  c2g' = Append(c2g, Frame(q, c, f.id, o))
      BY <1>7 DEF OnLcpRequest, OnLcpRequestLate, OnIpcpRequest, OnEchoReq, Send, Protos
    <3> QED
      BY <2>6, <3>1
  <2>8. theirs' \in {theirs, TRUE} /\ peer' \in Optional(Values)
    BY <1>7, <2>5 DEF OnLcpRequest, OnLcpRequestLate, OnIpcpRequest, OnEchoReq,
       agreedVars, Typed, TypedSession
  <2> QED
    BY <1>1, <2>1, <2>3, <2>7, <2>8 DEF Responds, SameRequest, Protos, Recv
<1>8. ASSUME NEW f \in {buf[1]}, buf # <<>>, OnOther(f)
      PROVE  Ignores
  BY <1>1, <1>8 DEF OnOther, Ignores, SameRequest, Skipped, Recv, InRound, Looping, Negotiating,
     Protos
<1>9. ASSUME NEW f \in {buf[1]}, buf # <<>>, OnConfNak(f) \/ OnConfRej(f)
      PROVE  \E o \in OptionLists : Revises(o)
  <2>1. Recv(f) /\ Handled /\ f.proto = pc /\ UNCHANGED <<ours, theirs, mru, peer, early>>
    BY <1>9 DEF OnConfNak, OnConfRej, agreedVars
  <2>2. f \in Frames /\ f.opts \in OptionLists /\ rounds < MaxRounds
    BY <1>2, <2>1, FrameFacts
  <2>3. NextId = id + 1
    <3>1. id + 1 \in Nat /\ id + 1 < IdMod
      BY <2>2 DEF Typed, TypedLoop
    <3> QED
      BY <3>1, SmallRemainder DEF NextId
  <2>4. Handles
    BY <1>1, <2>1
  <2>5. CASE OnConfNak(f)
    <3>1. AdoptLcp(f.opts) \in OptionLists /\ AdoptIpcp(f.opts) \in OptionLists
      BY <2>2, OptionOperations DEF Typed, TypedLoop
    <3>2. IsAnswer(f, pc) /\ f.code = "ConfNak"
      BY <2>5 DEF OnConfNak, IsAnswer, Answers
    <3>3. CASE pc = "LCP"
      <4>1. Revises(AdoptLcp(f.opts))
        BY <1>9, <2>1, <2>3, <2>4, <2>5, <3>2, <3>3 DEF OnConfNak, Revises, AskAgain, Send
      <4> QED
        BY <3>1, <4>1
    <3>4. CASE pc # "LCP"
      <4>1. Revises(AdoptIpcp(f.opts))
        BY <1>9, <2>1, <2>3, <2>4, <2>5, <3>2, <3>4 DEF OnConfNak, Revises, AskAgain, Send
      <4> QED
        BY <3>1, <4>1
    <3> QED
      BY <3>3, <3>4
  <2>6. CASE OnConfRej(f)
    <3> DEFINE o == [n \in DOMAIN opts \ DOMAIN f.opts |-> opts[n]]
    <3>1. o \in OptionLists
      BY <2>2, OptionOperations DEF Typed, TypedLoop
    <3>2. IsAnswer(f, pc) /\ f.code = "ConfRej"
      BY <2>6 DEF OnConfRej, IsAnswer, Answers
    <3>3. Revises(o)
      BY <1>9, <2>1, <2>3, <2>4, <2>6, <3>2 DEF OnConfRej, Revises, AskAgain, Send, agreedVars
    <3> QED
      BY <3>1, <3>3
  <2> QED
    BY <1>9, <2>5, <2>6
<1>10. CASE Handle
  <2>1. buf # <<>>
    BY <1>10 DEF Handle
  <2>2. PICK f \in {buf[1]} :
           \/ OnIpv4(f) \/ OnMalformed(f) \/ OnAuthDemand(f)
           \/ OnLcpRequest(f) \/ OnLcpRequestLate(f) \/ OnIpcpRequest(f)
           \/ OnConfAck(f) \/ OnConfNak(f) \/ OnConfRej(f)
           \/ OnEchoReq(f) \/ OnTermReq(f) \/ OnOther(f)
    BY <1>10, <2>1 DEF Handle
  <2>3. OnIpv4(f) \/ OnConfAck(f) => Handles
    BY <1>1 DEF OnIpv4, OnConfAck
  <2> QED
    BY <1>6, <1>7, <1>8, <1>9, <2>1, <2>2, <2>3
<1> QED
  BY <1>3, <1>4, <1>5, <1>10 DEF Next, Client, Ended

-------------------------------------------------------------------------------
LEMMA SeqPieces ==
    ASSUME NEW S, NEW s \in Seq(S)
    PROVE  /\ \A x \in S : Append(s, x) \in Seq(S)
           /\ s # <<>> => Tail(s) \in Seq(S) /\ s[1] \in S
           /\ \A n \in 1 .. Len(s) :
                 /\ SubSeq(s, 1, n) \in Seq(S) /\ SubSeq(s, 1, n) # <<>>
                 /\ SubSeq(s, n + 1, Len(s)) \in Seq(S)
           /\ \A t \in Seq(S) : s \o t \in Seq(S)
<1>1. \A n \in 1 .. Len(s) : SubSeq(s, 1, n) \in Seq(S) /\ Len(SubSeq(s, 1, n)) = n
  OBVIOUS
<1>2. \A n \in 1 .. Len(s) : SubSeq(s, n + 1, Len(s)) \in Seq(S)
  OBVIOUS
<1>3. s # <<>> => Tail(s) \in Seq(S) /\ s[1] \in S
  OBVIOUS
<1> QED
  BY <1>1, <1>2, <1>3

(* The gateway's answers. *)
LEMMA AnswerFacts ==
    ASSUME Typed, NEW f \in Frames, f.proto \in Protos, NEW a \in AnswersTo(f)
    PROVE  /\ a \in Frames /\ IsAnswer(a, f.proto) /\ a.id = f.id
           /\ a.code = "ConfAck" => a.opts = f.opts
           /\ a.code = "ConfNak" =>
                 IsOptions(a.opts, Values) /\ DOMAIN a.opts \cap rejects = {}
           /\ a.code = "ConfRej" => DOMAIN a.opts \subseteq rejects
<1>1. /\ IsFrame(f) /\ f.opts \in OptionLists /\ f.id \in Nat /\ f.id < IdMod
  BY FrameFacts DEF IsFrame, Protos
<1>2. \A c \in Answers, o \in OptionLists :
        /\ Frame(f.proto, c, f.id, o) \in Frames
        /\ IsAnswer(Frame(f.proto, c, f.id, o), f.proto)
        /\ Frame(f.proto, c, f.id, o).id = f.id
        /\ Frame(f.proto, c, f.id, o).code = c /\ Frame(f.proto, c, f.id, o).opts = o
  BY <1>1, FrameFacts DEF Answers, Codes, Protos, IsAnswer
<1> DEFINE refused == DOMAIN f.opts \cap rejects
           rej == [o \in refused |-> f.opts[o]]
<1>3. \/ a = Frame(f.proto, "ConfRej", f.id, rej)
      \/ a = Frame(f.proto, "ConfAck", f.id, f.opts)
      \/ \E n \in GatewayNaks[f.proto] :
            a = Frame(f.proto, "ConfNak", f.id, n) /\ DOMAIN n \cap rejects = {}
  BY DEF AnswersTo
<1>4. rej \in OptionLists /\ DOMAIN rej \subseteq rejects
  <2>1. DOMAIN f.opts \subseteq OptionNames /\ \A n \in DOMAIN f.opts : f.opts[n] \in Optional(Values)
    BY <1>1, OptionListFacts DEF IsOptions
  <2> QED
    BY <2>1, OptionListFacts DEF IsOptions
<1> HIDE DEF rej
<1>5. CASE a = Frame(f.proto, "ConfRej", f.id, rej)
  BY <1>2, <1>4, <1>5 DEF Answers
<1>6. CASE a = Frame(f.proto, "ConfAck", f.id, f.opts)
  BY <1>1, <1>2, <1>6 DEF Answers
<1>7. ASSUME NEW n \in GatewayNaks[f.proto], a = Frame(f.proto, "ConfNak", f.id, n),
             DOMAIN n \cap rejects = {}
      PROVE  /\ a \in Frames /\ IsAnswer(a, f.proto) /\ a.id = f.id /\ a.code = "ConfNak"
             /\ IsOptions(a.opts, Values) /\ DOMAIN a.opts \cap rejects = {}
  <2>1. IsOptions(n, Values)
    BY GatewayAssumption
  <2>2. n \in OptionLists
    BY <2>1, OptionListFacts DEF IsOptions, Optional
  <2> QED
    BY <1>2, <1>7, <2>1, <2>2 DEF Answers
<1> QED
  BY <1>3, <1>5, <1>6, <1>7

LEMMA FirstFrames ==
    /\ NoOptions \in OptionLists /\ LcpRequest \in OptionLists /\ IpcpRequest \in OptionLists
    /\ Frame("LCP", "ConfReq", 1, LcpRequest) \in Frames
    /\ Frame("IPCP", "ConfReq", 1, IpcpRequest) \in Frames
    /\ \A c \in Prologues : Frame("HTTP", c, 0, NoOptions) \in Frames
<1>1. NoOptions \in OptionLists
  BY OptionListFacts DEF NoOptions, IsOptions, OptionNames, Optional
<1>2. LcpRequest \in OptionLists /\ IpcpRequest \in OptionLists
  BY <1>1, OptionOperations, OptionListFacts DEF LcpRequest, IpcpRequest, IsOptions, OptionNames,
     LcpOptions, IpcpOptions, Optional
<1>3. 1 \in Nat /\ 1 < IdMod /\ 0 < IdMod
  OBVIOUS
<1>4. /\ Frame("LCP", "ConfReq", 1, LcpRequest) \in Frames
      /\ Frame("IPCP", "ConfReq", 1, IpcpRequest) \in Frames
  BY <1>2, <1>3, FrameFacts DEF Protos, Codes
<1>5. ASSUME NEW c \in Prologues PROVE Frame("HTTP", c, 0, NoOptions) \in Frames
  BY <1>1, <1>3, FrameFacts
<1> QED
  BY <1>1, <1>2, <1>4, <1>5

LEMMA TypedInit == Init => Typed
<1> SUFFICES ASSUME Init PROVE Typed
  OBVIOUS
<1>1. TypedLoop
  <2>1. ours \in BOOLEAN /\ theirs \in BOOLEAN /\ checked \in BOOLEAN
    BY DEF Init
  <2>2. rounds \in 0 .. MaxRounds /\ id \in 1 .. rounds + 1
    BY DEF Init
  <2> QED
    BY <2>1, <2>2, FirstFrames DEF Init, TypedLoop, Results
<1>2. TypedSession
  BY DEF Init, TypedSession, Optional
<1>3. TypedStreams
  <2> DEFINE F == Frame("LCP", "ConfReq", 1, LcpRequest)
  <2>1. F \in Frames /\ F.proto = "LCP"
    BY FirstFrames, FrameFacts
  <2>2. c2g = <<F>>
    BY DEF Init
  <2> HIDE DEF F
  <2>3. c2g \in Seq(Frames) /\ \A i \in 1 .. Len(c2g) : c2g[i].proto = "LCP"
    BY <2>1, <2>2
  <2>4. g2c \in Seq(Frames)
    <3>1. ASSUME NEW c \in Prologues, g2c = <<Frame("HTTP", c, 0, NoOptions)>>
          PROVE  g2c \in Seq(Frames)
      <4> DEFINE G == Frame("HTTP", c, 0, NoOptions)
      <4>1. G \in Frames /\ g2c = <<G>>
        BY <3>1, FirstFrames
      <4> HIDE DEF G
      <4> QED
        BY <4>1
    <3>2. CASE g2c = <<>>
      BY <3>2
    <3>3. \/ g2c = <<>>
          \/ \E c \in Prologues : g2c = <<Frame("HTTP", c, 0, NoOptions)>>
      BY DEF Init
    <3> QED
      BY <3>1, <3>2, <3>3
  <2> QED
    BY <2>3, <2>4 DEF Init, TypedStreams, Protos
<1>4. TypedGateway
  BY DEF Init, TypedGateway
<1> QED
  BY <1>1, <1>2, <1>3, <1>4 DEF Typed

LEMMA TypedLoopStep ==
    ASSUME Typed, [Next]_vars
    PROVE  TypedLoop'
<1> USE DEF loopVars, agreedVars, bufVars, gatewayVars
<1>0. TypedLoop
  BY DEF Typed
<1>1. CASE Failing
  <2>1. ours' \in BOOLEAN /\ theirs' \in BOOLEAN /\ checked' \in BOOLEAN
    BY <1>1 DEF Failing, Fail
  <2> QED
    BY <1>1, <2>1, FirstFrames DEF Failing, Fail, TypedLoop
<1>2. CASE LcpUp
  <2>1. ours' \in BOOLEAN /\ theirs' \in BOOLEAN /\ checked' \in BOOLEAN
    BY <1>0, <1>2 DEF LcpUp, TypedLoop
  <2> QED
    BY <1>0, <1>2, <2>1, FirstFrames DEF LcpUp, TypedLoop
<1>3. CASE Finishes
  BY <1>0, <1>3 DEF Finishes, TypedLoop, Results
<1>4. CASE Fetches
  <2>1. checked' \in BOOLEAN
    BY <1>4 DEF Fetches
  <2> QED
    BY <1>0, <1>4, <2>1 DEF Fetches, TypedLoop
<1>5. CASE RecvTimeout
  BY <1>0, <1>5 DEF RecvTimeout, RoundOver, InRound, TooManyRounds, TypedLoop
<1>6. CASE Handles /\ UNCHANGED <<opts, id, ours>> /\ theirs' \in {theirs, TRUE}
  <2>1. theirs' \in BOOLEAN
    BY <1>0, <1>6 DEF TypedLoop
  <2> QED
    BY <1>0, <1>6, <2>1 DEF Handles, TypedLoop
<1>7. ASSUME NEW f \in {buf[1]}, OnConfAck(f), Handles
      PROVE  TypedLoop'
  <2>1. ours' \in BOOLEAN
    BY <1>7 DEF OnConfAck
  <2> QED
    BY <1>0, <1>7, <2>1 DEF OnConfAck, SameRequest, Handles, TypedLoop
<1>8. ASSUME NEW o \in OptionLists, Revises(o)
      PROVE  TypedLoop'
  <2>1. /\ UNCHANGED <<pc, result, ours, theirs, checked>> /\ opts' = o
        /\ id' = id + 1 /\ rounds' = rounds + 1 /\ rounds < MaxRounds
    BY <1>8 DEF Revises, Handles
  <2>2. rounds' \in 0 .. MaxRounds /\ id' \in 1 .. rounds' + 1
    BY <1>0, <2>1 DEF TypedLoop
  <2> QED
    BY <1>0, <2>1, <2>2 DEF TypedLoop
<1>9. CASE GatewayAnswer \/ GatewayRequest \/ GatewayUnasked \/ UNCHANGED vars
  BY <1>0, <1>9 DEF GatewayAnswer, GatewayRequest, GatewayUnasked, vars, TypedLoop
<1>10. ASSUME NEW f, OnIpv4(f), Handles
       PROVE  UNCHANGED <<opts, id, ours, theirs>>
  BY <1>10 DEF OnIpv4, SameRequest
<1> QED
  BY <1>1, <1>2, <1>3, <1>4, <1>5, <1>6, <1>7, <1>8, <1>9, <1>10, NextCases
     DEF Responds, Ignores

LEMMA HarvestType ==
    ASSUME Typed, NEW o \in OptionLists
    PROVE  HarvestAddress(o) \in Optional(Values) /\ HarvestDns(o) \in Seq(Values)
<1>1. /\ \A n \in DOMAIN o : o[n] \in Optional(Values)
      /\ address \in Optional(Values) /\ dns \in Seq(Values)
  BY OptionListFacts DEF IsOptions, Typed, TypedSession
<1>2. \A n, s : s \in Seq(Values) => HarvestServer(o, n, s) \in Seq(Values)
  BY <1>1 DEF HarvestServer, Optional
<1> QED
  BY <1>1, <1>2 DEF HarvestAddress, HarvestDns

LEMMA TypedSessionStep ==
    ASSUME Typed, [Next]_vars
    PROVE  TypedSession'
<1> USE DEF loopVars, agreedVars, bufVars, gatewayVars
<1>0. TypedSession
  BY DEF Typed
<1>f. buf # <<>> => buf[1] \in Frames /\ buf[1].opts \in OptionLists /\ buf[1].id \in Nat
  BY FrameFacts DEF Typed, TypedStreams, IsFrame
<1>1. CASE Failing
  BY <1>1 DEF Failing, Fail, TypedSession, Optional
<1>2. CASE LcpUp \/ Finishes \/ Fetches \/ RecvTimeout
  <2>1. early' \in {early, <<>>} /\ UNCHANGED <<mru, address, dns, peer>>
    BY <1>2 DEF LcpUp, Finishes, Fetches, RecvTimeout
  <2>2. early \in Seq(Nat) /\ <<>> \in Seq(Nat)
    BY <1>0 DEF TypedSession
  <2>3. early' \in Seq(Nat)
    BY <2>1, <2>2
  <2> QED
    BY <1>0, <2>1, <2>3 DEF TypedSession
<1>3. ASSUME NEW f \in {buf[1]}, OnIpv4(f), Handles
      PROVE  TypedSession'
  BY <1>0, <1>3, <1>f DEF OnIpv4, Handles, TypedSession
<1>4. ASSUME NEW f \in {buf[1]}, OnConfAck(f), Handles
      PROVE  TypedSession'
  <2>1. f.opts \in OptionLists /\ \A n \in DOMAIN f.opts : f.opts[n] \in Optional(Values)
    BY <1>4, <1>f, OptionListFacts DEF Handles, IsOptions
  <2> QED
    BY <1>0, <1>4, <2>1, HarvestType DEF OnConfAck, Harvest, TypedSession
<1>5. CASE Responds \/ Ignores
  BY <1>0, <1>5 DEF Responds, Ignores, TypedSession
<1>6. ASSUME NEW o \in OptionLists, Revises(o)
      PROVE  TypedSession'
  <2>1. buf[1].opts \in OptionLists
    BY <1>6, <1>f DEF Revises, Handles
  <2> QED
    BY <1>0, <1>6, <2>1, HarvestType DEF Revises, Harvest, TypedSession
<1>7. CASE GatewayAnswer \/ GatewayRequest \/ GatewayUnasked \/ UNCHANGED vars
  BY <1>0, <1>7 DEF GatewayAnswer, GatewayRequest, GatewayUnasked, vars, TypedSession
<1> QED
  BY <1>1, <1>2, <1>3, <1>4, <1>5, <1>6, <1>7, NextCases

(* What the gateway repeats is an answer. *)
LEMMA RepeatedAnswer ==
    ASSUME TypedGateway, NEW f, f.proto \in Protos, Repeated(f)
    PROVE  answered[f.proto][2] \in Frames
<1> DEFINE a == answered[f.proto]
<1>1. a \in Seq(Frames) /\ Len(a) = 2
  BY DEF TypedGateway, Repeated
<1> HIDE DEF a
<1>2. a[2] \in Frames
  BY ONLY <1>1
<1> QED
  BY <1>2 DEF a

(* Frames under way. *)
LEMMA TypedStreamsStep ==
    ASSUME Typed, [Next]_vars
    PROVE  TypedStreams'
<1> USE DEF loopVars, agreedVars, bufVars, gatewayVars
<1>0. TypedStreams /\ opts \in OptionLists /\ id \in Nat
  BY DEF Typed, TypedLoop
<1>a. ASSUME NEW f \in Frames, f.code = "ConfReq" => f.proto \in Protos,
             c2g' = Append(c2g, f)
      PROVE  /\ c2g' \in Seq(Frames)
             /\ \A i \in 1 .. Len(c2g') : c2g'[i].code = "ConfReq" => c2g'[i].proto \in Protos
  <2>1. /\ c2g' \in Seq(Frames) /\ Len(c2g') = Len(c2g) + 1
        /\ \A i \in 1 .. Len(c2g) : c2g'[i] = c2g[i]
        /\ c2g'[Len(c2g) + 1] = f /\ Len(c2g) \in Nat
    BY <1>0, <1>a DEF TypedStreams
  <2> QED
    BY <1>0, <1>a, <2>1 DEF TypedStreams
<1>b. ASSUME NEW f \in Frames, g2c' = Append(g2c, f)
      PROVE  g2c' \in Seq(Frames)
  BY <1>0, <1>b DEF TypedStreams
<1>1. CASE Failing
  BY <1>1 DEF Failing, Fail, TypedStreams, Protos
<1>2. CASE LcpUp
  <2> DEFINE F == Frame("IPCP", "ConfReq", 1, IpcpRequest)
  <2>1. F \in Frames /\ F.proto = "IPCP" /\ c2g' = Append(c2g, F)
    BY <1>2, FirstFrames, FrameFacts DEF LcpUp, Send
  <2> HIDE DEF F
  <2> QED
    BY <1>0, <1>2, <1>a, <2>1 DEF LcpUp, TypedStreams, Protos
<1>3. CASE Finishes
  <2>1. Staged \in Seq(Frames)
    <3>1. ASSUME NEW i \in 1 .. Len(early)
          PROVE  Frame("IPV4", "Other", early[i], NoOptions) \in Frames
      <4>1. early[i] \in Nat
        BY DEF Typed, TypedSession
      <4> QED
        BY <4>1, PacketFrame
    <3>2. Len(early) \in Nat
      BY DEF Typed, TypedSession
    <3> QED
      BY <3>1, <3>2 DEF Staged
  <2>2. prime' \in Seq(Frames)
    BY <1>0, <1>3, <2>1, SeqPieces DEF Finishes, TypedStreams
  <2> QED
    BY <1>0, <1>3, <2>2 DEF Finishes, TypedStreams, Protos
<1>4. CASE Fetches
  <2>1. PICK n \in 1 .. Len(g2c) :
          /\ g2c' = SubSeq(g2c, n + 1, Len(g2c))
          /\ buf' \in {SubSeq(g2c, 1, n), Tail(SubSeq(g2c, 1, n))}
    BY <1>4 DEF Fetches
  <2>2. g2c \in Seq(Frames)
    BY <1>0 DEF TypedStreams
  <2> DEFINE got == SubSeq(g2c, 1, n)
  <2>3. g2c' \in Seq(Frames) /\ got \in Seq(Frames) /\ got # <<>>
    BY <2>1, <2>2, SeqPieces
  <2> HIDE DEF got
  <2>4. Tail(got) \in Seq(Frames)
    BY <2>3, SeqPieces
  <2>5. buf' \in Seq(Frames)
    BY <2>1, <2>3, <2>4 DEF got
  <2> QED
    BY <1>0, <1>4, <2>3, <2>5 DEF Fetches, TypedStreams
<1>5. CASE RecvTimeout
  <2>1. UNCHANGED <<pc, buf, prime, g2c>> /\ pc \in Protos
    BY <1>5 DEF RecvTimeout, InRound, Looping, Negotiating
  <2>2. CASE UNCHANGED c2g
    BY <1>0, <2>1, <2>2 DEF TypedStreams
  <2>3. CASE c2g' = Append(c2g, Frame(pc, "ConfReq", id, opts))
    <3> DEFINE F == Frame(pc, "ConfReq", id, opts)
    <3>1. id < IdMod
      BY DEF Typed, TypedLoop
    <3>2. F \in Frames /\ F.proto = pc
      BY <1>0, <2>1, <3>1, FrameFacts DEF Codes, Protos
    <3>3. c2g' = Append(c2g, F)
      BY <2>3
    <3> HIDE DEF F
    <3> QED
      BY <1>0, <1>a, <2>1, <3>2, <3>3 DEF TypedStreams
  <2> QED
    BY <1>5, <2>2, <2>3 DEF RecvTimeout, Send
<1>6. ASSUME Handles
      PROVE  /\ prime' \in Seq(Frames) /\ buf' \in Seq(Frames) /\ g2c' \in Seq(Frames)
             /\ pc' \in Protos => prime' = <<>>
  BY <1>0, <1>6, SeqPieces DEF Handles, TypedStreams
<1>7. CASE Handles /\ UNCHANGED c2g
  BY <1>0, <1>6, <1>7 DEF TypedStreams
<1>8. CASE Responds
  BY <1>0, <1>6, <1>8, <1>a DEF Responds, TypedStreams
<1>9. ASSUME NEW o \in OptionLists, Revises(o)
      PROVE  TypedStreams'
  <2> DEFINE F == Frame(pc, "ConfReq", id + 1, o)
  <2>1. id + 1 \in Nat /\ id + 1 < IdMod /\ pc \in Protos
    BY <1>9 DEF Revises, Handles, Negotiating, Typed, TypedLoop
  <2>2. F \in Frames /\ F.proto = pc
    BY <2>1, ControlFrame DEF Codes
  <2>3. c2g' = Append(c2g, F) /\ Handles
    BY <1>9 DEF Revises
  <2> HIDE DEF F
  <2> QED
    BY <1>6, <1>a, <2>1, <2>2, <2>3 DEF TypedStreams
<1>10. CASE GatewayAnswer
  <2>1. c2g # <<>> /\ c2g' = Tail(c2g) /\ UNCHANGED <<pc, buf, prime>>
    BY <1>10 DEF GatewayAnswer
  <2>2. /\ c2g' \in Seq(Frames)
        /\ \A i \in 1 .. Len(c2g') : c2g'[i].code = "ConfReq" => c2g'[i].proto \in Protos
    <3>1. /\ c2g' \in Seq(Frames) /\ Len(c2g') = Len(c2g) - 1
          /\ \A i \in 1 .. Len(c2g') : c2g'[i] = c2g[i + 1] /\ i + 1 \in 1 .. Len(c2g)
      BY <1>0, <2>1 DEF TypedStreams
    <3> QED
      BY <1>0, <3>1 DEF TypedStreams
  <2>3. c2g[1] \in Frames /\ (c2g[1].code = "ConfReq" => c2g[1].proto \in Protos)
    BY <1>0, <2>1 DEF TypedStreams
  <2>4. g2c' \in Seq(Frames)
    <3>1. CASE UNCHANGED g2c
      BY <1>0, <3>1 DEF TypedStreams
    <3>2. CASE c2g[1].code = "ConfReq"
      <4>1. PICK a \in (IF Repeated(c2g[1]) THEN {answered[c2g[1].proto][2]}
                         ELSE AnswersTo(c2g[1])) : g2c' = Append(g2c, a)
        BY <1>10, <3>2 DEF GatewayAnswer, Deliver
      <4>2. a \in Frames
        <5>1. CASE Repeated(c2g[1])
          <6>1. answered[c2g[1].proto][2] \in Frames
            BY <2>3, <3>2, <5>1, RepeatedAnswer DEF Typed
          <6> QED
            BY <4>1, <5>1, <6>1
        <5>2. CASE ~Repeated(c2g[1])
          BY <2>3, <3>2, <4>1, <5>2, AnswerFacts
        <5> QED
          BY <5>1, <5>2
      <4> QED
        BY <1>b, <4>1, <4>2
    <3> QED
      BY <1>10, <3>1, <3>2 DEF GatewayAnswer
  <2> QED
    BY <1>0, <2>1, <2>2, <2>4 DEF TypedStreams
<1>11. CASE GatewayRequest
  <2>0. PICK q \in Protos : \E o \in GatewayRequests[q] :
          asked[q] < MaxAsked /\ g2c' = Append(g2c, Frame(q, "ConfReq", asked[q] + 1, o))
    BY <1>11 DEF GatewayRequest, Deliver
  <2>1. PICK o \in GatewayRequests[q] :
          asked[q] < MaxAsked /\ g2c' = Append(g2c, Frame(q, "ConfReq", asked[q] + 1, o))
    BY <2>0
  <2>2. o \in OptionLists
    BY GatewayAssumption, OptionListFacts DEF IsOptions, Optional
  <2>3. asked[q] + 1 \in Nat /\ asked[q] + 1 < IdMod
    BY <2>1 DEF Typed, TypedGateway
  <2>4. Frame(q, "ConfReq", asked[q] + 1, o) \in Frames
    BY <2>2, <2>3, FrameFacts DEF Codes, Protos
  <2> QED
    BY <1>0, <1>11, <1>b, <2>1, <2>4 DEF GatewayRequest, TypedStreams
<1>12. CASE GatewayUnasked
  <2>1. packets + 1 \in Nat
    BY DEF Typed, TypedGateway
  <2>2. Frame("IPV4", "Other", packets + 1, NoOptions) \in Frames
    BY <2>1, FirstFrames, FrameFacts DEF Codes
  <2>3. g2c' \in Seq(Frames)
    BY <1>12, <1>b, <2>2, FrameFacts DEF GatewayUnasked, Deliver
  <2> QED
    BY <1>0, <1>12, <2>3 DEF GatewayUnasked, TypedStreams
<1>13. CASE UNCHANGED vars
  BY <1>0, <1>13 DEF vars, TypedStreams
<1>14. ASSUME NEW f, OnIpv4(f) \/ OnConfAck(f) PROVE UNCHANGED c2g
  BY <1>14 DEF OnIpv4, OnConfAck
<1> QED
  BY <1>1, <1>2, <1>3, <1>4, <1>5, <1>7, <1>8, <1>9, <1>10, <1>11, <1>12, <1>13, <1>14,
     NextCases DEF Ignores

LEMMA TypedGatewayStep ==
    ASSUME Typed, [Next]_vars
    PROVE  TypedGateway'
<1> USE DEF loopVars, agreedVars, bufVars, gatewayVars
<1>0. TypedGateway /\ c2g \in Seq(Frames)
  BY DEF Typed, TypedStreams
<1>1. CASE Failing
  BY <1>0, <1>1 DEF Failing, Fail, TypedGateway
<1>2. CASE UNCHANGED gatewayVars
  BY <1>0, <1>2 DEF TypedGateway
<1>3. CASE GatewayAnswer
  <2>1. CASE UNCHANGED <<answered, granted>>
    BY <1>0, <1>3, <2>1 DEF GatewayAnswer, TypedGateway
  <2>2. CASE c2g[1].code = "ConfReq"
    <3> DEFINE f == c2g[1]
    <3>1. f \in Frames /\ f.proto \in Protos /\ f.opts \in OptionLists
      BY <1>0, <1>3, <2>2, FrameFacts DEF GatewayAnswer, Typed, TypedStreams
    <3>2. PICK a \in (IF Repeated(f) THEN {answered[f.proto][2]} ELSE AnswersTo(f)) :
            /\ answered' = [answered EXCEPT ![f.proto] = <<f, a>>]
            /\ granted' = [granted EXCEPT ![f.proto] =
                             IF a.code = "ConfAck" THEN {f.opts} ELSE {}]
      BY <1>3, <2>2 DEF GatewayAnswer
    <3>3. a \in Frames
      <4>1. CASE Repeated(f)
        <5>1. answered[f.proto][2] \in Frames
          BY <1>0, <3>1, <4>1, RepeatedAnswer
        <5> QED
          BY <3>2, <4>1, <5>1
      <4>2. CASE ~Repeated(f)
        BY <3>1, <3>2, <4>2, AnswerFacts
      <4> QED
        BY <4>1, <4>2
    <3> HIDE DEF f
    <3>4. <<f, a>> \in Seq(Frames) /\ Len(<<f, a>>) = 2
      BY <3>1, <3>3
    <3> QED
      BY <1>0, <1>3, <3>1, <3>2, <3>4 DEF GatewayAnswer, TypedGateway
  <2> QED
    BY <1>3, <2>1, <2>2 DEF GatewayAnswer
<1>4. CASE GatewayRequest
  <2>1. PICK q \in Protos : asked[q] < MaxAsked /\ asked' = [asked EXCEPT ![q] = @ + 1]
    BY <1>4 DEF GatewayRequest
  <2>2. asked' \in [Protos -> 0 .. MaxAsked]
    BY <1>0, <2>1 DEF TypedGateway
  <2> QED
    BY <1>0, <1>4, <2>2 DEF GatewayRequest, TypedGateway
<1>5. CASE GatewayUnasked
  BY <1>0, <1>5 DEF GatewayUnasked, TypedGateway
<1>6. ASSUME Handles \/ LcpUp \/ Finishes \/ Fetches \/ RecvTimeout \/ UNCHANGED vars
      PROVE  UNCHANGED gatewayVars
  BY <1>6 DEF Handles, LcpUp, Finishes, Fetches, RecvTimeout, vars
<1> QED
  BY <1>1, <1>2, <1>3, <1>4, <1>5, <1>6, NextCases DEF Responds, Ignores, Revises

LEMMA TypedInvariant == Spec => []Typed
<1>1. Typed /\ [Next]_vars => Typed'
  BY TypedLoopStep, TypedSessionStep, TypedStreamsStep, TypedGatewayStep DEF Typed
<1> QED
  BY <1>1, TypedInit, PTL DEF Spec

(***************************************************************************)
(* The type invariant: in particular identifiers never wrap, the rounds    *)
(* stay within MAX_ROUNDS, no server of 0.0.0.0 is harvested, and every    *)
(* frame that is sent or kept is one that the encoders can write.          *)
(***************************************************************************)
THEOREM PppTypes == Spec => []TypeOK
<1>1. Typed => TypeOK
  <2> SUFFICES ASSUME Typed PROVE TypeOK
    OBVIOUS
  <2>1. \A s \in Seq(Frames) : AllFrames(s)
    BY FrameFacts DEF AllFrames
  <2>2. AllFrames(prime) /\ AllFrames(buf) /\ AllFrames(c2g) /\ AllFrames(g2c)
    BY <2>1 DEF Typed, TypedStreams
  <2>3. \A p \in Protos :
          AllFrames(answered[p]) /\ \A g \in granted[p] : IsOptions(g, Optional(Values))
    BY <2>1, OptionListFacts DEF Typed, TypedGateway
  <2>4. /\ pc \in {"LCP", "IPCP", "up", "failed"} /\ result \in Results
        /\ ours \in BOOLEAN /\ theirs \in BOOLEAN /\ checked \in BOOLEAN
        /\ rounds \in 0 .. MaxRounds
    BY DEF Typed, TypedLoop
  <2>5. IsOptions(opts, Optional(Values))
    BY OptionListFacts DEF Typed, TypedLoop
  <2>6. id \in 1 .. IdMod - 1
    BY DEF Typed, TypedLoop
  <2>7. {mru, address, peer} \subseteq Optional(Values) /\ dns \in Seq(Values) /\ early \in Seq(Nat)
    BY DEF Typed, TypedSession
  <2>8. /\ rejects \in GatewayRejects /\ asked \in [Protos -> 0 .. MaxAsked]
        /\ unasked \in 0 .. MaxUnasked /\ packets \in 0 .. MaxUnasked
    BY DEF Typed, TypedGateway
  <2> QED
    BY <2>2, <2>3, <2>4, <2>5, <2>6, <2>7, <2>8 DEF TypeOK
<1> QED
  BY <1>1, TypedInvariant, PTL

(* A server that was harvested is not harvested again. *)
ServersOnce == \A i, j \in 1 .. Len(dns) : dns[i] = dns[j] => i = j

LEMMA HarvestOnce ==
    ASSUME NEW o, NEW n, NEW S, NEW s \in Seq(S), n \in DOMAIN o => o[n] \in S \cup {0},
           \A i, j \in 1 .. Len(s) : s[i] = s[j] => i = j
    PROVE  LET t == HarvestServer(o, n, s)
           IN  t \in Seq(S) /\ \A i, j \in 1 .. Len(t) : t[i] = t[j] => i = j
<1> DEFINE x == o[n]
           u == Append(s, x)
           k == Len(s)
<1>1. CASE n \in DOMAIN o /\ x # 0 /\ \A i \in DOMAIN s : s[i] # x
  <2>1. HarvestServer(o, n, s) = u /\ x \in S
    BY <1>1 DEF HarvestServer
  <2> HIDE DEF x
  <2>2. /\ u \in Seq(S) /\ Len(u) = k + 1 /\ k \in Nat /\ u[k + 1] = x
        /\ \A i \in 1 .. k : u[i] = s[i] /\ s[i] # x
    BY <1>1, <2>1
  <2> HIDE DEF u, k
  <2>3. \A i \in 1 .. k + 1 : i \in 1 .. k \/ i = k + 1
    BY <2>2
  <2>4. \A i, j \in 1 .. k + 1 : u[i] = u[j] => i = j
    BY <2>2, <2>3 DEF k
  <2> QED
    BY <2>1, <2>2, <2>4
<1>2. CASE ~(n \in DOMAIN o /\ x # 0 /\ \A i \in DOMAIN s : s[i] # x)
  BY <1>2 DEF HarvestServer
<1> QED
  BY <1>1, <1>2

LEMMA HarvestDnsOnce ==
    ASSUME Typed, ServersOnce, NEW o \in OptionLists, dns' = HarvestDns(o)
    PROVE  ServersOnce'
<1>1. /\ \A n \in DOMAIN o : o[n] \in Values \cup {0}
      /\ dns \in Seq(Values)
  BY OptionListFacts DEF IsOptions, Typed, TypedSession, Optional
<1> DEFINE t == HarvestServer(o, "DNS1", dns)
<1>2. t \in Seq(Values) /\ \A i, j \in 1 .. Len(t) : t[i] = t[j] => i = j
  BY <1>1, HarvestOnce DEF ServersOnce
<1> DEFINE u == HarvestServer(o, "DNS2", t)
<1> HIDE DEF t
<1>3. \A i, j \in 1 .. Len(u) : u[i] = u[j] => i = j
  BY <1>1, <1>2, HarvestOnce
<1>4. dns' = u
  BY DEF HarvestDns, t
<1> HIDE DEF u
<1> QED
  BY <1>3, <1>4 DEF ServersOnce

(***************************************************************************)
(* harvest_ipcp takes a server only once, however often Naks and the Ack   *)
(* name it: what Handshake assumes of the session that PPP negotiates      *)
(* (PppSessionAssumption).                                                 *)
(***************************************************************************)
THEOREM ResolversOnce == Spec => []ServersOnce
<1>1. Init => ServersOnce
  BY DEF Init, ServersOnce
<1>2. Typed /\ ServersOnce /\ [Next]_vars => ServersOnce'
  <2> SUFFICES ASSUME Typed, ServersOnce, [Next]_vars PROVE ServersOnce'
    OBVIOUS
  <2> USE DEF loopVars, agreedVars, bufVars, gatewayVars
  <2>1. buf # <<>> => buf[1].opts \in OptionLists
    BY FrameFacts DEF Typed, TypedStreams, IsFrame
  <2>2. CASE UNCHANGED dns
    BY <2>2 DEF ServersOnce
  <2>3. CASE dns' = <<>>
    BY <2>3 DEF ServersOnce
  <2>4. CASE buf # <<>> /\ dns' = HarvestDns(buf[1].opts)
    BY <2>1, <2>4, HarvestDnsOnce
  <2>5. UNCHANGED dns \/ dns' = <<>> \/ (buf # <<>> /\ dns' = HarvestDns(buf[1].opts))
    <3>1. CASE Failing
      BY <3>1 DEF Failing, Fail
    <3>2. CASE LcpUp \/ Finishes \/ Fetches \/ RecvTimeout \/ Responds \/ Ignores
      BY <3>2 DEF LcpUp, Finishes, Fetches, RecvTimeout, Responds, Ignores
    <3>3. ASSUME NEW f \in {buf[1]}, Handles, OnIpv4(f) \/ OnConfAck(f)
          PROVE  UNCHANGED dns \/ (buf # <<>> /\ dns' = HarvestDns(buf[1].opts))
      BY <3>3 DEF OnIpv4, OnConfAck, Harvest, Handles
    <3>4. ASSUME NEW o \in OptionLists, Revises(o)
          PROVE  UNCHANGED dns \/ (buf # <<>> /\ dns' = HarvestDns(buf[1].opts))
      BY <3>4 DEF Revises, Harvest, Handles
    <3>5. CASE GatewayAnswer \/ GatewayRequest \/ GatewayUnasked \/ UNCHANGED vars
      BY <3>5 DEF GatewayAnswer, GatewayRequest, GatewayUnasked, vars
    <3> QED
      BY <3>1, <3>2, <3>3, <3>4, <3>5, NextCases
  <2> QED
    BY <2>2, <2>3, <2>4, <2>5
<1> QED
  BY <1>1, <1>2, TypedInvariant, PTL DEF Spec

-------------------------------------------------------------------------------
(***************************************************************************)
(* The requests the gateway has answered last or will read.  Identifiers   *)
(* grow by one a round and do not wrap, so that the outstanding request is *)
(* the one with the largest.                                               *)
(***************************************************************************)
Loop == IF pc = "up" THEN "IPCP" ELSE pc

Requests ==
    {f \in {c2g[i] : i \in 1 .. Len(c2g)} : f.code = "ConfReq"}
      \cup {answered[p][1] : p \in {p \in Protos : answered[p] # <<>>}}

Numbered ==
    /\ \A f \in Requests :
          /\ f.proto = Loop => f.id <= id /\ (f.id = id => f.opts = opts)
          /\ f.proto = "IPCP" => pc # "LCP"
    /\ \A f, g \in Requests : f.proto = g.proto /\ f.id = g.id => f.opts = g.opts

LEMMA RequestFrames ==
    ASSUME Typed
    PROVE  \A f \in Requests : f.id \in Nat
<1>1. \A f \in Frames : f.id \in Nat
  BY FrameFacts DEF IsFrame
<1>2. Requests \subseteq Frames
  <2>1. \A i \in 1 .. Len(c2g) : c2g[i] \in Frames
    BY DEF Typed, TypedStreams
  <2>2. ASSUME NEW p \in Protos, answered[p] # <<>> PROVE answered[p][1] \in Frames
    <3> DEFINE a == answered[p]
    <3>1. a \in Seq(Frames) /\ Len(a) = 2
      BY <2>2 DEF Typed, TypedGateway
    <3> HIDE DEF a
    <3>2. a[1] \in Frames
      BY ONLY <3>1
    <3> QED
      BY <3>2 DEF a
  <2> QED
    BY <2>1, <2>2 DEF Requests
<1> QED
  BY <1>1, <1>2

LEMMA AppendedRequest ==
    ASSUME Typed, NEW f \in Frames, c2g' = Append(c2g, f), UNCHANGED answered
    PROVE  /\ Requests' \subseteq Requests \cup {f}
           /\ f.code # "ConfReq" => Requests' \subseteq Requests
<1>1. /\ Len(c2g') = Len(c2g) + 1 /\ Len(c2g) \in Nat
      /\ \A i \in 1 .. Len(c2g) : c2g'[i] = c2g[i]
      /\ c2g'[Len(c2g) + 1] = f
  BY DEF Typed, TypedStreams
<1> QED
  BY <1>1 DEF Requests

(* The frame the gateway reads, and what it makes of it. *)
LEMMA AnswerStep ==
    ASSUME Typed, GatewayAnswer
    PROVE  LET f == c2g[1] IN
           /\ f \in Frames
           /\ \/ f.code # "ConfReq" /\ UNCHANGED <<g2c, answered, granted>>
              \/ /\ f \in Requests /\ f.proto \in Protos
                 /\ \E a \in Frames :
                      /\ \/ Repeated(f) /\ a = answered[f.proto][2]
                         \/ ~Repeated(f) /\ a \in AnswersTo(f)
                      /\ g2c' = Append(g2c, a)
                      /\ answered' = [answered EXCEPT ![f.proto] = <<f, a>>]
                      /\ granted' = [granted EXCEPT ![f.proto] =
                                       IF a.code = "ConfAck" THEN {f.opts} ELSE {}]
<1> DEFINE f == c2g[1]
<1>1. f \in Frames /\ 1 \in 1 .. Len(c2g)
  BY DEF GatewayAnswer, Typed, TypedStreams
<1>2. CASE f.code # "ConfReq"
  BY <1>1, <1>2 DEF GatewayAnswer
<1>3. CASE f.code = "ConfReq"
  <2>1. f.proto \in Protos /\ f \in Requests
    BY <1>1, <1>3 DEF Typed, TypedStreams, Requests
  <2>2. PICK a \in (IF Repeated(f) THEN {answered[f.proto][2]} ELSE AnswersTo(f)) :
          /\ g2c' = Append(g2c, a)
          /\ answered' = [answered EXCEPT ![f.proto] = <<f, a>>]
          /\ granted' = [granted EXCEPT ![f.proto] =
                           IF a.code = "ConfAck" THEN {f.opts} ELSE {}]
    BY <1>3 DEF GatewayAnswer, Deliver
  <2>3. a \in Frames
    <3>1. CASE Repeated(f)
      BY <2>1, <2>2, <3>1 DEF Repeated, Typed, TypedGateway
    <3>2. CASE ~Repeated(f)
      BY <1>1, <2>1, <2>2, <3>2, AnswerFacts
    <3> QED
      BY <3>1, <3>2
  <2> QED
    BY <1>1, <2>1, <2>2, <2>3
<1> QED
  BY <1>2, <1>3

LEMMA AnsweredRequest ==
    ASSUME Typed, GatewayAnswer
    PROVE  Requests' \subseteq Requests
<1> DEFINE f == c2g[1]
<1>1. /\ c2g' = Tail(c2g) /\ c2g # <<>>
  BY DEF GatewayAnswer
<1>2. /\ Len(c2g') = Len(c2g) - 1
      /\ \A i \in 1 .. Len(c2g') : c2g'[i] = c2g[i + 1] /\ i + 1 \in 1 .. Len(c2g)
  BY <1>1 DEF Typed, TypedStreams
<1>3. {c2g'[i] : i \in 1 .. Len(c2g')} \subseteq {c2g[i] : i \in 1 .. Len(c2g)}
  BY <1>2
<1>4. ASSUME NEW q \in Protos, answered'[q] # <<>>
      PROVE  answered'[q][1] \in Requests
  <2>1. CASE UNCHANGED answered
    BY <1>4, <2>1 DEF Requests
  <2>2. CASE ~UNCHANGED answered
    <3>1. f \in Requests /\ f.proto \in Protos
      BY <2>2, AnswerStep
    <3>2. PICK a : answered' = [answered EXCEPT ![f.proto] = <<f, a>>]
      BY <2>2, AnswerStep
    <3> HIDE DEF f
    <3>3. CASE q = f.proto
      <4>1. answered'[q] = <<f, a>>
        BY <3>1, <3>2, <3>3 DEF Typed, TypedGateway
      <4> QED
        BY <3>1, <4>1
    <3>4. CASE q # f.proto
      <4>1. answered'[q] = answered[q]
        BY <3>2, <3>4 DEF Typed, TypedGateway
      <4> QED
        BY <1>4, <4>1 DEF Requests
    <3> QED
      BY <3>3, <3>4
  <2> QED
    BY <2>1, <2>2
<1> QED
  BY <1>3, <1>4 DEF Requests

LEMMA NumberedInvariant == Spec => []Numbered
<1>1. Init => Numbered
  <2> SUFFICES ASSUME Init PROVE Numbered
    OBVIOUS
  <2> DEFINE F == Frame("LCP", "ConfReq", 1, LcpRequest)
  <2>1. c2g = <<F>> /\ \A p \in Protos : answered[p] = <<>>
    BY DEF Init
  <2>2. Requests \subseteq {F}
    <3> HIDE DEF F
    <3> QED
      BY <2>1 DEF Requests
  <2>3. F.proto = "LCP" /\ F.id = 1 /\ F.opts = LcpRequest
    BY FrameFacts
  <2> QED
    BY <2>2, <2>3 DEF Init, Numbered, Loop
<1>2. Typed /\ Numbered /\ [Next]_vars => Numbered'
  <2> SUFFICES ASSUME Typed, Numbered, [Next]_vars PROVE Numbered'
    OBVIOUS
  <2> USE DEF loopVars, agreedVars, bufVars, gatewayVars
  <2>1. CASE Failing
    <3>1. c2g' = <<>> /\ \A p \in Protos : answered'[p] = <<>>
      BY <2>1 DEF Failing, Fail
    <3>2. Requests' = {}
      BY <3>1 DEF Requests
    <3> QED
      BY <3>2 DEF Numbered
  <2>2. CASE Requests' \subseteq Requests /\ UNCHANGED <<pc, id, opts>>
    BY <2>2 DEF Numbered, Loop
  <2>3. CASE Finishes
    <3>1. Requests' = Requests
      BY <2>3 DEF Finishes, Requests
    <3> QED
      BY <2>3, <3>1 DEF Finishes, Numbered, Loop
  <2>4. CASE LcpUp
    <3> DEFINE F == Frame("IPCP", "ConfReq", 1, IpcpRequest)
    <3>1. F \in Frames /\ F.proto = "IPCP" /\ F.id = 1 /\ F.opts = IpcpRequest
      BY FirstFrames, FrameFacts
    <3>2. c2g' = Append(c2g, F) /\ UNCHANGED answered
      BY <2>4 DEF LcpUp, Send
    <3> HIDE DEF F
    <3>3. Requests' \subseteq Requests \cup {F}
      BY <3>1, <3>2, AppendedRequest
    <3>4. \A f \in Requests : f.proto # "IPCP"
      BY <2>4 DEF LcpUp, Numbered
    <3>5. pc' = "IPCP" /\ id' = 1 /\ opts' = IpcpRequest
      BY <2>4 DEF LcpUp
    <3> QED
      BY <3>1, <3>3, <3>4, <3>5 DEF Numbered, Loop
  <2>5. CASE RecvTimeout
    <3> DEFINE F == Frame(pc, "ConfReq", id, opts)
    <3>1. pc \in Protos /\ opts \in OptionLists /\ id \in Nat /\ id < IdMod
      BY <2>5 DEF RecvTimeout, InRound, Looping, Negotiating, Typed, TypedLoop
    <3>2. F \in Frames /\ F.proto = pc /\ F.id = id /\ F.opts = opts
      BY <3>1, ControlFrame DEF Codes
    <3>3. UNCHANGED <<pc, id, opts, answered>> /\ (UNCHANGED c2g \/ c2g' = Append(c2g, F))
      BY <2>5 DEF RecvTimeout, Send
    <3> HIDE DEF F
    <3>4. Requests' \subseteq Requests \cup {F}
      BY <3>2, <3>3, AppendedRequest DEF Requests
    <3> QED
      BY <3>1, <3>2, <3>3, <3>4 DEF Numbered, Loop, Protos
  <2>6. ASSUME NEW o \in OptionLists, Revises(o)
        PROVE  Numbered'
    <3> DEFINE F == Frame(pc, "ConfReq", id + 1, o)
    <3>1. pc \in Protos /\ id \in Nat /\ id + 1 \in Nat /\ id + 1 < IdMod
      BY <2>6 DEF Revises, Handles, Negotiating, Typed, TypedLoop
    <3>2. F \in Frames /\ F.proto = pc /\ F.id = id + 1 /\ F.opts = o
      BY <3>1, ControlFrame DEF Codes
    <3>3. /\ UNCHANGED <<pc, answered>> /\ c2g' = Append(c2g, F)
          /\ id' = id + 1 /\ opts' = o
      BY <2>6 DEF Revises, Handles
    <3> HIDE DEF F
    <3>4. Requests' \subseteq Requests \cup {F}
      BY <3>2, <3>3, AppendedRequest
    <3>5. \A f \in Requests : f.proto = pc => f.id <= id
      BY <3>1 DEF Numbered, Loop, Protos
    <3>6. \A f \in Requests : f.id \in Nat
      BY RequestFrames
    <3>7. \A f \in Requests : f.proto = pc => f.id # id + 1 /\ f.id <= id + 1
      BY <3>1, <3>5, <3>6
    <3>8. Loop' = pc
      BY <3>1, <3>3 DEF Loop, Protos
    <3> QED
      BY <3>1, <3>2, <3>3, <3>4, <3>7, <3>8 DEF Numbered
  <2>7. CASE Responds
    BY <2>2, <2>7, AppendedRequest DEF Responds, Handles
  <2>8. CASE GatewayAnswer
    BY <2>2, <2>8, AnsweredRequest DEF GatewayAnswer
  <2>9. ASSUME UNCHANGED <<pc, id, opts, c2g, answered>>
        PROVE  Numbered'
    BY <2>2, <2>9 DEF Requests
  <2>10. CASE Fetches \/ Ignores \/ GatewayRequest \/ GatewayUnasked \/ UNCHANGED vars
    BY <2>9, <2>10 DEF Fetches, Ignores, Handles, GatewayRequest, GatewayUnasked, vars
  <2>11. ASSUME NEW f, (OnIpv4(f) \/ OnConfAck(f)) /\ Handles
         PROVE  Numbered'
    BY <2>9, <2>11 DEF OnIpv4, OnConfAck, SameRequest, Handles
  <2> QED
    BY <2>1, <2>3, <2>4, <2>5, <2>6, <2>7, <2>8, <2>10, <2>11, NextCases
<1> QED
  BY <1>1, <1>2, TypedInvariant, PTL DEF Spec

(***************************************************************************)
(* Two requests under the same identifier ask for the same options, as     *)
(* long as the rounds are fewer than the identifiers: a gateway that       *)
(* answers a retransmission as it answered the original answers what is    *)
(* asked.                                                                  *)
(***************************************************************************)
THEOREM RequestsIdentified == Spec => []IdIdentifiesRequest
<1>1. Typed /\ Numbered => IdIdentifiesRequest
  <2> SUFFICES ASSUME Typed, Numbered PROVE IdIdentifiesRequest
    OBVIOUS
  <2>1. DOMAIN c2g = 1 .. Len(c2g)
    BY DEF Typed, TypedStreams
  <2> QED
    BY <2>1 DEF Numbered, IdIdentifiesRequest, Requests
<1> QED
  BY <1>1, TypedInvariant, NumberedInvariant, PTL

-------------------------------------------------------------------------------
(* The frames of a stream, and what happens to one: it loses some at its head ... *)
Members(s) == {s[i] : i \in 1 .. Len(s)}
Behind(t, s, k) == Len(s) = Len(t) + k /\ \A i \in 1 .. Len(t) : t[i] = s[i + k]
Trails(t, s) == \E k \in Nat : Behind(t, s, k)
(* ... or gets one more; those of a protocol and some codes stay in order. *)
Sorted(s, p, C) ==
    \A i, j \in 1 .. Len(s) :
        /\ i < j
        /\ s[i].proto = p /\ s[i].code \in C
        /\ s[j].proto = p /\ s[j].code \in C
        => s[i].id <= s[j].id

LEMMA TrailingFrames ==
    ASSUME NEW S, NEW s \in Seq(S), NEW t \in Seq(S), Trails(t, s)
    PROVE  /\ Members(t) \subseteq Members(s)
           /\ \A p, C : Sorted(s, p, C) => Sorted(t, p, C)
<1>1. PICK k \in Nat : Len(s) = Len(t) + k /\ \A i \in 1 .. Len(t) : t[i] = s[i + k]
  BY DEF Trails, Behind
<1>2. Len(s) \in Nat /\ Len(t) \in Nat
  OBVIOUS
<1>3. \A i \in 1 .. Len(t) : i + k \in 1 .. Len(s) /\ t[i] = s[i + k]
  BY <1>1, <1>2
<1>4. Members(t) \subseteq Members(s)
  BY <1>3 DEF Members
<1>5. \A i, j \in 1 .. Len(t) : i < j => i + k < j + k
  BY <1>1, <1>2
<1>6. ASSUME NEW p, NEW C, Sorted(s, p, C) PROVE Sorted(t, p, C)
  BY <1>3, <1>5, <1>6 DEF Sorted
<1> QED
  BY <1>4, <1>6

LEMMA ConcatenateFrames ==
    /\ \A r, s, t \in Seq(Frames) : (r \o s) \o t = r \o (s \o t)
    /\ \A r, s \in Seq(Frames), a \in Frames : r \o Append(s, a) = Append(r \o s, a)
<1>1. ASSUME NEW r \in Seq(Frames), NEW s \in Seq(Frames), NEW t \in Seq(Frames)
      PROVE  (r \o s) \o t = r \o (s \o t)
  <2>1. r \in Seq(Frames) /\ s \in Seq(Frames) /\ t \in Seq(Frames)
    OBVIOUS
  <2> QED
    BY ONLY <2>1, ConcatAssociative
<1>2. ASSUME NEW r \in Seq(Frames), NEW s \in Seq(Frames), NEW a \in Frames
      PROVE  r \o Append(s, a) = Append(r \o s, a)
  OBVIOUS
<1> QED
  BY <1>1, <1>2

LEMMA JoinedFrames ==
    \A r, s \in Seq(Frames) :
        /\ r \o s \in Seq(Frames) /\ Len(r \o s) = Len(r) + Len(s)
        /\ \A i \in 1 .. Len(r \o s) : (r \o s)[i] = IF i <= Len(r) THEN r[i] ELSE s[i - Len(r)]
<1> SUFFICES ASSUME NEW r \in Seq(Frames), NEW s \in Seq(Frames)
             PROVE  /\ r \o s \in Seq(Frames) /\ Len(r \o s) = Len(r) + Len(s)
                    /\ \A i \in 1 .. Len(r \o s) :
                          (r \o s)[i] = IF i <= Len(r) THEN r[i] ELSE s[i - Len(r)]
  OBVIOUS
<1>1. r \o s \in Seq(Frames) /\ Len(r \o s) = Len(r) + Len(s)
  OBVIOUS
<1> QED
  BY <1>1

(* An index of a sequence that got one element more. *)
LEMMA OneMoreIndex ==
    ASSUME NEW n \in Nat
    PROVE  \A i, j \in 1 .. n + 1 : i < j => i \in 1 .. n /\ (j \in 1 .. n \/ j = n + 1)
BY ONLY n \in Nat

LEMMA AppendedFrame ==
    ASSUME NEW S, NEW s \in Seq(S), NEW f \in S, NEW t, t = Append(s, f)
    PROVE  /\ Members(t) = Members(s) \cup {f}
           /\ \A p, C :
                 /\ Sorted(s, p, C)
                 /\ f.proto = p /\ f.code \in C =>
                       \A g \in Members(s) : g.proto = p /\ g.code \in C => g.id <= f.id
                 => Sorted(t, p, C)
<1>1. /\ Len(t) = Len(s) + 1 /\ Len(s) \in Nat
      /\ \A i \in 1 .. Len(s) : t[i] = s[i]
      /\ t[Len(s) + 1] = f
  OBVIOUS
<1>2. Members(t) = Members(s) \cup {f}
  BY <1>1 DEF Members
<1>3. \A i, j \in 1 .. Len(t) : i < j =>
        /\ i \in 1 .. Len(s) /\ t[i] = s[i] /\ s[i] \in Members(s)
        /\ (j \in 1 .. Len(s) /\ t[j] = s[j]) \/ t[j] = f
  <2>1. \A i, j \in 1 .. Len(t) : i < j =>
          i \in 1 .. Len(s) /\ (j \in 1 .. Len(s) \/ j = Len(s) + 1)
    BY ONLY <1>1, OneMoreIndex, Zenon
  <2>2. \A i \in 1 .. Len(s) : s[i] \in Members(s)
    BY DEF Members
  <2> QED
    BY ONLY <1>1, <2>1, <2>2, Zenon
<1>4. ASSUME NEW p, NEW C, Sorted(s, p, C),
             f.proto = p /\ f.code \in C =>
               \A g \in Members(s) : g.proto = p /\ g.code \in C => g.id <= f.id
      PROVE  Sorted(t, p, C)
  BY <1>3, <1>4 DEF Sorted
<1> QED
  BY <1>2, <1>4

LEMMA HeadFrame ==
    ASSUME NEW s \in Seq(Frames), s # <<>>
    PROVE  /\ s[1] \in Members(s) /\ s[1] \in Frames
           /\ \A p, C : Sorted(s, p, C) /\ s[1].proto = p /\ s[1].code \in C =>
                 \A g \in Members(s) : g.proto = p /\ g.code \in C => s[1].id <= g.id
           /\ Tail(s) \in Seq(Frames) /\ Trails(Tail(s), s)
<1>1. /\ Len(s) \in Nat /\ 1 \in 1 .. Len(s) /\ s[1] \in Frames
      /\ Tail(s) \in Seq(Frames) /\ Len(s) = Len(Tail(s)) + 1
      /\ \A i \in 1 .. Len(Tail(s)) : Tail(s)[i] = s[i + 1]
  OBVIOUS
<1>2. s[1].id <= s[1].id
  BY <1>1, FrameFacts DEF IsFrame
<1>3. ASSUME NEW p, NEW C, Sorted(s, p, C), s[1].proto = p, s[1].code \in C,
             NEW i \in 1 .. Len(s), s[i].proto = p, s[i].code \in C
      PROVE  s[1].id <= s[i].id
  <2>1. i = 1 \/ 1 < i
    BY <1>1
  <2> QED
    BY <1>1, <1>2, <1>3, <2>1 DEF Sorted
<1> QED
  BY <1>1, <1>3 DEF Members, Trails, Behind

(* The frames that have not been handled, in the order they will be. *)
Inbound == buf \o g2c

LEMMA InboundStep ==
    ASSUME Typed, Typed'
    PROVE  /\ Inbound \in Seq(Frames) /\ Inbound' \in Seq(Frames)
           /\ Handles => /\ Inbound # <<>> /\ Inbound[1] = buf[1]
                         /\ Behind(Inbound', Inbound, 1) /\ Trails(Inbound', Inbound)
           /\ Fetches => \/ Behind(Inbound', Inbound, 0)
                         \/ /\ Inbound # <<>> /\ Inbound[1].proto = "HTTP"
                            /\ Behind(Inbound', Inbound, 1)
           /\ Fetches \/ Finishes \/ Failing => Trails(Inbound', Inbound)
           /\ UNCHANGED <<buf, g2c>> => Trails(Inbound', Inbound)
           /\ \A a \in Frames : UNCHANGED buf /\ g2c' = Append(g2c, a)
                 => Inbound' = Append(Inbound, a)
<1>1. /\ buf \in Seq(Frames) /\ g2c \in Seq(Frames) /\ Len(buf) \in Nat /\ Len(g2c) \in Nat
      /\ buf' \in Seq(Frames) /\ g2c' \in Seq(Frames)
  BY DEF Typed, TypedStreams
<1>2. /\ Inbound \in Seq(Frames) /\ Inbound' \in Seq(Frames)
      /\ Len(Inbound) = Len(buf) + Len(g2c) /\ Len(Inbound') = Len(buf') + Len(g2c')
      /\ \A i \in 1 .. Len(Inbound) :
            Inbound[i] = IF i <= Len(buf) THEN buf[i] ELSE g2c[i - Len(buf)]
      /\ \A i \in 1 .. Len(Inbound') :
            Inbound'[i] = IF i <= Len(buf') THEN buf'[i] ELSE g2c'[i - Len(buf')]
  BY ONLY <1>1, JoinedFrames, Zenon DEF Inbound
<1>3. ASSUME UNCHANGED <<buf, g2c>>
      PROVE  Trails(Inbound', Inbound)
  <2>1. Inbound' = Inbound /\ Len(Inbound) \in Nat
    BY <1>2, <1>3 DEF Inbound
  <2>2. 0 \in Nat /\ Len(Inbound) = Len(Inbound) + 0 /\ \A i \in 1 .. Len(Inbound) : i + 0 = i
    BY <2>1
  <2> QED
    BY <2>1, <2>2 DEF Trails, Behind
<1>4. ASSUME Handles
      PROVE  /\ Inbound # <<>> /\ Inbound[1] = buf[1]
             /\ Behind(Inbound', Inbound, 1) /\ Trails(Inbound', Inbound)
  <2>1. buf # <<>> /\ buf' = Tail(buf) /\ g2c' = g2c
    BY <1>4 DEF Handles
  <2>2. /\ Len(buf) = Len(buf') + 1 /\ Len(buf) >= 1
        /\ \A i \in 1 .. Len(buf') : buf'[i] = buf[i + 1]
    BY <1>1, <2>1
  <2>3. Len(Inbound) = Len(Inbound') + 1 /\ Len(Inbound) >= 1 /\ Inbound[1] = buf[1]
    BY <1>1, <1>2, <2>1, <2>2
  <2>4. ASSUME NEW i \in 1 .. Len(Inbound') PROVE Inbound'[i] = Inbound[i + 1]
    <3>1. i \in Nat /\ i >= 1 /\ i + 1 \in 1 .. Len(Inbound) /\ Len(buf') \in Nat
      <4>1. Len(buf') \in Nat /\ Len(Inbound') \in Nat
        BY <1>1, <1>2
      <4> QED
        BY <2>3, <4>1
    <3>2. CASE i <= Len(buf')
      <4>1. i \in 1 .. Len(buf') /\ i + 1 <= Len(buf)
        BY <2>2, <3>1, <3>2
      <4> QED
        BY <1>2, <2>2, <3>1, <3>2, <4>1
    <3>3. CASE ~(i <= Len(buf'))
      <4>1. ~(i + 1 <= Len(buf)) /\ (i + 1) - Len(buf) = i - Len(buf')
        BY <1>1, <2>2, <3>1, <3>3
      <4>2. Inbound'[i] = g2c'[i - Len(buf')]
        BY <1>2, <3>3
      <4>3. Inbound[i + 1] = g2c[(i + 1) - Len(buf)]
        BY <1>2, <3>1, <4>1
      <4> QED
        BY <2>1, <4>1, <4>2, <4>3
    <3> QED
      BY <3>2, <3>3
  <2> QED
    BY <1>2, <2>3, <2>4 DEF Trails, Behind
<1>5. ASSUME Finishes PROVE Trails(Inbound', Inbound)
  <2>1. buf' = <<>> /\ g2c' = g2c
    BY <1>5 DEF Finishes
  <2>2. Len(buf') = 0
    BY <2>1
  <2>3. Len(Inbound) = Len(Inbound') + Len(buf)
    BY <1>1, <1>2, <2>1, <2>2
  <2>4. ASSUME NEW i \in 1 .. Len(Inbound') PROVE Inbound'[i] = Inbound[i + Len(buf)]
    <3>1. /\ i + Len(buf) \in 1 .. Len(Inbound) /\ ~(i <= 0) /\ ~(i + Len(buf) <= Len(buf))
          /\ i - 0 = i /\ (i + Len(buf)) - Len(buf) = i
      BY <1>1, <1>2, <2>3
    <3>2. Inbound'[i] = g2c[i]
      BY <1>2, <2>1, <2>2, <3>1
    <3>3. Inbound[i + Len(buf)] = g2c[i]
      BY <1>2, <3>1
    <3> QED
      BY <3>2, <3>3
  <2> QED
    BY <1>1, <2>3, <2>4 DEF Trails, Behind
<1>6. ASSUME Failing PROVE Trails(Inbound', Inbound)
  <2>1. buf' = <<>> /\ g2c' = <<>>
    BY <1>6 DEF Failing, Fail
  <2>2. Len(Inbound') = 0 /\ Len(Inbound) \in Nat
    BY <1>2, <2>1
  <2>3. Len(Inbound) = Len(Inbound') + Len(Inbound) /\ 1 .. Len(Inbound') = {}
    BY <2>2
  <2> QED
    BY <2>2, <2>3 DEF Trails, Behind
<1>7. ASSUME Fetches
      PROVE  /\ \/ Behind(Inbound', Inbound, 0)
                \/ /\ Inbound # <<>> /\ Inbound[1].proto = "HTTP"
                   /\ Behind(Inbound', Inbound, 1)
             /\ Trails(Inbound', Inbound)
  <2>1. PICK n \in 1 .. Len(g2c) :
          /\ g2c' = SubSeq(g2c, n + 1, Len(g2c))
          /\ \/ buf' = SubSeq(g2c, 1, n)
             \/ g2c[1].proto = "HTTP" /\ buf' = Tail(SubSeq(g2c, 1, n))
    BY <1>7 DEF Fetches
  <2>2. buf = <<>> /\ Len(buf) = 0
    BY <1>7 DEF Fetches
  <2>3. Len(g2c') = Len(g2c) - n /\ \A i \in 1 .. Len(g2c') : g2c'[i] = g2c[i + n]
    BY <1>1, <2>1
  <2> DEFINE got == SubSeq(g2c, 1, n)
  <2>4. got \in Seq(Frames) /\ Len(got) = n /\ got # <<>> /\ \A i \in 1 .. n : got[i] = g2c[i]
    <3>1. got \in Seq(Frames) /\ got # <<>>
      BY <1>1, SeqPieces
    <3>2. n \in Nat /\ Len(got) = n
      BY <1>1
    <3>3. \A i \in 1 .. n : got[i] = g2c[i]
      BY <1>1, <3>2
    <3> QED
      BY <3>1, <3>2, <3>3
  <2>5. CASE buf' = got
    <3>1. Len(buf') = n /\ \A i \in 1 .. n : buf'[i] = g2c[i]
      BY <2>4, <2>5
    <3>2. Len(Inbound) = Len(Inbound') + 0
      BY <1>1, <1>2, <2>1, <2>2, <2>3, <3>1
    <3>3. \A i \in 1 .. Len(Inbound') : Inbound'[i] = Inbound[i + 0]
      BY <1>1, <1>2, <2>1, <2>2, <2>3, <3>1, <3>2
    <3> QED
      BY <3>2, <3>3 DEF Trails, Behind
  <2>6. CASE g2c[1].proto = "HTTP" /\ buf' = Tail(got)
    <3> HIDE DEF got
    <3>0. Len(buf') = n - 1 /\ \A i \in 1 .. n - 1 : buf'[i] = got[i + 1]
      BY <2>4, <2>6
    <3>1. Len(buf') = n - 1 /\ \A i \in 1 .. n - 1 : buf'[i] = g2c[i + 1]
      BY <2>1, <2>4, <3>0
    <3>2. Len(Inbound) = Len(Inbound') + 1
      BY <1>1, <1>2, <2>1, <2>2, <2>3, <3>1
    <3>3. ASSUME NEW i \in 1 .. Len(Inbound') PROVE Inbound'[i] = Inbound[i + 1]
      <4>1. /\ i \in Nat /\ i >= 1 /\ i + 1 \in 1 .. Len(Inbound) /\ ~(i + 1 <= 0)
            /\ i + 1 - 0 = i + 1
        BY <1>1, <1>2, <3>2
      <4>2. Inbound[i + 1] = g2c[i + 1]
        BY <1>2, <2>2, <4>1
      <4>3. CASE i <= n - 1
        <5>1. i \in 1 .. n - 1 /\ i <= Len(buf')
          BY <2>1, <3>1, <4>1, <4>3
        <5>2. Inbound'[i] = buf'[i]
          BY <1>2, <5>1
        <5> QED
          BY <3>1, <4>2, <5>1, <5>2
      <4>4. CASE ~(i <= n - 1)
        <5>1. i - (n - 1) \in 1 .. Len(g2c') /\ (i - (n - 1)) + n = i + 1
          BY <1>1, <1>2, <2>1, <2>3, <3>1, <4>1, <4>4
        <5>2. Inbound'[i] = g2c'[i - (n - 1)]
          BY <1>2, <3>1, <4>4
        <5>3. g2c'[i - (n - 1)] = g2c[i + 1]
          BY <2>3, <5>1
        <5> QED
          BY <4>2, <5>2, <5>3
      <4> QED
        BY <4>3, <4>4
    <3>4. Inbound # <<>> /\ Inbound[1] = g2c[1]
      BY <1>1, <1>2, <2>1, <2>2
    <3> QED
      BY <2>6, <3>2, <3>3, <3>4 DEF Trails, Behind
  <2> QED
    BY <2>1, <2>5, <2>6
<1>8. ASSUME NEW a \in Frames, UNCHANGED buf, g2c' = Append(g2c, a)
      PROVE  Inbound' = Append(Inbound, a)
  <2>1. Inbound' = buf \o Append(g2c, a) /\ Inbound = buf \o g2c
    BY <1>8 DEF Inbound
  <2>2. buf \in Seq(Frames) /\ g2c \in Seq(Frames) /\ a \in Frames
    BY <1>1
  <2>3. buf \o Append(g2c, a) = Append(buf \o g2c, a)
    BY ONLY <2>2, ConcatenateFrames, Zenon
  <2> QED
    BY <2>1, <2>3
<1> QED
  BY <1>2, <1>3, <1>4, <1>5, <1>6, <1>7, <1>8

(* An answer proposes or rejects what this gateway may. *)
Proper(a) ==
    /\ a.code = "ConfNak" =>
          IsOptions(a.opts, Values) /\ DOMAIN a.opts \cap rejects = {}
    /\ a.code = "ConfRej" => DOMAIN a.opts \subseteq rejects

(* The last exchange of protocol p the gateway remembers. *)
Exchange(p) ==
    \/ answered[p] = <<>> /\ granted[p] = {}
    \/ /\ answered[p] # <<>>
       /\ IsRequest(answered[p][1], p) /\ IsAnswer(answered[p][2], p)
       /\ answered[p][2].id = answered[p][1].id
       /\ Proper(answered[p][2])
       /\ granted[p] = IF answered[p][2].code = "ConfAck" THEN {answered[p][1].opts} ELSE {}
       /\ answered[p][2].code = "ConfAck" => answered[p][2].opts = answered[p][1].opts

(* Requests and answers stay in order: those under way to the gateway come after
   the last one it has answered, the answers under way to the client before. *)
Queries(p) == {f \in Members(c2g) : IsRequest(f, p)}
Replies(p) == {a \in Members(Inbound) : IsAnswer(a, p)}
Ordered(p) ==
    /\ Sorted(c2g, p, {"ConfReq"}) /\ Sorted(Inbound, p, Answers)
    /\ \A f \in Queries(p) : answered[p] # <<>> => answered[p][1].id <= f.id
    /\ \A a \in Replies(p) :
          /\ Proper(a)
          /\ answered[p] # <<>> /\ a.id <= answered[p][1].id
          /\ a.id = answered[p][1].id => a = answered[p][2]

(* Once the client has taken an acknowledgement there is nothing else under way:
   no other request, and no answer but the acknowledgement again. *)
Accepted(p) ==
    \/ pc = p /\ ours
    \/ p = "LCP" /\ pc \in {"IPCP", "up"}
    \/ p = "IPCP" /\ pc = "up"
Settled(p) ==
    Accepted(p) =>
        /\ answered[p] # <<>> /\ answered[p][2].code = "ConfAck"
        /\ Loop = p => answered[p][1].id = id
        /\ \A f \in Queries(p) \cup Replies(p) : f.id = answered[p][1].id

(* What the client has harvested agrees with its request. *)
Asks(o, n, default) == IF n \in DOMAIN o THEN o[n] ELSE default
Harvested ==
    /\ pc = "LCP" => (~ours => mru = DefaultMru) /\ address = 0
    /\ Accepted("LCP") => mru = Asks(answered["LCP"][1].opts, "MRU", DefaultMru)
    /\ pc \in {"IPCP", "up"} =>
          address = Asks(opts, "ADDR", 0) /\ (address # 0 => "ADDR" \notin rejects)
    /\ pc = "up" => address # 0

Negotiated ==
    /\ Numbered
    /\ \A p \in Protos : Exchange(p) /\ Ordered(p) /\ Settled(p)
    /\ Harvested

(* A step that leaves the last exchange of p alone, as seen on the two streams. *)
Sends(p) ==
    \/ Trails(c2g', c2g)
    \/ \E f \in Frames :
          /\ c2g' = Append(c2g, f)
          /\ IsRequest(f, p) =>
                ~Accepted(p) /\ \A g \in Requests : g.proto = p => g.id <= f.id
Receives(p) ==
    \/ Trails(Inbound', Inbound)
    \/ \E a \in Frames : Inbound' = Append(Inbound, a) /\ ~IsAnswer(a, p)
Leaves(p) ==
    /\ answered'[p] = answered[p] /\ granted'[p] = granted[p] /\ UNCHANGED rejects
    /\ Sends(p) /\ Receives(p)

LEMMA ExchangeFrames ==
    ASSUME Typed, NEW p \in Protos
    PROVE  /\ answered[p] # <<>> =>
                /\ answered[p][1] \in Frames /\ answered[p][2] \in Frames
                /\ answered[p][1].id \in Nat /\ answered[p][2].id \in Nat
                /\ answered[p][1] \in Requests
           /\ Queries(p) \subseteq Frames /\ Replies(p) \subseteq Frames
           /\ Queries(p) \subseteq Requests
           /\ \A f \in Queries(p) \cup Replies(p) : f.id \in Nat
<1>1. answered[p] # <<>> => answered[p][1] \in Frames /\ answered[p][2] \in Frames
  BY DEF Typed, TypedGateway
<1>2. Queries(p) \subseteq Frames
  BY DEF Queries, Members, Typed, TypedStreams
<1>3. Replies(p) \subseteq Frames
  <2>1. Inbound \in Seq(Frames)
    BY DEF Inbound, Typed, TypedStreams
  <2> QED
    BY <2>1 DEF Replies, Members
<1>4. Queries(p) \subseteq Requests
  BY DEF Queries, Members, Requests, IsRequest
<1>5. answered[p] # <<>> => answered[p][1] \in Requests
  BY DEF Requests
<1>6. \A f \in Frames : f.id \in Nat
  BY FrameFacts DEF IsFrame
<1> QED
  BY <1>1, <1>2, <1>3, <1>4, <1>5, <1>6

LEMMA OutboundKept ==
    ASSUME Typed, Typed', NEW p \in Protos, Exchange(p), Ordered(p), Leaves(p)
    PROVE  /\ Sorted(c2g, p, {"ConfReq"})'
           /\ \A f \in Queries(p)' : answered[p] # <<>> => answered[p][1].id <= f.id
           /\ Accepted(p) => Queries(p)' \subseteq Queries(p)
<1>0. c2g \in Seq(Frames) /\ c2g' \in Seq(Frames)
  BY DEF Typed, TypedStreams
<1>1. CASE Trails(c2g', c2g)
  <2>1. Members(c2g') \subseteq Members(c2g) /\ Sorted(c2g', p, {"ConfReq"})
    BY <1>0, <1>1, TrailingFrames DEF Ordered
  <2>2. Sorted(c2g, p, {"ConfReq"})' /\ Queries(p)' \subseteq Queries(p)
    BY <2>1 DEF Queries, Sorted, Members
  <2> QED
    BY <2>2 DEF Ordered
<1>2. ASSUME NEW f \in Frames, c2g' = Append(c2g, f),
             IsRequest(f, p) =>
                ~Accepted(p) /\ \A g \in Requests : g.proto = p => g.id <= f.id
      PROVE  /\ Sorted(c2g, p, {"ConfReq"})'
             /\ \A g \in Queries(p)' : answered[p] # <<>> => answered[p][1].id <= g.id
             /\ Accepted(p) => Queries(p)' \subseteq Queries(p)
  <2>1. /\ Members(c2g') = Members(c2g) \cup {f}
        /\ IsRequest(f, p) =>
              \A g \in Members(c2g) : g.proto = p /\ g.code \in {"ConfReq"} => g.id <= f.id
    BY <1>0, <1>2, AppendedFrame, ExchangeFrames DEF Queries, IsRequest
  <2>2. Sorted(c2g', p, {"ConfReq"})
    BY <1>0, <1>2, <2>1, AppendedFrame DEF Ordered, IsRequest
  <2>3. Queries(p)' \subseteq Queries(p) \cup {f}
    BY <2>1 DEF Queries, Members
  <2>4. IsRequest(f, p) /\ answered[p] # <<>> => answered[p][1].id <= f.id
    BY <1>2, ExchangeFrames DEF Exchange, IsRequest
  <2>5. \A g \in Queries(p)' : IsRequest(g, p)
    BY DEF Queries
  <2> QED
    BY <1>2, <2>2, <2>3, <2>4, <2>5 DEF Ordered, Sorted
<1> QED
  BY <1>1, <1>2 DEF Leaves, Sends

LEMMA InboundKept ==
    ASSUME Typed, Typed', NEW p \in Protos, Ordered(p), Leaves(p)
    PROVE  Sorted(Inbound, p, Answers)' /\ Replies(p)' \subseteq Replies(p)
<1>0. Inbound \in Seq(Frames) /\ Inbound' \in Seq(Frames)
  BY DEF Inbound, Typed, TypedStreams
<1>a. Sorted(Inbound, p, Answers)' <=> Sorted(Inbound', p, Answers)
  BY DEF Sorted
<1>b. Replies(p)' = {a \in Members(Inbound') : IsAnswer(a, p)}
  BY DEF Replies, Members
<1>1. CASE Trails(Inbound', Inbound)
  <2>1. Members(Inbound') \subseteq Members(Inbound) /\ Sorted(Inbound', p, Answers)
    BY <1>0, <1>1, TrailingFrames DEF Ordered
  <2> QED
    BY <1>a, <1>b, <2>1 DEF Replies
<1>2. ASSUME NEW a \in Frames, Inbound' = Append(Inbound, a), ~IsAnswer(a, p)
      PROVE  Sorted(Inbound, p, Answers)' /\ Replies(p)' \subseteq Replies(p)
  <2>1. Members(Inbound') = Members(Inbound) \cup {a} /\ Sorted(Inbound', p, Answers)
    BY <1>0, <1>2, AppendedFrame DEF Ordered, IsAnswer
  <2> QED
    BY <1>2, <1>a, <1>b, <2>1 DEF Replies
<1> QED
  BY <1>1, <1>2 DEF Leaves, Receives

LEMMA ExchangeLeft ==
    ASSUME Typed, Typed', NEW p \in Protos, Exchange(p), Ordered(p), Leaves(p)
    PROVE  /\ Exchange(p)' /\ Ordered(p)'
           /\ Settled(p) /\ (Accepted(p)' => Accepted(p))
              /\ (Accepted(p)' /\ Loop' = p => Loop = p /\ id' = id) => Settled(p)'
<1>1. /\ answered'[p] = answered[p] /\ granted'[p] = granted[p] /\ rejects' = rejects
  BY DEF Leaves
<1>2. Exchange(p)'
  BY <1>1 DEF Exchange, Proper
<1>3. Ordered(p)'
  BY <1>1, OutboundKept, InboundKept DEF Ordered, Proper
<1>4. ASSUME Settled(p), Accepted(p)' => Accepted(p),
             Accepted(p)' /\ Loop' = p => Loop = p /\ id' = id
      PROVE  Settled(p)'
  BY <1>1, <1>4, OutboundKept, InboundKept DEF Settled
<1> QED
  BY <1>2, <1>3, <1>4

(* The gateway reads a request: it is the one it has answered before, and gets the
   same answer, or it comes after every request that has an answer under way. *)
LEMMA ExchangeAnswered ==
    ASSUME Typed, Typed', Numbered, GatewayAnswer,
           NEW p \in Protos, IsRequest(c2g[1], p),
           Exchange(p), Ordered(p), Settled(p)
    PROVE  /\ Exchange(p)' /\ Ordered(p)' /\ Settled(p)'
           /\ Accepted(p) => answered'[p][1].opts = answered[p][1].opts
<1> DEFINE f == c2g[1]
<1>1. /\ f \in Frames /\ f \in Requests /\ f \in Queries(p) /\ f.id \in Nat
      /\ \A g \in Queries(p) : f.id <= g.id
      /\ c2g' \in Seq(Frames) /\ Trails(c2g', c2g)
  <2>1. c2g \in Seq(Frames) /\ c2g # <<>> /\ c2g' = Tail(c2g)
    BY DEF GatewayAnswer, Typed, TypedStreams
  <2>2. /\ f \in Members(c2g) /\ f \in Frames /\ Tail(c2g) \in Seq(Frames)
        /\ Trails(Tail(c2g), c2g)
        /\ \A g \in Members(c2g) : g.proto = p /\ g.code \in {"ConfReq"} => f.id <= g.id
    BY <2>1, HeadFrame DEF Ordered, IsRequest
  <2>3. f \in Queries(p)
    BY <2>2 DEF Queries
  <2> QED
    BY <2>1, <2>2, <2>3, ExchangeFrames DEF Queries, IsRequest
<1>2. PICK a \in Frames :
        /\ \/ Repeated(f) /\ a = answered[p][2]
           \/ ~Repeated(f) /\ a \in AnswersTo(f)
        /\ g2c' = Append(g2c, a)
        /\ answered' = [answered EXCEPT ![p] = <<f, a>>]
        /\ granted' = [granted EXCEPT ![p] = IF a.code = "ConfAck" THEN {f.opts} ELSE {}]
  BY AnswerStep DEF IsRequest
<1>3. UNCHANGED <<pc, ours, id, opts, rejects, buf>>
  BY DEF GatewayAnswer, loopVars, bufVars
<1>4. f.proto = p /\ f.code = "ConfReq"
  BY DEF IsRequest
<1> HIDE DEF f
<1>5. /\ answered'[p] = <<f, a>> /\ answered'[p][1] = f /\ answered'[p][2] = a
      /\ answered'[p] # <<>>
      /\ granted'[p] = IF a.code = "ConfAck" THEN {f.opts} ELSE {}
  BY <1>2 DEF Typed, TypedGateway
<1>6. /\ IsAnswer(a, p) /\ a.id = f.id /\ Proper(a)
      /\ a.code = "ConfAck" => a.opts = f.opts
  <2>1. CASE Repeated(f)
    <3>1. /\ answered[p] # <<>> /\ answered[p][1].id = f.id /\ a = answered[p][2]
          /\ answered[p][1] \in Requests /\ IsRequest(answered[p][1], p)
      BY <1>2, <1>4, <2>1, ExchangeFrames DEF Repeated, Exchange
    <3>2. answered[p][1].opts = f.opts
      BY <1>1, <1>4, <3>1 DEF Numbered, IsRequest
    <3> QED
      BY <3>1, <3>2 DEF Exchange
  <2>2. CASE ~Repeated(f)
    BY <1>1, <1>2, <1>4, <2>2, AnswerFacts DEF Proper
  <2> QED
    BY <2>1, <2>2
<1>7. \A b \in Replies(p) : b.id <= f.id /\ (b.id = f.id => b = a)
  <2> SUFFICES ASSUME NEW b \in Replies(p) PROVE b.id <= f.id /\ (b.id = f.id => b = a)
    OBVIOUS
  <2>1. /\ answered[p] # <<>> /\ b.id \in Nat /\ answered[p][1].id \in Nat
        /\ b.id <= answered[p][1].id /\ answered[p][1].id <= f.id
        /\ b.id = answered[p][1].id => b = answered[p][2]
    BY <1>1, ExchangeFrames DEF Ordered
  <2>2. answered[p][1].id = f.id => a = answered[p][2]
    BY <1>2, <1>4, <2>1 DEF Repeated
  <2>3. b.id <= f.id /\ (b.id = f.id => answered[p][1].id = f.id /\ b.id = answered[p][1].id)
    BY <1>1, <2>1
  <2> QED
    BY <2>1, <2>2, <2>3
<1>8. Exchange(p)'
  <2>1. Proper(a)'
    BY <1>3, <1>6 DEF Proper
  <2> QED
    BY <1>4, <1>5, <1>6, <2>1 DEF Exchange, IsRequest, IsAnswer, Proper
<1>9. /\ Sorted(Inbound, p, Answers)'
      /\ Replies(p)' \subseteq Replies(p) \cup {a}
  <2>1. Inbound \in Seq(Frames) /\ Inbound' = Append(Inbound, a)
    BY <1>2, <1>3, InboundStep
  <2>2. \A g \in Members(Inbound) : g.proto = p /\ g.code \in Answers => g.id <= a.id
    BY <1>6, <1>7 DEF Replies, IsAnswer
  <2>3. Members(Inbound') = Members(Inbound) \cup {a} /\ Sorted(Inbound', p, Answers)
    BY <2>1, <2>2, AppendedFrame DEF Ordered
  <2> QED
    BY <2>3 DEF Replies, Members, Sorted
<1>10. /\ Sorted(c2g, p, {"ConfReq"})' /\ Queries(p)' \subseteq Queries(p)
  <2>1. c2g \in Seq(Frames)
    BY DEF Typed, TypedStreams
  <2>2. Members(c2g') \subseteq Members(c2g) /\ Sorted(c2g', p, {"ConfReq"})
    BY <1>1, <2>1, TrailingFrames DEF Ordered
  <2> QED
    BY <2>2 DEF Queries, Sorted, Members
<1>11. Ordered(p)'
  <2>1. \A b \in Replies(p)' : Proper(b)'
    BY <1>3, <1>6, <1>9 DEF Ordered, Proper
  <2>2. \A b \in Replies(p)' : b.id <= f.id /\ (b.id = f.id => b = a)
    BY <1>1, <1>6, <1>7, <1>9
  <2>3. \A g \in Queries(p)' : f.id <= g.id
    BY <1>1, <1>10
  <2> QED
    BY <1>5, <1>9, <1>10, <2>1, <2>2, <2>3 DEF Ordered
<1>12. ASSUME Accepted(p)
       PROVE  Repeated(f) /\ answered[p][1].id = f.id /\ answered[p][1].opts = f.opts
  <2>1. /\ answered[p] # <<>> /\ f.id = answered[p][1].id
    BY <1>1, <1>12 DEF Settled
  <2>2. /\ answered[p][1] \in Requests /\ IsRequest(answered[p][1], p)
    BY <2>1, ExchangeFrames DEF Exchange
  <2> QED
    BY <1>1, <1>4, <2>1, <2>2 DEF Repeated, Numbered, IsRequest
<1>13. Settled(p)'
  <2> SUFFICES ASSUME Accepted(p)' PROVE Settled(p)'
    BY DEF Settled
  <2>1. Accepted(p) /\ Loop' = Loop
    BY <1>3 DEF Accepted, Loop
  <2>2. Repeated(f) /\ answered[p][1].id = f.id /\ a = answered[p][2]
    BY <1>2, <1>12, <2>1
  <2>3. a.code = "ConfAck" /\ (Loop = p => f.id = id)
    BY <2>1, <2>2 DEF Settled
  <2>4. \A g \in Queries(p)' \cup Replies(p)' : g.id = f.id
    BY <1>6, <1>9, <1>10, <2>1, <2>2 DEF Settled
  <2> QED
    BY <1>3, <1>5, <2>1, <2>3, <2>4 DEF Settled
<1> QED
  BY <1>5, <1>8, <1>11, <1>12, <1>13

(* An acknowledgement with the identifier of the outstanding request is the
   gateway's answer to it, and there is nothing else under way. *)
LEMMA AckAnswersRequest ==
    ASSUME Typed, Numbered, pc \in Protos, Exchange(pc), Ordered(pc),
           Inbound # <<>>, IsAnswer(Inbound[1], pc), Inbound[1].id = id
    PROVE  /\ answered[pc] # <<>> /\ answered[pc][2] = Inbound[1]
           /\ answered[pc][1].id = id /\ answered[pc][1].opts = opts
           /\ \A f \in Queries(pc) \cup Replies(pc) : f.id = id
<1>0. Loop = pc /\ id \in Nat
  BY DEF Loop, Protos, Typed, TypedLoop
<1>1. /\ Inbound[1] \in Replies(pc)
      /\ \A g \in Replies(pc) : id <= g.id
  <2>1. Inbound \in Seq(Frames)
    BY DEF Inbound, Typed, TypedStreams
  <2> DEFINE h == Inbound[1]
  <2>2. /\ h \in Members(Inbound)
        /\ \A g \in Members(Inbound) : g.proto = pc /\ g.code \in Answers => h.id <= g.id
    BY <2>1, HeadFrame DEF Ordered, IsAnswer
  <2> QED
    BY <2>2 DEF Replies, IsAnswer
<1>2. /\ answered[pc] # <<>> /\ answered[pc][1] \in Requests /\ answered[pc][1].id \in Nat
      /\ IsRequest(answered[pc][1], pc)
      /\ id <= answered[pc][1].id
  BY <1>1, ExchangeFrames DEF Ordered, Exchange
<1>3. \A g \in Requests : g.proto = pc => g.id <= id /\ (g.id = id => g.opts = opts)
  BY <1>0 DEF Numbered
<1>4. answered[pc][1].id = id /\ answered[pc][1].opts = opts
  BY <1>0, <1>2, <1>3 DEF IsRequest
<1>5. answered[pc][2] = Inbound[1]
  BY <1>1, <1>4 DEF Ordered
<1>6. ASSUME NEW f \in Queries(pc) PROVE f.id = id
  <2>1. id <= f.id /\ f.id \in Nat
    BY <1>2, <1>4, ExchangeFrames DEF Ordered
  <2>2. f.id <= id
    BY <1>3, ExchangeFrames DEF Queries, IsRequest
  <2> QED
    BY <1>0, <2>1, <2>2
<1>7. ASSUME NEW f \in Replies(pc) PROVE f.id = id
  <2>1. id <= f.id /\ f.id \in Nat /\ f.id <= id
    BY <1>1, <1>4, ExchangeFrames DEF Ordered
  <2> QED
    BY <1>0, <2>1
<1> QED
  BY <1>2, <1>4, <1>5, <1>6, <1>7

(* After the acknowledgement was taken no Nak or Reject comes any more. *)
LEMMA NoLateRevision ==
    ASSUME Typed, pc \in Protos, ours, Ordered(pc), Settled(pc),
           Inbound # <<>>, IsAnswer(Inbound[1], pc)
    PROVE  Inbound[1].code = "ConfAck"
<1>1. Inbound[1] \in Replies(pc)
  <2>1. Inbound \in Seq(Frames)
    BY DEF Inbound, Typed, TypedStreams
  <2>2. Inbound[1] \in Members(Inbound)
    BY <2>1, HeadFrame
  <2> QED
    BY <2>2 DEF Replies
<1>2. Accepted(pc)
  BY DEF Accepted
<1> QED
  BY <1>1, <1>2 DEF Settled, Ordered

LEMMA RequestArrives ==
    ASSUME Typed, GatewayRequest
    PROVE  \E a \in Frames : g2c' = Append(g2c, a) /\ a.code = "ConfReq" /\ a.proto \in Protos
<1>1. PICK q \in Protos : \E o \in GatewayRequests[q] :
        asked[q] < MaxAsked /\ g2c' = Append(g2c, Frame(q, "ConfReq", asked[q] + 1, o))
  BY DEF GatewayRequest, Deliver
<1>2. PICK o \in GatewayRequests[q] :
        asked[q] < MaxAsked /\ g2c' = Append(g2c, Frame(q, "ConfReq", asked[q] + 1, o))
  BY <1>1
<1>3. o \in OptionLists
  BY GatewayAssumption, OptionListFacts DEF IsOptions, Optional
<1>4. asked[q] + 1 \in Nat /\ asked[q] + 1 < IdMod
  BY <1>2 DEF Typed, TypedGateway
<1>5. /\ Frame(q, "ConfReq", asked[q] + 1, o) \in Frames
      /\ Frame(q, "ConfReq", asked[q] + 1, o).proto = q
      /\ Frame(q, "ConfReq", asked[q] + 1, o).code = "ConfReq"
  BY <1>3, <1>4, ControlFrame DEF Codes
<1> QED
  BY <1>2, <1>5

LEMMA LeavesStep ==
    ASSUME Typed, Typed', Negotiated, [Next]_vars, ~Failing,
           NEW p \in Protos, ~(GatewayAnswer /\ IsRequest(c2g[1], p))
    PROVE  Leaves(p)
<1> USE DEF loopVars, agreedVars, bufVars, gatewayVars
<1>0. Numbered
  BY DEF Negotiated
<1>a. ASSUME UNCHANGED c2g PROVE Sends(p)
  <2>1. Len(c2g) \in Nat
    BY DEF Typed, TypedStreams
  <2>2. Len(c2g) = Len(c2g) + 0 /\ \A i \in 1 .. Len(c2g) : i + 0 = i
    BY <2>1
  <2> QED
    BY <1>a, <2>2 DEF Sends, Trails, Behind
<1>b. ASSUME UNCHANGED <<buf, g2c>> \/ Handles \/ Fetches \/ Finishes PROVE Receives(p)
  BY <1>b, InboundStep DEF Receives
<1>c. ASSUME NEW a \in Frames, UNCHANGED buf, g2c' = Append(g2c, a), ~IsAnswer(a, p)
      PROVE  Receives(p)
  BY <1>c, InboundStep DEF Receives
<1>d. ASSUME UNCHANGED gatewayVars, Sends(p), Receives(p) PROVE Leaves(p)
  BY <1>d DEF Leaves
<1>1. CASE LcpUp
  <2> DEFINE F == Frame("IPCP", "ConfReq", 1, IpcpRequest)
  <2>1. F \in Frames /\ F.proto = "IPCP"
    BY FirstFrames, FrameFacts
  <2>2. c2g' = Append(c2g, F) /\ UNCHANGED <<gatewayVars, buf, g2c>> /\ pc = "LCP"
    BY <1>1 DEF LcpUp, Send
  <2> HIDE DEF F
  <2>3. \A g \in Requests : g.proto # "IPCP"
    BY <1>0, <2>2 DEF Numbered
  <2>4. Sends(p)
    BY <2>1, <2>2, <2>3 DEF Sends, IsRequest, Accepted
  <2> QED
    BY <1>b, <1>d, <2>2, <2>4
<1>2. CASE Finishes \/ Fetches
  BY <1>2, <1>a, <1>b, <1>d DEF Finishes, Fetches
<1>3. CASE RecvTimeout
  <2> DEFINE F == Frame(pc, "ConfReq", id, opts)
  <2>1. pc \in Protos /\ opts \in OptionLists /\ id \in Nat /\ id < IdMod /\ Loop = pc
    BY <1>3 DEF RecvTimeout, InRound, Looping, Negotiating, Typed, TypedLoop, Loop, Protos
  <2>2. F \in Frames /\ F.proto = pc /\ F.id = id
    BY <2>1, ControlFrame DEF Codes
  <2>3. /\ UNCHANGED <<gatewayVars, buf, g2c>>
        /\ UNCHANGED c2g \/ (~ours /\ c2g' = Append(c2g, F))
    <3>1. UNCHANGED <<gatewayVars, buf, g2c>>
      BY <1>3 DEF RecvTimeout
    <3>2. IF ours THEN UNCHANGED c2g ELSE c2g' = Append(c2g, F)
      BY <1>3 DEF RecvTimeout, Send
    <3> QED
      BY <3>1, <3>2
  <2> HIDE DEF F
  <2>4. \A g \in Requests : g.proto = pc => g.id <= id
    BY <1>0, <2>1 DEF Numbered
  <2>5. ~ours => ~Accepted(pc)
    BY <2>1 DEF Accepted, Protos
  <2>6. Sends(p)
    BY <1>a, <2>2, <2>3, <2>4, <2>5 DEF Sends, IsRequest
  <2> QED
    BY <1>b, <1>d, <2>3, <2>6
<1>4. CASE Handles /\ UNCHANGED c2g
  BY <1>4, <1>a, <1>b, <1>d DEF Handles
<1>5. CASE Responds
  <2>1. Sends(p)
    BY <1>5 DEF Responds, Sends, IsRequest
  <2> QED
    BY <1>5, <1>b, <1>d, <2>1 DEF Responds, Handles
<1>6. ASSUME NEW o \in OptionLists, Revises(o)
      PROVE  Leaves(p)
  <2> DEFINE F == Frame(pc, "ConfReq", id + 1, o)
  <2>1. /\ pc \in Protos /\ id \in Nat /\ id + 1 \in Nat /\ id + 1 < IdMod /\ Loop = pc
        /\ ours \in BOOLEAN
    <3>1. pc \in Protos /\ Loop = pc /\ rounds < MaxRounds
      BY <1>6 DEF Revises, Handles, Negotiating, Loop, Protos
    <3>2. rounds \in 0 .. MaxRounds /\ id \in 1 .. rounds + 1 /\ ours \in BOOLEAN
      BY DEF Typed, TypedLoop
    <3> QED
      BY <3>1, <3>2
  <2>2. F \in Frames /\ F.proto = pc /\ F.id = id + 1
    <3>1. "ConfReq" \in Codes
      BY DEF Codes
    <3> DEFINE n == id + 1
    <3>2. n \in Nat /\ n < IdMod
      BY <2>1
    <3> HIDE DEF n
    <3>3. /\ Frame(pc, "ConfReq", n, o) \in Frames
          /\ Frame(pc, "ConfReq", n, o).proto = pc /\ Frame(pc, "ConfReq", n, o).id = n
      BY <2>1, <3>1, <3>2, ControlFrame
    <3> QED
      BY <3>3 DEF n
  <2>3. c2g' = Append(c2g, F) /\ Handles
    BY <1>6 DEF Revises
  <2> HIDE DEF F
  <2>4. \A g \in Requests : g.proto = pc => g.id <= id + 1
    <3>1. \A g \in Requests : g.id \in Nat
      BY RequestFrames
    <3>2. \A g \in Requests : g.proto = pc => g.id <= id
      BY <1>0, <2>1 DEF Numbered
    <3> QED
      BY <2>1, <3>1, <3>2
  <2>5. ~Accepted(pc)
    <3>1. Inbound # <<>> /\ Inbound[1] = buf[1]
      BY <2>3, InboundStep
    <3>2. IsAnswer(buf[1], pc) /\ buf[1].code # "ConfAck"
      BY <1>6 DEF Revises
    <3>3. ~ours
      BY <2>1, <3>1, <3>2, NoLateRevision DEF Negotiated
    <3> QED
      BY <2>1, <3>3 DEF Accepted, Protos
  <2>6. Sends(p)
    BY <2>2, <2>3, <2>4, <2>5 DEF Sends, IsRequest
  <2> QED
    BY <1>b, <1>d, <2>3, <2>6 DEF Handles
<1>7. CASE GatewayAnswer
  <2> DEFINE f == c2g[1]
  <2>1. UNCHANGED <<buf, rejects>> /\ c2g # <<>> /\ c2g' = Tail(c2g) /\ ~IsRequest(f, p)
    BY <1>7 DEF GatewayAnswer
  <2>2. Sends(p)
    <3>1. c2g \in Seq(Frames)
      BY DEF Typed, TypedStreams
    <3> QED
      BY <2>1, <3>1, HeadFrame DEF Sends
  <2>3. CASE UNCHANGED <<g2c, answered, granted>>
    BY <1>b, <2>1, <2>2, <2>3 DEF Leaves
  <2>4. CASE ~UNCHANGED <<g2c, answered, granted>>
    <3>0. f \in Frames /\ f \in Requests /\ f.proto \in Protos
      BY <1>7, <2>4, AnswerStep
    <3>1. PICK a \in Frames :
             /\ \/ Repeated(f) /\ a = answered[f.proto][2]
                \/ ~Repeated(f) /\ a \in AnswersTo(f)
             /\ g2c' = Append(g2c, a)
             /\ answered' = [answered EXCEPT ![f.proto] = <<f, a>>]
             /\ granted' = [granted EXCEPT ![f.proto] =
                              IF a.code = "ConfAck" THEN {f.opts} ELSE {}]
      BY <1>7, <2>4, AnswerStep
    <3>2. f.proto # p
      <4>1. f.code = "ConfReq"
        BY <1>7, <2>4 DEF GatewayAnswer
      <4> QED
        BY <2>1, <4>1 DEF IsRequest
    <3>3. a.proto = f.proto
      <4>1. CASE Repeated(f)
        <5>1. Exchange(f.proto) /\ answered[f.proto] # <<>> /\ a = answered[f.proto][2]
          BY <3>0, <3>1, <4>1 DEF Negotiated, Repeated
        <5> QED
          BY <5>1 DEF Exchange, IsAnswer
      <4>2. CASE ~Repeated(f)
        BY <3>0, <3>1, <4>2, AnswerFacts DEF IsAnswer
      <4> QED
        BY <4>1, <4>2
    <3> HIDE DEF f
    <3>4. answered'[p] = answered[p] /\ granted'[p] = granted[p]
      BY <3>1, <3>2 DEF Typed, TypedGateway
    <3>5. Receives(p)
      BY <1>c, <2>1, <3>1, <3>2, <3>3 DEF IsAnswer
    <3> QED
      BY <2>1, <2>2, <3>4, <3>5 DEF Leaves
  <2> QED
    BY <2>3, <2>4
<1>8. CASE GatewayRequest
  <2>1. UNCHANGED <<buf, c2g, rejects, answered, granted>>
    BY <1>8 DEF GatewayRequest
  <2>2. PICK a \in Frames : g2c' = Append(g2c, a) /\ a.code = "ConfReq"
    BY <1>8, RequestArrives
  <2>3. ~IsAnswer(a, p)
    BY <2>2 DEF IsAnswer, Answers
  <2> QED
    BY <1>a, <1>c, <2>1, <2>2, <2>3 DEF Leaves
<1>9. CASE GatewayUnasked
  <2>1. UNCHANGED <<buf, c2g, rejects, answered, granted>>
    BY <1>9 DEF GatewayUnasked
  <2>2. PICK a : g2c' = Append(g2c, a)
               /\ (a = Frame("IPV4", "Other", packets + 1, NoOptions) \/ a \in GatewayFrames)
    BY <1>9 DEF GatewayUnasked, Deliver
  <2>3. packets + 1 \in Nat
    BY DEF Typed, TypedGateway
  <2>4. a \in Frames /\ ~IsAnswer(a, p)
    BY <2>2, <2>3, PacketFrame, FrameFacts, FramesAssumption DEF IsAnswer, Answers
  <2> QED
    BY <1>a, <1>c, <2>1, <2>2, <2>4 DEF Leaves
<1>10. CASE UNCHANGED vars
  BY <1>10, <1>a, <1>b, <1>d DEF vars
<1>11. ASSUME NEW f, (OnIpv4(f) \/ OnConfAck(f)) /\ Handles PROVE UNCHANGED c2g
  BY <1>11 DEF OnIpv4, OnConfAck
<1> QED
  BY <1>1, <1>2, <1>3, <1>4, <1>5, <1>6, <1>7, <1>8, <1>9, <1>10, <1>11, NextCases DEF Ignores

LEMMA ExchangeStep ==
    ASSUME Typed, Typed', Negotiated, [Next]_vars, NEW p \in Protos
    PROVE  Exchange(p)' /\ Ordered(p)' /\ Settled(p)'
<1> USE DEF loopVars, agreedVars, bufVars, gatewayVars
<1>0. Numbered /\ Exchange(p) /\ Ordered(p) /\ Settled(p)
  BY DEF Negotiated
<1>1. CASE Failing
  <2>1. /\ answered'[p] = <<>> /\ granted'[p] = {} /\ c2g' = <<>> /\ buf' = <<>> /\ g2c' = <<>>
        /\ pc' = "failed"
    BY <1>1 DEF Failing, Fail
  <2>2. Inbound' = <<>>
    BY <2>1 DEF Inbound
  <2>3. Len(Inbound') = 0 /\ Len(c2g') = 0
    BY <2>1, <2>2
  <2>4. Queries(p)' = {} /\ Replies(p)' = {}
    BY <2>3 DEF Queries, Replies, Members
  <2>5. Ordered(p)'
    BY <2>3, <2>4 DEF Ordered, Sorted
  <2>6. ~Accepted(p)'
    BY <2>1 DEF Accepted, Protos
  <2> QED
    BY <2>1, <2>5, <2>6 DEF Exchange, Settled
<1>2. CASE GatewayAnswer /\ IsRequest(c2g[1], p)
  BY <1>0, <1>2, ExchangeAnswered
<1>3. CASE ~Failing /\ ~(GatewayAnswer /\ IsRequest(c2g[1], p))
  <2>1. Leaves(p)
    BY <1>3, LeavesStep
  <2>2. Exchange(p)' /\ Ordered(p)'
    BY <1>0, <2>1, ExchangeLeft
  <2>3. /\ Accepted(p)' => Accepted(p)
        /\ Accepted(p)' /\ Loop' = p => Loop = p /\ id' = id
        => Settled(p)'
    BY <1>0, <2>1, ExchangeLeft
  <2>4. CASE UNCHANGED <<pc, ours, id>>
    <3>1. (Accepted(p)' => Accepted(p)) /\ Loop' = Loop
      BY <2>4 DEF Accepted, Loop
    <3> QED
      BY <2>2, <2>3, <2>4, <3>1
  <2>5. CASE LcpUp
    <3>1. pc = "LCP" /\ ours /\ pc' = "IPCP" /\ ~ours'
      BY <2>5 DEF LcpUp
    <3>2. /\ Accepted(p)' => Accepted(p)
          /\ Accepted(p)' /\ Loop' = p => Loop = p /\ id' = id
      BY <3>1 DEF Accepted, Loop, Protos
    <3> QED
      BY <2>2, <2>3, <3>2
  <2>6. CASE Finishes
    <3>1. pc = "IPCP" /\ ours /\ pc' = "up" /\ id' = id /\ ours' = ours
      BY <2>6 DEF Finishes
    <3>2. /\ Accepted(p)' => Accepted(p)
          /\ Accepted(p)' /\ Loop' = p => Loop = p /\ id' = id
      BY <3>1 DEF Accepted, Loop, Protos
    <3> QED
      BY <2>2, <2>3, <3>2
  <2>7. ASSUME NEW o \in OptionLists, Revises(o)
        PROVE  Settled(p)'
    <3>1. UNCHANGED <<pc, ours>> /\ pc \in Protos /\ Handles /\ ours \in BOOLEAN
      BY <2>7 DEF Revises, Handles, Negotiating, Typed, TypedLoop
    <3>2. Inbound # <<>> /\ Inbound[1] = buf[1]
      BY <3>1, InboundStep
    <3>3. IsAnswer(buf[1], pc) /\ buf[1].code # "ConfAck"
      BY <2>7 DEF Revises
    <3>4. ~ours
      BY <3>1, <3>2, <3>3, NoLateRevision DEF Negotiated
    <3> QED
      BY <2>3, <3>1, <3>4 DEF Accepted, Loop, Protos
  <2>8. ASSUME OnConfAck(buf[1]), Handles
        PROVE  Settled(p)'
    <3>1. UNCHANGED <<pc, id, answered>> /\ pc \in Protos
      BY <2>8 DEF OnConfAck, Handles, SameRequest, Negotiating
    <3>2. CASE p # pc
      <4>1. (Accepted(p)' => Accepted(p)) /\ Loop' = Loop
        BY <3>1, <3>2 DEF Accepted, Loop, Protos
      <4> QED
        BY <2>3, <3>1, <4>1
    <3>3. CASE p = pc
      <4>1. Inbound # <<>> /\ Inbound[1] = buf[1]
        BY <2>8, InboundStep
      <4>2. IsAnswer(buf[1], pc) /\ buf[1].id = id /\ buf[1].code = "ConfAck"
        BY <2>8 DEF OnConfAck, AckMatches, IsAnswer, Answers
      <4>3. /\ answered[p] # <<>> /\ answered[p][2].code = "ConfAck"
            /\ answered[p][1].id = id
            /\ \A f \in Queries(p) \cup Replies(p) : f.id = id
        BY <1>0, <3>1, <3>3, <4>1, <4>2, AckAnswersRequest
      <4>4. Replies(p)' \subseteq Replies(p)
        BY <1>0, <2>1, InboundKept
      <4>5. Queries(p)' = Queries(p)
        BY <2>8 DEF OnConfAck, Queries, Members
      <4> QED
        BY <3>1, <4>3, <4>4, <4>5 DEF Settled
    <3> QED
      BY <3>2, <3>3
  <2>9. CASE Fetches \/ RecvTimeout \/ Responds \/ Ignores \/ GatewayAnswer
             \/ GatewayRequest \/ GatewayUnasked \/ UNCHANGED vars
    BY <2>4, <2>9 DEF Fetches, RecvTimeout, Responds, Ignores, Handles, GatewayAnswer,
       GatewayRequest, GatewayUnasked, vars
  <2>10. ASSUME NEW f, OnIpv4(f) /\ Handles PROVE Settled(p)'
    BY <2>4, <2>10 DEF OnIpv4, Handles, SameRequest
  <2>11. Settled(p)'
    BY <1>3, <2>5, <2>6, <2>7, <2>8, <2>9, <2>10, NextCases
  <2> QED
    BY <2>2, <2>11
<1> QED
  BY <1>1, <1>2, <1>3

LEMMA HarvestedStep ==
    ASSUME Typed, Typed', Negotiated, [Next]_vars
    PROVE  Harvested'
<1> USE DEF loopVars, agreedVars, bufVars, gatewayVars
<1>0. Numbered /\ Harvested /\ \A p \in Protos : Exchange(p) /\ Ordered(p) /\ Settled(p)
  BY DEF Negotiated
<1>1. CASE Failing
  <2>1. pc' = "failed"
    BY <1>1 DEF Failing, Fail
  <2> QED
    BY <2>1 DEF Harvested, Accepted
<1>2. ASSUME UNCHANGED <<pc, ours, mru, address, opts, rejects>>,
             Accepted("LCP") => answered'["LCP"][1].opts = answered["LCP"][1].opts
      PROVE  Harvested'
  <2>1. Accepted("LCP")' <=> Accepted("LCP")
    BY <1>2 DEF Accepted
  <2> QED
    BY <1>0, <1>2, <2>1 DEF Harvested
<1>3. CASE GatewayAnswer /\ ~Failing
  <2>1. Accepted("LCP") => answered'["LCP"][1].opts = answered["LCP"][1].opts
    <3>1. CASE IsRequest(c2g[1], "LCP")
      BY <1>0, <1>3, <3>1, ExchangeAnswered DEF Protos
    <3>2. CASE ~IsRequest(c2g[1], "LCP")
      BY <1>3, <3>2, LeavesStep DEF Protos, Leaves
    <3> QED
      BY <3>1, <3>2
  <2> QED
    BY <1>2, <1>3, <2>1 DEF GatewayAnswer
<1>4. CASE LcpUp
  <2>1. /\ pc = "LCP" /\ ours /\ pc' = "IPCP" /\ opts' = IpcpRequest
        /\ UNCHANGED <<mru, address, answered, rejects>>
    BY <1>4 DEF LcpUp
  <2>2. Asks(opts', "ADDR", 0) = 0
    BY <2>1 DEF Asks, IpcpRequest, IpcpOptions
  <2>3. Accepted("LCP") /\ Asks(opts, "ADDR", 0)' = Asks(opts', "ADDR", 0)
    BY <2>1 DEF Accepted, Asks
  <2> QED
    BY <1>0, <2>1, <2>2, <2>3 DEF Harvested
<1>5. CASE Finishes
  <2>1. /\ pc = "IPCP" /\ ours /\ pc' = "up" /\ address # 0
        /\ UNCHANGED <<mru, address, opts, answered, rejects>>
    BY <1>5 DEF Finishes
  <2>2. Accepted("LCP")
    BY <2>1 DEF Accepted
  <2> QED
    BY <1>0, <2>1, <2>2 DEF Harvested
<1>6. ASSUME NEW o \in OptionLists, Revises(o)
      PROVE  Harvested'
  <2>1. /\ UNCHANGED <<pc, ours, mru, rejects, answered>> /\ pc \in Protos /\ Handles
        /\ opts' = o
    BY <1>6 DEF Revises, Handles, Negotiating
  <2>2. (Accepted("LCP")' <=> Accepted("LCP")) /\ Asks(opts, "ADDR", 0)' = Asks(o, "ADDR", 0)
    BY <2>1 DEF Accepted, Asks
  <2>3. CASE pc = "LCP"
    <3>1. UNCHANGED address
      BY <1>6, <2>3 DEF Revises
    <3> QED
      BY <1>0, <2>1, <2>2, <2>3, <3>1 DEF Harvested
  <2>4. CASE pc = "IPCP"
    <3> DEFINE a == buf[1]
    <3>1. /\ address = Asks(opts, "ADDR", 0) /\ (address # 0 => "ADDR" \notin rejects)
      BY <1>0, <2>4 DEF Harvested
    <3>2. a \in Replies(pc) /\ Proper(a)
      <4>1. Inbound # <<>> /\ Inbound[1] = a /\ Inbound \in Seq(Frames)
        BY <2>1, InboundStep
      <4>2. a \in Members(Inbound)
        BY <4>1, HeadFrame
      <4>3. a \in Replies(pc)
        BY <1>6, <4>2 DEF Revises, Replies
      <4> QED
        BY <1>0, <2>1, <4>3 DEF Ordered
    <3> HIDE DEF a
    <3>3. CASE a.code = "ConfNak"
      <4>1. /\ o = AdoptIpcp(a.opts) /\ address' = HarvestAddress(a.opts)
        BY <1>6, <2>4, <3>3 DEF Revises, Harvest, a
      <4>2. IsOptions(a.opts, Values) /\ DOMAIN a.opts \cap rejects = {}
        BY <3>2, <3>3 DEF Proper
      <4>3. "ADDR" \in DOMAIN a.opts => a.opts["ADDR"] # 0 /\ "ADDR" \notin rejects
        BY <4>2 DEF IsOptions
      <4>4. address' = Asks(o, "ADDR", 0) /\ (address' # 0 => "ADDR" \notin rejects)
        BY <3>1, <4>1, <4>3 DEF AdoptIpcp, HarvestAddress, Asks
      <4> QED
        BY <1>0, <2>1, <2>2, <2>4, <4>4 DEF Harvested
    <3>4. CASE a.code = "ConfRej"
      <4>1. /\ o = [n \in DOMAIN opts \ DOMAIN a.opts |-> opts[n]] /\ UNCHANGED address
        BY <1>6, <3>4 DEF Revises, a
      <4>2. DOMAIN a.opts \subseteq rejects
        BY <3>2, <3>4 DEF Proper
      <4>3. address' = Asks(o, "ADDR", 0) /\ (address' # 0 => "ADDR" \notin rejects)
        BY <3>1, <4>1, <4>2 DEF Asks
      <4> QED
        BY <1>0, <2>1, <2>2, <2>4, <4>3 DEF Harvested
    <3> QED
      BY <1>6, <3>3, <3>4 DEF Revises, a
  <2> QED
    BY <2>1, <2>3, <2>4 DEF Protos
<1>7. ASSUME OnConfAck(buf[1]), Handles
      PROVE  Harvested'
  <2> DEFINE a == buf[1]
  <2>1. UNCHANGED <<pc, opts, rejects, answered>> /\ pc \in Protos /\ ours'
    BY <1>7 DEF OnConfAck, Handles, SameRequest, Negotiating
  <2>2. a.opts = opts /\ answered[pc][1].opts = opts
    <3>1. Inbound # <<>> /\ Inbound[1] = a
      BY <1>7, InboundStep
    <3>2. IsAnswer(a, pc) /\ a.id = id /\ a.code = "ConfAck"
      BY <1>7 DEF OnConfAck, AckMatches, IsAnswer, Answers
    <3>3. answered[pc] # <<>> /\ answered[pc][2] = a /\ answered[pc][1].opts = opts
      BY <1>0, <2>1, <3>1, <3>2, AckAnswersRequest
    <3>4. a.opts = answered[pc][1].opts
      BY <1>0, <2>1, <3>2, <3>3 DEF Exchange
    <3> QED
      BY <3>3, <3>4
  <2>3. CASE pc = "LCP"
    <3>1. /\ mru' = IF "MRU" \in DOMAIN opts THEN opts["MRU"] ELSE mru
          /\ UNCHANGED address
      BY <1>7, <2>2, <2>3 DEF OnConfAck
    <3>2. ours => Accepted("LCP") /\ mru = Asks(opts, "MRU", DefaultMru)
      BY <1>0, <2>2, <2>3 DEF Accepted, Harvested
    <3>3. ours \in BOOLEAN /\ (~ours => mru = DefaultMru)
      BY <1>0, <2>3 DEF Harvested, Typed, TypedLoop
    <3>4. mru' = Asks(opts, "MRU", DefaultMru)
      BY <3>1, <3>2, <3>3 DEF Asks
    <3> QED
      BY <1>0, <2>1, <2>2, <2>3, <3>1, <3>4 DEF Harvested
  <2>4. CASE pc = "IPCP"
    <3>1. address' = HarvestAddress(opts) /\ UNCHANGED mru
      BY <1>7, <2>2, <2>4 DEF OnConfAck, Harvest
    <3>2. address = Asks(opts, "ADDR", 0)
      BY <1>0, <2>4 DEF Harvested
    <3>3. address' = address
      BY <3>1, <3>2 DEF HarvestAddress, Asks
    <3>4. Accepted("LCP")
      BY <2>4 DEF Accepted
    <3> QED
      BY <1>0, <2>1, <2>4, <3>1, <3>3, <3>4 DEF Harvested
  <2> QED
    BY <2>1, <2>3, <2>4 DEF Protos
<1>8. ASSUME UNCHANGED <<pc, ours, mru, address, opts, rejects, answered>>
      PROVE  Harvested'
  BY <1>2, <1>8
<1>9. CASE Fetches \/ RecvTimeout \/ Responds \/ Ignores
           \/ GatewayRequest \/ GatewayUnasked \/ UNCHANGED vars
  BY <1>8, <1>9 DEF Fetches, RecvTimeout, Responds, Ignores, Handles,
     GatewayRequest, GatewayUnasked, vars
<1>10. ASSUME NEW f, OnIpv4(f) /\ Handles PROVE Harvested'
  BY <1>8, <1>10 DEF OnIpv4, Handles, SameRequest
<1> QED
  BY <1>1, <1>3, <1>4, <1>5, <1>6, <1>7, <1>9, <1>10, NextCases

LEMMA NegotiatedInvariant == Spec => []Negotiated
<1>1. Init => (\A p \in Protos : Exchange(p) /\ Ordered(p) /\ Settled(p)) /\ Harvested
  <2> SUFFICES ASSUME Init, NEW p \in Protos
               PROVE  Exchange(p) /\ Ordered(p) /\ Settled(p) /\ Harvested
    BY DEF Protos
  <2>1. /\ pc = "LCP" /\ ~ours /\ mru = DefaultMru /\ address = 0
        /\ answered[p] = <<>> /\ granted[p] = {}
    BY DEF Init
  <2>2. ~Accepted(p) /\ ~Accepted("LCP")
    BY <2>1 DEF Accepted
  <2>3. Harvested
    BY <2>1, <2>2 DEF Harvested
  <2>4. \A q, C : Sorted(c2g, q, C)
    <3>1. Len(c2g) = 1
      BY DEF Init
    <3> QED
      BY <3>1 DEF Sorted
  <2>5. /\ \A q, C : Sorted(Inbound, q, C)
        /\ \A f \in Members(Inbound) : f.proto = "HTTP"
    <3>1. CASE g2c = <<>>
      <4>1. Inbound = <<>>
        BY <3>1 DEF Init, Inbound
      <4>2. Len(Inbound) = 0
        BY <4>1
      <4> QED
        BY <4>2 DEF Sorted, Members
    <3>2. ASSUME NEW c \in Prologues, g2c = <<Frame("HTTP", c, 0, NoOptions)>>
          PROVE  /\ \A q, C : Sorted(Inbound, q, C)
                 /\ \A f \in Members(Inbound) : f.proto = "HTTP"
      <4> DEFINE F == Frame("HTTP", c, 0, NoOptions)
      <4>1. F.proto = "HTTP" /\ buf = <<>> /\ g2c = <<F>>
        BY <3>2, FrameFacts DEF Init
      <4> HIDE DEF F
      <4>2. Inbound = <<F>>
        BY <4>1 DEF Inbound
      <4>3. Len(Inbound) = 1 /\ Inbound[1] = F
        BY <4>2
      <4> QED
        BY <4>1, <4>3 DEF Sorted, Members
    <3> QED
      BY <3>1, <3>2 DEF Init
  <2>6. Replies(p) = {}
    BY <2>5 DEF Replies, IsAnswer, Protos
  <2> QED
    BY <2>1, <2>2, <2>3, <2>4, <2>5, <2>6 DEF Exchange, Ordered, Settled
<1>2. Typed /\ Typed' /\ Numbered' /\ Negotiated /\ [Next]_vars => Negotiated'
  BY ExchangeStep, HarvestedStep DEF Negotiated
<1>3. Init /\ Numbered => Negotiated
  BY <1>1 DEF Negotiated
<1> QED
  BY <1>2, <1>3, TypedInvariant, NumberedInvariant, PTL DEF Spec

(***************************************************************************)
(* When the link is up the gateway has acknowledged exactly the address    *)
(* and the MRU the session uses, and has not gone back on it, although     *)
(* requests are sent again, answered again, and neither a Nak nor a Reject *)
(* is matched with the request it answers.                                 *)
(***************************************************************************)
THEOREM SessionAsAgreed == Spec => []Agreement
<1>1. Typed /\ Negotiated => Agreement
  <2> SUFFICES ASSUME Typed, Negotiated, pc = "up" PROVE Agreement
    BY DEF Agreement
  <2>1. /\ Numbered /\ Harvested /\ Loop = "IPCP"
        /\ \A p \in Protos : Exchange(p) /\ Settled(p) /\ Accepted(p)
    BY DEF Negotiated, Accepted, Protos, Loop
  <2>2. \A p \in Protos :
          answered[p] # <<>> /\ granted[p] = {answered[p][1].opts} /\ IsRequest(answered[p][1], p)
    BY <2>1 DEF Exchange, Settled
  <2>3. answered["IPCP"][1].opts = opts
    <3>1. answered["IPCP"][1] \in Requests /\ answered["IPCP"][1].id = id
      BY <2>1, <2>2, ExchangeFrames DEF Settled, Protos
    <3> QED
      BY <2>1, <2>2, <3>1 DEF Numbered, IsRequest, Protos
  <2>4. "ADDR" \in DOMAIN opts /\ opts["ADDR"] = address
    BY <2>1 DEF Harvested, Asks
  <2>5. mru = Asks(answered["LCP"][1].opts, "MRU", DefaultMru)
    BY <2>1 DEF Harvested, Protos
  <2> QED
    BY <2>2, <2>3, <2>4, <2>5 DEF Agreement, Asks, Protos
<1> QED
  BY <1>1, TypedInvariant, NegotiatedInvariant, PTL

-------------------------------------------------------------------------------
(* The packets in s are n + 1, n + 2, ..., m, in this order. *)
Packets(s) == {i \in 1 .. Len(s) : s[i].proto = "IPV4"}
Consecutive(s, n, m) ==
    /\ \A i \in Packets(s) : s[i].id \in n + 1 .. m
    /\ \A x \in n + 1 .. m : \E i \in Packets(s) : s[i].id = x
    /\ \A i, j \in Packets(s) : i < j => s[i].id < s[j].id

(* The packets staged are the first ones sent, those still to come the others. *)
Undelivered == prime \o buf \o g2c
Kept ==
    pc # "failed" =>
        /\ early = [i \in 1 .. Len(early) |-> i] /\ Len(early) <= packets
        /\ Consecutive(Undelivered, Len(early), packets)

LEMMA SameFrames ==
    ASSUME NEW s \in Seq(Frames), NEW t \in Seq(Frames), NEW n \in Nat, NEW m \in Nat,
           Consecutive(s, n, m), Behind(t, s, 0)
    PROVE  Consecutive(t, n, m)
<1>1. /\ Len(s) = Len(t) /\ Len(t) \in Nat
      /\ \A i \in 1 .. Len(t) : t[i] = s[i]
  <2>1. Len(s) = Len(t) /\ Len(t) \in Nat /\ \A i \in 1 .. Len(t) : i + 0 = i
    BY DEF Behind
  <2> QED
    BY <2>1 DEF Behind
<1> QED
  BY <1>1 DEF Consecutive, Packets

LEMMA HeadTaken ==
    ASSUME NEW s \in Seq(Frames), NEW t \in Seq(Frames), NEW n \in Nat, NEW m \in Nat,
           s # <<>>, Consecutive(s, n, m), Behind(t, s, 1)
    PROVE  IF s[1].proto = "IPV4"
           THEN s[1].id = n + 1 /\ n + 1 <= m /\ Consecutive(t, n + 1, m)
           ELSE Consecutive(t, n, m)
<1>1. /\ Len(s) \in Nat /\ Len(t) \in Nat /\ 1 \in 1 .. Len(s)
      /\ \A i \in 1 .. Len(s) : s[i].id \in Nat
  BY FrameFacts DEF IsFrame
<1>2. \A i \in 1 .. Len(t) : i + 1 \in 1 .. Len(s) /\ 1 < i + 1 /\ t[i] = s[i + 1]
  BY <1>1 DEF Behind
<1>3. \A j \in 1 .. Len(s) : j = 1 \/ (1 < j /\ j - 1 \in 1 .. Len(t) /\ t[j - 1] = s[j])
  <2>1. \A j \in 1 .. Len(s) : j = 1 \/ (1 < j /\ j - 1 \in 1 .. Len(t) /\ (j - 1) + 1 = j)
    BY <1>1 DEF Behind
  <2> QED
    BY <1>2, <2>1
<1>4. ASSUME NEW i \in Packets(t), NEW j \in Packets(t), i < j PROVE t[i].id < t[j].id
  <2>1. i + 1 < j + 1
    BY <1>1, <1>4 DEF Packets
  <2>2. i + 1 \in Packets(s) /\ j + 1 \in Packets(s) /\ t[i] = s[i + 1] /\ t[j] = s[j + 1]
    BY <1>2 DEF Packets
  <2> QED
    BY <2>1, <2>2 DEF Consecutive
<1>5. CASE s[1].proto # "IPV4"
  <2>1. \A i \in Packets(t) : t[i].id \in n + 1 .. m
    BY <1>2 DEF Consecutive, Packets
  <2>2. ASSUME NEW x \in n + 1 .. m PROVE \E i \in Packets(t) : t[i].id = x
    <3>1. PICK j \in Packets(s) : s[j].id = x
      BY DEF Consecutive
    <3>2. j - 1 \in Packets(t) /\ t[j - 1].id = x
      BY <1>3, <1>5, <3>1 DEF Packets
    <3> QED
      BY <3>2
  <2> QED
    BY <1>4, <1>5, <2>1, <2>2 DEF Consecutive
<1>6. CASE s[1].proto = "IPV4"
  <2>1. 1 \in Packets(s) /\ s[1].id \in n + 1 .. m
    BY <1>1, <1>6 DEF Consecutive, Packets
  <2>2. \A j \in Packets(s) : j = 1 \/ s[1].id < s[j].id
    BY <1>3, <2>1 DEF Consecutive, Packets
  <2>3. n + 1 \in n + 1 .. m /\ n + 1 <= m
    BY <2>1
  <2>4. PICK k \in Packets(s) : s[k].id = n + 1
    BY <2>3 DEF Consecutive
  <2>5. s[1].id = n + 1
    BY <2>1, <2>2, <2>4
  <2>6. ASSUME NEW i \in Packets(t) PROVE t[i].id \in n + 1 + 1 .. m
    <3>1. i + 1 \in Packets(s) /\ t[i] = s[i + 1] /\ i + 1 # 1
      BY <1>1, <1>2 DEF Packets
    <3>2. t[i].id \in n + 1 .. m /\ n + 1 < t[i].id
      BY <2>2, <2>5, <3>1 DEF Consecutive
    <3> QED
      BY <3>2
  <2>7. ASSUME NEW x \in n + 1 + 1 .. m PROVE \E i \in Packets(t) : t[i].id = x
    <3>1. x \in n + 1 .. m /\ x # n + 1
      OBVIOUS
    <3>2. PICK j \in Packets(s) : s[j].id = x
      BY <3>1 DEF Consecutive
    <3>3. j - 1 \in Packets(t) /\ t[j - 1].id = x
      BY <1>3, <2>5, <3>1, <3>2 DEF Packets
    <3> QED
      BY <3>3
  <2> QED
    BY <1>4, <1>6, <2>3, <2>5, <2>6, <2>7 DEF Consecutive
<1> QED
  BY <1>5, <1>6

LEMMA FrameArrives ==
    ASSUME NEW s \in Seq(Frames), NEW f \in Frames, NEW n \in Nat, NEW m \in Nat,
           Consecutive(s, n, m)
    PROVE  /\ f.proto # "IPV4" => Consecutive(Append(s, f), n, m)
           /\ f.proto = "IPV4" /\ f.id = m + 1 /\ n <= m => Consecutive(Append(s, f), n, m + 1)
<1> DEFINE t == Append(s, f)
<1>1. /\ Len(t) = Len(s) + 1 /\ Len(s) \in Nat
      /\ \A i \in 1 .. Len(s) : t[i] = s[i]
      /\ t[Len(s) + 1] = f
  OBVIOUS
<1> HIDE DEF t
<1>2. /\ \A i \in 1 .. Len(s) : i \in 1 .. Len(t) /\ i < Len(s) + 1
      /\ \A i \in 1 .. Len(t) : i \in 1 .. Len(s) \/ i = Len(s) + 1
      /\ Len(s) + 1 \in 1 .. Len(t)
      /\ \A i, j \in 1 .. Len(t) : i < j => i \in 1 .. Len(s)
  BY <1>1
<1>3. CASE f.proto # "IPV4"
  <2>1. Packets(t) = Packets(s) /\ \A i \in Packets(s) : t[i] = s[i]
    BY <1>1, <1>2, <1>3 DEF Packets
  <2> QED
    BY <1>3, <2>1 DEF Consecutive, t
<1>4. CASE f.proto = "IPV4" /\ f.id = m + 1 /\ n <= m
  <2>1. /\ Packets(t) = Packets(s) \cup {Len(s) + 1} /\ \A i \in Packets(s) : t[i] = s[i]
        /\ t[Len(s) + 1].id = m + 1
        /\ \A i, j \in Packets(t) : i < j => i \in Packets(s)
    BY <1>1, <1>2, <1>4 DEF Packets
  <2>2. \A i \in Packets(t) : t[i].id \in n + 1 .. m + 1
    <3>1. n + 1 .. m \subseteq n + 1 .. m + 1 /\ m + 1 \in n + 1 .. m + 1
      BY <1>4
    <3>2. \A i \in Packets(s) : s[i].id \in n + 1 .. m
      BY DEF Consecutive
    <3> QED
      BY ONLY <2>1, <3>1, <3>2, Zenon
  <2>3. \A x \in n + 1 .. m + 1 : \E i \in Packets(t) : t[i].id = x
    <3>1. \A x \in n + 1 .. m + 1 : x \in n + 1 .. m \/ x = m + 1
      OBVIOUS
    <3> QED
      BY <2>1, <3>1 DEF Consecutive
  <2>4. \A i, j \in Packets(t) : i < j => t[i].id < t[j].id
    <3>1. \A i \in Packets(s) : s[i].id < m + 1
      BY DEF Consecutive
    <3>2. \A i, j \in Packets(s) : i < j => s[i].id < s[j].id
      BY DEF Consecutive
    <3> QED
      BY ONLY <2>1, <3>1, <3>2, Zenon
  <2>5. Consecutive(t, n, m + 1)
    BY <2>2, <2>3, <2>4 DEF Consecutive
  <2> QED
    BY <1>4, <2>5 DEF t
<1> QED
  BY <1>3, <1>4

LEMMA PacketsStaged ==
    ASSUME NEW s \in Seq(Frames), NEW r \in Seq(Frames), NEW m \in Nat, Len(r) <= m,
           \A i \in 1 .. Len(r) : r[i].proto = "IPV4" /\ r[i].id = i,
           Consecutive(s, Len(r), m)
    PROVE  Consecutive(r \o s, 0, m)
<1> DEFINE t == r \o s
           n == Len(r)
<1>1. /\ Len(t) = n + Len(s) /\ Len(s) \in Nat /\ n \in Nat
      /\ \A i \in 1 .. n : t[i] = r[i]
      /\ \A i \in 1 .. Len(s) : t[n + i] = s[i]
  <2>1. /\ Len(t) = n + Len(s) /\ Len(s) \in Nat /\ n \in Nat
        /\ \A i \in 1 .. Len(t) : t[i] = IF i <= n THEN r[i] ELSE s[i - n]
    OBVIOUS
  <2> HIDE DEF t, n
  <2>2. \A i \in 1 .. n : i \in 1 .. Len(t) /\ i <= n
    BY <2>1
  <2>3. \A i \in 1 .. Len(s) : n + i \in 1 .. Len(t) /\ ~(n + i <= n) /\ (n + i) - n = i
    BY <2>1
  <2> QED
    BY <2>1, <2>2, <2>3 DEF n
<1>0. Consecutive(s, n, m) /\ n <= m /\ \A i \in 1 .. n : r[i].proto = "IPV4" /\ r[i].id = i
  OBVIOUS
<1> HIDE DEF t, n
<1>2. /\ \A i \in 1 .. n : i \in Packets(t) /\ t[i].id = i
      /\ \A i \in Packets(s) : n + i \in Packets(t) /\ t[n + i] = s[i]
  <2>1. /\ \A i \in 1 .. n : i \in 1 .. Len(t)
        /\ \A i \in 1 .. Len(s) : n + i \in 1 .. Len(t)
    <3> DEFINE k == Len(s)
               l == Len(t)
    <3>1. l = n + k /\ k \in Nat /\ n \in Nat
      BY <1>1
    <3> HIDE DEF k, l
    <3>2. /\ \A i \in 1 .. n : i \in 1 .. l
          /\ \A i \in 1 .. k : n + i \in 1 .. l
      BY ONLY <3>1
    <3> QED
      BY ONLY <3>2 DEF k, l
  <2>2. \A i \in 1 .. n : i \in Packets(t) /\ t[i].id = i
    <3>1. \A i \in 1 .. n : t[i].proto = "IPV4" /\ t[i].id = i
      BY <1>0, <1>1
    <3> QED
      BY <2>1, <3>1 DEF Packets
  <2>3. ASSUME NEW i \in Packets(s) PROVE n + i \in Packets(t) /\ t[n + i] = s[i]
    <3>1. i \in 1 .. Len(s) /\ s[i].proto = "IPV4"
      BY DEF Packets
    <3>2. n + i \in 1 .. Len(t) /\ t[n + i] = s[i]
      BY ONLY <1>1, <2>1, <3>1, Zenon
    <3> QED
      BY <3>1, <3>2 DEF Packets
  <2> QED
    BY <2>2, <2>3
<1>3. ASSUME NEW j \in Packets(t)
      PROVE  /\ j \in Nat /\ (j <= n \/ j > n)
             /\ j <= n => t[j].id = j /\ j >= 1
             /\ j > n => /\ j - n \in Packets(s) /\ t[j].id = s[j - n].id
                         /\ s[j - n].id \in Nat /\ s[j - n].id > n /\ s[j - n].id <= m
  <2>1. j \in 1 .. Len(t) /\ j \in Nat /\ (j <= n \/ j > n)
    BY <1>1 DEF Packets
  <2>2. ASSUME j <= n PROVE t[j].id = j /\ j >= 1
    <3>1. j \in 1 .. n
      BY <1>1, <2>1, <2>2
    <3> QED
      BY <1>2, <2>1, <3>1
  <2>3. ASSUME j > n
        PROVE  /\ j - n \in Packets(s) /\ t[j].id = s[j - n].id
               /\ s[j - n].id \in Nat /\ s[j - n].id > n /\ s[j - n].id <= m
    <3>1. j - n \in 1 .. Len(s) /\ n + (j - n) = j
      BY <1>1, <2>1, <2>3
    <3>2. t[j] = s[j - n]
      BY <1>1, <3>1
    <3>3. j - n \in Packets(s)
      BY <3>1, <3>2 DEF Packets
    <3>4. s[j - n].id \in n + 1 .. m
      BY <1>0, <3>3 DEF Consecutive
    <3> QED
      BY <1>1, <3>2, <3>3, <3>4
  <2> QED
    BY <2>1, <2>2, <2>3
<1>4. ASSUME NEW i \in Packets(t) PROVE t[i].id \in 0 + 1 .. m
  <2>1. CASE i <= n
    BY <1>0, <1>1, <1>3, <2>1
  <2>2. CASE i > n
    <3> DEFINE v == s[i - n].id
    <3>1. t[i].id = v /\ v \in Nat /\ v > n /\ v <= m /\ n \in Nat
      BY <1>1, <1>3, <2>2
    <3> HIDE DEF v
    <3> QED
      BY ONLY <3>1, m \in Nat
  <2> QED
    BY <1>3, <2>1, <2>2
<1>5. ASSUME NEW x \in 0 + 1 .. m PROVE \E i \in Packets(t) : t[i].id = x
  <2>1. x \in 1 .. n \/ x \in n + 1 .. m
    BY <1>1
  <2>2. CASE x \in 1 .. n
    BY <1>2, <2>2
  <2>3. CASE x \in n + 1 .. m
    <3>1. PICK k \in Packets(s) : s[k].id = x
      BY <1>0, <2>3 DEF Consecutive
    <3> QED
      BY <1>2, <3>1
  <2> QED
    BY <2>1, <2>2, <2>3
<1>6. ASSUME NEW i \in Packets(t), NEW j \in Packets(t), i < j PROVE t[i].id < t[j].id
  <2>1. CASE i <= n /\ j <= n
    BY <1>3, <1>6, <2>1
  <2>2. CASE i <= n /\ j > n
    <3>1. t[i].id = i /\ i \in Nat /\ t[j].id \in Nat /\ t[j].id > n
      BY <1>3, <2>2
    <3> QED
      BY <1>1, <2>2, <3>1
  <2>3. CASE i > n /\ j > n
    <3>1. /\ i - n \in Packets(s) /\ j - n \in Packets(s)
          /\ t[i].id = s[i - n].id /\ t[j].id = s[j - n].id
      BY <1>3, <2>3
    <3>2. i - n < j - n
      BY <1>1, <1>3, <1>6
    <3> QED
      BY <1>0, <3>1, <3>2 DEF Consecutive
  <2>4. ~(i > n /\ j <= n)
    BY <1>1, <1>3, <1>6
  <2> QED
    BY <1>3, <2>1, <2>2, <2>3, <2>4
<1>7. Consecutive(t, 0, m)
  BY <1>4, <1>5, <1>6 DEF Consecutive
<1> QED
  BY <1>7 DEF t

LEMMA OneMoreNumber ==
    ASSUME NEW e \in Seq(Nat), NEW x \in Nat, NEW f, f = Append(e, x)
    PROVE  /\ Len(f) = Len(e) + 1
           /\ \A i \in 1 .. Len(e) : f[i] = e[i]
           /\ f[Len(e) + 1] = x
           /\ f = [i \in 1 .. Len(f) |-> f[i]]
<1>1. f \in Seq(Nat)
  OBVIOUS
<1>2. /\ Len(f) = Len(e) + 1
      /\ \A i \in 1 .. Len(e) : f[i] = e[i]
      /\ f[Len(e) + 1] = x
  OBVIOUS
<1>3. f = [i \in 1 .. Len(f) |-> f[i]]
  BY ONLY <1>1
<1> QED
  BY <1>2, <1>3

LEMMA KeptStep ==
    ASSUME Typed, Typed', Negotiated, Kept, [Next]_vars
    PROVE  Kept'
<1> USE DEF loopVars, agreedVars, bufVars, gatewayVars
<1>0. /\ prime \in Seq(Frames) /\ buf \in Seq(Frames) /\ g2c \in Seq(Frames)
      /\ prime' \in Seq(Frames) /\ buf' \in Seq(Frames) /\ g2c' \in Seq(Frames)
      /\ early \in Seq(Nat) /\ Len(early) \in Nat /\ packets \in Nat
  BY DEF Typed, TypedStreams, TypedSession, TypedGateway
<1>1. CASE pc' = "failed"
  BY <1>1 DEF Kept
<1>2. CASE UNCHANGED <<prime, buf, g2c, early, packets>> /\ pc # "failed"
  BY <1>2 DEF Kept, Undelivered
<1>3. ASSUME pc \in Protos PROVE Undelivered = Inbound /\ pc # "failed"
  <2>1. prime = <<>>
    BY <1>3 DEF Typed, TypedStreams
  <2>2. prime \o buf = buf
    BY <1>0, <2>1
  <2> QED
    BY <1>3, <2>2 DEF Undelivered, Inbound, Protos
<1>4. ASSUME pc' \in Protos PROVE Undelivered' = Inbound'
  <2>1. prime' = <<>>
    BY <1>4 DEF Typed, TypedStreams
  <2>2. prime' \o buf' = buf'
    BY <1>0, <2>1
  <2> QED
    BY <2>2 DEF Undelivered, Inbound
<1>5. Inbound \in Seq(Frames) /\ Inbound' \in Seq(Frames)
  BY <1>0 DEF Inbound
<1>6. ASSUME pc \in Protos, pc' \in Protos, UNCHANGED <<early, packets>>,
             Consecutive(Inbound', Len(early), packets)
      PROVE  Kept'
  BY <1>3, <1>4, <1>6 DEF Kept
<1>7. CASE Fetches
  <2>1. pc \in Protos /\ UNCHANGED <<pc, early, packets>>
    BY <1>7 DEF Fetches, Negotiating
  <2>2. Consecutive(Inbound, Len(early), packets)
    BY <1>3, <2>1 DEF Kept
  <2>3. CASE Behind(Inbound', Inbound, 0)
    BY <1>0, <1>5, <1>6, <2>1, <2>2, <2>3, SameFrames
  <2>4. CASE Inbound # <<>> /\ Inbound[1].proto = "HTTP" /\ Behind(Inbound', Inbound, 1)
    BY <1>0, <1>5, <1>6, <2>1, <2>2, <2>4, HeadTaken
  <2> QED
    BY <1>7, <2>3, <2>4, InboundStep
<1>8. ASSUME Handles
      PROVE  /\ pc \in Protos /\ UNCHANGED <<pc, packets>> /\ buf[1] = Inbound[1]
             /\ IF buf[1].proto = "IPV4"
                THEN /\ buf[1].id = Len(early) + 1 /\ Len(early) + 1 <= packets
                     /\ Consecutive(Inbound', Len(early) + 1, packets)
                ELSE Consecutive(Inbound', Len(early), packets)
  <2>1. pc \in Protos /\ UNCHANGED <<pc, packets>>
    BY <1>8 DEF Handles, Negotiating
  <2>2. Consecutive(Inbound, Len(early), packets)
    BY <1>3, <2>1 DEF Kept
  <2>3. Inbound # <<>> /\ Inbound[1] = buf[1] /\ Behind(Inbound', Inbound, 1)
    BY <1>8, InboundStep
  <2> QED
    BY <1>0, <1>5, <2>1, <2>2, <2>3, HeadTaken
<1>9. CASE Handles /\ buf[1].proto # "IPV4" /\ UNCHANGED early
  BY <1>6, <1>8, <1>9
<1>10. ASSUME OnIpv4(buf[1]), Handles PROVE Kept'
  <2>1. early' = Append(early, buf[1].id) /\ buf[1].proto = "IPV4"
    BY <1>10 DEF OnIpv4
  <2>2. early' = Append(early, Len(early) + 1) /\ Len(early) + 1 <= packets
    BY <1>8, <1>10, <2>1
  <2>3. early = [i \in 1 .. Len(early) |-> i]
    BY <1>3, <1>8, <1>10 DEF Kept
  <2>4. /\ Len(early') = Len(early) + 1
        /\ \A i \in 1 .. Len(early) : early'[i] = early[i]
        /\ early'[Len(early) + 1] = Len(early) + 1
        /\ early' = [i \in 1 .. Len(early') |-> early'[i]]
    <3>1. early \in Seq(Nat) /\ Len(early) + 1 \in Nat
      BY <1>0
    <3> QED
      BY ONLY <2>2, <3>1, OneMoreNumber
  <2>5. \A i \in 1 .. Len(early') : early'[i] = i
    <3> DEFINE k == Len(early)
    <3>0. k \in Nat /\ Len(early') = k + 1
      BY <1>0, <2>4
    <3> HIDE DEF k
    <3>1. \A i \in 1 .. Len(early') : i \in 1 .. k \/ i = k + 1
      BY <3>0
    <3>2. \A i \in 1 .. Len(early) : early[i] = i
      BY <2>3
    <3> QED
      BY <2>4, <3>1, <3>2 DEF k
  <2>6. early' = [i \in 1 .. Len(early') |-> i]
    BY <2>4, <2>5
  <2> QED
    BY <1>4, <1>8, <1>10, <2>1, <2>2, <2>4, <2>6 DEF Kept
<1>11. CASE Finishes
  <2>1. /\ pc = "IPCP" /\ prime' = Staged \o buf /\ early' = <<>> /\ buf' = <<>>
        /\ UNCHANGED <<g2c, packets>>
    BY <1>11 DEF Finishes
  <2>2. /\ early = [i \in 1 .. Len(early) |-> i] /\ Len(early) <= packets
        /\ Consecutive(Inbound, Len(early), packets)
    BY <1>3, <2>1 DEF Kept, Protos
  <2>3. \A i \in 1 .. Len(early) :
          /\ Frame("IPV4", "Other", i, NoOptions) \in Frames
          /\ Frame("IPV4", "Other", i, NoOptions).proto = "IPV4"
          /\ Frame("IPV4", "Other", i, NoOptions).id = i
    BY <1>0, PacketFrame
  <2>4. /\ Staged \in Seq(Frames) /\ Len(Staged) = Len(early)
        /\ \A i \in 1 .. Len(early) : Staged[i] = Frame("IPV4", "Other", i, NoOptions)
    <3>1. Staged = [i \in 1 .. Len(early) |-> Frame("IPV4", "Other", i, NoOptions)]
      <4>1. \A i \in 1 .. Len(early) : early[i] = i
        BY <2>2
      <4> QED
        BY <4>1 DEF Staged
    <3> DEFINE F(i) == Frame("IPV4", "Other", i, NoOptions)
               k == Len(early)
    <3>2. k \in Nat /\ (\A i \in 1 .. k : F(i) \in Frames) /\ Staged = [i \in 1 .. k |-> F(i)]
      BY <1>0, <2>3, <3>1
    <3> HIDE DEF F, k
    <3>3. Staged \in Seq(Frames) /\ Len(Staged) = k /\ \A i \in 1 .. k : Staged[i] = F(i)
      BY <3>2
    <3> QED
      BY <3>3 DEF F, k
  <2>5. Consecutive(Staged \o Inbound, 0, packets)
    <3> DEFINE r == Staged
    <3>1. /\ r \in Seq(Frames) /\ Len(r) = Len(early)
          /\ \A i \in 1 .. Len(r) : r[i].proto = "IPV4" /\ r[i].id = i
      BY <2>3, <2>4
    <3> HIDE DEF r
    <3>2. Consecutive(r \o Inbound, 0, packets)
      BY <1>0, <1>5, <2>2, <3>1, PacketsStaged
    <3> QED
      BY <3>2 DEF r
  <2>6. Undelivered' = Staged \o Inbound
    <3> DEFINE r == Staged
    <3>1. r \in Seq(Frames)
      BY <2>4
    <3>2. Undelivered' = (r \o buf) \o <<>> \o g2c
      BY <2>1 DEF Undelivered
    <3> HIDE DEF r
    <3>3. r \o buf \in Seq(Frames) /\ (r \o buf) \o <<>> = r \o buf
      BY <1>0, <3>1
    <3>4. (r \o buf) \o g2c = r \o (buf \o g2c)
      <4>1. r \in Seq(Frames) /\ buf \in Seq(Frames) /\ g2c \in Seq(Frames)
        BY <1>0, <3>1
      <4> QED
        BY ONLY <4>1, ConcatenateFrames, Zenon
    <3> QED
      BY <3>2, <3>3, <3>4 DEF r, Inbound
  <2>7. Len(early') = 0 /\ early' = [i \in 1 .. Len(early') |-> i]
    BY <2>1
  <2>8. Consecutive(Undelivered', Len(early'), packets') /\ Len(early') <= packets'
    BY <1>0, <2>1, <2>5, <2>6, <2>7
  <2> QED
    BY <2>7, <2>8 DEF Kept
<1>12. ASSUME NEW a \in Frames, g2c' = Append(g2c, a), UNCHANGED <<pc, prime, buf, early>>,
              \/ a.proto # "IPV4" /\ UNCHANGED packets
              \/ a.proto = "IPV4" /\ a.id = packets + 1 /\ packets' = packets + 1
       PROVE  Kept'
  <2>1. Undelivered \in Seq(Frames) /\ Undelivered' = Append(Undelivered, a)
    <3> DEFINE q == prime \o buf
    <3>1. q \in Seq(Frames) /\ Undelivered = q \o g2c /\ Undelivered' = q \o Append(g2c, a)
      BY <1>0, <1>12 DEF Undelivered
    <3> HIDE DEF q
    <3>2. q \o Append(g2c, a) = Append(q \o g2c, a)
      <4>1. q \in Seq(Frames) /\ g2c \in Seq(Frames) /\ a \in Frames
        BY <1>0, <3>1
      <4> QED
        BY ONLY <4>1, ConcatenateFrames, Zenon
    <3>3. q \o g2c \in Seq(Frames)
      BY <1>0, <3>1
    <3> QED
      BY <3>1, <3>2, <3>3
  <2>2. ASSUME pc # "failed" PROVE Consecutive(Undelivered', Len(early), packets')
    BY <1>0, <1>12, <2>1, <2>2, FrameArrives DEF Kept
  <2>3. packets <= packets'
    BY <1>0, <1>12
  <2> QED
    BY <1>0, <1>12, <2>2, <2>3 DEF Kept
<1>13. CASE GatewayAnswer
  <2> DEFINE f == c2g[1]
  <2>1. UNCHANGED <<pc, prime, buf, early, packets>>
    BY <1>13 DEF GatewayAnswer
  <2>2. CASE UNCHANGED g2c
    BY <1>1, <1>2, <2>1, <2>2
  <2>3. CASE ~UNCHANGED g2c
    <3>1. f \in Frames /\ f.proto \in Protos
      BY <1>13, <2>3, AnswerStep
    <3>2. PICK a \in Frames : /\ \/ Repeated(f) /\ a = answered[f.proto][2]
                                 \/ ~Repeated(f) /\ a \in AnswersTo(f)
                              /\ g2c' = Append(g2c, a)
      BY <1>13, <2>3, AnswerStep
    <3>3. a.proto = f.proto
      <4>1. CASE Repeated(f)
        <5>1. Exchange(f.proto) /\ answered[f.proto] # <<>> /\ a = answered[f.proto][2]
          BY <3>1, <3>2, <4>1 DEF Negotiated, Repeated
        <5> QED
          BY <5>1 DEF Exchange, IsAnswer
      <4>2. CASE ~Repeated(f)
        BY <3>1, <3>2, <4>2, AnswerFacts DEF IsAnswer
      <4> QED
        BY <4>1, <4>2
    <3> QED
      BY <1>12, <2>1, <3>1, <3>2, <3>3 DEF Protos
  <2> QED
    BY <2>2, <2>3
<1>14. CASE GatewayRequest
  <2>1. UNCHANGED <<pc, prime, buf, early, packets>>
    BY <1>14 DEF GatewayRequest
  <2>2. PICK a \in Frames : g2c' = Append(g2c, a) /\ a.proto \in Protos
    BY <1>14, RequestArrives
  <2> QED
    BY <1>12, <2>1, <2>2 DEF Protos
<1>15. CASE GatewayUnasked
  <2>1. UNCHANGED <<pc, prime, buf, early>>
    BY <1>15 DEF GatewayUnasked
  <2>2. CASE packets' = packets + 1
             /\ g2c' = Append(g2c, Frame("IPV4", "Other", packets + 1, NoOptions))
    <3> DEFINE a == Frame("IPV4", "Other", packets + 1, NoOptions)
    <3>1. a \in Frames /\ a.proto = "IPV4" /\ a.id = packets + 1
      BY <1>0, PacketFrame
    <3>2. g2c' = Append(g2c, a)
      BY <2>2
    <3> HIDE DEF a
    <3> QED
      BY <1>12, <2>1, <2>2, <3>1, <3>2
  <2>3. ASSUME NEW a \in GatewayFrames, g2c' = Append(g2c, a), UNCHANGED packets
        PROVE  Kept'
    BY <1>12, <2>1, <2>3, FrameFacts, FramesAssumption
  <2> QED
    BY <1>15, <2>2, <2>3 DEF GatewayUnasked, Deliver
<1>16. ASSUME UNCHANGED <<pc, prime, buf, g2c, early, packets>>
       PROVE  Kept'
  BY <1>1, <1>2, <1>16
<1>17. CASE RecvTimeout \/ UNCHANGED vars
  BY <1>16, <1>17 DEF RecvTimeout, vars
<1>18. CASE LcpUp
  BY <1>2, <1>18 DEF LcpUp
<1>19. CASE Responds \/ Ignores
  BY <1>9, <1>19 DEF Responds, Ignores
<1>20. ASSUME NEW o, Revises(o) PROVE Kept'
  <2>1. Handles /\ UNCHANGED early /\ IsAnswer(buf[1], pc) /\ pc \in Protos
    BY <1>20 DEF Revises, Handles, Negotiating
  <2> QED
    BY <1>9, <2>1 DEF IsAnswer, Protos
<1>21. ASSUME OnConfAck(buf[1]), Handles PROVE Kept'
  <2>1. UNCHANGED early /\ buf[1].proto = pc /\ pc \in Protos
    BY <1>21 DEF OnConfAck, Handles, Negotiating
  <2> QED
    BY <1>9, <1>21, <2>1 DEF Protos
<1>22. CASE Failing
  BY <1>1, <1>22 DEF Failing, Fail
<1> QED
  BY <1>7, <1>10, <1>11, <1>13, <1>14, <1>15, <1>17, <1>18, <1>19, <1>20, <1>21, <1>22, NextCases

(***************************************************************************)
(* No packet the gateway sends during the handshake is lost, repeated or   *)
(* reordered: staged by stage_early, handed over with the forwarding       *)
(* loop's first bytes, buffered or on the way, they are all there in the   *)
(* order they were sent.                                                   *)
(***************************************************************************)
THEOREM NoEarlyPacketLost == Spec => []EarlyPacketsKept
<1>1. Init => Kept
  <2> SUFFICES ASSUME Init PROVE Kept
    OBVIOUS
  <2>1. early = <<>> /\ packets = 0 /\ buf = <<>> /\ prime = <<>>
    BY DEF Init
  <2>2. Len(early) = 0 /\ early = [i \in 1 .. Len(early) |-> i] /\ Len(early) <= packets
    BY <2>1
  <2>3. Packets(Undelivered) = {}
    <3>1. CASE g2c = <<>>
      <4>1. Undelivered = <<>>
        BY <2>1, <3>1 DEF Undelivered
      <4>2. Len(Undelivered) = 0
        BY <4>1
      <4> QED
        BY <4>2 DEF Packets
    <3>2. ASSUME NEW c \in Prologues, g2c = <<Frame("HTTP", c, 0, NoOptions)>>
          PROVE  Packets(Undelivered) = {}
      <4> DEFINE F == Frame("HTTP", c, 0, NoOptions)
      <4>1. F.proto = "HTTP" /\ g2c = <<F>>
        BY <3>2, FrameFacts
      <4> HIDE DEF F
      <4>2. Undelivered = <<F>>
        BY <2>1, <4>1 DEF Undelivered
      <4>3. Len(Undelivered) = 1 /\ Undelivered[1] = F
        BY <4>2
      <4> QED
        BY <4>1, <4>3 DEF Packets
    <3> QED
      BY <3>1, <3>2 DEF Init
  <2>4. Len(early) + 1 .. packets = {}
    BY <2>1, <2>2
  <2> QED
    BY <2>2, <2>3, <2>4 DEF Kept, Consecutive
<1>2. Typed /\ Kept => EarlyPacketsKept
  <2> SUFFICES ASSUME Typed, Kept, pc # "failed" PROVE EarlyPacketsKept
    BY DEF EarlyPacketsKept
  <2> DEFINE s == prime \o buf \o g2c
             n == Len(early)
  <2>1. s = Undelivered /\ s \in Seq(Frames) /\ early = [i \in 1 .. n |-> i]
        /\ Consecutive(s, n, packets)
    BY DEF Kept, Undelivered, Typed, TypedStreams
  <2> HIDE DEF s, n
  <2>2. DOMAIN s = 1 .. Len(s)
    BY <2>1
  <2>3. {i \in DOMAIN s : s[i].proto = "IPV4"} = Packets(s)
    BY <2>2 DEF Packets
  <2>4. {s[i].id : i \in Packets(s)} = n + 1 .. packets
    BY <2>1 DEF Consecutive
  <2>5. \A i, j \in Packets(s) : i < j => s[i].id < s[j].id
    BY <2>1 DEF Consecutive
  <2> QED
    BY <2>1, <2>3, <2>4, <2>5 DEF EarlyPacketsKept, s, n
<1>3. Typed /\ Typed' /\ Negotiated /\ Kept /\ [Next]_vars => Kept'
  BY KeptStep
<1> QED
  BY <1>1, <1>2, <1>3, TypedInvariant, NegotiatedInvariant, PTL DEF Spec
===============================================================================
