--------------------------- MODULE ForwardingProofs ---------------------------
(***************************************************************************)
(* Proofs, for every value of the constants, of the invariants of          *)
(* Forwarding.                                                             *)
(***************************************************************************)
EXTENDS Forwarding, SequenceTheorems, TLAPS

USE FramersAssumption

(* The bounds are positive. *)
LEMMA Bounds ==
    /\ MaxMissed \in Nat \ {0} /\ MaxBatch \in Nat \ {0}
    /\ WireCap \in Nat \ {0} /\ TunCap \in Nat \ {0} /\ DueCap \in Nat \ {0}
    /\ SeqMod \in Nat \ {0}
BY BoundsAssumption DEF SeqMod

USE Bounds

(* Frame numbers below 2 * SeqMod wrap at most once. *)
LEMMA WrapsOnce ==
    ASSUME NEW x \in Nat, x < 2 * SeqMod
    PROVE  x % SeqMod = IF x < SeqMod THEN x ELSE x - SeqMod
OBVIOUS

(* The number after the k-th of the frames from number d on. *)
LEMMA NextNumber ==
    ASSUME NEW d \in 0 .. SeqMod - 1, NEW k \in 0 .. WireCap - 1
    PROVE  (((d + k) % SeqMod) + 1) % SeqMod = (d + (k + 1)) % SeqMod
<1> DEFINE n == (d + k) % SeqMod
<1>1. /\ d + k \in Nat /\ d + k < 2 * SeqMod
      /\ d + (k + 1) \in Nat /\ d + (k + 1) < 2 * SeqMod
  BY DEF SeqMod
<1>2. n = IF d + k < SeqMod THEN d + k ELSE d + k - SeqMod
  BY <1>1, WrapsOnce
<1>3. n \in Nat /\ n + 1 \in Nat /\ n + 1 < 2 * SeqMod
  BY <1>1, <1>2
<1> HIDE DEF n
<1>4. (n + 1) % SeqMod = IF n + 1 < SeqMod THEN n + 1 ELSE n + 1 - SeqMod
  BY <1>3, WrapsOnce
<1>5. (d + (k + 1)) % SeqMod = IF d + (k + 1) < SeqMod THEN d + (k + 1)
                               ELSE d + (k + 1) - SeqMod
  BY <1>1, WrapsOnce
<1>6. (n + 1) % SeqMod = (d + (k + 1)) % SeqMod
  BY <1>1, <1>2, <1>4, <1>5
<1> QED
  BY <1>6 DEF n

(* The numbers of the frames that remain when the first is gone. *)
LEMMA NextStart ==
    ASSUME NEW d \in 0 .. SeqMod - 1, NEW j \in 0 .. WireCap - 1
    PROVE  (((d + 1) % SeqMod) + j) % SeqMod = (d + (j + 1)) % SeqMod
<1> DEFINE n == (d + 1) % SeqMod
<1>1. /\ d + 1 \in Nat /\ d + 1 < 2 * SeqMod
      /\ d + (j + 1) \in Nat /\ d + (j + 1) < 2 * SeqMod
  BY DEF SeqMod
<1>2. n = IF d + 1 < SeqMod THEN d + 1 ELSE d + 1 - SeqMod
  BY <1>1, WrapsOnce
<1>3. n \in Nat /\ n + j \in Nat /\ n + j < 2 * SeqMod
  BY <1>1, <1>2 DEF SeqMod
<1> HIDE DEF n
<1>4. (n + j) % SeqMod = IF n + j < SeqMod THEN n + j ELSE n + j - SeqMod
  BY <1>3, WrapsOnce
<1>5. (d + (j + 1)) % SeqMod = IF d + (j + 1) < SeqMod THEN d + (j + 1)
                               ELSE d + (j + 1) - SeqMod
  BY <1>1, WrapsOnce
<1>6. (n + j) % SeqMod = (d + (j + 1)) % SeqMod
  BY <1>1, <1>2, <1>4, <1>5
<1> QED
  BY <1>6 DEF n

(* Which frame of a stream of whole frames a unit belongs to. *)
LEMMA Halves ==
    ASSUME NEW k \in Nat
    PROVE  /\ (2 * k) \div 2 = k
           /\ (2 * k + 1) \div 2 = k
           /\ \A i \in Nat : (i + 2) \div 2 = i \div 2 + 1 /\ i \div 2 \in Nat
                              /\ 2 * (i \div 2) <= i /\ i <= 2 * (i \div 2) + 1
OBVIOUS

(* What dropping the first units of a sequence leaves. *)
LEMMA DropProperties ==
    ASSUME NEW S, NEW s \in Seq(S), NEW n \in 0 .. Len(s)
    PROVE  /\ Drop(s, n) \in Seq(S)
           /\ Len(Drop(s, n)) = Len(s) - n
           /\ \A i \in 1 .. Len(s) - n : Drop(s, n)[i] = s[n + i]
<1>1. \A i \in n + 1 .. Len(s) : s[i] \in S
  BY ElementOfSeq
<1> QED
  BY <1>1, SubSeqProperties, LenProperties DEF Drop

(* The first units of a sequence. *)
LEMMA FirstProperties ==
    ASSUME NEW S, NEW s \in Seq(S), NEW n \in 0 .. Len(s)
    PROVE  /\ SubSeq(s, 1, n) \in Seq(S) /\ Len(SubSeq(s, 1, n)) = n
           /\ \A i \in 1 .. n : SubSeq(s, 1, n)[i] = s[i]
<1>1. Len(s) \in Nat /\ n \in Nat
  BY LenProperties
<1>2. \A i \in 1 .. n : s[i] \in S
  BY <1>1, ElementOfSeq
<1> QED
  BY ONLY <1>1, <1>2

(* What putting a frame of two units at the end of a sequence makes. *)
LEMMA TwoMore ==
    ASSUME NEW S, NEW s \in Seq(S), NEW t \in Seq(S), Len(t) = 2
    PROVE  /\ s \o t \in Seq(S)
           /\ Len(s \o t) = Len(s) + 2
           /\ Len(s) \in Nat
           /\ \A i \in 1 .. Len(s) : (s \o t)[i] = s[i]
           /\ (s \o t)[Len(s) + 1] = t[1]
           /\ (s \o t)[Len(s) + 2] = t[2]
<1>1. Len(s) \in Nat
  BY LenProperties
<1>2. s \o t \in Seq(S) /\ Len(s \o t) = Len(s) + Len(t)
  BY ConcatProperties
<1>3. \A i \in 1 .. Len(s) + Len(t) :
         (s \o t)[i] = IF i <= Len(s) THEN s[i] ELSE t[i - Len(s)]
  BY ConcatProperties
<1> QED
  BY <1>1, <1>2, <1>3

(* Every framer gives every frame it can be sent one of the five treatments, and
   refuses a header that cannot be right. *)
LEMMA Treatments ==
    ASSUME NEW f \in Framers, NEW k \in DOMAIN FrameEvent[f]
    PROVE  /\ FrameEvent[f][k]
                 \in {"Data", "Reply", "Ignore", "Disconnect", "Malformed"}
           /\ k = "BadHeader" => FrameEvent[f][k] = "Malformed"
<1>1. CASE f = "CSTP"
  BY <1>1 DEF FrameEvent, CstpEvent
<1>2. CASE f = "SLIM"
  BY <1>2 DEF FrameEvent, SlimEvent
<1>3. CASE f = "PPP"
  BY <1>3 DEF FrameEvent, PppEvent
<1> QED
  BY <1>1, <1>2, <1>3

(* A unit of a frame that the framer in use knows. *)
OwnUnit ==
    [kind : DOMAIN FrameEvent[framer], seq : 0 .. SeqMod - 1,
     part : {"header", "body"}]

LEMMA OwnUnitIsUnit ==
    ASSUME framer \in Framers
    PROVE  OwnUnit \subseteq Unit
BY DEF OwnUnit, Unit, AllKinds

(* The units of one frame. *)
LEMMA FrameUnitsType ==
    ASSUME NEW k \in DOMAIN FrameEvent[framer], NEW q \in 0 .. SeqMod - 1
    PROVE  /\ FrameUnits(k, q) \in Seq(OwnUnit)
           /\ Len(FrameUnits(k, q)) = 2
           /\ \A i \in 1 .. 2 : /\ FrameUnits(k, q)[i] \in OwnUnit
                                /\ FrameUnits(k, q)[i].kind = k
                                /\ FrameUnits(k, q)[i].seq = q
BY DEF FrameUnits, OwnUnit

(* What a peer sends while the handshake is running is whole frames of data,
   numbered from 0. *)
LEMMA EarlyFrames ==
    ASSUME framer \in Framers, NEW n \in 0 .. 2 * WireCap
    PROVE  /\ EarlyUnits(n) \in Seq(OwnUnit)
           /\ Len(EarlyUnits(n)) = n + (n % 2)
           /\ \E k \in 0 .. WireCap : n + (n % 2) = 2 * k
           /\ \A i \in 1 .. n + (n % 2) :
                 /\ EarlyUnits(n)[i].kind # "BadHeader"
                 /\ EarlyUnits(n)[i].seq = (i - 1) \div 2
<1> DEFINE kind == IF framer = "PPP" THEN "IPv4" ELSE "Data"
           len == n + (n % 2)
<1>1. \E k \in 0 .. WireCap : len = 2 * k
  <2>1. PICK k \in Nat : n = 2 * k \/ n = 2 * k + 1
    BY Halves
  <2>2. CASE n = 2 * k
    BY <2>2
  <2>3. CASE n = 2 * k + 1
    <3>1. len = 2 * (k + 1)
      BY <2>3
    <3> QED
      BY <2>3, <3>1
  <2> QED
    BY <2>1, <2>2, <2>3
<1>2. kind \in DOMAIN FrameEvent[framer] \ {"BadHeader"}
  BY DEF FrameEvent, CstpEvent, SlimEvent, PppEvent
<1>3. ASSUME NEW i \in 1 .. len
      PROVE  LET u == FrameUnits(kind, (i - 1) \div 2)[1 + ((i - 1) % 2)]
             IN  u \in OwnUnit /\ u.kind = kind /\ u.seq = (i - 1) \div 2
  <2> DEFINE q == (i - 1) \div 2
             j == 1 + ((i - 1) % 2)
  <2>1. q \in 0 .. SeqMod - 1 /\ j \in 1 .. 2
    BY <1>1 DEF SeqMod
  <2> HIDE DEF kind, q, j
  <2>2. /\ FrameUnits(kind, q)[j] \in OwnUnit
        /\ FrameUnits(kind, q)[j].kind = kind
        /\ FrameUnits(kind, q)[j].seq = q
    BY <1>2, <2>1, FrameUnitsType
  <2> QED
    BY <2>2 DEF q, j
<1>4. EarlyUnits(n) = [i \in 1 .. len |->
                         FrameUnits(kind, (i - 1) \div 2)[1 + ((i - 1) % 2)]]
  BY DEF EarlyUnits
<1> HIDE DEF kind
<1>5. EarlyUnits(n) \in [1 .. len -> OwnUnit]
  BY <1>3, <1>4
<1>6. EarlyUnits(n) \in Seq(OwnUnit) /\ Len(EarlyUnits(n)) = len
  BY <1>1, <1>5
<1> QED
  BY <1>1, <1>2, <1>3, <1>4, <1>6

-------------------------------------------------------------------------------
(***************************************************************************)
(* The stream from the peer.  Every step either leaves it alone or does    *)
(* one of three things to it: the peer sends a frame, a read moves units   *)
(* from the wire to the accumulator, the decoder takes a frame.            *)
(***************************************************************************)
ReadUnits(n) ==
    /\ inbound' = inbound \o SubSeq(wire, 1, n)
    /\ wire' = Drop(wire, n)
    /\ UNCHANGED <<nextSeq, decoded>>

TakeFrame ==
    /\ Decodable(inbound)
    /\ FrameEvent[framer][inbound[1].kind] # "Malformed"
    /\ inbound' = Drop(inbound, 2)
    /\ decoded' = (decoded + 1) % SeqMod
    /\ UNCHANGED <<wire, nextSeq>>

LEMMA StreamSteps ==
    ASSUME [Next]_vars
    PROVE  /\ UNCHANGED framer
           /\ \/ UNCHANGED streamVars
              \/ PeerSends
              \/ \E n \in 1 .. Len(wire) : ReadUnits(n)
              \/ TakeFrame
<1> USE DEF streamVars
<1>1. CASE PeerSends
  BY <1>1 DEF PeerSends
<1>2. CASE InboundArm
  BY <1>2 DEF InboundArm, ReadUnits
<1>3. CASE DrainFrame
  BY <1>3 DEF DrainFrame, TakeFrame
<1>4. CASE DrainEnds
  BY <1>4 DEF DrainEnds, PartialFrame
<1>5. CASE ShutdownArm \/ KeepaliveArm \/ TunArm
  BY <1>5 DEF ShutdownArm, KeepaliveArm, TunArm
<1>6. CASE KeepaliveWritten \/ BatchWritten \/ ReplyWritten \/ GoodbyeWritten \/ WriteFails
  BY <1>6 DEF KeepaliveWritten, BatchWritten, ReplyWritten, GoodbyeWritten, WriteFails
<1>7. CASE PeerStops \/ PacketArrives \/ TunStops \/ TimerExpires \/ RequestShutdown
  BY <1>7 DEF PeerStops, PacketArrives, TunStops, TimerExpires, RequestShutdown
<1>8. CASE UNCHANGED vars
  BY <1>8 DEF vars
<1> QED
  BY <1>1, <1>2, <1>3, <1>4, <1>5, <1>6, <1>7, <1>8 DEF Next, Loop, WriteReturns, Environment, Exited

(* What is buffered and what is on the wire are together whole frames that the
   framer knows, no more of them than the bound. *)
WholeFrames ==
    /\ framer \in Framers
    /\ inbound \in Seq(OwnUnit)
    /\ wire \in Seq(OwnUnit)
    /\ nextSeq \in 0 .. SeqMod - 1
    /\ decoded \in 0 .. SeqMod - 1
    /\ \E k \in 0 .. WireCap : Len(inbound) + Len(wire) = 2 * k

(* A frame the decoder takes was complete: a header it could refuse early is
   refused, not taken. *)
LEMMA TakenFrameIsWhole ==
    ASSUME WholeFrames, TakeFrame
    PROVE  Len(inbound) >= 2
<1>1. Len(inbound) \in Nat
  BY LenProperties DEF WholeFrames
<1>2. CASE Len(inbound) = 1 /\ inbound[1].kind = "BadHeader"
  <2>1. inbound[1] \in OwnUnit
    <3>1. inbound \in Seq(OwnUnit) /\ 1 \in 1 .. Len(inbound)
      BY <1>2 DEF WholeFrames
    <3> QED
      BY ONLY <3>1, ElementOfSeq
  <2>2. inbound[1].kind \in DOMAIN FrameEvent[framer]
    BY <2>1 DEF OwnUnit
  <2> QED
    BY <1>2, <2>2, Treatments DEF WholeFrames, TakeFrame
<1> QED
  BY <1>1, <1>2 DEF TakeFrame, Decodable

(* The lengths after a read or a taken frame. *)
LEMMA ReadLengths ==
    ASSUME WholeFrames, NEW n \in 1 .. Len(wire), ReadUnits(n)
    PROVE  /\ wire' \in Seq(OwnUnit) /\ Len(wire') = Len(wire) - n
           /\ inbound' \in Seq(OwnUnit) /\ Len(inbound') = Len(inbound) + n
           /\ inbound' \o wire' = inbound \o wire
<1> USE DEF WholeFrames
<1>1. Len(wire) \in Nat /\ Len(inbound) \in Nat
  BY LenProperties
<1>2. wire \in Seq(OwnUnit) /\ n \in 0 .. Len(wire)
  BY <1>1
<1>3. SubSeq(wire, 1, n) \in Seq(OwnUnit) /\ Len(SubSeq(wire, 1, n)) = n
  BY ONLY <1>2, FirstProperties
<1>4. wire' \in Seq(OwnUnit) /\ Len(wire') = Len(wire) - n
  BY <1>1, DropProperties DEF ReadUnits
<1>5. inbound' \in Seq(OwnUnit) /\ Len(inbound') = Len(inbound) + n
  BY <1>1, <1>3, ConcatProperties DEF ReadUnits
<1>6. SubSeq(wire, 1, n) \o Drop(wire, n) = wire
  BY <1>1, ConcatAdjacentSubSeq, SubSeqFull DEF Drop
<1>7. inbound' \o wire' = inbound \o (SubSeq(wire, 1, n) \o Drop(wire, n))
  <2>1. Drop(wire, n) \in Seq(OwnUnit) /\ inbound \in Seq(OwnUnit)
    BY <1>4 DEF ReadUnits
  <2>2. inbound' = inbound \o SubSeq(wire, 1, n) /\ wire' = Drop(wire, n)
    BY DEF ReadUnits
  <2> QED
    BY ONLY <1>3, <2>1, <2>2, ConcatAssociative
<1> QED
  BY <1>4, <1>5, <1>6, <1>7

LEMMA WholeFramesInvariant == Spec => []WholeFrames
<1>1. Init => WholeFrames
  <2> SUFFICES ASSUME Init
               PROVE  WholeFrames
    OBVIOUS
  <2>1. PICK n \in Primes : /\ inbound = SubSeq(EarlyUnits(n), 1, n)
                            /\ wire = Drop(EarlyUnits(n), n)
                            /\ nextSeq = (n + (n % 2)) \div 2
    BY DEF Init
  <2>2. n \in 0 .. 2 * WireCap /\ n % 2 \in 0 .. 1 /\ n \in 0 .. n + (n % 2)
    BY PrimesAssumption
  <2>3. /\ EarlyUnits(n) \in Seq(OwnUnit)
        /\ Len(EarlyUnits(n)) = n + (n % 2)
    BY <2>2, EarlyFrames DEF Init
  <2>4. PICK k \in 0 .. WireCap : n + (n % 2) = 2 * k
    BY <2>2, EarlyFrames DEF Init
  <2>5. inbound \in Seq(OwnUnit) /\ Len(inbound) = n
    <3>1. n \in 0 .. Len(EarlyUnits(n))
      BY <2>2, <2>3
    <3> QED
      BY ONLY <2>1, <2>3, <3>1, FirstProperties
  <2>6. wire \in Seq(OwnUnit) /\ Len(wire) = (n + (n % 2)) - n
    <3>1. n \in 0 .. Len(EarlyUnits(n))
      BY <2>2, <2>3
    <3> QED
      BY <2>1, <2>3, <3>1, DropProperties
  <2>7. nextSeq \in 0 .. SeqMod - 1
    BY <2>1, <2>2, <2>4 DEF SeqMod
  <2>8. Len(inbound) + Len(wire) = 2 * k
    BY <2>2, <2>4, <2>5, <2>6
  <2> QED
    BY <2>5, <2>6, <2>7, <2>8 DEF Init, WholeFrames
<1>2. WholeFrames /\ [Next]_vars => WholeFrames'
  <2> SUFFICES ASSUME WholeFrames, [Next]_vars
               PROVE  WholeFrames'
    OBVIOUS
  <2>1. UNCHANGED framer /\ OwnUnit' = OwnUnit
    BY StreamSteps DEF OwnUnit
  <2>2. Len(wire) \in Nat /\ Len(inbound) \in Nat
    BY LenProperties DEF WholeFrames
  <2>3. PICK k \in 0 .. WireCap : Len(inbound) + Len(wire) = 2 * k
    BY DEF WholeFrames
  <2>4. CASE PeerSends
    <3>1. PICK kind \in Kinds : wire' = wire \o FrameUnits(kind, nextSeq)
      BY <2>4 DEF PeerSends
    <3>2. wire' \in Seq(OwnUnit) /\ Len(wire') = Len(wire) + 2
      <4>1. kind \in DOMAIN FrameEvent[framer]
        BY <3>1 DEF Kinds
      <4>2. FrameUnits(kind, nextSeq) \in Seq(OwnUnit) /\ Len(FrameUnits(kind, nextSeq)) = 2
        BY <4>1, FrameUnitsType DEF WholeFrames
      <4> QED
        <5>1. wire \in Seq(OwnUnit)
          BY DEF WholeFrames
        <5> QED
          BY ONLY <3>1, <4>2, <5>1, TwoMore
    <3>3. nextSeq' \in 0 .. SeqMod - 1
      BY <2>4 DEF PeerSends, WholeFrames
    <3>4. k + 1 \in 0 .. WireCap /\ Len(inbound') + Len(wire') = 2 * (k + 1)
      <4>1. Len(wire) + Len(inbound) <= 2 * (WireCap - 1) /\ inbound' = inbound
        BY <2>4 DEF PeerSends
      <4> QED
        BY <2>2, <2>3, <3>2, <4>1
    <3> QED
      BY <2>1, <2>4, <3>2, <3>3, <3>4 DEF PeerSends, WholeFrames
  <2>5. ASSUME NEW n \in 1 .. Len(wire), ReadUnits(n)
        PROVE  WholeFrames'
    <3>1. Len(inbound') + Len(wire') = 2 * k
      BY <2>2, <2>3, <2>5, ReadLengths
    <3> QED
      BY <2>1, <2>5, <3>1, ReadLengths DEF WholeFrames, ReadUnits
  <2>6. CASE TakeFrame
    <3>1. Len(inbound) >= 2
      BY <2>6, TakenFrameIsWhole
    <3>2. inbound' \in Seq(OwnUnit) /\ Len(inbound') = Len(inbound) - 2
      <4>1. 2 \in 0 .. Len(inbound)
        BY <2>2, <3>1
      <4> QED
        BY <2>6, <4>1, DropProperties DEF TakeFrame, WholeFrames
    <3>3. k - 1 \in 0 .. WireCap /\ Len(inbound') + Len(wire') = 2 * (k - 1)
      BY <2>2, <2>3, <2>6, <3>1, <3>2 DEF TakeFrame
    <3>4. decoded' \in 0 .. SeqMod - 1
      BY <2>6 DEF TakeFrame, WholeFrames
    <3> QED
      BY <2>1, <2>6, <3>2, <3>3, <3>4 DEF TakeFrame, WholeFrames
  <2>7. CASE UNCHANGED streamVars
    BY <2>1, <2>7 DEF WholeFrames, streamVars
  <2> QED
    BY <2>4, <2>5, <2>6, <2>7, StreamSteps
<1> QED
  BY <1>1, <1>2, PTL DEF Spec

-------------------------------------------------------------------------------
(* The sequence u of units holds the frames from number d on, two units each,
   and the next frame to come is number n. *)
Numbered(u, d, n) ==
    /\ \A i \in 1 .. Len(u) : u[i].seq = (d + ((i - 1) \div 2)) % SeqMod
    /\ n = (d + ((Len(u) + 1) \div 2)) % SeqMod

(* Another frame at the end. *)
LEMMA NumberedSend ==
    ASSUME NEW S, NEW u \in Seq(S), NEW t \in Seq(S), Len(t) = 2,
           NEW k \in Nat, k < WireCap, Len(u) = 2 * k,
           NEW d \in 0 .. SeqMod - 1, NEW n \in 0 .. SeqMod - 1,
           Numbered(u, d, n), t[1].seq = n, t[2].seq = n
    PROVE  Numbered(u \o t, d, (n + 1) % SeqMod)
<1>1. /\ Len(u \o t) = 2 * k + 2
      /\ \A i \in 1 .. 2 * k : (u \o t)[i] = u[i]
      /\ (u \o t)[2 * k + 1] = t[1]
      /\ (u \o t)[2 * k + 2] = t[2]
  <2>1. u \in Seq(S) /\ t \in Seq(S) /\ Len(t) = 2 /\ Len(u) = 2 * k
    OBVIOUS
  <2> QED
    BY ONLY <2>1, TwoMore
<1>2. n = (d + k) % SeqMod
  <2>1. (2 * k + 1) \div 2 = k
    BY Halves
  <2> QED
    BY <2>1 DEF Numbered
<1>3. ASSUME NEW i \in 1 .. 2 * k + 2
      PROVE  (u \o t)[i].seq = (d + ((i - 1) \div 2)) % SeqMod
  <2>1. CASE i \in 1 .. 2 * k
    BY <1>1, <2>1 DEF Numbered
  <2>2. CASE i = 2 * k + 1
    <3>1. (i - 1) \div 2 = k
      BY <2>2, Halves
    <3> QED
      BY <1>1, <1>2, <2>2, <3>1
  <2>3. CASE i = 2 * k + 2
    <3>1. (i - 1) \div 2 = k
      BY <2>3, Halves
    <3> QED
      BY <1>1, <1>2, <2>3, <3>1
  <2>4. i \in 1 .. 2 * k \/ i = 2 * k + 1 \/ i = 2 * k + 2
    OBVIOUS
  <2> QED
    BY ONLY <2>1, <2>2, <2>3, <2>4
<1>4. (n + 1) % SeqMod = (d + (k + 1)) % SeqMod
  <2>1. (((d + k) % SeqMod) + 1) % SeqMod = (d + (k + 1)) % SeqMod
    BY ONLY d \in 0 .. SeqMod - 1, k \in 0 .. WireCap - 1, NextNumber
  <2> QED
    BY ONLY <1>2, <2>1
<1>5. (Len(u \o t) + 1) \div 2 = k + 1
  <2>1. Len(u \o t) + 1 = 2 * (k + 1) + 1
    BY <1>1
  <2>2. (2 * (k + 1) + 1) \div 2 = k + 1
    BY Halves
  <2> QED
    BY <2>1, <2>2
<1> QED
  BY <1>1, <1>3, <1>4, <1>5 DEF Numbered

(* A frame less at the front. *)
LEMMA NumberedTake ==
    ASSUME NEW S, NEW u \in Seq(S),
           NEW k \in 1 .. WireCap, Len(u) = 2 * k,
           NEW d \in 0 .. SeqMod - 1, NEW n, Numbered(u, d, n)
    PROVE  Numbered(Drop(u, 2), (d + 1) % SeqMod, n)
<1>1. /\ Len(Drop(u, 2)) = 2 * (k - 1)
      /\ \A i \in 1 .. 2 * (k - 1) : Drop(u, 2)[i] = u[2 + i]
  <2>1. 2 \in 0 .. Len(u) /\ Len(u) - 2 = 2 * (k - 1)
    OBVIOUS
  <2>2. /\ Len(Drop(u, 2)) = Len(u) - 2
        /\ \A i \in 1 .. Len(u) - 2 : Drop(u, 2)[i] = u[2 + i]
    BY <2>1, DropProperties
  <2> QED
    BY <2>1, <2>2
<1>2. ASSUME NEW j \in 0 .. k - 1
      PROVE  (((d + 1) % SeqMod) + j) % SeqMod = (d + (j + 1)) % SeqMod
  BY NextStart
<1>3. ASSUME NEW i \in 1 .. 2 * (k - 1)
      PROVE  Drop(u, 2)[i].seq = (((d + 1) % SeqMod) + ((i - 1) \div 2)) % SeqMod
  <2> DEFINE j == (i - 1) \div 2
  <2>1. j \in 0 .. k - 1 /\ ((2 + i) - 1) \div 2 = j + 1
    OBVIOUS
  <2>2. u[2 + i].seq = (d + (j + 1)) % SeqMod
    <3>1. 2 + i \in 1 .. Len(u)
      OBVIOUS
    <3>2. u[2 + i].seq = (d + (((2 + i) - 1) \div 2)) % SeqMod
      BY <3>1 DEF Numbered
    <3> QED
      BY <2>1, <3>2
  <2> HIDE DEF j
  <2>3. Drop(u, 2)[i].seq = (((d + 1) % SeqMod) + j) % SeqMod
    BY <1>1, <1>2, <2>1, <2>2
  <2> QED
    BY <2>3 DEF j
<1>4. n = (((d + 1) % SeqMod) + ((Len(Drop(u, 2)) + 1) \div 2)) % SeqMod
  <2>1. (Len(u) + 1) \div 2 = k /\ (Len(Drop(u, 2)) + 1) \div 2 = k - 1
    BY <1>1, Halves
  <2>2. n = (d + k) % SeqMod
    BY <2>1 DEF Numbered
  <2>3. k - 1 \in 0 .. k - 1 /\ (k - 1) + 1 = k
    OBVIOUS
  <2>4. (((d + 1) % SeqMod) + (k - 1)) % SeqMod = (d + k) % SeqMod
    BY <1>2, <2>3
  <2> QED
    BY <2>1, <2>2, <2>4
<1> QED
  BY <1>1, <1>3, <1>4 DEF Numbered

(* Taking a frame from the accumulator takes it from the stream. *)
LEMMA DropConcat ==
    ASSUME NEW S, NEW s \in Seq(S), NEW t \in Seq(S), Len(s) >= 2
    PROVE  Drop(s, 2) \o t = Drop(s \o t, 2)
<1>1. Len(s) \in Nat /\ Len(t) \in Nat
  BY LenProperties
<1>2. /\ Drop(s, 2) \in Seq(S)
      /\ Len(Drop(s, 2)) = Len(s) - 2
      /\ \A i \in 1 .. Len(s) - 2 : Drop(s, 2)[i] = s[2 + i]
  BY <1>1, DropProperties
<1>3. /\ s \o t \in Seq(S)
      /\ Len(s \o t) = Len(s) + Len(t)
      /\ \A i \in 1 .. Len(s) + Len(t) :
            (s \o t)[i] = IF i <= Len(s) THEN s[i] ELSE t[i - Len(s)]
  BY ConcatProperties
<1>4. 2 \in 0 .. Len(s \o t)
  BY <1>1, <1>3
<1>5. /\ Drop(s \o t, 2) \in Seq(S)
      /\ Len(Drop(s \o t, 2)) = Len(s) + Len(t) - 2
      /\ \A i \in 1 .. Len(s) + Len(t) - 2 : Drop(s \o t, 2)[i] = (s \o t)[2 + i]
  <2> DEFINE c == s \o t
  <2>1. c \in Seq(S) /\ Len(c) = Len(s) + Len(t) /\ 2 \in 0 .. Len(c)
    BY <1>3, <1>4
  <2> HIDE DEF c
  <2>2. /\ Drop(c, 2) \in Seq(S)
        /\ Len(Drop(c, 2)) = Len(c) - 2
        /\ \A i \in 1 .. Len(c) - 2 : Drop(c, 2)[i] = c[2 + i]
    BY <2>1, DropProperties
  <2> QED
    BY <2>1, <2>2 DEF c
<1>6. /\ Drop(s, 2) \o t \in Seq(S)
      /\ Len(Drop(s, 2) \o t) = Len(s) - 2 + Len(t)
      /\ \A i \in 1 .. Len(s) - 2 + Len(t) :
            (Drop(s, 2) \o t)[i] = IF i <= Len(s) - 2 THEN Drop(s, 2)[i]
                                   ELSE t[i - (Len(s) - 2)]
  <2> DEFINE r == Drop(s, 2)
  <2>1. r \in Seq(S) /\ Len(r) = Len(s) - 2
    BY <1>2
  <2> HIDE DEF r
  <2>2. /\ r \o t \in Seq(S)
        /\ Len(r \o t) = Len(r) + Len(t)
        /\ \A i \in 1 .. Len(r) + Len(t) :
              (r \o t)[i] = IF i <= Len(r) THEN r[i] ELSE t[i - Len(r)]
    BY <2>1, ConcatProperties
  <2> QED
    BY <2>1, <2>2 DEF r
<1>7. \A i \in 1 .. Len(s) + Len(t) - 2 : (Drop(s, 2) \o t)[i] = Drop(s \o t, 2)[i]
  BY <1>1, <1>2, <1>3, <1>5, <1>6
<1> QED
  <2>1. Len(Drop(s, 2) \o t) = Len(Drop(s \o t, 2))
    BY <1>1, <1>5, <1>6
  <2>2. \A i \in 1 .. Len(Drop(s, 2) \o t) : (Drop(s, 2) \o t)[i] = Drop(s \o t, 2)[i]
    BY <1>1, <1>6, <1>7
  <2> QED
    BY ONLY <1>5, <1>6, <2>1, <2>2, SeqEqual

(* The order of the stream, said of its units. *)
LEMMA InOrderMeansNumbered ==
    ASSUME WholeFrames
    PROVE  InboundInOrder <=> Numbered(inbound \o wire, decoded, nextSeq)
<1>1. inbound \in Seq(OwnUnit) /\ wire \in Seq(OwnUnit)
  BY DEF WholeFrames
<1>2. DOMAIN (inbound \o wire) = 1 .. Len(inbound \o wire)
  BY ONLY <1>1, ConcatProperties, LenProperties
<1> QED
  BY <1>2 DEF InboundInOrder, Numbered

(***************************************************************************)
(* Cancellation safety of the forwarding loop, for every framer, buffer    *)
(* size and way of splitting the stream into reads: whichever arm of the   *)
(* select wins between two partial reads, no unit of the peer's stream is  *)
(* lost, duplicated or reordered before the decoder sees it.               *)
(***************************************************************************)
THEOREM StreamInOrder == Spec => []InboundInOrder
<1>1. Init => InboundInOrder
  <2> SUFFICES ASSUME Init
               PROVE  InboundInOrder
    OBVIOUS
  <2>1. PICK n \in Primes : /\ inbound = SubSeq(EarlyUnits(n), 1, n)
                            /\ wire = Drop(EarlyUnits(n), n)
                            /\ nextSeq = (n + (n % 2)) \div 2
    BY DEF Init
  <2>2. n \in 0 .. 2 * WireCap /\ n \in 0 .. n + (n % 2) /\ n + (n % 2) \in Nat
    BY PrimesAssumption
  <2>3. framer \in Framers /\ decoded = 0
    BY DEF Init
  <2>4. /\ EarlyUnits(n) \in Seq(OwnUnit)
        /\ Len(EarlyUnits(n)) = n + (n % 2)
        /\ \A i \in 1 .. n + (n % 2) : EarlyUnits(n)[i].seq = (i - 1) \div 2
    BY <2>2, <2>3, EarlyFrames
  <2>5. PICK k \in 0 .. WireCap : n + (n % 2) = 2 * k
    BY <2>2, <2>3, EarlyFrames
  <2>6. inbound \o wire = EarlyUnits(n)
    <3> DEFINE u == EarlyUnits(n)
    <3>1. u \in Seq(OwnUnit) /\ Len(u) \in Nat /\ n \in 0 .. Len(u)
      BY <2>2, <2>4
    <3> HIDE DEF u
    <3>2. SubSeq(u, 1, n) \o SubSeq(u, n + 1, Len(u)) = SubSeq(u, 1, Len(u))
      <4>1. /\ 1 \in 1 .. Len(u) + 1
            /\ n \in 1 - 1 .. Len(u)
            /\ Len(u) \in n .. Len(u)
        BY <3>1
      <4> QED
        BY <3>1, <4>1, ConcatAdjacentSubSeq
    <3>3. SubSeq(u, 1, Len(u)) = u
      BY <3>1, SubSeqFull
    <3> QED
      BY <2>1, <3>2, <3>3 DEF u, Drop
  <2>7. ASSUME NEW i \in 1 .. 2 * k
        PROVE  (i - 1) \div 2 = (0 + ((i - 1) \div 2)) % SeqMod
    <3>1. (i - 1) \div 2 \in 0 .. SeqMod - 1
      BY DEF SeqMod
    <3> QED
      BY <3>1, WrapsOnce
  <2>8. nextSeq = (0 + ((2 * k + 1) \div 2)) % SeqMod
    <3>1. (2 * k + 1) \div 2 = k /\ nextSeq = k
      BY <2>1, <2>5, Halves
    <3>2. k % SeqMod = k
      BY WrapsOnce DEF SeqMod
    <3> QED
      BY <3>1, <3>2
  <2>9. DOMAIN (inbound \o wire) = 1 .. 2 * k /\ Len(inbound \o wire) = 2 * k
    BY <2>4, <2>5, <2>6, LenProperties
  <2> QED
    BY <2>3, <2>4, <2>5, <2>6, <2>7, <2>8, <2>9 DEF InboundInOrder
<1>2. WholeFrames /\ WholeFrames' /\ InboundInOrder /\ [Next]_vars => InboundInOrder'
  <2> SUFFICES ASSUME WholeFrames, WholeFrames', InboundInOrder, [Next]_vars
               PROVE  InboundInOrder'
    OBVIOUS
  <2> DEFINE u == inbound \o wire
  <2>1. Numbered(u, decoded, nextSeq)
    BY InOrderMeansNumbered
  <2>2. /\ inbound \in Seq(OwnUnit) /\ wire \in Seq(OwnUnit)
        /\ decoded \in 0 .. SeqMod - 1 /\ nextSeq \in 0 .. SeqMod - 1
    BY DEF WholeFrames
  <2>3. /\ u \in Seq(OwnUnit) /\ Len(u) = Len(inbound) + Len(wire)
        /\ Len(inbound) \in Nat /\ Len(wire) \in Nat
    BY ONLY <2>2, ConcatProperties, LenProperties
  <2>4. PICK k \in 0 .. WireCap : Len(u) = 2 * k
    BY <2>3 DEF WholeFrames
  <2>5. ASSUME PeerSends
        PROVE  Numbered(inbound' \o wire', decoded', nextSeq')
    <3>1. PICK kind \in Kinds : wire' = wire \o FrameUnits(kind, nextSeq)
      BY <2>5 DEF PeerSends
    <3> DEFINE t == FrameUnits(kind, nextSeq)
    <3>2. /\ t \in Seq(OwnUnit) /\ Len(t) = 2
          /\ t[1].seq = nextSeq /\ t[2].seq = nextSeq
      <4>1. kind \in DOMAIN FrameEvent[framer]
        BY DEF Kinds
      <4> QED
        BY <2>2, <4>1, FrameUnitsType
    <3>3. k < WireCap
      <4>1. Len(wire) + Len(inbound) <= 2 * (WireCap - 1)
        BY <2>5 DEF PeerSends
      <4> QED
        BY <2>3, <2>4, <4>1
    <3> HIDE DEF t
    <3>4. inbound' \o wire' = u \o t
      <4>1. inbound' = inbound /\ wire' = wire \o t
        BY <2>5, <3>1 DEF PeerSends, t
      <4> QED
        <5>1. (inbound \o wire) \o t = inbound \o (wire \o t)
          <6>1. inbound \in Seq(OwnUnit) /\ wire \in Seq(OwnUnit) /\ t \in Seq(OwnUnit)
            BY <2>2, <3>2
          <6> QED
            BY ONLY <6>1, ConcatAssociative
        <5> QED
          BY <4>1, <5>1
    <3> HIDE DEF u
    <3>5. Numbered(u \o t, decoded, (nextSeq + 1) % SeqMod)
      <4>1. k \in Nat
        OBVIOUS
      <4> QED
        BY ONLY <2>1, <2>2, <2>3, <2>4, <3>2, <3>3, <4>1, NumberedSend
    <3>6. decoded' = decoded /\ nextSeq' = (nextSeq + 1) % SeqMod
      BY <2>5 DEF PeerSends
    <3> QED
      BY <3>4, <3>5, <3>6
  <2>6. ASSUME NEW n \in 1 .. Len(wire), ReadUnits(n)
        PROVE  Numbered(inbound' \o wire', decoded', nextSeq')
    BY <2>1, <2>6, ReadLengths DEF ReadUnits
  <2>7. ASSUME TakeFrame
        PROVE  Numbered(inbound' \o wire', decoded', nextSeq')
    <3>1. Len(inbound) >= 2
      BY <2>7, TakenFrameIsWhole
    <3>2. inbound' \o wire' = Drop(u, 2)
      <4>1. inbound' = Drop(inbound, 2) /\ wire' = wire
        BY <2>7 DEF TakeFrame
      <4> QED
        BY <2>2, <3>1, <4>1, DropConcat
    <3>3. k \in 1 .. WireCap
      BY <2>3, <2>4, <3>1
    <3> HIDE DEF u
    <3>4. Numbered(Drop(u, 2), (decoded + 1) % SeqMod, nextSeq)
      BY <2>1, <2>2, <2>3, <2>4, <3>3, NumberedTake
    <3>5. decoded' = (decoded + 1) % SeqMod /\ nextSeq' = nextSeq
      BY <2>7 DEF TakeFrame
    <3> QED
      BY <3>2, <3>4, <3>5
  <2>8. ASSUME UNCHANGED streamVars
        PROVE  Numbered(inbound' \o wire', decoded', nextSeq')
    BY <2>1, <2>8 DEF streamVars
  <2>9. Numbered(inbound' \o wire', decoded', nextSeq')
    BY <2>5, <2>6, <2>7, <2>8, StreamSteps
  <2>10. DOMAIN (inbound' \o wire') = 1 .. Len(inbound' \o wire')
    <3>1. OwnUnit' = OwnUnit
      BY StreamSteps DEF OwnUnit
    <3>2. inbound' \in Seq(OwnUnit) /\ wire' \in Seq(OwnUnit)
      BY <3>1 DEF WholeFrames
    <3> QED
      BY ONLY <3>2, ConcatProperties, LenProperties
  <2> QED
    BY <2>9, <2>10 DEF InboundInOrder, Numbered
<1> QED
  BY <1>1, <1>2, WholeFramesInvariant, PTL DEF Spec

-------------------------------------------------------------------------------
(* The rest of the type invariant, and what makes it inductive: the loop never
   goes on with its allowance of unanswered keepalives used up. *)
Control ==
    /\ peer \in {"up", "hung", "closed"}
    /\ tunQ \in 0 .. TunCap
    /\ tunState \in {"open", "closed", "failed"}
    /\ tunAfter \in {"open", "closed", "failed"}
    /\ due \in 0 .. DueCap
    /\ missed \in 0 .. MaxMissed
    /\ shutdown \in BOOLEAN
    /\ pc \in {"select", "drain", "write", "exited"}
    /\ writing \in Writes
    /\ result \in Results
    /\ pc # "exited" => missed < MaxMissed

(* What the drain loop does with the frame it finds. *)
LEMMA DrainOutcomes ==
    ASSUME WholeFrames, DrainFrame
    PROVE  /\ \/ pc' = "drain" /\ writing' = "nothing" /\ result' = result
              \/ pc' = "write" /\ writing' = "reply" /\ result' = result
              \/ /\ pc' = "exited" /\ writing' = "nothing"
                 /\ result' \in {"malformed", "io", "serverDisconnect"}
           /\ missed' \in {missed, 0}
           /\ pc' # "exited" => missed' = 0
<1> DEFINE event == FrameEvent[framer][inbound[1].kind]
<1>1. event \in {"Data", "Reply", "Ignore", "Disconnect", "Malformed"}
  <2>1. inbound \in Seq(OwnUnit) /\ framer \in Framers
    BY DEF WholeFrames
  <2>2. 1 \in 1 .. Len(inbound)
    <3>1. Len(inbound) \in Nat
      BY <2>1, LenProperties
    <3>2. Len(inbound) >= 2 \/ Len(inbound) = 1
      BY DEF DrainFrame, Decodable
    <3> QED
      BY <3>1, <3>2
  <2>3. inbound[1] \in OwnUnit
    BY ONLY <2>1, <2>2, ElementOfSeq
  <2>4. inbound[1].kind \in DOMAIN FrameEvent[framer]
    BY <2>3 DEF OwnUnit
  <2> QED
    BY <2>1, <2>4, Treatments
<1>2. IF event = "Malformed"
        THEN /\ Exit("malformed")
             /\ UNCHANGED <<inbound, decoded, missed>>
        ELSE /\ missed' = 0
             /\ CASE event = "Data" -> GoTo("drain") \/ Exit("io")
                  [] event = "Reply" -> StartWrite("reply")
                  [] event = "Ignore" -> GoTo("drain")
                  [] event = "Disconnect" -> Exit("serverDisconnect")
  BY DEF DrainFrame
<1> HIDE DEF event
<1>3. CASE event = "Malformed"
  BY <1>2, <1>3 DEF Exit
<1>4. CASE event = "Data"
  BY <1>2, <1>4 DEF Exit, GoTo
<1>5. CASE event = "Reply"
  BY <1>2, <1>5 DEF StartWrite
<1>6. CASE event = "Ignore"
  BY <1>2, <1>6 DEF GoTo
<1>7. CASE event = "Disconnect"
  BY <1>2, <1>7 DEF Exit
<1> QED
  BY <1>1, <1>3, <1>4, <1>5, <1>6, <1>7

LEMMA ControlInvariant == Spec => []Control
<1>1. Init => Control
  <2> SUFFICES ASSUME Init
               PROVE  Control
    OBVIOUS
  <2>1. /\ tunQ = 0 /\ due = 0 /\ missed = 0 /\ peer = "up"
        /\ tunState = "open" /\ tunAfter = "open"
        /\ pc = "select" /\ writing = "nothing" /\ result = "none"
    BY DEF Init
  <2>2. shutdown \in BOOLEAN
    BY DEF Init
  <2> QED
    BY <2>1, <2>2 DEF Control, Writes, Results
<1>2. WholeFrames /\ Control /\ [Next]_vars => Control'
  <2> SUFFICES ASSUME WholeFrames, Control, [Next]_vars
               PROVE  Control'
    OBVIOUS
  <2> USE DEF Control, Writes, Results, tunVars, timerVars
  <2>1. CASE PeerSends \/ PeerStops
    BY <2>1 DEF PeerSends, PeerStops
  <2>2. CASE PacketArrives \/ TunStops
    BY <2>2 DEF PacketArrives, TunStops
  <2>3. CASE RequestShutdown \/ TimerExpires
    <3>1. shutdown' \in BOOLEAN
      BY <2>3 DEF RequestShutdown, TimerExpires
    <3>2. due' \in 0 .. DueCap
      BY <2>3 DEF RequestShutdown, TimerExpires
    <3> QED
      BY <2>3, <3>1, <3>2 DEF RequestShutdown, TimerExpires
  <2>4. CASE ShutdownArm \/ KeepaliveArm
    BY <2>4 DEF ShutdownArm, KeepaliveArm, Exit, StartWrite
  <2>5. CASE TunArm
    BY <2>5 DEF TunArm, Exit, StartWrite, TunError
  <2>6. CASE InboundArm
    BY <2>6 DEF InboundArm, Exit, GoTo
  <2>7. CASE DrainFrame
    <3>1. UNCHANGED <<peer, tunQ, tunState, tunAfter, due, shutdown>>
      BY <2>7 DEF DrainFrame
    <3> QED
      BY <2>7, <3>1, DrainOutcomes
  <2>8. CASE DrainEnds
    BY <2>8 DEF DrainEnds, GoTo
  <2>9. CASE KeepaliveWritten
    BY <2>9 DEF KeepaliveWritten, PeerDead, Exit, GoTo
  <2>10. CASE BatchWritten
    BY <2>10 DEF BatchWritten, TunError, Exit, GoTo
  <2>11. CASE ReplyWritten
    BY <2>11 DEF ReplyWritten, AfterReply, GoTo
  <2>12. CASE GoodbyeWritten \/ WriteFails
    BY <2>12 DEF GoodbyeWritten, WriteFails, WriteError, Exit
  <2>13. CASE UNCHANGED vars
    BY <2>13 DEF vars
  <2> QED
    BY <2>1, <2>2, <2>3, <2>4, <2>5, <2>6, <2>7, <2>8, <2>9, <2>10, <2>11,
       <2>12, <2>13 DEF Next, Loop, WriteReturns, Environment, Exited
<1> QED
  BY <1>1, <1>2, WholeFramesInvariant, PTL DEF Spec

(***************************************************************************)
(* Type correctness of the forwarding loop: the accumulator and the frames *)
(* in flight stay within their bound together, and the count of unanswered *)
(* keepalives never passes MAX_MISSED_KEEPALIVES.                          *)
(***************************************************************************)
THEOREM ForwardingTypes == Spec => []TypeOK
<1>1. WholeFrames /\ Control => TypeOK
  <2> SUFFICES ASSUME WholeFrames, Control
               PROVE  TypeOK
    OBVIOUS
  <2>1. framer \in Framers /\ inbound \in Seq(OwnUnit) /\ wire \in Seq(OwnUnit)
    BY DEF WholeFrames
  <2>2. inbound \in Seq(Unit) /\ wire \in Seq(Unit)
    BY ONLY <2>1, OwnUnitIsUnit, SeqMonotonic
  <2>3. Len(inbound) <= 2 * WireCap /\ Len(wire) <= 2 * WireCap
    <3>1. Len(inbound) \in Nat /\ Len(wire) \in Nat
      BY ONLY <2>1, LenProperties
    <3>2. PICK k \in 0 .. WireCap : Len(inbound) + Len(wire) = 2 * k
      BY DEF WholeFrames
    <3> QED
      BY <3>1, <3>2
  <2> QED
    BY <2>1, <2>2, <2>3 DEF WholeFrames, Control, TypeOK
<1> QED
  BY <1>1, WholeFramesInvariant, ControlInvariant, PTL

-------------------------------------------------------------------------------
(* How the loop ends.  It has a result only once it has ended; it is saying
   goodbye, or has ended well, only after a stop request. *)
EndsForAReason ==
    /\ pc # "exited" => result = "none"
    /\ pc = "write" /\ writing = "shutdown" => shutdown
    /\ result = "ok" => shutdown

LEMMA EndsForAReasonInvariant == Spec => []EndsForAReason
<1>1. Init => EndsForAReason
  BY DEF Init, EndsForAReason
<1>2. WholeFrames /\ EndsForAReason /\ [Next]_vars => EndsForAReason'
  <2> SUFFICES ASSUME WholeFrames, EndsForAReason, [Next]_vars
               PROVE  EndsForAReason'
    OBVIOUS
  <2> USE DEF EndsForAReason
  <2>1. CASE PeerSends \/ PeerStops \/ PacketArrives \/ TunStops \/ TimerExpires
    BY <2>1 DEF PeerSends, PeerStops, PacketArrives, TunStops, TimerExpires
  <2>2. CASE RequestShutdown
    BY <2>2 DEF RequestShutdown
  <2>3. CASE ShutdownArm \/ KeepaliveArm
    BY <2>3 DEF ShutdownArm, KeepaliveArm, Exit, StartWrite
  <2>4. CASE TunArm
    BY <2>4 DEF TunArm, Exit, StartWrite, TunError
  <2>5. CASE InboundArm
    BY <2>5 DEF InboundArm, Exit, GoTo
  <2>6. CASE DrainFrame
    BY <2>6, DrainOutcomes DEF DrainFrame
  <2>7. CASE DrainEnds
    BY <2>7 DEF DrainEnds, GoTo
  <2>8. CASE KeepaliveWritten \/ BatchWritten \/ ReplyWritten
    BY <2>8 DEF KeepaliveWritten, BatchWritten, ReplyWritten, AfterReply,
                TunError, Exit, GoTo
  <2>9. CASE GoodbyeWritten \/ WriteFails
    BY <2>9 DEF GoodbyeWritten, WriteFails, WriteError, Exit
  <2>10. CASE UNCHANGED vars
    BY <2>10 DEF vars
  <2> QED
    BY <2>1, <2>2, <2>3, <2>4, <2>5, <2>6, <2>7, <2>8, <2>9, <2>10
       DEF Next, Loop, WriteReturns, Environment, Exited
<1> QED
  BY <1>1, <1>2, WholeFramesInvariant, PTL DEF Spec

(***************************************************************************)
(* run_forwarding returns Ok only after a stop request: a dead peer, a     *)
(* closed stream, a failed write or a refused frame is always an error, so *)
(* the supervisor above it reconnects instead of reporting a clean end.    *)
(***************************************************************************)
THEOREM SuccessMeansStop == Spec => []OkMeansStop
<1>1. EndsForAReason => OkMeansStop
  BY DEF EndsForAReason, OkMeansStop
<1> QED
  BY <1>1, EndsForAReasonInvariant, PTL

(* While the loop is in its select, or in a write that the drain loop did not
   start, no complete frame is waiting in the accumulator. *)
Drained ==
    pc = "select" \/ (pc = "write" /\ writing # "reply") => ~Decodable(inbound)

(***************************************************************************)
(* When the handshake hands over less than a frame, no frame that arrived  *)
(* completely before the loop ended on a closed stream, a closed TUN, a    *)
(* silent peer or a stop request is left unread: the drain loop runs dry   *)
(* before the next select.  (The run forwarding_prime shows that the       *)
(* hypothesis is needed.)                                                  *)
(***************************************************************************)
THEOREM CompleteFramesActedOn ==
    ASSUME Primes \subseteq {0, 1}
    PROVE  Spec => []NothingDecodableDropped
<1> DEFINE Inv == Drained /\ NothingDecodableDropped
<1>1. Init => Inv
  <2> SUFFICES ASSUME Init
               PROVE  Inv
    OBVIOUS
  <2>1. PICK n \in Primes : inbound = SubSeq(EarlyUnits(n), 1, n)
    BY DEF Init
  <2>2. n \in {0, 1} /\ n \in 0 .. 2 * WireCap /\ n \in 0 .. n + (n % 2)
    BY PrimesAssumption
  <2>3. /\ EarlyUnits(n) \in Seq(OwnUnit)
        /\ Len(EarlyUnits(n)) = n + (n % 2)
        /\ \A i \in 1 .. n + (n % 2) : EarlyUnits(n)[i].kind # "BadHeader"
    BY <2>2, EarlyFrames DEF Init
  <2>4. n \in 0 .. Len(EarlyUnits(n))
    BY <2>2, <2>3
  <2>5. Len(inbound) = n /\ \A i \in 1 .. n : inbound[i] = EarlyUnits(n)[i]
    BY ONLY <2>1, <2>3, <2>4, FirstProperties
  <2>6. ~Decodable(inbound)
    BY <2>2, <2>3, <2>5 DEF Decodable
  <2> QED
    BY <2>6 DEF Drained, NothingDecodableDropped
<1>2. WholeFrames /\ EndsForAReason /\ Inv /\ [Next]_vars => Inv'
  <2> SUFFICES ASSUME WholeFrames, EndsForAReason, Inv, [Next]_vars
               PROVE  Inv'
    OBVIOUS
  <2>1. UNCHANGED inbound => Decodable(inbound)' = Decodable(inbound)
    BY DEF Decodable
  <2> USE DEF Inv, Drained, NothingDecodableDropped, EndsForAReason, streamVars
  <2>2. CASE PeerSends \/ PeerStops \/ PacketArrives \/ TunStops \/ TimerExpires
    BY <2>1, <2>2 DEF PeerSends, PeerStops, PacketArrives, TunStops, TimerExpires
  <2>3. CASE RequestShutdown
    BY <2>1, <2>3 DEF RequestShutdown
  <2>4. CASE ShutdownArm \/ KeepaliveArm
    BY <2>1, <2>4 DEF ShutdownArm, KeepaliveArm, Exit, StartWrite
  <2>5. CASE TunArm
    BY <2>1, <2>5 DEF TunArm, Exit, StartWrite, TunError
  <2>6. CASE InboundArm
    BY <2>1, <2>6 DEF InboundArm, Exit, GoTo
  <2>7. CASE DrainFrame
    BY <2>7, DrainOutcomes DEF DrainFrame
  <2>8. CASE DrainEnds
    BY <2>1, <2>8 DEF DrainEnds, PartialFrame, GoTo
  <2>9. CASE KeepaliveWritten
    BY <2>1, <2>9 DEF KeepaliveWritten, Exit, GoTo
  <2>10. CASE BatchWritten
    BY <2>1, <2>10 DEF BatchWritten, TunError, Exit, GoTo
  <2>11. CASE ReplyWritten
    BY <2>1, <2>11 DEF ReplyWritten, AfterReply, GoTo
  <2>12. CASE GoodbyeWritten \/ WriteFails
    BY <2>1, <2>12 DEF GoodbyeWritten, WriteFails, WriteError, Exit
  <2>13. CASE UNCHANGED vars
    BY <2>1, <2>13 DEF vars
  <2> QED
    BY <2>2, <2>3, <2>4, <2>5, <2>6, <2>7, <2>8, <2>9, <2>10, <2>11, <2>12,
       <2>13 DEF Next, Loop, WriteReturns, Environment, Exited
<1>3. Inv => NothingDecodableDropped
  OBVIOUS
<1> QED
  BY <1>1, <1>2, <1>3, WholeFramesInvariant, EndsForAReasonInvariant, PTL DEF Spec
===============================================================================
