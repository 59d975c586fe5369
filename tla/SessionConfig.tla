----------------------------- MODULE SessionConfig -----------------------------
(***************************************************************************)
(* What the gateways' configuration becomes: the scan of FortiGate's XML   *)
(* (fortigate/config.rs), the routes of Check Point's hello_reply          *)
(* (checkpoint/session.rs) and the session parameters made of them.  Pure  *)
(* operators, each with the definition it is checked against.              *)
(*                                                                         *)
(* Addresses have Bits bits (32 in the code) and a mask is the set of its  *)
(* bits.  An XML document is the sequence of its elements; of each the     *)
(* attributes the scan looks at, NoValue where one is absent or does not   *)
(* parse.                                                                  *)
(***************************************************************************)
EXTENDS Integers, FiniteSets, SequencesExt

CONSTANT Bits    \* width of an address

ASSUME BitsAssumption == Bits \in Nat \ {0}

NoValue == -1

\* Powers of two, as far as the width of an address needs them.
Pow2[n \in 0 .. Bits + 1] == IF n = 0 THEN 1 ELSE 2 * Pow2[n - 1]
Addresses == 0 .. Pow2[Bits] - 1
Masks == SUBSET (0 .. Bits - 1)

\* An attribute is an address, a number, a mask or a flag.  A name holds no '/'.
Elements ==
    [name : STRING \ {"/split-tunnel-info"}, closing : BOOLEAN,
     ip : Addresses \cup {NoValue}, mask : Masks \cup {{NoValue}}, len : Nat \cup {NoValue},
     val : Nat \cup {NoValue}, negate : BOOLEAN]
Element(name) ==
    [name |-> name, closing |-> FALSE, ip |-> NoValue, mask |-> {NoValue}, len |-> NoValue,
     val |-> NoValue, negate |-> FALSE]

\* mask_to_prefix counts the ones, whether or not they are contiguous.
MaskToPrefix(mask) == Cardinality(mask)
\* prefix_to_mask; a longer prefix than an address has bits saturates.
PrefixToMask(prefix) ==
    LET p == IF prefix > Bits THEN Bits ELSE prefix IN (Bits - p) .. (Bits - 1)

EmptyConfig ==
    [address |-> NoValue, netmask |-> {NoValue}, dns |-> <<>>, routes |-> <<>>,
     excludes |-> <<>>, idle |-> NoValue, inSplit |-> FALSE, negated |-> FALSE]

AppendNew(s, x) == IF Contains(s, x) THEN s ELSE Append(s, x)

\* The prefix of an <addr>: its mask, else its prefix-len.
AddrPrefix(e) == IF e.mask # {NoValue} THEN MaskToPrefix(e.mask) ELSE e.len

OnAssigned(cfg, e) ==
    [cfg EXCEPT !.address = IF e.ip # NoValue THEN e.ip ELSE @,
                !.netmask = IF e.len # NoValue THEN PrefixToMask(e.len) ELSE @]

OnDns(cfg, e) ==
    IF e.ip # NoValue THEN [cfg EXCEPT !.dns = AppendNew(@, e.ip)] ELSE cfg

MutOnSplitStart(cfg, e) == [cfg EXCEPT !.inSplit = TRUE, !.negated = @ \/ e.negate]
OnSplitStart(cfg, e) == [cfg EXCEPT !.inSplit = TRUE, !.negated = e.negate]
OnSplitEnd(cfg) == [cfg EXCEPT !.inSplit = FALSE, !.negated = FALSE]

\* Only the entries inside <split-tunnel-info> are routes, and `negate` makes
\* them exclusions.  IPv6 entries and those without a length are skipped.
OnAddr(cfg, e) ==
    LET route == <<e.ip, AddrPrefix(e)>>
    IN  IF ~cfg.inSplit \/ e.ip = NoValue \/ AddrPrefix(e) = NoValue THEN cfg
        ELSE IF cfg.negated THEN [cfg EXCEPT !.excludes = Append(@, route)]
        ELSE [cfg EXCEPT !.routes = Append(@, route)]

\* A name ends at the first blank, '/' or '>', which in a closing tag is its first
\* character: the name is empty, and the arm for "/split-tunnel-info" is not reached.
ScannedName(e) == IF e.closing THEN "" ELSE e.name

\* parse_config_xml: one pass over the elements.
ParseElement(cfg, e) ==
    LET name == ScannedName(e)
    IN  CASE name = "idle-timeout" -> [cfg EXCEPT !.idle = e.val]
          [] name = "assigned-addr" -> OnAssigned(cfg, e)
          [] name = "dns" -> OnDns(cfg, e)
          [] name = "split-tunnel-info" -> OnSplitStart(cfg, e)
          [] name = "/split-tunnel-info" -> OnSplitEnd(cfg)
          [] name = "addr" -> OnAddr(cfg, e)
          [] OTHER -> cfg
ParseConfig(doc) ==
    LET parsed[n \in 0 .. Len(doc)] ==
            IF n = 0 THEN EmptyConfig ELSE ParseElement(parsed[n - 1], doc[n])
    IN  parsed[Len(doc)]

\* keepalive_secs.
Clamp(n, low, high) == IF n < low THEN low ELSE IF n > high THEN high ELSE n
KeepaliveSecs(idle) == IF idle > 0 THEN Clamp(idle \div 3, 5, 60) ELSE 30

\* Without routes from the gateway, client.rs installs the default private ranges.
DefaultRoutes == <<"default">>
OrDefault(routes) == IF routes = <<>> THEN DefaultRoutes ELSE routes

\* to_session_params: what PPP negotiated wins, resolvers are merged in order.
Merge(s) ==
    LET merged[n \in 0 .. Len(s)] ==
            IF n = 0 THEN <<>> ELSE AppendNew(merged[n - 1], s[n])
    IN  merged[Len(s)]
SessionDns(pppDns, xmlDns) == Merge(pppDns \o xmlDns)
FortiParams(cfg, ppp) ==
    [address |-> ppp.address, dns |-> SessionDns(ppp.dns, cfg.dns),
     keepalive |-> KeepaliveSecs(cfg.idle), timeout |-> cfg.idle,
     routes |-> OrDefault(cfg.routes)]

----------------------------------------------------------------------------
\* range_to_subnets: aligned blocks, each the largest that starts at `start` and
\* does not pass `end`.  Blocks are <<address, prefix length>>.

TrailingZeros(n) == CHOOSE k \in 0 .. Bits : n % Pow2[k] = 0 /\ n % Pow2[k + 1] # 0
AlignBits(start) == IF start = 0 THEN Bits ELSE TrailingZeros(start)
SizeBits(remaining) == CHOOSE k \in 0 .. Bits : Pow2[k] <= remaining /\ remaining < Pow2[k + 1]
MutHostBits(start, end) == SizeBits(end - start + 1)
HostBits(start, end) ==
    LET a == AlignBits(start)
        s == SizeBits(end - start + 1)
    IN  IF a < s THEN a ELSE s

RangeToSubnets(from, to) ==
    LET blocks[start \in 0 .. Pow2[Bits]] ==
            IF start > to THEN <<>>
            ELSE LET b == HostBits(start, to)
                 IN  <<<<start, Bits - b>>>> \o blocks[start + Pow2[b]]
    IN  blocks[from]

\* parse_hello_reply skips the ranges that do not parse and the 0.0.0.1 sentinel.
Ranges == (Addresses \cup {NoValue}) \X (Addresses \cup {NoValue})
Sentinel == 1
Skipped(r) == NoValue \in {r[1], r[2]} \/ r[1] = Sentinel
HelloRoutes(ranges) ==
    LET routes[n \in 0 .. Len(ranges)] ==
            IF n = 0 THEN <<>>
            ELSE IF Skipped(ranges[n]) THEN routes[n - 1]
            ELSE routes[n - 1] \o RangeToSubnets(ranges[n][1], ranges[n][2])
    IN  routes[Len(ranges)]

----------------------------------------------------------------------------
\* Reference definitions

\* The routable entries of a document; those that a <split-tunnel-info> with the
\* given negate encloses, no other opening or closing tag of it in between; and
\* those that follow the end of such a list, in none.
Routable(doc) ==
    {i \in DOMAIN doc : doc[i].name = "addr" /\ ~doc[i].closing
                          /\ doc[i].ip # NoValue /\ AddrPrefix(doc[i]) # NoValue}
Route(e) == <<e.ip, AddrPrefix(e)>>
LastTag(doc, i, j) ==
    /\ j < i /\ doc[j].name = "split-tunnel-info"
    /\ \A k \in j + 1 .. i - 1 : doc[k].name # "split-tunnel-info"
RoutesGiven(doc, negate) ==
    {Route(doc[i]) : i \in {i \in Routable(doc) :
        \E j \in DOMAIN doc : LastTag(doc, i, j) /\ ~doc[j].closing /\ doc[j].negate = negate}}
RoutesAfter(doc) ==
    {Route(doc[i]) : i \in {i \in Routable(doc) :
        \E j \in DOMAIN doc : LastTag(doc, i, j) /\ doc[j].closing}}

\* The addresses a block covers, and those some ranges ask for.
Block(b) == {a \in Addresses : a \div Pow2[Bits - b[2]] = b[1] \div Pow2[Bits - b[2]]}
RangeAddresses(ranges) ==
    UNION {r[1] .. r[2] : r \in {r \in ToSet(ranges) : NoValue \notin {r[1], r[2]}
                                                      /\ r[1] # Sentinel}}

\* The range of every address there is, and the route for all of them (0.0.0.0/0).
WholeSpace == <<0, Pow2[Bits] - 1>>
FullTunnel == <<0, 0>>
===============================================================================
