----------------------------- MODULE MCHandshake -----------------------------
(* Small instances of Handshake for TLC; the other bounds are in the .cfg files. *)
EXTENDS Handshake

MCElements ==
    {Element("split-tunnel-info"),
     [Element("split-tunnel-info") EXCEPT !.negate = TRUE],
     [Element("split-tunnel-info") EXCEPT !.closing = TRUE],
     [Element("addr") EXCEPT !.ip = 4, !.mask = {1, 2}],
     [Element("addr") EXCEPT !.ip = 6, !.len = 3],
     [Element("dns") EXCEPT !.ip = 3],
     [Element("assigned-addr") EXCEPT !.ip = 5, !.len = 4],
     [Element("idle-timeout") EXCEPT !.val = 20],
     [Element("idle-timeout") EXCEPT !.val = 4]}

MCDocuments == UNION {[1 .. n -> MCElements] : n \in 0 .. 3}

MCRanges ==
    {<<<<f, t>>>> : f, t \in Addresses}
      \cup {<<>>, <<<<NoValue, 3>>>>, <<<<2, 5>>, <<1, 7>>, <<7, 7>>>>}

MCPpp == [address |-> 2, dns |-> <<3, 4>>]
==============================================================================
