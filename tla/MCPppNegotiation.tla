-------------------------- MODULE MCPppNegotiation --------------------------
(* A small instance of PppNegotiation for TLC; the bounds are in the .cfg. *)
EXTENDS PppNegotiation

MCNaks ==
    [LCP |-> {[MRU |-> 2]},
     IPCP |-> {[ADDR |-> 1], [ADDR |-> 2, DNS1 |-> 1, EXTRA |-> 1]}]

MCRequests ==
    [LCP |-> {[MRU |-> 1], [EXTRA |-> 1], [AUTH |-> 1]},
     IPCP |-> {[ADDR |-> 2]}]

MCFrames ==
    {Frame("LCP", "EchoReq", 1, NoOptions), Frame("LCP", "TermReq", 1, NoOptions),
     Frame("LCP", "Malformed", 1, NoOptions), Frame("PAP", "Other", 0, NoOptions),
     Frame("BAD", "Other", 0, NoOptions)}
==============================================================================
