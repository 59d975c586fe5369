SPECIFICATION Spec
CONSTANTS
    MaxRounds = 5
    IdMod = 8
    Values = {1, 2}
    DefaultMru = 1
    Prologues = {"ok", "refused", "oversized"}
    GatewayNaks <- MCNaks
    GatewayRejects = {{"MAGIC"}}
    GatewayRequests <- MCRequests
    GatewayFrames <- MCFrames
    MaxAsked = 1
    MaxUnasked = 1
    WireCap = 2
    ReadCap = 2
INVARIANTS
    TypeOK
    Agreement
    EarlyPacketsKept
    IdIdentifiesRequest
PROPERTIES
    NegotiationEnds
