SPECIFICATION Spec
CONSTANTS
    Framers = {"SLIM", "PPP"}
    SentKinds = {"Data", "IPv4", "EchoReq", "Control", "OtherControl",
                 "DisconnectControl", "TermReq", "BadHeader", "BadBody"}
    Primes = {0, 1}
    MaxMissed = 2
    MaxBatch = 2
    WireCap = 2
    TunCap = 2
    DueCap = 1
INVARIANTS
    TypeOK
    InboundInOrder
    NothingDecodableDropped
    OkMeansStop
PROPERTIES
    ShutdownEnds
    HungPeerDetected
