SPECIFICATION Spec
CONSTANTS
    Framers = {"PPP"}
    SentKinds = {"IPv4", "OtherControl"}
    Primes = {0, 1, 2}
    MaxMissed = 3
    MaxBatch = 2
    WireCap = 2
    TunCap = 2
    DueCap = 1
INVARIANT
    NothingDecodableDropped
