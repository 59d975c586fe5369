SPECIFICATION Spec
CONSTANTS
    Protocols = {"AnyConnect", "Checkpoint", "FortiGate"}
    RouteCount = 2
    EventCap = 2
    U32Max = 2
    MinSustained = 1
INVARIANTS
    TypeOK
    RoutesNeedTun
    QuietBetweenAttempts
    FullyRouted
PROPERTIES
    ImplementsLifecycle
    StopIsHonoured
    AlwaysRetries
