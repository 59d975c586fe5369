SPECIFICATION Spec
CONSTANTS
    Bits = 3
    Protocols = {"AnyConnect", "FortiGate", "CheckPoint"}
    Modes = {"connect", "probe"}
    Delims = {"chunked", "length", "eof"}
    Documents <- MCDocuments
    RangeLists <- MCRanges
    PppSession <- MCPpp
    MaxStray = 1
INVARIANTS
    TypeOK
    ReplyMatches
    CookieIsIssued
    FortiConfigSound
    HelloRoutesExact
PROPERTIES
    ImplementsAttempt
    SignOutAttempted
    TimedStepEnds
