SPECIFICATION Spec
CONSTANTS
    Bits = 3
    Protocols = {"FortiGate"}
    Modes = {"connect"}
    Delims = {"chunked", "length", "eof"}
    Documents <- MCDocuments
    RangeLists <- MCRanges
    PppSession <- MCPpp
    MaxStray = 1
INVARIANT
    SplitListEnds
