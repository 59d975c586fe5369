SPECIFICATION Spec
CONSTANTS
    MaxEngines = 2
    CmdCap = 1
    ChanCap = 2
INVARIANTS
    TypeOK
    Supervised
PROPERTIES
    AlwaysServes
    EndIsReported
