SPECIFICATION Spec
CONSTANTS
    Platforms = {"linux", "macos"}
    MaxConnects = 2
    MaxHelpers = 2
    LineCap = 1
    MsgCap = 1
INVARIANTS
    TypeOK
    Commandable
PROPERTIES
    QuitEndsTunnels
    ConnectsEnd
