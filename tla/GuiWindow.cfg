SPECIFICATION Spec
CONSTANTS
    Platforms = {"linux"}
    MaxConnects = 1
    MaxHelpers = 1
    LineCap = 1
    MsgCap = 1
INVARIANT
    WindowAgrees
