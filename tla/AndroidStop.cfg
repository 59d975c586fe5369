SPECIFICATION Spec
CONSTANTS
    MaxEngines = 2
    MaxInstances = 1
    QueueCap = 2
INVARIANT
    TeardownStops
