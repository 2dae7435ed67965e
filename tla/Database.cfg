SPECIFICATION Spec
CONSTANTS
    Tasks <- TwoTasks
    Connections <- FourConnections
    MaxObjects = 2
    MaxCalls = 4
    None = None
    t1 = t1
    t2 = t2
    c1 = c1
    c2 = c2
    c3 = c3
    c4 = c4
CHECK_DEADLOCK FALSE
SYMMETRY Symmetry
INVARIANTS
    HandleIsOpen
    SecretsGone
    NobodyForgotten
PROPERTIES
    LiveRowsKept
