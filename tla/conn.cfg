\* Three calls of the user, two faults of every kind, one signal.
CONSTANTS
    k1 = k1
    k2 = k2
    k3 = k3
    Sockets <- MCSockets
    NoSocket = NoSocket
    MaxCalls = 3
    MaxFaults = 2
    MaxSignals = 1
    Outdated = TRUE
SPECIFICATION ConnFairSpec
INVARIANTS
    ConnTypeOK
    NeverLeftBehind
PROPERTIES
    Reconnects
\* The client may be closed on purpose, or every call and fault spent.
CHECK_DEADLOCK FALSE
