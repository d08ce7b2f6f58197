SPECIFICATION FairSpec
CONSTANTS
    Lineages <- MCLineages
    Size <- MCSize
    Dirs <- MCDirs
    UserSizes <- MCUserSizes
    MaxDelta = 2
    MaxFaults = 2
    MaxTrades = 1
    MaxCorrections = 1
CONSTRAINT Unspoilt
INVARIANTS
    TypeOK
    OwnTradesStand
PROPERTIES
    Converges
CHECK_DEADLOCK FALSE
