\* Two ladders of one rung of two contracts, and one failed call or restart.
SPECIFICATION FairSpec
CONSTANTS
    Seqs <- MCSeqs
    Ladder <- MCLadder
    Size <- MCSize
    Starts <- MCStarts
    MaxFaults = 1
CONSTRAINT Unspoilt
INVARIANTS
    TypeOK
    PlanKeepsCount
PROPERTIES
    DecisionsEnd
CHECK_DEADLOCK FALSE
