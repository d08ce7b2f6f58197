\* Two bots sharing a position, and an entry with its add under every fault.
CONSTANTS
    c1 = c1
    c2 = c2
    botA = botA
    botB = botB
    Closes <- TwoCloses
    Scenarios <- Stories
    NoJob = NoJob
SPECIFICATION CloseFairSpec
INVARIANTS
    CloseTypeOK
    ClosesItsOwn
    BookMatchesVenue
PROPERTIES
    ClosingIsFinished
\* Every close delivered and settled: nothing is left to do.
CHECK_DEADLOCK FALSE
