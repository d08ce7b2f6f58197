\* A roll of the user's, twice over; a notice, a close of the bot and a roll of the user's.
SPECIFICATION Spec
CONSTANTS
    Requests = {first, second}
    Stories <- MCStories
    MaxNotices = 2
    MaxFaults = 2
CONSTRAINT Unspoilt
INVARIANTS
    TypeOK
    RollKeepsExposure
    StopsFollow
SYMMETRY MCSymmetry
\* Every request answered and every notice handled: nothing is left to do.
CHECK_DEADLOCK FALSE
