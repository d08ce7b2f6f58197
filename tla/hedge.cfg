SPECIFICATION FairSpec
CONSTANTS
    Ticks = {t1, t2}
    Callers = {c1, c2}
    Nobody = Nobody
    Bot = Bot
    Marks <- MCMarks
    Trail = 1
    MaxRecoveries = 1
    BotSize = 2
    Targets = {1, 3}
    Crews <- MCCrews
INVARIANTS
    TypeOK
    GuardKeepsItsWord
PROPERTIES
    NeverSoldTwice
    Fires
CONSTRAINT Unspoilt
CHECK_DEADLOCK FALSE
