\* EXECUTOR_AUTO_ROLL, one notice and one close of the bot, and nothing fails.
SPECIFICATION FairSpec
CONSTANTS
    Requests = {}
    Stories <- FrozenStories
    MaxNotices = 1
    MaxFaults = 0
PROPERTIES
    EveryTurnComes
CHECK_DEADLOCK FALSE
