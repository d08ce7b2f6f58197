SPECIFICATION FanFairSpec
CONSTANTS
    Subs <- MCSubs2
    MaxDeliveries = 2
    MaxCloses = 1
    MaxTroubles = 2
INVARIANTS FanTypeOK OneOrderPerAccount
PROPERTIES ExecutedMeansFilled ParkedEnds
CHECK_DEADLOCK FALSE
