SPECIFICATION FairSpec
CONSTANTS
    none = none
    c1 = c1
    Cards <- MCCards
    NoCard = none
    MaxTx = 2
    MaxDead = 1
    MaxUpdates = 2
    MaxFailures = 1
INVARIANTS AsleepOnlyIfIdle
PROPERTIES ServesInOrder EveryoneIsTold DisplayCatchesUp
CHECK_DEADLOCK FALSE
