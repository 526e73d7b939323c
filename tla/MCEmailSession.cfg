SPECIFICATION FairSpec
CONSTANTS
    k1 = k1
    k2 = k2
    r1 = r1
    r2 = r2
    Connections <- MCConnections
    Recipients <- MCRecipients
    Lines <- MCLines
    Sessions = {1}
    MaxCommands = 3
    MaxSwitches = 2
INVARIANTS RightPeople FoundResolved PreparedOnce AnsweredForOwnWork
PROPERTY EveryCommandEnds
CHECK_DEADLOCK FALSE
