SPECIFICATION FairSpec
CONSTANTS
    c1 = c1
    c2 = c2
    c3 = c3
    NoCommand = NoCommand
    Command <- ThreeCommands
    MaxSwitches = 6
INVARIANTS
    OneAnswerEach
    StartedOnce
    BackgroundLives
PROPERTIES
    Answered
    LeftIsDeleted
    KeepsPromise
CHECK_DEADLOCK FALSE
