SPECIFICATION Spec
CONSTANTS
    c1 = c1
    c2 = c2
    c3 = c3
    NoCommand = NoCommand
    Command <- TwoCommands
    MaxSwitches = 1
INVARIANT
    LeavingIsACancel
CHECK_DEADLOCK FALSE
