SPECIFICATION Spec
CONSTANTS
    Aids = {1}
    NumBufs = 2
    MaxCommands = 1
    MaxInternal = 1
INVARIANTS ConnectedAidsAreCleared
CHECK_DEADLOCK FALSE
