SPECIFICATION WMSpec
CONSTANTS
    Aids = {1}
    NumBufs = 2
    MaxCommands = 2
    MaxInternal = 1
INVARIANTS CommandsAnswered MpOnlyWhileStarted
PROPERTIES CommandIsServed
CHECK_DEADLOCK FALSE
