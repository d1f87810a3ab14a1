SPECIFICATION CartridgeSpec
CONSTANTS
    c1 = c1
    c2 = c2
    Clients = {c1, c2}
    NoOwner = NoOwner
    Target <- MCTarget
    Operations <- MCOperations
    MaxRef = 1
    SectorPages = 1
    ChipPages = 3
    RetryMax = 2
    Files = {f1, f2}
    NoFile = NoFile
INVARIANTS CardIsOrdered SuccessMeansDone CartridgeSleepers OneCommandAtATime
PROPERTIES OperationEnds CommandEnds
CHECK_DEADLOCK FALSE
