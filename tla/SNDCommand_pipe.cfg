SPECIFICATION FairSpec
CHECK_DEADLOCK FALSE
CONSTANTS
    NULL = NULL
    Request = Request
    a = a
    b = b
    c1 = c1
    c2 = c2
    c3 = c3
    Command = {c1, c2, c3}
    Client = {a, b}
    Waiter = {a}
    BufSize = 2
    FifoSize = 1
    TagMod = 12
    MaxShared = 3
INVARIANTS ListsAreOrderly NotReusedEarly
PROPERTIES WaitedForIsDone RefinesPipe SoleCallerReturns
