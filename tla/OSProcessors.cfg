SPECIFICATION ProcessorsSpec
CONSTANTS
    a1 = a1
    a2 = a2
    b1 = b1
    b2 = b2
    Agent = {a1, a2, b1, b2}
    Agent9 = {a1, a2}
    lockID <- IDs
    FirstOwner = {"zero", "other"}
    Nobody = Nobody
    NULL = NULL
    Banks = {"C", "D", "F"}
    GX = GX
    WVR = WVR
    Unlocked = Unlocked
    t1 = t1
    Tags = {t1}
    FifoSize = 2
    MaxWords = 2
    x1 = x1
    x2 = x2
    Alarm = {x1, x2}
    Span = 2
    Delay = {0, 2}
    Start <- PastAndFuture
    Period = {2}
    LateCancel = FALSE
INVARIANTS MutualExclusion HolderIsReady WordsArriveInOrder BanksAgree DriverHasItsMemory
PROPERTIES LockIsFreed StartUpEnds RefinesClock AlarmGoesOff
CHECK_DEADLOCK FALSE
