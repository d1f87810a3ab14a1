SPECIFICATION MemorySpec
CONSTANTS
    a1 = a1
    a2 = a2
    a3 = a3
    Alarm = {a1, a2, a3}
    NULL = NULL
    Span = 2
    Delay = {0, 2}
    Start <- PastAndFuture
    Period = {2}
    LateCancel = FALSE
    ArenaSize = 6
    NumHeaps = 2
    Requests = {1, 2}
SYMMETRY AlarmSymmetry
INVARIANTS QueueIsTimed PeriodKept HeapsAreSound
CHECK_DEADLOCK FALSE
