SPECIFICATION AlarmSpec
CONSTANTS
    a1 = a1
    a2 = a2
    a3 = a3
    Alarm = {a1, a2}
    NULL = NULL
    Span = 2
    Delay = {0, 2}
    Start <- PastAndFuture
    Period = {2}
    LateCancel = TRUE
SYMMETRY AlarmSymmetry
INVARIANT UsedAlarmsQueued
