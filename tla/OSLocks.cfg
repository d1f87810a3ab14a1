SPECIFICATION LocksSpec
CONSTANTS
    Launcher = Launcher
    Idle = Idle
    a = a
    b = b
    Thread = {Launcher, Idle, a, b}
    IrqQueue = IrqQueue
    queueSend = queueSend
    queueReceive = queueReceive
    q1 = q1
    m1 = m1
    m2 = m2
    Queue = {IrqQueue, queueSend, queueReceive, q1, m1, m2}
    Mutex = {m1, m2}
    MaxCount = 2
    ClientQueue = {}
    x = x
    y = y
    Message = {x, y}
    msgCount = 2
    Handler = Handler
    vblank = vblank
    Irq = {vblank}
    Prio = {15}
    NULL = NULL
    Calls = {"create", "kill", "destroy", "irqwakedirect", "send", "jam", "receive", "read", "irqmessage"}
    Windows = {}
    MaxDisable = 0
SYMMETRY LocksSymmetry
INVARIANTS OwnershipConsistent NobodyStranded NobodyMissesMessages SleepAlarmMatchesSleeper
PROPERTIES OwnerKeepsMutex RefinesChannel SchedulerLockHeld
