SPECIFICATION ProgressSpec
CONSTANTS
    Launcher = Launcher
    Idle = Idle
    a = a
    b = b
    Thread = {Launcher, Idle, a, b}
    IrqQueue = IrqQueue
    m1 = m1
    Queue = {IrqQueue, m1}
    ClientQueue = {}
    Mutex = {m1}
    vblank = vblank
    timer = timer
    Irq = {vblank}
    Prio = {14, 15, 17}
    NULL = NULL
    Calls = {"create", "sleep", "irqwakedirect", "lock", "trylock", "unlock"}
    Windows = {}
    MaxDisable = 0
    MaxCount = 1
    Children = {1, 2}
    NumBlocks = 2
    NumPieces = 2
    PlayerNums = {2}
    MaxJoins = 2
INVARIANTS ParentAgrees FileIsComplete
PROPERTIES MostUrgentReturns DownloadsEnd
