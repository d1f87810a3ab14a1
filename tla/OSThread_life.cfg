SPECIFICATION LifeSpec
CONSTANTS
    Launcher = Launcher
    Idle = Idle
    a = a
    b = b
    Thread = {Launcher, Idle, a, b}
    IrqQueue = IrqQueue
    q1 = q1
    Queue = {IrqQueue, q1}
    ClientQueue = {q1}
    vblank = vblank
    timer = timer
    Irq = {vblank}
    Prio = {15, 17}
    NULL = NULL
    Calls = {"create", "exit", "destroy", "kill", "join", "sleep", "irqwakeup", "irqwakedirect", "yield", "setprio", "waitirq"}
    Windows = {}
    MaxDisable = 0
SYMMETRY UserSymmetry
INVARIANTS KernelConsistent MostUrgentRuns
PROPERTIES JoinReturnsAfterExit
