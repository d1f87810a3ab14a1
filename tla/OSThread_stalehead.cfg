SPECIFICATION Spec
CONSTANTS
    Launcher = Launcher
    Idle = Idle
    a = a
    b = b
    Thread = {Launcher, Idle, a, b}
    IrqQueue = IrqQueue
    q1 = q1
    Queue = {IrqQueue, q1}
    ClientQueue = {q1}
    vblank = vblank
    timer = timer
    Irq = {vblank}
    Prio = {14, 15, 17}
    NULL = NULL
    Calls = {"create", "setprio", "sleep", "irqwakedirect"}
    Windows = {"setprio"}
    MaxDisable = 0
SYMMETRY UserSymmetry
INVARIANTS LiveThreadsListed
