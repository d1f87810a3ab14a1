----------------------------- MODULE MCProgress -----------------------------
(***************************************************************************)
(* Instances for TLC that share one run, for what must happen: a behaviour *)
(* belongs to the part it starts in.  "waiters" is OSThread with two       *)
(* threads that wait for interrupts, "contenders" OSMutex with three       *)
(* threads and one mutex, "game" MBDownload with two children, and         *)
(* "service" MBDownload from where two children have been accepted.        *)
(***************************************************************************)
EXTENDS MBDownload

CONSTANTS Thread, Launcher, Idle, Queue, IrqQueue, ClientQueue, Irq, Prio, NULL, Calls, Windows,
          MaxDisable, Mutex, MaxCount, a, b, m1, vblank, timer

VARIABLES part, list, next, state, priority, current, waiters, queue, destructor, sleepAlarm, op, arg,
          rescheduleCount, isNeedRescheduling, irqMode, irqFlag, missed, owner, count, held, mutex

\* The contenders' instance.
Locks == INSTANCE OSMutex

mutexVars == <<owner, count, held, mutex>>
lockVars == <<list, next, state, priority, current, waiters, queue, destructor, sleepAlarm, op, arg,
              rescheduleCount, isNeedRescheduling, irqMode, irqFlag, missed, mutexVars>>

Waiters == INSTANCE OSThread WITH
    Irq <- {vblank, timer}, Prio <- {15, 16}, Calls <- {"create", "wakedirect", "waitirq"}

-----------------------------------------------------------------------------
(* Two threads that wait for interrupts again and again: a, the more urgent *)
(* one, for vblank and the launcher for timer.  Each clears its own flag.   *)

WaitFor(self) ==
    \E clear \in BOOLEAN : \/ self = a        /\ Waiters!WaitIrq(a, clear, vblank)
                           \/ self = Launcher /\ Waiters!WaitIrq(Launcher, clear, timer)

WaitStep(self) == Waiters!WaitIrqCheck(self) \/ Waiters!WaitIrqSleep(self)

WaitersNext == \/ Waiters!CreateThread(Launcher, a, 15, FALSE)
               \/ Waiters!WakeupThreadDirect(Launcher, a)
               \/ \E self \in {a, Launcher} : WaitFor(self) \/ WaitStep(self)
               \/ Waiters!IrqStep

Waits(A) == part = "waiters" /\ A /\ UNCHANGED <<part, mutexVars, vars>>

-----------------------------------------------------------------------------
(* Three threads that lock and unlock one mutex: the launcher, a, the most   *)
(* urgent, and b.  Interrupts wake a and b at any moment, so that a comes    *)
(* while another holds the mutex and b preempts the launcher that holds it.  *)

\* A contender sleeps only while it holds no mutex: nothing would wake it for those
\* who wait for one.
Rest(self) == held[self] = {} /\ Locks!SleepThread(self, NULL) /\ UNCHANGED mutexVars

ContendersNext ==
    \/ Locks!MutexCreateThread(Launcher, a, 14, FALSE)
    \/ \E prio \in Prio : Locks!MutexCreateThread(Launcher, b, prio, FALSE)
    \/ Locks!IrqStep /\ UNCHANGED mutexVars
    \/ \E self \in Locks!User : Rest(self)
    \/ \E self \in Locks!User \cup {Launcher} : Locks!MutexStep(self)

Contends(A) == part = "contenders" /\ A /\ UNCHANGED <<part, vars>>

-----------------------------------------------------------------------------
(* Two children come, of which one is too many, and in "service" two are     *)
(* about to get the file.  The first one's link may be lost at any time, the *)
(* second child leaves by itself only.                                       *)

ServiceInit ==
    /\ link = {1, 2} /\ joins = 2 /\ maxPlayers = 3
    /\ pstate = [c \in link |-> "WAIT_TO_SEND"]
    /\ req2child = [c \in link |-> "NONE"]
    /\ pieces = [c \in link |-> Pieces]
    /\ entry = link /\ pollbmp = {} /\ currentb = 0 /\ nextb = 0 /\ anyRecv = FALSE
    /\ toChildren = Frame("DL_FILEINFO", 0, link)
    /\ cstate = [c \in link |-> "DLINFO_ACCEPTED"]
    /\ userReq = {} /\ ending = {}
    /\ got = [c \in link |-> {}] /\ last = [c \in link |-> -1]
    /\ toParent = [c \in link |-> Request("ACCEPT_FILEINFO", 0)]

Serves(A) == part = "service" /\ A /\ UNCHANGED <<part, lockVars>>

SecondHolds ==
    /\ 2 \in link \ link' => cstate'[2] # cstate[2]
    /\ 2 \in link /\ pstate[2] # "NONE" => pstate'[2] # "NONE"

\* In "service" the parent disconnects nobody.  When everybody has left, nothing need
\* happen any more.
DownloadNext ==
    \/ /\ Next /\ SecondHolds
       /\ part = "service" /\ 1 \in link /\ pstate[1] # "NONE" => pstate'[1] # "NONE"
    \/ link = {} /\ UNCHANGED vars

-----------------------------------------------------------------------------
ProgressInit ==
    /\ part \in {"waiters", "contenders", "game", "service"}
    /\ Locks!MutexInit
    /\ IF part = "service" THEN ServiceInit ELSE Init

ProgressNext ==
    \/ part = "waiters" /\ WaitersNext /\ UNCHANGED <<part, mutexVars, vars>>
    \/ part = "contenders" /\ ContendersNext /\ UNCHANGED <<part, vars>>
    \/ part \in {"game", "service"} /\ DownloadNext /\ UNCHANGED <<part, lockVars>>

progressVars == <<part, lockVars, vars>>

\* The handlers return.  Both sides of a download send on, what a lost link leads to
\* is done, and a child that is told to boot leaves.
WeakFairness ==
    /\ WF_progressVars(Waits(Waiters!IrqExit) \/ Contends(Locks!IrqExit /\ UNCHANGED mutexVars))
    /\ WF_progressVars(Serves(ParentSend))
    /\ \A c \in {1, 2} :
          /\ WF_progressVars(Serves(ChildSend(c)))
          /\ WF_progressVars(Serves(ChildDisconnected(c)))
          /\ WF_progressVars(Serves(\/ DisconnectedFromParent(c)
                                    \/ c \in ending /\ CommEnd(c)))

\* A behaviour belongs to one part: a condition can stand for one of each.
\* Waiters: an interrupt that is raised stays pending in the interrupt request
\* register until it is taken, the running thread makes its steps, and a thread
\* whose wait is over waits again.
\* Contenders: none holds the mutex for ever or stays awake for ever (an urgent
\* thread that did would keep a less urgent owner from unlocking), and the running
\* thread makes its steps.  Nothing is assumed of when the mutex is locked.
\* Service: a frame that is sent again and again arrives, and the request heard last
\* before the parent sends is not for ever another one than a CONTINUE.
Fairness ==
    /\ WeakFairness
    /\ SF_progressVars(\/ Waits(Waiters!IrqEnter(vblank))
                       \/ Contends(\E self \in Locks!User : Rest(self))
                       \/ Serves(\E c \in {1, 2} : ChildRecv(c)))
    /\ SF_progressVars(\/ Waits(Waiters!IrqEnter(timer))
                       \/ Contends(\E self \in Locks!User \cup {Launcher} : Locks!LockMutexLoop(self))
                       \/ Serves(HeardFrom(1)))
    /\ SF_progressVars(\/ Waits(\E self \in {a, Launcher} : WaitStep(self))
                       \/ Contends(\E self \in Locks!User \cup {Launcher} : Locks!UnlockMutex(self, m1))
                       \/ Serves(HeardFrom(2)))
    /\ SF_progressVars(\/ Waits(\E self \in {a, Launcher} : WaitFor(self))
                       \/ Serves(anyRecv /\ ParentSend))

ProgressSpec ==
    ProgressInit /\ [][ProgressNext]_progressVars /\ Fairness

-----------------------------------------------------------------------------
\* The most urgent thread gets the mutex it waits for, and returns from OS_WaitIrq.
MostUrgentReturns == Locks!MostUrgentReturns

\* Every child that receives gets its file or leaves, and the parent knows of it,
\* whatever other children are served.
DownloadsEnd ==
    (part = "service" /\ \E c \in {1, 2} : Downloading(c))
        ~> \A c \in {1, 2} : ~Downloading(c)
=============================================================================
