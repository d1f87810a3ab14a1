------------------------------ MODULE OSThread ------------------------------
(***************************************************************************)
(* The thread kernel of libraries/os/src/os_thread.c, with the part of     *)
(* os_irqHandler.c that switches threads at the end of an interrupt.       *)
(*                                                                         *)
(* One processor runs one thread at a time.  An API function runs with     *)
(* interrupts disabled, so it is one action, except where the source       *)
(* itself reads or writes state outside the masked region: those functions *)
(* are several actions and an interrupt may be taken between them.  A      *)
(* function that puts its caller to sleep is split at the context switch:  *)
(* op[t] says which call thread t is inside.                               *)
(***************************************************************************)
EXTENDS Integers, Sequences, SequencesExt

CONSTANTS
    Thread,         \* thread control blocks
    Launcher,       \* OSi_LauncherThread
    Idle,           \* OSi_IdleThread
    Queue,          \* thread queues (of mutexes, message queues, ...)
    IrqQueue,       \* OSi_IrqThreadQueue
    ClientQueue,    \* the queues on which clients sleep and wake others directly
    Irq,            \* interrupt causes
    Prio,           \* priorities the clients use
    NULL,
    Calls,          \* the API calls the client threads and handlers make
    Windows,        \* the unmasked windows in which an interrupt is taken
    MaxDisable      \* bound of the model on nested OS_DisableScheduler calls

LauncherPrio == 16              \* OS_THREAD_LAUNCHER_PRIORITY
IdlePrio     == 32              \* OS_THREAD_PRIORITY_MAX + 1
User         == Thread \ {Launcher, Idle}
WaitQueue    == Queue \cup Thread       \* t \in Thread names thread t's joinQueue

ASSUME ThreadAssumption ==
    /\ {Launcher, Idle} \subseteq Thread
    /\ Launcher # Idle
    /\ IrqQueue \in Queue
    /\ ClientQueue \subseteq Queue \ {IrqQueue}
    /\ Queue \cap Thread = {}
    /\ NULL \notin Queue \cup Thread \cup Irq
    /\ Prio \subseteq 0 .. 31
    /\ MaxDisable \in Nat

VARIABLES
    list,               \* OSi_ThreadInfo.list, as a sequence
    next,               \* thread->next of the threads that are not in the list
    state,              \* thread->state ("none": never created)
    priority,           \* thread->priority
    current,            \* OSi_ThreadInfo.current
    waiters,            \* the threads linked in each queue
    queue,              \* thread->queue
    destructor,         \* whether thread->destructor is set
    sleepAlarm,         \* the threads whose OS_Sleep alarm is set
    op,                 \* the API call each thread is inside
    arg,                \* the local variables of that call
    rescheduleCount,    \* OSi_RescheduleCount
    isNeedRescheduling, \* OSi_ThreadInfo.isNeedRescheduling
    irqMode,            \* the processor is in IRQ mode
    irqFlag,            \* the IRQ check flags that are set
    missed              \* history: a reschedule was refused because of the
                        \* scheduler lock and none was made since

threadVars == <<list, next, state, priority>>
queueVars  == <<waiters, queue>>
callVars   == <<op, arg>>
clientVars == <<destructor, sleepAlarm>>
schedVars  == <<current, isNeedRescheduling, missed>>
irqVars    == <<irqMode, irqFlag>>
vars == <<threadVars, queueVars, callVars, clientVars, schedVars, irqVars,
          rescheduleCount>>

Op == {"none", "run", "destructor", "exit", "reschedule", "sleep", "setprio",
       "irqcheck", "irqsleep", "lock", "send", "receive"}

Live(t) == state[t] \in {"waiting", "ready"}

-----------------------------------------------------------------------------
(* Lists *)

First(I)    == CHOOSE i \in I : \A j \in I : i <= j
Hindmost(I) == CHOOSE i \in I : \A j \in I : j <= i

Position(l, t) == First({i \in 1 .. Len(l) : l[i] = t})

\* OSi_RemoveThreadFromList: the list without its first occurrence of t.
RemoveThread(l, t) ==
    IF \E i \in 1 .. Len(l) : l[i] = t
    THEN SubSeq(l, 1, Position(l, t) - 1) \o SubSeq(l, Position(l, t) + 1, Len(l))
    ELSE l

\* OSi_InsertThreadToList: before the first thread that is not more urgent.
InsertThread(l, pr, t) ==
    LET k == First({i \in 1 .. Len(l) : pr[l[i]] >= pr[t]} \cup {Len(l) + 1})
    IN  SubSeq(l, 1, k - 1) \o <<t>> \o SubSeq(l, k, Len(l))

\* thread->next: what follows t in the list, or what followed it when it left the
\* list, as nothing clears the field.
NextOf(t) == IF ~Contains(list, t) THEN next[t]
             ELSE IF Position(list, t) = Len(list) THEN NULL
             ELSE list[Position(list, t) + 1]

\* The threads behind a list that is about to become list' keep their links, here f.
\* (Who left the list is only walked from where an interrupt lets a head grow stale.)
KeepNext(f) ==
    next' = IF "setprio" \in Windows
            THEN [t \in Thread |-> IF Contains(list', t) THEN NULL ELSE f[t]]
            ELSE next

\* OSi_RemoveThreadFromList.  Without its assertion, a thread that is not found is
\* "unlinked" from behind the idle thread, and what it kept as next is linked there.
Unlinked(t) ==
    IF Contains(list, t) THEN RemoveThread(list, t)
    ELSE IF next[t] = NULL THEN list
    ELSE Append(list, next[t])

\* The list ends where the idle thread is, as it should.
ListIntact == /\ list # << >>
              /\ \A i \in 1 .. Len(list) : list[i] = Idle <=> i = Len(list)

\* The threads that are met from head on.  A head that has left the list leads by its
\* next, and through threads that have left too, into the list or to its end.
Walks(head) ==
    IF Contains(list, head) THEN {SubSeq(list, Position(list, head), Len(list))}
    ELSE {w \in SeqOf(Thread, Cardinality(Thread)) :
             /\ w # << >> /\ w[1] = head /\ NextOf(w[Len(w)]) = NULL
             /\ \A i \in 2 .. Len(w) : w[i] = NextOf(w[i - 1])}

\* Mutation: the thread keeps its place in the list.
ChangePriority_InPlace(t, prio, walk) ==
    /\ priority' = [priority EXCEPT ![t] = prio]
    /\ UNCHANGED <<list, next>>

\* The masked part of OS_SetThreadPriority, which finds t in walk.  If t is the first
\* thread there, its successor becomes the head of the list.  If the thread before t
\* has left the list (gone), t is not unlinked: where it is still linked, the list
\* comes back to t, and what was behind t is lost.
ChangePriority(t, prio, walk) ==
    LET k     == Position(walk, t)
        gone  == k > 1 /\ ~Contains(list, walk[k - 1])
        rest  == IF k = 1 THEN Tail(walk) ELSE IF gone THEN list ELSE RemoveThread(list, t)
        links == [x \in Thread |-> IF gone /\ x = walk[k - 1] THEN NextOf(t) ELSE NextOf(x)]
    IN  IF Contains(walk, t) /\ priority[t] # prio
        THEN /\ priority' = [priority EXCEPT ![t] = prio]
             /\ list' = IF gone /\ Contains(list, t)
                        THEN SubSeq(InsertThread(list, priority', t), 1, Position(list, t) + 1)
                        ELSE InsertThread(rest, priority', t)
             /\ KeepNext(links)
        ELSE UNCHANGED <<list, next, priority>>

\* OS_SelectThread: the first runnable thread of the list.
SelectThread(l, st) ==
    LET ready == {i \in 1 .. Len(l) : st[l[i]] = "ready"}
    IN  IF ready = {} THEN NULL ELSE l[First(ready)]

\* Mutation: OSi_RescheduleCount is not looked at.
RescheduleThread_IgnoresLock ==
    /\ IF irqMode
       THEN isNeedRescheduling' = TRUE /\ UNCHANGED current
       ELSE current' = SelectThread(list', state') /\ UNCHANGED isNeedRescheduling
    /\ UNCHANGED missed

\* OSi_RescheduleThread, on the list and states the action has just written.
RescheduleThread ==
    \/ /\ rescheduleCount > 0
       /\ missed' = TRUE
       /\ UNCHANGED <<current, isNeedRescheduling>>
    \/ /\ rescheduleCount = 0
       /\ irqMode
       /\ isNeedRescheduling' = TRUE
       /\ UNCHANGED <<current, missed>>
    \/ /\ rescheduleCount = 0
       /\ ~irqMode
       /\ current' = LET first == SelectThread(list', state')
                     IN  IF first = NULL THEN current ELSE first
       /\ missed' = FALSE
       /\ UNCHANGED isNeedRescheduling

\* A call that reschedules only if it changed something.
RescheduleIf(changed) == IF changed THEN RescheduleThread ELSE UNCHANGED schedVars

-----------------------------------------------------------------------------
(* Who may call what *)

\* t is running and free to call, inside or outside its destructor.
Running(t) == /\ ~irqMode
              /\ current = t
              /\ op[t] \in {"run", "destructor"}
              /\ t # Idle

Calling(t, call) == call \in Calls /\ Running(t) /\ op[t] = "run"

\* A client blocks only with the scheduler enabled and while it is in no queue.
MayBlock(t) == rescheduleCount = 0 /\ queue[t] = NULL

-----------------------------------------------------------------------------
Init ==
    /\ list = <<Launcher, Idle>>
    /\ next = [t \in Thread |-> NULL]
    /\ state = [t \in Thread |-> IF t \in User THEN "none" ELSE "ready"]
    /\ priority = [t \in Thread |-> IF t = Idle THEN IdlePrio ELSE LauncherPrio]
    /\ current = Launcher
    /\ waiters = [q \in WaitQueue |-> {}]
    /\ queue = [t \in Thread |-> NULL]
    /\ destructor = [t \in Thread |-> FALSE]
    /\ sleepAlarm = {}
    /\ op = [t \in Thread |-> IF t \in User THEN "none" ELSE "run"]
    /\ arg = [t \in Thread |-> NULL]
    /\ rescheduleCount = 0
    /\ isNeedRescheduling = FALSE
    /\ irqMode = FALSE
    /\ irqFlag = {}
    /\ missed = FALSE

-----------------------------------------------------------------------------
(* Life of a thread *)

CreateThread(self, t, prio, dtor) ==
    /\ Calling(self, "create")
    /\ t \in User /\ ~Live(t)
    /\ priority' = [priority EXCEPT ![t] = prio]
    /\ state' = [state EXCEPT ![t] = "waiting"]
    /\ list' = InsertThread(list, priority', t)
    /\ KeepNext(next)
    /\ waiters' = [waiters EXCEPT ![t] = {}]
    /\ queue' = [queue EXCEPT ![t] = NULL]
    /\ destructor' = [destructor EXCEPT ![t] = dtor]
    /\ op' = [op EXCEPT ![t] = "run"]
    /\ arg' = [arg EXCEPT ![t] = NULL]
    /\ UNCHANGED <<sleepAlarm, schedVars, irqVars, rescheduleCount>>

\* Mutation: the thread stays linked in the queue it waits in.
RemoveSpecifiedLink_Keeps(w, t) == w

\* OSi_RemoveSpecifiedLinkFromQueue(t->queue, t), if t->queue is set.
RemoveSpecifiedLink(w, t) == [q \in WaitQueue |-> IF q = queue[t] THEN w[q] \ {t} ELSE w[q]]

\* Mutation: the joinQueue of every thread is woken.
WokenAtEnd_AllJoiners(t, Q) == Q \cup Thread

\* The queues that are woken when t ends: its mutexes' Q, and its joinQueue.
WokenAtEnd(t, Q) == Q \cup {t}

\* The state changes OSi_ExitThread_Destroy and OS_DestroyThread make with the
\* scheduler disabled: the mutexes of t are released (their waiters, in the
\* queues Q, are woken), t leaves the queue it waits in and the thread list,
\* and the threads that join it are woken.
Terminate(t, Q) ==
    LET woken == UNION {waiters[q] : q \in WokenAtEnd(t, Q)}
        left  == [q \in WaitQueue |-> IF q \in WokenAtEnd(t, Q) THEN {} ELSE waiters[q]]
    IN  /\ state' = [x \in Thread |-> IF x = t THEN "terminated"
                                      ELSE IF x \in woken THEN "ready"
                                      ELSE state[x]]
        /\ waiters' = RemoveSpecifiedLink(left, t)
        /\ queue' = [x \in Thread |-> IF x \in woken THEN NULL ELSE queue[x]]
        /\ list' = Unlinked(t)
        /\ KeepNext([x \in Thread |-> NextOf(x)])
        /\ UNCHANGED priority

\* Mutation: the alarm is left set.
CancelThreadAlarmForSleep_Keeps(t) == UNCHANGED sleepAlarm

\* OSi_CancelThreadAlarmForSleep.
CancelThreadAlarmForSleep(t) == sleepAlarm' = sleepAlarm \ {t}

\* OS_ExitThread, or the return of the thread function: interrupts are off
\* until the thread is gone or its destructor turns them on.
ExitThread(self) ==
    /\ Calling(self, "exit")
    /\ self \in User /\ rescheduleCount = 0
    /\ op' = [op EXCEPT ![self] = "exit"]
    /\ arg' = [arg EXCEPT ![self] = NULL]
    /\ UNCHANGED <<threadVars, queueVars, clientVars, schedVars, irqVars, rescheduleCount>>

\* OSi_ExitThread calls the destructor, once.
RunDestructor(self) ==
    /\ ~irqMode /\ current = self /\ op[self] = "exit" /\ destructor[self]
    /\ destructor' = [destructor EXCEPT ![self] = FALSE]
    /\ op' = [op EXCEPT ![self] = "destructor"]
    /\ UNCHANGED <<threadVars, queueVars, sleepAlarm, arg, schedVars, irqVars, rescheduleCount>>

\* The destructor returns and OSi_ExitThread disables interrupts again.
DestructorReturn(self) ==
    /\ ~irqMode /\ current = self /\ op[self] = "destructor"
    /\ op' = [op EXCEPT ![self] = "exit"]
    /\ UNCHANGED <<threadVars, queueVars, arg, clientVars, schedVars, irqVars, rescheduleCount>>

\* OSi_ExitThread_Destroy.  It ends in OS_Terminate if no thread is switched to.
ExitThreadDestroy(self, Q) ==
    /\ ~irqMode /\ current = self /\ op[self] = "exit" /\ ~destructor[self]
    /\ rescheduleCount = 0
    /\ Terminate(self, Q)
    /\ op' = [op EXCEPT ![self] = "none"]
    /\ RescheduleThread
    /\ UNCHANGED <<arg, clientVars, irqVars, rescheduleCount>>

\* OS_DestroyThread of another thread.  Interrupts are restored before the
\* last OS_RescheduleThread, a step of its own.
DestroyThread(self, t, Q) ==
    /\ Calling(self, "destroy")
    /\ t \in User /\ t # self /\ Live(t)
    /\ Terminate(t, Q)
    /\ CancelThreadAlarmForSleep(t)
    /\ op' = [op EXCEPT ![t] = "none", ![self] = "reschedule"]
    /\ arg' = [arg EXCEPT ![t] = NULL]
    /\ missed' = (missed \/ \E q \in WokenAtEnd(t, Q) : waiters[q] # {})
    /\ UNCHANGED <<destructor, current, isNeedRescheduling, irqVars, rescheduleCount>>

\* OS_DestroyThread of the caller: no destructor.
DestroySelf(self, Q) ==
    /\ Calling(self, "destroy")
    /\ self \in User /\ rescheduleCount = 0
    /\ Terminate(self, Q)
    /\ op' = [op EXCEPT ![self] = "none"]
    /\ RescheduleThread
    /\ UNCHANGED <<arg, clientVars, irqVars, rescheduleCount>>

\* OS_RescheduleThread at the end of OS_DestroyThread.
DestroyReschedule(self) ==
    /\ ~irqMode /\ current = self /\ op[self] = "reschedule"
    /\ op' = [op EXCEPT ![self] = "run"]
    /\ UNCHANGED <<threadVars>>
    /\ RescheduleThread
    /\ UNCHANGED <<queueVars, arg, clientVars, irqVars, rescheduleCount>>

\* OS_KillThreadWithPriority of another thread: its context becomes a call of
\* OSi_ExitThread, its sleep alarm is cancelled, it is made ready whatever it
\* was waiting for, and it stays linked in the queue it waited in.
KillThread(self, t, prio) ==
    /\ Calling(self, "kill")
    /\ t \in User /\ t # self /\ Live(t)
    /\ CancelThreadAlarmForSleep(t)
    /\ op' = [op EXCEPT ![t] = "exit"]
    /\ arg' = [arg EXCEPT ![t] = NULL]
    /\ state' = [state EXCEPT ![t] = "ready"]
    /\ ChangePriority(t, prio, list)
    /\ RescheduleThread
    /\ UNCHANGED <<queueVars, destructor, irqVars, rescheduleCount>>

-----------------------------------------------------------------------------
(* Sleeping and waking *)

\* Mutation: t is linked in no queue.
Block_NotLinked(t, q) ==
    /\ state' = [state EXCEPT ![t] = "waiting"]
    /\ UNCHANGED <<list, next, priority, queueVars>>
    /\ RescheduleThread

\* OS_SleepThreadDirect: t is linked in q (no queue if q is NULL) and waits.
Block(t, q) ==
    /\ waiters' = IF q = NULL THEN waiters
                  ELSE [waiters EXCEPT ![q] = @ \cup {t}]
    /\ queue' = IF q = NULL THEN queue ELSE [queue EXCEPT ![t] = q]
    /\ state' = [state EXCEPT ![t] = "waiting"]
    /\ UNCHANGED <<list, next, priority>>
    /\ RescheduleThread

\* Mutation: one thread of q becomes ready, the others stay.
Wakeup_One(q) ==
    IF waiters[q] = {} THEN UNCHANGED <<threadVars, queueVars, schedVars>>
    ELSE LET t == CHOOSE x \in waiters[q] : TRUE
         IN  /\ state' = [state EXCEPT ![t] = "ready"]
             /\ queue' = [queue EXCEPT ![t] = NULL]
             /\ waiters' = [waiters EXCEPT ![q] = @ \ {t}]
             /\ UNCHANGED <<list, next, priority>>
             /\ RescheduleThread

\* OS_WakeupThread: every thread of q becomes ready.
Wakeup(q) ==
    /\ state' = [t \in Thread |-> IF t \in waiters[q] THEN "ready" ELSE state[t]]
    /\ queue' = [t \in Thread |-> IF t \in waiters[q] THEN NULL ELSE queue[t]]
    /\ waiters' = [waiters EXCEPT ![q] = {}]
    /\ UNCHANGED <<list, next, priority>>
    /\ RescheduleIf(waiters[q] # {})

\* OS_WakeupThreadDirect: t is made ready, and not unlinked from any queue.
WakeupDirect(t) ==
    /\ state' = [state EXCEPT ![t] = "ready"]
    /\ UNCHANGED <<list, next, priority, queueVars>>
    /\ RescheduleThread

SleepThread(self, q) ==
    /\ Calling(self, "sleep") /\ MayBlock(self)
    /\ Block(self, q)
    /\ UNCHANGED <<callVars, clientVars, irqVars, rescheduleCount>>

SleepThreadDirect(self, t, q) ==
    /\ Calling(self, "sleepdirect")
    /\ t \in User \ {self} /\ Live(t) /\ op[t] = "run" /\ queue[t] = NULL
    /\ Block(t, q)
    /\ UNCHANGED <<callVars, clientVars, irqVars, rescheduleCount>>

JoinThread(self, t) ==
    /\ Calling(self, "join") /\ MayBlock(self)
    /\ t \in User \ {self} /\ state[t] # "none"
    /\ IF state[t] # "terminated"
       THEN Block(self, t)
       ELSE UNCHANGED <<threadVars, queueVars, schedVars>>
    /\ UNCHANGED <<callVars, clientVars, irqVars, rescheduleCount>>

WakeupThread(self, q) ==
    /\ "wakeup" \in Calls /\ Running(self)
    /\ Wakeup(q)
    /\ UNCHANGED <<callVars, clientVars, irqVars, rescheduleCount>>

\* Its users in the SDK wake threads that called OS_SleepThread(NULL).
WakeupThreadDirect(self, t) ==
    /\ "wakedirect" \in Calls /\ Running(self)
    /\ t \in User /\ Live(t) /\ queue[t] = NULL
    /\ WakeupDirect(t)
    /\ UNCHANGED <<callVars, clientVars, irqVars, rescheduleCount>>

\* OS_YieldThread: behind the last thread of the same priority.  (In this model a
\* thread that OS_SetThreadPriority has dropped from the list does not yield.)
YieldThread(self) ==
    LET same == {i \in 1 .. Len(list) : priority[list[i]] = priority[self]}
        last == Hindmost(same)
        k    == Position(list, self)
    IN  /\ "yield" \in Calls /\ Running(self) /\ Contains(list, self)
        /\ IF list[last] = self
           THEN UNCHANGED <<threadVars, schedVars>>
           ELSE /\ list' = SubSeq(list, 1, k - 1) \o SubSeq(list, k + 1, last)
                           \o <<self>> \o SubSeq(list, last + 1, Len(list))
                /\ UNCHANGED <<next, state, priority>>
                /\ RescheduleThread
        /\ UNCHANGED <<queueVars, callVars, clientVars, irqVars, rescheduleCount>>

\* OS_Sleep: the alarm is set and the thread sleeps in no queue.
Sleep(self) ==
    /\ Calling(self, "sleepmsec") /\ MayBlock(self)
    /\ sleepAlarm' = sleepAlarm \cup {self}
    /\ op' = [op EXCEPT ![self] = "sleep"]
    /\ Block(self, NULL)
    /\ UNCHANGED <<destructor, arg, irqVars, rescheduleCount>>

\* The loop of OS_Sleep: back to sleep unless the alarm has cleared p_thread.
SleepLoop(self) ==
    /\ ~irqMode /\ current = self /\ op[self] = "sleep"
    /\ IF self \in sleepAlarm
       THEN Block(self, NULL) /\ UNCHANGED op
       ELSE /\ op' = [op EXCEPT ![self] = "run"]
            /\ UNCHANGED <<threadVars, queueVars, schedVars>>
    /\ UNCHANGED <<clientVars, arg, irqVars, rescheduleCount>>

-----------------------------------------------------------------------------
(* Priorities and the scheduler lock *)

\* OS_SetThreadPriority reads OSi_ThreadInfo.list before it disables interrupts.
SetThreadPriority(self, t, prio) ==
    /\ Calling(self, "setprio")
    /\ t \in Thread \ {Idle} /\ Live(t)
    /\ op' = [op EXCEPT ![self] = "setprio"]
    /\ arg' = [arg EXCEPT ![self] = [thread |-> t, prio |-> prio, head |-> Head(list)]]
    /\ UNCHANGED <<threadVars, queueVars, clientVars, schedVars, irqVars, rescheduleCount>>

SetThreadPriorityMasked(self) ==
    LET t    == arg[self].thread
        prio == arg[self].prio
        head == arg[self].head
    IN  /\ ~irqMode /\ current = self /\ op[self] = "setprio"
        /\ UNCHANGED state
        /\ \E walk \in Walks(head) :
              /\ ChangePriority(t, prio, walk)
              /\ RescheduleIf(Contains(walk, t) /\ priority[t] # prio)
        /\ op' = [op EXCEPT ![self] = "run"]
        /\ arg' = [arg EXCEPT ![self] = NULL]
        /\ UNCHANGED <<queueVars, clientVars, irqVars, rescheduleCount>>

DisableScheduler(self) ==
    /\ Calling(self, "disable")
    /\ rescheduleCount < MaxDisable
    /\ rescheduleCount' = rescheduleCount + 1
    /\ UNCHANGED <<threadVars, queueVars, callVars, clientVars, schedVars, irqVars>>

\* OS_EnableScheduler does not reschedule.
EnableScheduler(self) ==
    /\ Calling(self, "disable")
    /\ rescheduleCount > 0
    /\ rescheduleCount' = rescheduleCount - 1
    /\ UNCHANGED <<threadVars, queueVars, callVars, clientVars, schedVars, irqVars>>

\* OS_RescheduleThread, which a client calls after OS_EnableScheduler.
Reschedule(self) ==
    /\ Calling(self, "disable")
    /\ UNCHANGED threadVars
    /\ RescheduleThread
    /\ UNCHANGED <<queueVars, callVars, clientVars, irqVars, rescheduleCount>>

-----------------------------------------------------------------------------
(* Waiting for an interrupt *)

\* OS_WaitIrq, its masked part.
WaitIrq(self, clear, i) ==
    /\ Calling(self, "waitirq") /\ MayBlock(self)
    /\ irqFlag' = IF clear THEN irqFlag \ {i} ELSE irqFlag
    /\ op' = [op EXCEPT ![self] = "irqcheck"]
    /\ arg' = [arg EXCEPT ![self] = i]
    /\ UNCHANGED <<threadVars, queueVars, clientVars, schedVars, irqMode, rescheduleCount>>

\* The test of its loop, made with interrupts enabled.
WaitIrqCheck(self) ==
    /\ ~irqMode /\ current = self /\ op[self] = "irqcheck"
    /\ IF arg[self] \in irqFlag
       THEN op' = [op EXCEPT ![self] = "run"] /\ arg' = [arg EXCEPT ![self] = NULL]
       ELSE op' = [op EXCEPT ![self] = "irqsleep"] /\ UNCHANGED arg
    /\ UNCHANGED <<threadVars, queueVars, clientVars, schedVars, irqVars, rescheduleCount>>

WaitIrqSleep(self) ==
    /\ ~irqMode /\ current = self /\ op[self] = "irqsleep"
    /\ op' = [op EXCEPT ![self] = "irqcheck"]
    /\ Block(self, IrqQueue)
    /\ UNCHANGED <<arg, clientVars, irqVars, rescheduleCount>>

-----------------------------------------------------------------------------
(* Interrupts *)

IrqEnter(i) ==
    /\ ~irqMode
    /\ op[current] \in {"run", "destructor", "reschedule", "irqcheck", "irqsleep"} \cup Windows
    /\ irqMode' = TRUE
    /\ irqFlag' = irqFlag \cup {i}
    /\ UNCHANGED <<threadVars, queueVars, callVars, clientVars, schedVars, rescheduleCount>>

IrqWakeupThread(q) ==
    /\ irqMode /\ "irqwakeup" \in Calls
    /\ Wakeup(q)
    /\ UNCHANGED <<callVars, clientVars, irqVars, rescheduleCount>>

IrqWakeupThreadDirect(t) ==
    /\ irqMode /\ "irqwakedirect" \in Calls
    /\ t \in User /\ Live(t) /\ queue[t] = NULL
    /\ WakeupDirect(t)
    /\ UNCHANGED <<callVars, clientVars, irqVars, rescheduleCount>>

\* OSi_SleepAlarmCallback: p_thread is cleared and the sleeper made ready.
SleepAlarmCallback(t) ==
    /\ irqMode /\ t \in sleepAlarm
    /\ sleepAlarm' = sleepAlarm \ {t}
    /\ WakeupDirect(t)
    /\ UNCHANGED <<destructor, callVars, irqVars, rescheduleCount>>

\* Mutation: OSi_IrqThreadQueue is not looked at.
WokenByIrq_None == {}

\* The threads the end of an interrupt wakes, whatever its cause.
WokenByIrq == waiters[IrqQueue]

\* OS_IrqHandler_ThreadSwitch: the threads of OSi_IrqThreadQueue are made ready,
\* and the switch is made whatever OSi_RescheduleCount is.
IrqExit ==
    LET woken == WokenByIrq
        need  == isNeedRescheduling \/ woken # {}
        first == SelectThread(list, state')
    IN  /\ irqMode
        /\ state' = [t \in Thread |-> IF t \in woken THEN "ready" ELSE state[t]]
        /\ queue' = [t \in Thread |-> IF t \in woken THEN NULL ELSE queue[t]]
        /\ waiters' = [waiters EXCEPT ![IrqQueue] = @ \ woken]
        /\ isNeedRescheduling' = FALSE
        /\ current' = IF need /\ first # NULL THEN first ELSE current
        /\ missed' = (missed /\ ~need)
        /\ irqMode' = FALSE
        /\ UNCHANGED <<list, next, priority, callVars, clientVars, irqFlag, rescheduleCount>>

-----------------------------------------------------------------------------
\* The calls that neither create a thread nor end one: these two change what a
\* thread owns too, and the modules that extend this one complete them.
ThreadStep(self) ==
    \/ ExitThread(self)
    \/ RunDestructor(self)
    \/ DestructorReturn(self)
    \/ DestroyReschedule(self)
    \/ \E t \in User, p \in Prio : KillThread(self, t, p)
    \/ \E q \in ClientQueue \cup {NULL} : SleepThread(self, q)
    \/ \E t \in User, q \in ClientQueue \cup {NULL} : SleepThreadDirect(self, t, q)
    \/ \E t \in User : JoinThread(self, t)
    \/ \E q \in ClientQueue : WakeupThread(self, q)
    \/ \E t \in User : WakeupThreadDirect(self, t)
    \/ YieldThread(self)
    \/ Sleep(self)
    \/ SleepLoop(self)
    \/ \E t \in Thread, p \in Prio : SetThreadPriority(self, t, p)
    \/ SetThreadPriorityMasked(self)
    \/ DisableScheduler(self)
    \/ EnableScheduler(self)
    \/ Reschedule(self)
    \/ \E i \in Irq, clear \in BOOLEAN : WaitIrq(self, clear, i)
    \/ WaitIrqCheck(self)
    \/ WaitIrqSleep(self)

IrqStep ==
    \/ \E i \in Irq : IrqEnter(i)
    \/ \E q \in ClientQueue : IrqWakeupThread(q)
    \/ \E t \in User : IrqWakeupThreadDirect(t)
    \/ \E t \in User : SleepAlarmCallback(t)
    \/ IrqExit

\* Threads that own no mutex.  When the list no longer ends in the idle thread the
\* model ends: OS_SelectThread may not come to an end of it.
Next ==
    /\ ListIntact
    /\ \/ \E self \in Thread :
             \/ ThreadStep(self)
             \/ \E t \in User, p \in Prio, d \in BOOLEAN : CreateThread(self, t, p, d)
             \/ ExitThreadDestroy(self, {})
             \/ DestroySelf(self, {})
             \/ \E t \in User : DestroyThread(self, t, {})
       \/ IrqStep

Spec == Init /\ [][Next]_vars

-----------------------------------------------------------------------------
(* Properties *)

SetPriorityCall == [thread : Thread \ {Idle}, prio : Prio, head : Thread]

KernelTypeOK ==
    /\ list \in Seq(Thread)
    /\ next \in [Thread -> Thread \cup {NULL}]
    /\ state \in [Thread -> {"none", "waiting", "ready", "terminated"}]
    /\ priority \in [Thread -> Prio \cup {LauncherPrio, IdlePrio}]
    /\ current \in Thread
    /\ waiters \in [WaitQueue -> SUBSET Thread]
    /\ queue \in [Thread -> WaitQueue \cup {NULL}]
    /\ rescheduleCount \in Nat
    /\ isNeedRescheduling \in BOOLEAN
    /\ irqMode \in BOOLEAN
    /\ missed \in BOOLEAN

CallTypeOK ==
    /\ destructor \in [Thread -> BOOLEAN]
    /\ sleepAlarm \subseteq Thread
    /\ op \in [Thread -> Op]
    /\ arg \in [Thread -> SetPriorityCall \cup Irq \cup {NULL}]
    /\ irqFlag \subseteq Irq
    /\ \A t \in Thread : /\ op[t] = "setprio" => arg[t] \in SetPriorityCall
                         /\ op[t] \in {"irqcheck", "irqsleep"} => arg[t] \in Irq

\* Every variable has its type, and a thread inside OS_SetThreadPriority or
\* OS_WaitIrq has that call's local variables.
TypeOK == KernelTypeOK /\ CallTypeOK

\* thread->queue and the links of the queues agree: a linked thread is alive and
\* its queue field names the queue it is linked in, so that no thread is in two
\* queues and OSi_RemoveSpecifiedLinkFromQueue, at the end of a thread, unlinks
\* it from the queue it is really in.  Killed threads stay linked until they exit.
LinkConsistent ==
    /\ \A q \in WaitQueue : \A t \in waiters[q] : Live(t) /\ queue[t] = q
    /\ \A t \in Thread : Live(t) /\ queue[t] # NULL => t \in waiters[queue[t]]

\* "Cannot remove thread from list.", the assertion of OSi_RemoveThreadFromList:
\* a thread that is alive, which OS_ExitThread or OS_DestroyThread may have to
\* remove, is in the thread list.
LiveThreadsListed == \A t \in Thread : Live(t) => Contains(list, t)

\* The list holds the live threads and no other, each once, the most urgent
\* first: what OS_SelectThread takes for granted when it stops at the first
\* runnable thread.
ThreadListSorted ==
    /\ ToSet(list) = {t \in Thread : Live(t)}
    /\ \A i, j \in 1 .. Len(list) :
          i < j => list[i] # list[j] /\ priority[list[i]] <= priority[list[j]]

\* OS_SelectThread always finds a thread: the idle thread is runnable and stays in
\* the list.  So a thread that ends is always switched away from, and
\* OSi_ExitThread_Destroy does not come to its OS_Terminate.  (Not so when
\* OS_SetThreadPriority walks from a head that has ended since it was read.)
ThreadToRun == SelectThread(list, state) # NULL

\* The list is sorted, and the running thread is the one OS_SelectThread selects
\* from it, so the most urgent of those that can run, unless a reschedule is
\* pending in the interrupt handler or was refused by the scheduler lock.
MostUrgentRuns ==
    /\ ThreadListSorted
    /\ \/ current = SelectThread(list, state)
       \/ irqMode /\ isNeedRescheduling
       \/ missed

\* No thread is left in the joinQueue of a thread that has ended, or that is to
\* be created: OS_CreateThread empties the queue and would strand it.
NoJoinerLeft == \A t \in Thread : ~Live(t) => waiters[t] = {}

\* What the kernel relies on between any two calls: queues whose links agree, no
\* joiner left behind and a thread to switch to.
KernelConsistent == LinkConsistent /\ NoJoinerLeft /\ ThreadToRun

\* The alarm of OS_Sleep, which lives in the sleeper's stack, is set only while
\* its thread is inside OS_Sleep; a thread that waits there has its alarm set.
SleepAlarmMatchesSleeper ==
    /\ \A t \in sleepAlarm : Live(t) /\ op[t] = "sleep"
    /\ \A t \in Thread : op[t] = "sleep" /\ state[t] = "waiting" => t \in sleepAlarm

JoinersStay ==
    \A t \in User : \A w \in waiters[t] :
       state[w] = "waiting" /\ state'[w] # "waiting" =>
          state'[t] = "terminated" \/ state'[w] = "terminated" \/ op'[w] = "exit"

\* OS_JoinThread, which tests the target's state once and not again when it is
\* made ready, returns only when the target has ended: nothing else makes a
\* joiner ready, unless the joiner itself is being ended.
JoinReturnsAfterExit == [][JoinersStay]_vars

\* With the scheduler disabled, whatever the thread and the handlers do, no
\* other thread runs.  It holds only while nothing waits in OSi_IrqThreadQueue:
\* OS_IrqHandler_ThreadSwitch does not look at OSi_RescheduleCount.
SchedulerLockHeld ==
    [][rescheduleCount > 0 => current' = current]_vars
=============================================================================
