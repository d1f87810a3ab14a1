------------------------------ MODULE OSMutex -------------------------------
(***************************************************************************)
(* The mutexes of libraries/os/src/os_mutex.c on top of the thread kernel. *)
(* A mutex is recursive, belongs to a thread, and is released with         *)
(* everything else its owner has when the owner ends.  OS_UnlockMutex      *)
(* wakes every waiter; each one tests the mutex again when it runs.        *)
(***************************************************************************)
EXTENDS OSThread

CONSTANTS
    Mutex,          \* mutexes; m \in Mutex also names m's thread queue
    MaxCount        \* bound of the model on mutex->count

ASSUME MutexAssumption ==
    /\ Mutex \subseteq Queue \ (ClientQueue \cup {IrqQueue})
    /\ MaxCount \in Nat \ {0}

VARIABLES
    owner,          \* mutex->thread
    count,          \* mutex->count
    held,           \* the mutexes in thread->mutexQueue
    mutex           \* thread->mutex: the one the thread waits for

mutexVars == <<owner, count, held, mutex>>
allVars   == <<vars, mutexVars>>

MutexInit ==
    /\ Init
    /\ owner = [m \in Mutex |-> NULL]
    /\ count = [m \in Mutex |-> 0]
    /\ held = [t \in Thread |-> {}]
    /\ mutex = [t \in Thread |-> NULL]

-----------------------------------------------------------------------------
\* The caller gets a mutex that is free or already its own.
Acquire(self, m) ==
    /\ count' = [count EXCEPT ![m] = @ + 1]
    /\ owner' = [owner EXCEPT ![m] = self]
    /\ held' = [held EXCEPT ![self] = @ \cup {m}]

\* Mutation: the owner is not looked at.
Obtainable_Always(self, m) == TRUE

Obtainable(self, m) == owner[m] \in {NULL, self}

\* OS_LockMutex, up to its first context switch.
LockMutex(self, m) ==
    /\ Calling(self, "lock") /\ MayBlock(self)
    /\ owner[m] = self => count[m] < MaxCount
    /\ IF Obtainable(self, m)
       THEN /\ Acquire(self, m)
            /\ UNCHANGED <<threadVars, queueVars, schedVars, op, mutex>>
       ELSE /\ mutex' = [mutex EXCEPT ![self] = m]
            /\ op' = [op EXCEPT ![self] = "lock"]
            /\ Block(self, m)
            /\ UNCHANGED <<owner, count, held>>
    /\ UNCHANGED <<arg, clientVars, irqVars, rescheduleCount>>

\* One more turn of the loop of OS_LockMutex after the thread was woken.
LockMutexLoop(self) ==
    LET m == mutex[self]
    IN  /\ ~irqMode /\ current = self /\ op[self] = "lock"
        /\ IF Obtainable(self, m)
           THEN /\ Acquire(self, m)
                /\ mutex' = [mutex EXCEPT ![self] = NULL]
                /\ op' = [op EXCEPT ![self] = "run"]
                /\ UNCHANGED <<threadVars, queueVars, schedVars>>
           ELSE /\ Block(self, m)
                /\ UNCHANGED <<mutexVars, op>>
        /\ UNCHANGED <<arg, clientVars, irqVars, rescheduleCount>>

TryLockMutex(self, m) ==
    /\ "trylock" \in Calls /\ Running(self)
    /\ Obtainable(self, m) /\ count[m] < MaxCount
    /\ Acquire(self, m)
    /\ UNCHANGED <<vars, mutex>>

MayUnlock(self, m) == owner[m] = self

\* OS_UnlockMutex of a mutex the caller owns (of any other it does nothing).
UnlockMutex(self, m) ==
    /\ "unlock" \in Calls /\ Running(self)
    /\ MayUnlock(self, m)
    /\ count' = [count EXCEPT ![m] = @ - 1]
    /\ IF count[m] = 1
       THEN /\ owner' = [owner EXCEPT ![m] = NULL]
            /\ held' = [held EXCEPT ![self] = @ \ {m}]
            /\ Wakeup(m)
       ELSE UNCHANGED <<threadVars, queueVars, schedVars, owner, held>>
    /\ UNCHANGED <<mutex, callVars, clientVars, irqVars, rescheduleCount>>

\* Mutation: the count of a mutex whose owner ends is not reset.
UnlockAllMutex_KeepsCount(t) ==
    /\ owner' = [m \in Mutex |-> IF m \in held[t] THEN NULL ELSE owner[m]]
    /\ held' = [held EXCEPT ![t] = {}]
    /\ UNCHANGED <<count, mutex>>

\* OSi_UnlockAllMutex; its wake-ups are those of Terminate(t, held[t]).
UnlockAllMutex(t) ==
    /\ owner' = [m \in Mutex |-> IF m \in held[t] THEN NULL ELSE owner[m]]
    /\ count' = [m \in Mutex |-> IF m \in held[t] THEN 0 ELSE count[m]]
    /\ held' = [held EXCEPT ![t] = {}]
    /\ UNCHANGED mutex

-----------------------------------------------------------------------------
\* OS_CreateThread and the ends of a thread, mutexes included.
MutexCreateThread(self, t, prio, dtor) ==
    /\ CreateThread(self, t, prio, dtor)
    /\ held' = [held EXCEPT ![t] = {}]
    /\ mutex' = [mutex EXCEPT ![t] = NULL]
    /\ UNCHANGED <<owner, count>>

MutexExitThreadDestroy(self) == ExitThreadDestroy(self, held[self]) /\ UnlockAllMutex(self)
MutexDestroySelf(self)       == DestroySelf(self, held[self]) /\ UnlockAllMutex(self)
MutexDestroyThread(self, t)  == DestroyThread(self, t, held[t]) /\ UnlockAllMutex(t)

MutexStep(self) == \E m \in Mutex : \/ LockMutex(self, m)
                                    \/ LockMutexLoop(self)
                                    \/ TryLockMutex(self, m)
                                    \/ UnlockMutex(self, m)

MutexNext ==
    /\ ListIntact
    /\ \/ \E self \in Thread :
             \/ MutexStep(self)
             \/ ThreadStep(self) /\ UNCHANGED mutexVars
             \/ \E t \in User, p \in Prio, d \in BOOLEAN : MutexCreateThread(self, t, p, d)
             \/ MutexExitThreadDestroy(self)
             \/ MutexDestroySelf(self)
             \/ \E t \in User : MutexDestroyThread(self, t)
       \/ IrqStep /\ UNCHANGED mutexVars

MutexSpec == MutexInit /\ [][MutexNext]_allVars

-----------------------------------------------------------------------------
(* Properties *)

\* The mutex variables have their types.
MutexTypeOK ==
    /\ owner \in [Mutex -> Thread \cup {NULL}]
    /\ count \in [Mutex -> Nat]
    /\ held \in [Thread -> SUBSET Mutex]
    /\ mutex \in [Thread -> Mutex \cup {NULL}]
    /\ \A t \in Thread : op[t] = "lock" => mutex[t] \in Mutex

\* The owner field, the count and the owner's list of mutexes agree, whatever
\* order threads lock, unlock, kill and destroy in: a mutex is in the list of its
\* owner and in no other (the assertion mutex->thread == thread of
\* OSi_UnlockAllMutex), its count is zero exactly when it is free, and a thread
\* that has ended owns none.
OwnershipConsistent ==
    /\ \A m \in Mutex, t \in Thread : m \in held[t] <=> owner[m] = t
    /\ \A m \in Mutex : owner[m] = NULL <=> count[m] = 0
    /\ \A m \in Mutex : owner[m] # NULL => Live(owner[m])

\* No wake-up is lost: as long as a thread is linked in a mutex's queue, asleep or
\* killed there, some live thread owns the mutex and will wake the queue.
WaitersHaveOwner ==
    \A m \in Mutex : waiters[m] # {} => owner[m] # NULL

\* A thread that sleeps inside OS_LockMutex is linked in the queue of the mutex
\* that thread->mutex names: no wake-up of another queue can take it out.
LockerWaitsForItsMutex ==
    \A t \in Thread : op[t] = "lock" /\ state[t] = "waiting" => t \in waiters[mutex[t]]

\* Nobody sleeps for a mutex in vain: whoever is linked waits for a mutex that is
\* owned, and whoever waits is linked where its owner's unlock will find it.
NobodyStranded == WaitersHaveOwner /\ LockerWaitsForItsMutex

OwnerGivesUp ==
    \A m \in Mutex : owner[m] # NULL /\ owner'[m] # owner[m] =>
       current = owner[m] \/ state'[owner[m]] = "terminated"

\* A mutex leaves its owner by the owner's own OS_UnlockMutex or by its end only.
OwnerKeepsMutex == [][OwnerGivesUp]_allVars

\* The most urgent thread gets the mutex it waits for, and returns from OS_WaitIrq.
\* OS_WaitIrq tests its flag with interrupts enabled: an interrupt taken between the
\* test and OS_SleepThread is missed, and it is the next interrupt, of any cause, that
\* makes the thread look at its flag again.  (A less urgent thread may wait for ever,
\* even for a cause of its own: every interrupt wakes the more urgent ones first.)
MostUrgentReturns ==
    \A t \in User \cup {Launcher} :
        op[t] \in {"lock", "irqcheck", "irqsleep"} /\ t = Head(list) ~> op[t] = "run"
=============================================================================
