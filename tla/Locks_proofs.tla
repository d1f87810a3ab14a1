---------------------------- MODULE Locks_proofs ----------------------------
(***************************************************************************)
(* Proofs about OSMutex and OSMessage, for any number of threads, mutexes, *)
(* nested locks, messages and places in the queue: who owns a mutex and    *)
(* who waits for it, that no locker, sender or receiver sleeps through the *)
(* event it waits for, and that the ring buffer under its callers is the   *)
(* bounded channel of MessageChannel.  The kernel's part of each step is   *)
(* one of the lemmas of OSThread_proofs.                                   *)
(***************************************************************************)
EXTENDS OSMutex, OSMessage, OSThread_proofs, SequenceTheorems

-----------------------------------------------------------------------------
(***************************************************************************)
(* Mutexes.                                                                *)
(***************************************************************************)
\* A thread inside OS_LockMutex is linked in the queue of its mutex or nowhere.
LockPlace == \A t \in Thread : op[t] = "lock" => queue[t] \in {NULL, mutex[t]}

OwnerInv == /\ MutexTypeOK
            /\ OwnershipConsistent
            /\ WaitersHaveOwner
            /\ LockerWaitsForItsMutex
            /\ LockPlace

MutexInv == Inv /\ OwnerInv

-----------------------------------------------------------------------------
LEMMA MutexQueues ==
    /\ Mutex \subseteq OutsideQueue /\ Mutex \subseteq Queue /\ Mutex \subseteq WaitQueue
    /\ \A m \in Mutex : m \notin ClientQueue /\ m # IrqQueue /\ m \notin Thread /\ m # NULL
    /\ NULL \notin Thread
BY MutexAssumption, OutsideQueues DEF MutexAssumption, OutsideQueue

-----------------------------------------------------------------------------
(* The calls of the mutex *)

\* The caller gets the mutex, in OS_LockMutex, its loop or OS_TryLockMutex.
LEMMA AcquireInv ==
    ASSUME MutexInv, NEW self \in Thread, NEW m \in Mutex, Obtainable(self, m), Acquire(self, m),
           op[self] \in Op \ {"none", "sleep"}, self # Idle,
           \/ op' = op /\ mutex' = mutex
           \/ op' = [op EXCEPT ![self] = "run"] /\ mutex' = [mutex EXCEPT ![self] = NULL],
           UNCHANGED <<threadVars, queueVars, schedVars, arg, clientVars, irqVars, rescheduleCount>>
    PROVE  MutexInv'
<1> USE MutexQueues DEF MutexInv, OwnerInv
<1>1. Inv'
    BY NoSwitchInv
<1>2. UNCHANGED <<state, waiters, queue>>
    BY DEF threadVars, queueVars
<1>3. Live(self)
    BY RunningLive, InvTypeOK
<1>0. \A t \in Thread : op'[t] = "lock" => op[t] = "lock" /\ mutex'[t] = mutex[t]
    BY InvTypeOK DEF MutexTypeOK, TypeOK, CallTypeOK
<1>4. MutexTypeOK'
    BY <1>0 DEF MutexTypeOK, Acquire
<1>5. OwnershipConsistent'
    BY <1>2, <1>3 DEF MutexTypeOK, Acquire, Obtainable, OwnershipConsistent, Live
<1>6. WaitersHaveOwner'
    BY <1>2 DEF MutexTypeOK, Acquire, WaitersHaveOwner
<1>7. LockerWaitsForItsMutex' /\ LockPlace'
    BY <1>0, <1>2 DEF LockerWaitsForItsMutex, LockPlace
<1> QED
    BY <1>1, <1>4, <1>5, <1>6, <1>7

\* The caller does not get the mutex and waits for it.
LEMMA LockWaitsInv ==
    ASSUME MutexInv, NEW self \in Thread, NEW m \in Mutex, ~Obtainable(self, m),
           op[self] \in {"run", "lock"}, self # Idle, queue[self] \in {NULL, m}, Block(self, m),
           op' = [op EXCEPT ![self] = "lock"], mutex' = [mutex EXCEPT ![self] = m],
           UNCHANGED <<owner, count, held, arg, clientVars, irqVars, rescheduleCount>>
    PROVE  MutexInv'
<1> USE MutexQueues DEF MutexInv, OwnerInv
<1>1. /\ Inv'
      /\ waiters' = [waiters EXCEPT ![m] = @ \cup {self}]
      /\ queue' = [queue EXCEPT ![self] = m]
      /\ state' = [state EXCEPT ![self] = "waiting"]
      /\ \A x \in Thread : Live(x)' <=> Live(x)
    BY "lock" \in OutsideCall, m \in OutsideQueue, OutsideBlockInv DEF OutsideCall
<1>2. op \in [Thread -> Op] /\ state \in [Thread -> State] /\ waiters \in [WaitQueue -> SUBSET Thread]
      /\ queue \in [Thread -> WaitQueue \cup {NULL}]
    BY InvTypeOK DEF TypeOK, KernelTypeOK, CallTypeOK, State
<1>3. MutexTypeOK'
    BY <1>2 DEF MutexTypeOK
<1>4. OwnershipConsistent'
    BY <1>1 DEF MutexTypeOK, OwnershipConsistent
<1>5. WaitersHaveOwner'
    BY <1>1, <1>2 DEF WaitersHaveOwner, Obtainable
<1>6. LockerWaitsForItsMutex'
    <2> SUFFICES ASSUME NEW t \in Thread, op'[t] = "lock", state'[t] = "waiting"
                 PROVE  t \in waiters'[mutex'[t]]
        BY DEF LockerWaitsForItsMutex
    <2>1. CASE t = self
        BY <1>1, <1>2, <2>1 DEF MutexTypeOK
    <2>2. CASE t # self
        <3>1. op[t] = "lock" /\ state[t] = "waiting" /\ mutex'[t] = mutex[t] /\ mutex[t] \in WaitQueue
            BY <1>1, <1>2, <2>2 DEF MutexTypeOK
        <3> QED
            BY <1>1, <1>2, <3>1 DEF LockerWaitsForItsMutex
    <2> QED
        BY <2>1, <2>2
<1>7. LockPlace'
    BY <1>1, <1>2 DEF LockPlace, MutexTypeOK
<1> QED
    BY <1>1, <1>3, <1>4, <1>5, <1>6, <1>7

LEMMA LockMutexInv ==
    ASSUME MutexInv, NEW self \in Thread, NEW m \in Mutex,
           LockMutex(self, m) \/ LockMutexLoop(self) \/ TryLockMutex(self, m)
    PROVE  MutexInv'
<1> USE MutexQueues, InvTypeOK DEF MutexInv, OwnerInv
<1>1. CASE LockMutex(self, m)
    <2>1. op[self] = "run" /\ queue[self] = NULL /\ self # Idle /\ "run" \in Op
        BY <1>1 DEF LockMutex, Calling, Running, MayBlock, Op
    <2>2. CASE Obtainable(self, m)
        BY <1>1, <2>1, <2>2, AcquireInv DEF LockMutex
    <2>3. CASE ~Obtainable(self, m)
        BY <1>1, <2>1, <2>3, LockWaitsInv DEF LockMutex
    <2> QED
        BY <2>2, <2>3
<1>2. CASE LockMutexLoop(self)
    <2> DEFINE n == mutex[self]
    <2>1. op[self] = "lock" /\ self # Idle /\ "lock" \in Op /\ n \in Mutex /\ queue[self] \in {NULL, n}
        BY <1>2 DEF LockMutexLoop, IdleInv, Op, MutexTypeOK, LockPlace
    <2>2. CASE Obtainable(self, n)
        BY <1>2, <2>1, <2>2, AcquireInv DEF LockMutexLoop
    <2>3. CASE ~Obtainable(self, n)
        <3>1. op' = [op EXCEPT ![self] = "lock"] /\ mutex' = [mutex EXCEPT ![self] = n]
            BY <1>2, <2>1, <2>3 DEF LockMutexLoop, mutexVars, MutexTypeOK, TypeOK, CallTypeOK
        <3> QED
            BY <1>2, <2>1, <2>3, <3>1, LockWaitsInv DEF LockMutexLoop, mutexVars
    <2> QED
        BY <2>2, <2>3
<1>3. CASE TryLockMutex(self, m)
    <2>1. op[self] \in {"run", "destructor"} /\ self # Idle /\ {"run", "destructor"} \subseteq Op
        BY <1>3 DEF TryLockMutex, Running, Op
    <2>2. UNCHANGED <<threadVars, queueVars, schedVars, op, arg, clientVars, irqVars, rescheduleCount>>
        BY <1>3 DEF TryLockMutex, vars, callVars
    <2> QED
        BY <1>3, <2>1, <2>2, AcquireInv DEF TryLockMutex
<1> QED
    BY <1>1, <1>2, <1>3

LEMMA UnlockMutexInv ==
    ASSUME MutexInv, NEW self \in Thread, NEW m \in Mutex, UnlockMutex(self, m)
    PROVE  MutexInv'
<1> USE MutexQueues, InvTypeOK DEF MutexInv, OwnerInv
<1>1. owner[m] = self /\ count[m] > 0 /\ op[self] \in Op \ {"none", "sleep"} /\ self # Idle
    BY DEF UnlockMutex, MayUnlock, Running, Op, OwnershipConsistent, MutexTypeOK
<1>2. op' = op /\ mutex' = mutex /\ count' = [count EXCEPT ![m] = @ - 1]
    BY DEF UnlockMutex, callVars
<1>3. CASE count[m] = 1
    <2>1. /\ owner' = [owner EXCEPT ![m] = NULL]
          /\ held' = [held EXCEPT ![self] = @ \ {m}]
          /\ Wakeup(m) /\ UNCHANGED <<callVars, clientVars, irqVars, rescheduleCount>>
        BY <1>3 DEF UnlockMutex
    <2>2. /\ Inv'
          /\ waiters' = [waiters EXCEPT ![m] = {}]
          /\ \A x \in Thread : Live(x)' <=> Live(x)
          /\ \A x \in Thread : state'[x] \in {state[x], "ready"} /\ queue'[x] \in {queue[x], NULL}
          /\ \A x \in waiters[m] : state'[x] = "ready"
        BY <2>1, OutsideWakeupInv DEF callVars
    <2>3. waiters \in [WaitQueue -> SUBSET Thread]
        BY DEF TypeOK, KernelTypeOK
    <2>4. MutexTypeOK'
        BY <1>1, <1>2, <2>1 DEF MutexTypeOK
    <2>5. OwnershipConsistent'
        BY <1>1, <1>2, <1>3, <2>1, <2>2 DEF OwnershipConsistent, MutexTypeOK
    <2>6. WaitersHaveOwner'
        BY <2>1, <2>2, <2>3 DEF WaitersHaveOwner, MutexTypeOK
    <2>7. LockerWaitsForItsMutex'
        BY <1>2, <2>2, <2>3 DEF LockerWaitsForItsMutex, MutexTypeOK
    <2>8. LockPlace'
        BY <1>2, <2>2 DEF LockPlace
    <2> QED
        BY <2>2, <2>4, <2>5, <2>6, <2>7, <2>8
<1>4. CASE count[m] # 1
    <2>1. UNCHANGED <<threadVars, queueVars, schedVars, owner, held, arg, clientVars, irqVars,
                      rescheduleCount>>
        BY <1>4 DEF UnlockMutex, callVars
    <2>2. Inv'
        BY <1>1, <1>2, <2>1, NoSwitchInv
    <2>3. UNCHANGED <<state, waiters, queue>>
        BY <2>1 DEF threadVars, queueVars
    <2>4. MutexTypeOK' /\ OwnershipConsistent'
        BY <1>1, <1>2, <1>4, <2>1, <2>3 DEF MutexTypeOK, OwnershipConsistent, Live
    <2>5. WaitersHaveOwner' /\ LockerWaitsForItsMutex' /\ LockPlace'
        BY <1>2, <2>1, <2>3 DEF WaitersHaveOwner, LockerWaitsForItsMutex, LockPlace
    <2> QED
        BY <2>2, <2>4, <2>5
<1> QED
    BY <1>3, <1>4

-----------------------------------------------------------------------------
(* The other calls *)

\* A step that leaves the mutexes, and the threads that wait for one, alone.
LEMMA LockersKept ==
    ASSUME OwnerInv, UNCHANGED mutexVars,
           \A x \in Thread : Live(x)' <=> Live(x),
           \A m \in Mutex : waiters'[m] = waiters[m],
           \A x \in Thread : op'[x] = "lock" =>
              /\ op[x] = "lock"
              /\ queue'[x] \in {queue[x], NULL}
              /\ state'[x] = "waiting" => state[x] = "waiting"
    PROVE  OwnerInv'
<1> USE DEF OwnerInv, mutexVars
<1>1. MutexTypeOK' /\ OwnershipConsistent'
    BY MutexQueues DEF MutexTypeOK, OwnershipConsistent
<1>2. WaitersHaveOwner'
    BY DEF WaitersHaveOwner
<1>3. LockerWaitsForItsMutex' /\ LockPlace'
    BY DEF MutexTypeOK, LockerWaitsForItsMutex, LockPlace
<1> QED
    BY <1>1, <1>2, <1>3

LEMMA MutexCreateThreadInv ==
    ASSUME MutexInv, NEW self \in Thread, NEW t \in User, NEW p \in Prio, NEW d \in BOOLEAN,
           MutexCreateThread(self, t, p, d)
    PROVE  MutexInv'
<1> USE MutexQueues, InvTypeOK DEF MutexInv, OwnerInv, TypeOK, KernelTypeOK, CallTypeOK
<1>1. Inv'
    <2>1. \E x \in User, y \in Prio, z \in BOOLEAN : CreateThread(self, x, y, z)
        BY DEF MutexCreateThread
    <2>2. {} \in SUBSET Queue
        OBVIOUS
    <2> QED
        BY <2>1, <2>2, LifeStepInv
<1>2. /\ t \in Thread /\ ~Live(t)
      /\ state' = [state EXCEPT ![t] = "waiting"] /\ queue' = [queue EXCEPT ![t] = NULL]
      /\ waiters' = [waiters EXCEPT ![t] = {}] /\ op' = [op EXCEPT ![t] = "run"]
      /\ held' = [held EXCEPT ![t] = {}] /\ mutex' = [mutex EXCEPT ![t] = NULL]
      /\ UNCHANGED <<owner, count>>
    BY DEF MutexCreateThread, CreateThread, User
<1>3. held[t] = {} /\ \A m \in Mutex : owner[m] # t
    BY <1>2 DEF OwnershipConsistent, MutexTypeOK
<1>4. MutexTypeOK'
    BY <1>2 DEF MutexTypeOK
<1>5. OwnershipConsistent'
    BY <1>2, <1>3 DEF OwnershipConsistent, MutexTypeOK, Live
<1>6. WaitersHaveOwner'
    BY <1>2 DEF WaitersHaveOwner
<1>7. LockerWaitsForItsMutex' /\ LockPlace'
    BY <1>2 DEF LockerWaitsForItsMutex, LockPlace, MutexTypeOK
<1> QED
    BY <1>1, <1>4, <1>5, <1>6, <1>7

\* The end of thread t, caused by itself or by the thread self.
LEMMA MutexEndInv ==
    ASSUME MutexInv, NEW t \in Thread, Live(t), Terminate(t, held[t]), UnlockAllMutex(t), Inv',
           \A x \in Thread : op'[x] = "lock" => op[x] = "lock" /\ x # t
    PROVE  MutexInv'
<1> USE MutexQueues, InvTypeOK DEF MutexInv, OwnerInv, MutexTypeOK
<1>1. /\ ~Live(t)'
      /\ \A x \in Thread \ {t} : (Live(x)' <=> Live(x)) /\ state'[x] \in {state[x], "ready"}
      /\ \A x \in Thread : queue'[x] \in {queue[x], NULL}
      /\ \A q \in WaitQueue : waiters'[q] \subseteq waiters[q]
      /\ \A q \in held[t] : waiters'[q] = {}
      /\ \A q \in WaitQueue : \A x \in waiters[q] \ waiters'[q] : x = t \/ state'[x] = "ready"
    <2>1. held[t] \in SUBSET Queue /\ KernelInv
        BY LinkInvParts
    <2> QED
        BY <2>1, TerminateEffect
<1>2. /\ owner' = [m \in Mutex |-> IF m \in held[t] THEN NULL ELSE owner[m]]
      /\ count' = [m \in Mutex |-> IF m \in held[t] THEN 0 ELSE count[m]]
      /\ held' = [held EXCEPT ![t] = {}] /\ mutex' = mutex
    BY DEF UnlockAllMutex
<1>3. MutexTypeOK'
    BY <1>2
<1>4. OwnershipConsistent'
    <2>1. ASSUME NEW m \in Mutex, NEW x \in Thread PROVE m \in held'[x] <=> owner'[m] = x
        BY <1>2 DEF OwnershipConsistent
    <2>2. ASSUME NEW m \in Mutex
          PROVE  (owner'[m] = NULL <=> count'[m] = 0) /\ (owner'[m] # NULL => Live(owner[m])')
        <3>1. CASE m \in held[t]
            BY <1>2, <3>1
        <3>2. CASE m \notin held[t]
            <4>1. owner'[m] = owner[m] /\ count'[m] = count[m] /\ owner[m] # t
                BY <1>2, <3>2 DEF OwnershipConsistent
            <4> QED
                BY <1>1, <4>1 DEF OwnershipConsistent, Live
        <3> QED
            BY <3>1, <3>2
    <2> QED
        BY <2>1, <2>2 DEF OwnershipConsistent
<1>5. WaitersHaveOwner'
    BY <1>1, <1>2 DEF WaitersHaveOwner
<1>6. LockerWaitsForItsMutex'
    BY <1>1, <1>2 DEF LockerWaitsForItsMutex
<1>7. LockPlace'
    BY <1>1, <1>2 DEF LockPlace
<1> QED
    BY <1>3, <1>4, <1>5, <1>6, <1>7

LEMMA MutexEndsInv ==
    ASSUME MutexInv, NEW self \in Thread,
           \/ MutexExitThreadDestroy(self) \/ MutexDestroySelf(self)
           \/ \E t \in User : MutexDestroyThread(self, t)
    PROVE  MutexInv'
<1> USE MutexQueues, InvTypeOK DEF MutexInv, OwnerInv, TypeOK, CallTypeOK
<1>0. \A t \in Thread : held[t] \in SUBSET Queue
    BY DEF MutexTypeOK
<1>1. CASE MutexExitThreadDestroy(self)
    <2>1. Terminate(self, held[self]) /\ UnlockAllMutex(self) /\ Live(self)
        BY <1>1, RunningLive DEF MutexExitThreadDestroy, ExitThreadDestroy
    <2>2. Inv'
        BY <1>0, <1>1, LifeStepInv DEF MutexExitThreadDestroy
    <2>3. \A x \in Thread : op'[x] = "lock" => op[x] = "lock" /\ x # self
        BY <1>1 DEF MutexExitThreadDestroy, ExitThreadDestroy
    <2> QED
        BY <2>1, <2>2, <2>3, MutexEndInv
<1>2. CASE MutexDestroySelf(self)
    <2>1. Terminate(self, held[self]) /\ UnlockAllMutex(self) /\ Live(self)
        BY <1>2, RunningLive DEF MutexDestroySelf, DestroySelf, Calling
    <2>2. Inv'
        BY <1>0, <1>2, LifeStepInv DEF MutexDestroySelf
    <2>3. \A x \in Thread : op'[x] = "lock" => op[x] = "lock" /\ x # self
        BY <1>2 DEF MutexDestroySelf, DestroySelf
    <2> QED
        BY <2>1, <2>2, <2>3, MutexEndInv
<1>3. ASSUME NEW t \in User, MutexDestroyThread(self, t)
      PROVE  MutexInv'
    <2>1. t \in Thread /\ Terminate(t, held[t]) /\ UnlockAllMutex(t) /\ Live(t)
        BY <1>3 DEF MutexDestroyThread, DestroyThread, User
    <2>2. Inv'
        BY <1>0, <1>3, <2>1, LifeStepInv DEF MutexDestroyThread
    <2>3. \A x \in Thread : op'[x] = "lock" => op[x] = "lock" /\ x # t
        BY <1>3, <2>1 DEF MutexDestroyThread, DestroyThread
    <2> QED
        BY <2>1, <2>2, <2>3, MutexEndInv
<1> QED
    BY <1>1, <1>2, <1>3

-----------------------------------------------------------------------------
(* Theorems *)

LEMMA MutexInitInv == MutexInit => MutexInv
<1> SUFFICES ASSUME MutexInit PROVE MutexInv
    OBVIOUS
<1>1. Inv
    BY InitInv DEF MutexInit
<1>2. \A t \in Thread : op[t] # "lock"
    BY DEF MutexInit, Init
<1>3. \A m \in Mutex : waiters[m] = {}
    BY MutexQueues DEF MutexInit, Init
<1>4. OwnerInv
    BY <1>2, <1>3, MutexQueues DEF MutexInit, OwnerInv, MutexTypeOK, OwnershipConsistent,
       WaitersHaveOwner, LockerWaitsForItsMutex, LockPlace
<1> QED
    BY <1>1, <1>4 DEF MutexInv

LEMMA MutexNextInv == MutexInv /\ [MutexNext]_allVars => MutexInv'
<1> SUFFICES ASSUME MutexInv, [MutexNext]_allVars PROVE MutexInv'
    OBVIOUS
<1>1. ASSUME NEW self \in Thread, ListIntact, ThreadStep(self), UNCHANGED mutexVars
      PROVE  MutexInv'
    <2>1. /\ Inv' /\ OwnerInv
          /\ \A x \in Thread : Live(x)' <=> Live(x)
          /\ \A q \in OutsideQueue : waiters'[q] = waiters[q]
          /\ \A x \in Thread : op'[x] \in OutsideCall =>
                /\ op[x] = op'[x]
                /\ queue'[x] \in {queue[x], NULL}
                /\ state'[x] = "waiting" => state[x] = "waiting"
        BY <1>1, ThreadStepInv, ThreadStepKeepsOutside DEF MutexInv
    <2> QED
        BY <1>1, <2>1, MutexQueues, LockersKept DEF MutexInv, OutsideCall
<1>2. CASE IrqStep /\ UNCHANGED mutexVars
    <2>1. /\ Inv' /\ OwnerInv /\ op' = op
          /\ \A x \in Thread : Live(x)' <=> Live(x)
          /\ \A q \in OutsideQueue : waiters'[q] = waiters[q]
          /\ \A x \in Thread : queue'[x] \in {queue[x], NULL}
          /\ \A x \in Thread : state'[x] = "waiting" => state[x] = "waiting"
        BY <1>2, IrqStepInv, IrqStepKeepsOutside DEF MutexInv
    <2> QED
        BY <1>2, <2>1, MutexQueues, LockersKept DEF MutexInv
<1>3. CASE UNCHANGED allVars
    <2>1. Inv' /\ UNCHANGED mutexVars
        BY <1>3, StutterInv DEF allVars, MutexInv
    <2>2. UNCHANGED <<op, state, waiters, queue>>
        BY <1>3 DEF allVars, vars, threadVars, queueVars, callVars
    <2> QED
        BY <2>1, <2>2, LockersKept DEF MutexInv, Live
<1>4. ASSUME NEW self \in Thread, MutexStep(self)
      PROVE  MutexInv'
    BY <1>4, LockMutexInv, UnlockMutexInv DEF MutexStep
<1>5. ASSUME NEW self \in Thread,
             \/ \E t \in User, p \in Prio, d \in BOOLEAN : MutexCreateThread(self, t, p, d)
             \/ MutexExitThreadDestroy(self)
             \/ MutexDestroySelf(self)
             \/ \E t \in User : MutexDestroyThread(self, t)
      PROVE  MutexInv'
    BY <1>5, MutexCreateThreadInv, MutexEndsInv
<1> QED
    BY <1>1, <1>2, <1>3, <1>4, <1>5 DEF MutexNext

\* MutexInv is an invariant of the kernel with its mutexes: the conjunction of the
\* properties below and of what they rest on.
THEOREM MutexInvariant == MutexSpec => []MutexInv
BY MutexInitInv, MutexNextInv, PTL DEF MutexSpec

\* Owner, count, lists and waiting requests keep their types; in particular the
\* count of locks never falls below zero.
THEOREM MutexTypeCorrect == MutexSpec => []MutexTypeOK
<1>1. MutexInv => MutexTypeOK
    BY DEF MutexInv, OwnerInv
<1> QED
    BY <1>1, MutexInvariant, PTL

\* The owner, the count and the owner's list of mutexes agree after any sequence
\* of locks, unlocks, kills and ends.
THEOREM OwnershipIsConsistent == MutexSpec => []OwnershipConsistent
<1>1. MutexInv => OwnershipConsistent
    BY DEF MutexInv, OwnerInv
<1> QED
    BY <1>1, MutexInvariant, PTL

\* A thread that waits for a mutex never waits for one that nobody owns.
THEOREM NoLockIsLost == MutexSpec => []WaitersHaveOwner
<1>1. MutexInv => WaitersHaveOwner
    BY DEF MutexInv, OwnerInv
<1> QED
    BY <1>1, MutexInvariant, PTL

\* A thread asleep in OS_LockMutex is linked in the queue of the mutex it asked for.
THEOREM LockersAreLinked == MutexSpec => []LockerWaitsForItsMutex
<1>1. MutexInv => LockerWaitsForItsMutex
    BY DEF MutexInv, OwnerInv
<1> QED
    BY <1>1, MutexInvariant, PTL

\* Whoever sleeps in OS_LockMutex will be found and woken by a live owner.
THEOREM NobodyIsStranded == MutexSpec => []NobodyStranded
<1>1. WaitersHaveOwner /\ LockerWaitsForItsMutex => NobodyStranded
    BY DEF NobodyStranded
<1> QED
    BY <1>1, NoLockIsLost, LockersAreLinked, PTL

\* Nobody takes a mutex from its owner: it gives it up itself, or it ends.
THEOREM OwnersKeepTheirMutexes == MutexSpec => OwnerKeepsMutex
<1>1. MutexInv /\ [MutexNext]_allVars => OwnerGivesUp
    <2> SUFFICES ASSUME MutexInv, [MutexNext]_allVars,
                        NEW m \in Mutex, owner[m] # NULL, owner'[m] # owner[m]
                 PROVE  current = owner[m] \/ state'[owner[m]] = "terminated"
        BY DEF OwnerGivesUp
    <2> USE MutexQueues, InvTypeOK DEF MutexInv, OwnerInv, MutexTypeOK
    <2>1. ASSUME NEW t \in Thread, Terminate(t, held[t]), UnlockAllMutex(t)
          PROVE  state'[owner[m]] = "terminated"
        <3>1. m \in held[t]
            BY <2>1 DEF UnlockAllMutex
        <3>2. owner[m] = t
            BY <3>1 DEF OwnershipConsistent
        <3> QED
            BY <2>1, <3>2 DEF Terminate
    <2>2. ASSUME NEW self \in Thread, NEW n \in Mutex, Acquire(self, n), Obtainable(self, n)
          PROVE  FALSE
        BY <2>2 DEF Acquire, Obtainable
    <2>3. ASSUME NEW self \in Thread, MutexStep(self)
          PROVE  current = owner[m]
        <3>1. PICK n \in Mutex : LockMutex(self, n) \/ LockMutexLoop(self) \/ TryLockMutex(self, n)
                                 \/ UnlockMutex(self, n)
            BY <2>3 DEF MutexStep
        <3>2. ~TryLockMutex(self, n) /\ ~LockMutex(self, n)
            BY <2>2 DEF TryLockMutex, LockMutex
        <3>3. ~LockMutexLoop(self)
            BY <2>2 DEF LockMutexLoop, mutexVars
        <3>4. UnlockMutex(self, n)
            BY <3>1, <3>2, <3>3
        <3> QED
            BY <3>4 DEF UnlockMutex, MayUnlock, Running
    <2>4. ASSUME NEW self \in Thread,
                 \/ MutexExitThreadDestroy(self) \/ MutexDestroySelf(self)
                 \/ \E t \in User : MutexDestroyThread(self, t)
          PROVE  state'[owner[m]] = "terminated"
        BY <2>1, <2>4 DEF MutexExitThreadDestroy, MutexDestroySelf, MutexDestroyThread,
           ExitThreadDestroy, DestroySelf, DestroyThread, User
    <2>5. owner' # owner
        OBVIOUS
    <2>6. \E self \in Thread : \/ MutexStep(self)
                               \/ MutexExitThreadDestroy(self) \/ MutexDestroySelf(self)
                               \/ \E t \in User : MutexDestroyThread(self, t)
        BY <2>5 DEF MutexNext, allVars, mutexVars, MutexCreateThread
    <2> QED
        BY <2>3, <2>4, <2>6
<1> QED
    BY <1>1, MutexInvariant, PTL DEF MutexSpec, OwnerKeepsMutex

-----------------------------------------------------------------------------
(***************************************************************************)
(* Message queues.                                                         *)
(***************************************************************************)
\* The queue in which a call waits.
QueueOf(call) == IF call = "send" THEN queueSend ELSE queueReceive

\* A thread inside a call of the message queue is linked in the queue of that call
\* or nowhere.
CallPlace == \A t \in Thread : op[t] \in {"send", "receive"} => queue[t] \in {NULL, QueueOf(op[t])}

WaitInv == NobodyMissesMessages /\ CallPlace

MessageInv == Inv /\ WaitInv

-----------------------------------------------------------------------------
LEMMA MessageQueues ==
    /\ queueSend \in OutsideQueue /\ queueReceive \in OutsideQueue
    /\ queueSend # queueReceive
    /\ queueSend \in WaitQueue /\ queueReceive \in WaitQueue
    /\ queueSend \notin Thread /\ queueReceive \notin Thread
    /\ queueSend # NULL /\ queueReceive # NULL
    /\ msgCount \in Nat \ {0}
    /\ NULL \notin Message
BY MessageAssumption, OutsideQueues DEF MessageAssumption, OutsideQueue

\* The place of the ring that is k steps behind its start.
Place(k) == k % msgCount

LEMMA RingPlace ==
    ASSUME NEW k \in Nat, k < msgCount + msgCount
    PROVE  /\ Place(k) = IF k < msgCount THEN k ELSE k - msgCount
           /\ Place(k) \in Index
BY MessageQueues DEF Place, Index

\* What an effect on the ring does to it, and whom it wakes.
LEMMA EffectCases ==
    ASSUME MessageTypeOK, NEW caller \in Thread \cup {Handler}, NEW r \in Request,
           ~Blocked(r), Effect(caller, r)
    PROVE  /\ msgArray' \in [Index -> Message \cup {NULL}]
           /\ firstIndex' \in Index
           /\ usedCount' \in 0 .. msgCount
           /\ received' \in [Thread \cup {Handler} -> Message \cup {NULL}]
           /\ \/ Sends(r) /\ ~Full /\ usedCount' = usedCount + 1 /\ Wakeup(queueReceive)
              \/ ~Sends(r) /\ ~Empty /\ usedCount' = usedCount - 1 /\ Wakeup(queueSend)
              \/ UNCHANGED <<mqVars, threadVars, queueVars, schedVars>>
<1> USE MessageQueues DEF MessageTypeOK, Index, Blocked, Full, Empty, Sends
<1>1. CASE r.call = "send"
    <2>1. SendEffect(r.msg) /\ r.msg \in Message
        BY <1>1 DEF Effect, Request
    <2> QED
        BY <1>1, <2>1 DEF SendEffect
<1>2. CASE r.call = "jam"
    <2>1. JamEffect(r.msg) /\ r.msg \in Message
        BY <1>2 DEF Effect, Request
    <2>2. JamIndex \in Index
        <3>1. firstIndex + msgCount - 1 \in Nat /\ firstIndex + msgCount - 1 < msgCount + msgCount
            OBVIOUS
        <3>2. JamIndex = Place(firstIndex + msgCount - 1)
            BY DEF JamIndex, Place
        <3> QED
            BY <3>1, <3>2, RingPlace
    <2> QED
        BY <1>2, <2>1, <2>2 DEF JamEffect
<1>3. CASE r.call = "receive"
    <2>1. ReceiveEffect(caller)
        BY <1>3 DEF Effect
    <2>2. firstIndex' \in Index
        <3>1. firstIndex + 1 \in Nat /\ firstIndex + 1 < msgCount + msgCount
            OBVIOUS
        <3>2. firstIndex' = Place(firstIndex + 1)
            BY <2>1 DEF ReceiveEffect, Place
        <3> QED
            BY <3>1, <3>2, RingPlace
    <2> QED
        BY <1>3, <2>1, <2>2 DEF ReceiveEffect
<1>4. CASE r.call = "read"
    <2>1. ReadEffect(caller)
        BY <1>4 DEF Effect
    <2> QED
        BY <2>1 DEF ReadEffect, mqVars
<1> QED
    BY <1>1, <1>2, <1>3, <1>4 DEF Request

-----------------------------------------------------------------------------
(* The calls of the message queue *)

\* A call, of a thread or of an interrupt handler, has its effect; a thread that
\* has waited for that is inside the call no more.
LEMMA EffectInv ==
    ASSUME MessageInv, NEW self \in Thread, NEW caller \in Thread \cup {Handler}, NEW r \in Request,
           ~Blocked(r), Effect(caller, r),
           \/ op' = op /\ request' = request
           \/ /\ op[self] \in {"send", "receive"}
              /\ op' = [op EXCEPT ![self] = "run"]
              /\ request' = [request EXCEPT ![self] = NULL],
           UNCHANGED <<arg, clientVars, irqVars, rescheduleCount>>
    PROVE  MessageInv'
<1> USE MessageQueues, InvTypeOK DEF MessageInv, WaitInv, NobodyMissesMessages
<1>1. /\ msgArray' \in [Index -> Message \cup {NULL}]
      /\ firstIndex' \in Index
      /\ usedCount' \in 0 .. msgCount
      /\ received' \in [Thread \cup {Handler} -> Message \cup {NULL}]
      /\ \/ Sends(r) /\ ~Full /\ usedCount' = usedCount + 1 /\ Wakeup(queueReceive)
         \/ ~Sends(r) /\ ~Empty /\ usedCount' = usedCount - 1 /\ Wakeup(queueSend)
         \/ UNCHANGED <<mqVars, threadVars, queueVars, schedVars>>
    BY EffectCases
<1>2. op \in [Thread -> Op] /\ usedCount \in 0 .. msgCount /\ waiters \in [WaitQueue -> SUBSET Thread]
      /\ msgCount \in Nat \ {0}
    BY DEF TypeOK, KernelTypeOK, CallTypeOK, MessageTypeOK
<1>3. \A t \in Thread : op'[t] \in {"send", "receive"} => op'[t] = op[t] /\ request'[t] = request[t]
    BY <1>2 DEF MessageTypeOK
<1>4. request' \in [Thread -> Request \cup {NULL}]
    BY DEF MessageTypeOK
<1>5. MessageTypeOK'
    BY <1>1, <1>3, <1>4 DEF MessageTypeOK
<1>6. ASSUME NEW q \in {queueSend, queueReceive}, Wakeup(q),
             q = queueReceive => ~Full /\ usedCount' = usedCount + 1,
             q = queueSend => ~Empty /\ usedCount' = usedCount - 1
      PROVE  MessageInv'
    <2>1. /\ Inv'
          /\ waiters' = [waiters EXCEPT ![q] = {}]
          /\ \A x \in Thread : Live(x)' <=> Live(x)
          /\ \A x \in Thread : state'[x] \in {state[x], "ready"} /\ queue'[x] \in {queue[x], NULL}
          /\ \A x \in waiters[q] : state'[x] = "ready"
        <3>1. \/ op' = op
              \/ op[self] \in OutsideCall /\ op' = [op EXCEPT ![self] = "run"]
            BY DEF OutsideCall
        <3>2. q \in OutsideQueue
            OBVIOUS
        <3> HIDE DEF MessageInv
        <3>3. Inv
            BY DEF MessageInv
        <3> QED
            BY <1>6, <3>1, <3>2, <3>3, OutsideWakeupInv
    <2>2. WaitersBlocked'
        BY <1>2, <1>6, <2>1 DEF WaitersBlocked, Full, Empty
    <2>3. SleepersLinked'
        BY <1>2, <1>3, <2>1 DEF SleepersLinked
    <2>4. CallPlace'
        BY <1>3, <2>1 DEF CallPlace, QueueOf
    <2> QED
        BY <1>5, <2>1, <2>2, <2>3, <2>4
<1>7. CASE UNCHANGED <<mqVars, threadVars, queueVars, schedVars>>
    <2>1. Inv'
        <3>1. CASE op' = op
            BY <1>7, <3>1, StutterInv DEF vars, callVars
        <3>2. CASE op[self] \in {"send", "receive"} /\ op' = [op EXCEPT ![self] = "run"]
            <4>1. op[self] \in Op \ {"none", "sleep"} /\ self # Idle
                BY <3>2 DEF IdleInv, Op
            <4> QED
                BY <1>7, <3>2, <4>1, NoSwitchInv
        <3> QED
            BY <3>1, <3>2
    <2>2. UNCHANGED <<state, waiters, queue, usedCount>>
        BY <1>7 DEF mqVars, threadVars, queueVars
    <2>3. WaitersBlocked' /\ SleepersLinked' /\ CallPlace'
        BY <1>3, <2>2 DEF WaitersBlocked, SleepersLinked, CallPlace, Full, Empty, QueueOf
    <2> QED
        BY <1>5, <2>1, <2>3
<1> QED
    BY <1>1, <1>6, <1>7

\* A thread finds no room, or no message, and waits for it.
LEMMA WaitStepInv ==
    ASSUME MessageInv, NEW self \in Thread, NEW r \in Request, Blocked(r), Wait(self, r),
           NEW call, call = IF Sends(r) THEN "send" ELSE "receive",
           op[self] \in {"run", call}, self # Idle, queue[self] \in {NULL, QueueOf(call)},
           op' = [op EXCEPT ![self] = call], request' = [request EXCEPT ![self] = r],
           UNCHANGED <<arg, clientVars, irqVars, rescheduleCount>>
    PROVE  MessageInv'
<1> USE MessageQueues, InvTypeOK DEF MessageInv, WaitInv, NobodyMissesMessages
<1> DEFINE q == QueueOf(call)
<1>1. call \in OutsideCall /\ q \in OutsideQueue /\ Block(self, q) /\ UNCHANGED <<mqVars, received>>
    BY DEF OutsideCall, QueueOf, Wait
<1>2. /\ Inv'
      /\ waiters' = [waiters EXCEPT ![q] = @ \cup {self}]
      /\ queue' = [queue EXCEPT ![self] = q]
      /\ state' = [state EXCEPT ![self] = "waiting"]
    <2> HIDE DEF q
    <2>1. Inv /\ queue[self] \in {NULL, q}
        BY DEF q
    <2> HIDE DEF MessageInv
    <2> QED
        BY <1>1, <2>1, OutsideBlockInv
<1>3. op \in [Thread -> Op] /\ state \in [Thread -> State] /\ waiters \in [WaitQueue -> SUBSET Thread]
      /\ queue \in [Thread -> WaitQueue \cup {NULL}] /\ q \in WaitQueue
    BY DEF TypeOK, KernelTypeOK, CallTypeOK, State, QueueOf
<1>4. MessageTypeOK'
    BY <1>1, <1>3 DEF MessageTypeOK, mqVars
<1>5. WaitersBlocked'
    BY <1>1, <1>2, <1>3 DEF WaitersBlocked, Blocked, QueueOf, Full, Empty, mqVars
<1>6. SleepersLinked'
    BY <1>2, <1>3 DEF SleepersLinked, QueueOf
<1>7. CallPlace'
    BY <1>2, <1>3 DEF CallPlace
<1> QED
    BY <1>2, <1>4, <1>5, <1>6, <1>7

LEMMA MessageStepInv ==
    ASSUME MessageInv, NEW self \in Thread, MessageStep(self)
    PROVE  MessageInv'
<1> USE InvTypeOK DEF MessageInv, WaitInv, NobodyMissesMessages
<1>1. ASSUME NEW r \in Request, CallNow(self, r) PROVE MessageInv'
    <2>1. /\ ~Blocked(r) /\ Effect(self, r) /\ op' = op /\ request' = request
          /\ UNCHANGED <<arg, clientVars, irqVars, rescheduleCount>>
        BY <1>1 DEF CallNow, callVars
    <2> QED
        BY <2>1, EffectInv
<1>2. ASSUME NEW r \in Request, CallAndWait(self, r) PROVE MessageInv'
    <2> DEFINE call == IF Sends(r) THEN "send" ELSE "receive"
    <2>1. /\ Blocked(r) /\ Wait(self, r) /\ op[self] = "run" /\ self # Idle /\ queue[self] = NULL
          /\ op' = [op EXCEPT ![self] = call] /\ request' = [request EXCEPT ![self] = r]
          /\ UNCHANGED <<arg, clientVars, irqVars, rescheduleCount>>
        BY <1>2 DEF CallAndWait, Calling, Running, MayBlock
    <2> QED
        BY <2>1, WaitStepInv
<1>3. CASE CallLoop(self)
    <2> DEFINE r == request[self]
               call == IF Sends(r) THEN "send" ELSE "receive"
    <2>1. op[self] = call /\ r \in Request /\ self # Idle /\ queue[self] \in {NULL, QueueOf(call)}
        BY <1>3 DEF CallLoop, MessageTypeOK, CallPlace, IdleInv
    <2>2. CASE Blocked(r)
        <3>1. /\ Wait(self, r) /\ op' = op /\ request' = request
              /\ UNCHANGED <<arg, clientVars, irqVars, rescheduleCount>>
            BY <1>3, <2>2 DEF CallLoop
        <3>2. op' = [op EXCEPT ![self] = call] /\ request' = [request EXCEPT ![self] = r]
            BY <2>1, <3>1 DEF TypeOK, CallTypeOK, MessageTypeOK
        <3> QED
            BY <2>1, <2>2, <3>1, <3>2, WaitStepInv
    <2>3. CASE ~Blocked(r)
        <3>1. /\ Effect(self, r) /\ op' = [op EXCEPT ![self] = "run"]
              /\ request' = [request EXCEPT ![self] = NULL]
              /\ UNCHANGED <<arg, clientVars, irqVars, rescheduleCount>>
            BY <1>3, <2>3 DEF CallLoop
        <3> QED
            BY <2>1, <2>3, <3>1, EffectInv
    <2> QED
        BY <2>2, <2>3
<1> QED
    BY <1>1, <1>2, <1>3 DEF MessageStep

-----------------------------------------------------------------------------
(* The other calls *)

\* A step that leaves the message queue, and the threads that sleep in it, alone.
LEMMA WaitKept ==
    ASSUME WaitInv, UNCHANGED <<mqVars, request, received>>,
           \A q \in OutsideQueue : waiters'[q] = waiters[q],
           \A x \in Thread : op'[x] \in OutsideCall =>
              /\ op[x] = op'[x]
              /\ queue'[x] \in {queue[x], NULL}
              /\ state'[x] = "waiting" => state[x] = "waiting"
    PROVE  WaitInv'
<1> USE MessageQueues DEF WaitInv, NobodyMissesMessages, OutsideCall, mqVars
<1>1. MessageTypeOK'
    BY DEF MessageTypeOK
<1>2. WaitersBlocked' /\ SleepersLinked'
    BY DEF WaitersBlocked, SleepersLinked, Full, Empty
<1>3. CallPlace'
    BY DEF CallPlace, QueueOf
<1> QED
    BY <1>1, <1>2, <1>3

\* The creation and the end of a thread: nobody comes to wait, and who does not wait
\* any more is ready or gone.
LEMMA LifeStepKeepsWaiting ==
    ASSUME MessageInv, NEW self \in Thread, UNCHANGED <<mqVars, request, received>>,
           \/ ThreadEnds(self)
           \/ \E t \in User, p \in Prio, d \in BOOLEAN : CreateThread(self, t, p, d)
    PROVE  MessageInv'
<1> USE MessageQueues, InvTypeOK
        DEF MessageInv, WaitInv, NobodyMissesMessages, TypeOK, KernelTypeOK, CallTypeOK, mqVars
<1>0. User \subseteq Thread /\ {} \in SUBSET Queue
    BY DEF User
<1>1. Inv'
    BY <1>0, LifeStepInv DEF ThreadEnds
<1>2. ASSUME NEW t \in Thread, Live(t), Terminate(t, {}),
             \A x \in Thread : op'[x] \in {"send", "receive"} => op'[x] = op[x] /\ x # t
      PROVE  WaitInv'
    <2>1. /\ \A x \in Thread \ {t} : state'[x] \in {state[x], "ready"}
          /\ \A x \in Thread : queue'[x] \in {queue[x], NULL}
          /\ \A q \in WaitQueue : waiters'[q] \subseteq waiters[q]
          /\ \A q \in WaitQueue : \A x \in waiters[q] \ waiters'[q] :
                x = t \/ state'[x] = "ready"
        BY <1>0, <1>2, LinkInvParts, TerminateEffect
    <2>2. MessageTypeOK'
        BY <1>2 DEF MessageTypeOK
    <2>3. WaitersBlocked'
        BY <2>1 DEF WaitersBlocked, Full, Empty
    <2>4. SleepersLinked'
        BY <1>2, <2>1 DEF SleepersLinked
    <2>5. CallPlace'
        BY <1>2, <2>1 DEF CallPlace, QueueOf
    <2> QED
        BY <2>2, <2>3, <2>4, <2>5
<1>3. CASE ExitThreadDestroy(self, {}) \/ DestroySelf(self, {})
    <2>1. Terminate(self, {}) /\ Live(self) /\ op' = [op EXCEPT ![self] = "none"]
        BY <1>3, RunningLive DEF ExitThreadDestroy, DestroySelf, Calling
    <2> QED
        BY <1>1, <1>2, <2>1
<1>4. ASSUME NEW t \in User, DestroyThread(self, t, {})
      PROVE  MessageInv'
    <2>1. /\ t \in Thread /\ Terminate(t, {}) /\ Live(t) /\ t # self
          /\ op' = [op EXCEPT ![t] = "none", ![self] = "reschedule"]
        BY <1>0, <1>4 DEF DestroyThread
    <2>2. \A x \in Thread : op'[x] \in {"send", "receive"} => op'[x] = op[x] /\ x # t
        BY <2>1
    <2> QED
        BY <1>1, <1>2, <2>1, <2>2
<1>5. ASSUME NEW t \in User, NEW p \in Prio, NEW d \in BOOLEAN, CreateThread(self, t, p, d)
      PROVE  MessageInv'
    <2>1. /\ t \in Thread
          /\ state' = [state EXCEPT ![t] = "waiting"] /\ queue' = [queue EXCEPT ![t] = NULL]
          /\ waiters' = [waiters EXCEPT ![t] = {}] /\ op' = [op EXCEPT ![t] = "run"]
        BY <1>0, <1>5 DEF CreateThread
    <2>2. \A q \in OutsideQueue : waiters'[q] = waiters[q]
        BY <2>1, OutsideQueues
    <2>3. \A x \in Thread : op'[x] \in OutsideCall =>
             /\ op[x] = op'[x]
             /\ queue'[x] \in {queue[x], NULL}
             /\ state'[x] = "waiting" => state[x] = "waiting"
        BY <2>1 DEF OutsideCall
    <2> QED
        BY <1>1, <2>2, <2>3, WaitKept
<1> QED
    BY <1>3, <1>4, <1>5 DEF ThreadEnds

-----------------------------------------------------------------------------
(* The invariant *)

LEMMA MessageInitInv == MessageInit => MessageInv
<1> SUFFICES ASSUME MessageInit PROVE MessageInv
    OBVIOUS
<1>1. Inv
    BY InitInv DEF MessageInit
<1>2. \A t \in Thread : op[t] \notin {"send", "receive"}
    BY DEF MessageInit, Init
<1>3. waiters[queueSend] = {} /\ waiters[queueReceive] = {}
    BY MessageQueues DEF MessageInit, Init
<1>4. WaitInv
    BY <1>2, <1>3, MessageQueues DEF MessageInit, WaitInv, NobodyMissesMessages, MessageTypeOK,
       WaitersBlocked, SleepersLinked, CallPlace, Index
<1> QED
    BY <1>1, <1>4 DEF MessageInv

LEMMA MessageNextInv == MessageInv /\ [MessageNext]_mqAllVars => MessageInv'
<1> SUFFICES ASSUME MessageInv, [MessageNext]_mqAllVars PROVE MessageInv'
    OBVIOUS
<1>1. ASSUME NEW self \in Thread, MessageStep(self) PROVE MessageInv'
    BY <1>1, MessageStepInv
<1>2. ASSUME NEW self \in Thread, ListIntact, ThreadStep(self),
             UNCHANGED <<mqVars, request, received>>
      PROVE  MessageInv'
    BY <1>2, ThreadStepInv, ThreadStepKeepsOutside, WaitKept DEF MessageInv
<1>3. ASSUME NEW self \in Thread, UNCHANGED <<mqVars, request, received>>,
             \/ ThreadEnds(self)
             \/ \E t \in User, p \in Prio, d \in BOOLEAN : CreateThread(self, t, p, d)
      PROVE  MessageInv'
    BY <1>3, LifeStepKeepsWaiting
<1>4. ASSUME NEW r \in Request, IrqCall(r) PROVE MessageInv'
    <2>1. /\ ~Blocked(r) /\ Effect(Handler, r) /\ op' = op /\ request' = request
          /\ UNCHANGED <<arg, clientVars, irqVars, rescheduleCount>>
          /\ Handler \in Thread \cup {Handler} /\ Idle \in Thread
        BY <1>4, ThreadAssumption DEF IrqCall, callVars, ThreadAssumption
    <2> QED
        BY <2>1, EffectInv
<1>5. CASE IrqStep /\ UNCHANGED <<mqVars, request, received>>
    BY <1>5, IrqStepInv, IrqStepKeepsOutside, WaitKept DEF MessageInv
<1>6. CASE UNCHANGED mqAllVars
    <2>1. Inv' /\ UNCHANGED <<mqVars, request, received>>
        BY <1>6, StutterInv DEF mqAllVars, MessageInv
    <2>2. UNCHANGED <<op, state, waiters, queue>>
        BY <1>6 DEF mqAllVars, vars, threadVars, queueVars, callVars
    <2> QED
        BY <2>1, <2>2, WaitKept DEF MessageInv
<1> QED
    BY <1>1, <1>2, <1>3, <1>4, <1>5, <1>6 DEF MessageNext

\* MessageInv is an invariant of the kernel with a message queue: the kernel's own
\* invariant, the properties below and the place of who is inside a call.
THEOREM MessageInvariant == MessageSpec => []MessageInv
BY MessageInitInv, MessageNextInv, PTL DEF MessageSpec

\* Senders that sleep do so only while the queue is full and receivers only while it
\* is empty, each linked where the event it waits for looks; the ring's indices stay
\* inside it.
THEOREM NoMessageIsMissed == MessageSpec => []NobodyMissesMessages
<1>1. MessageInv => NobodyMissesMessages
    BY DEF MessageInv, WaitInv
<1> QED
    BY <1>1, MessageInvariant, PTL

-----------------------------------------------------------------------------
(* The ring buffer is the bounded channel.                                  *)

MessageOrNull == Message \cup {NULL}

Ring(array, first, used) == [i \in 1 .. used |-> array[Place(first + i - 1)]]

LEMMA RingIsSeq ==
    ASSUME NEW array \in [Index -> MessageOrNull], NEW first \in Index, NEW used \in 0 .. msgCount
    PROVE  /\ Ring(array, first, used) \in Seq(MessageOrNull)
           /\ Len(Ring(array, first, used)) = used
           /\ \A i \in 1 .. used :
                 Ring(array, first, used)[i] =
                    array[IF first + i - 1 < msgCount THEN first + i - 1 ELSE first + i - 1 - msgCount]
<1> USE MessageQueues DEF Index
<1>1. ASSUME NEW i \in 1 .. used
      PROVE  /\ Place(first + i - 1) = IF first + i - 1 < msgCount THEN first + i - 1
                                       ELSE first + i - 1 - msgCount
             /\ Place(first + i - 1) \in Index
    <2>1. first + i - 1 \in Nat /\ first + i - 1 < msgCount + msgCount
        OBVIOUS
    <2> QED
        BY <2>1, RingPlace
<1>2. Ring(array, first, used) \in [1 .. used -> MessageOrNull]
    BY <1>1 DEF Ring
<1>3. used \in Nat
    OBVIOUS
<1>4. Ring(array, first, used) \in Seq(MessageOrNull) /\ Len(Ring(array, first, used)) = used
    BY <1>2, <1>3
<1> QED
    BY <1>1, <1>4 DEF Ring

\* OS_SendMessage writes behind the last message.
LEMMA RingAppend ==
    ASSUME NEW array \in [Index -> MessageOrNull], NEW first \in Index, NEW used \in 0 .. msgCount - 1,
           NEW msg \in Message
    PROVE  Ring([array EXCEPT ![Place(first + used)] = msg], first, used + 1)
              = Append(Ring(array, first, used), msg)
<1> USE MessageQueues DEF Index
<1> DEFINE k == Place(first + used)
           new == [array EXCEPT ![k] = msg]
           before == Ring(array, first, used)
           total == used + 1
           after == Ring(new, first, total)
<1>1. k = (IF first + used < msgCount THEN first + used ELSE first + used - msgCount) /\ k \in Index
    <2>1. first + used \in Nat /\ first + used < msgCount + msgCount
        OBVIOUS
    <2> QED
        BY <2>1, RingPlace
<1> HIDE DEF k, new
<1>2. new \in [Index -> MessageOrNull] /\ msg \in MessageOrNull
      /\ used \in 0 .. msgCount /\ total \in 0 .. msgCount
      /\ new[k] = msg /\ \A i \in Index \ {k} : new[i] = array[i]
    BY <1>1 DEF MessageOrNull, new
<1>3. /\ before \in Seq(MessageOrNull) /\ Len(before) = used
      /\ \A i \in 1 .. used :
            before[i] = array[IF first + i - 1 < msgCount THEN first + i - 1 ELSE first + i - 1 - msgCount]
    BY <1>2, RingIsSeq
<1>4. /\ after \in Seq(MessageOrNull) /\ Len(after) = total
      /\ \A i \in 1 .. total :
            after[i] = new[IF first + i - 1 < msgCount THEN first + i - 1 ELSE first + i - 1 - msgCount]
    <2> HIDE DEF total
    <2> QED
        BY ZenonT(30), <1>2, RingIsSeq
<1>5. /\ Append(before, msg) \in Seq(MessageOrNull) /\ Len(Append(before, msg)) = used + 1
      /\ \A i \in 1 .. used : Append(before, msg)[i] = before[i]
      /\ Append(before, msg)[used + 1] = msg
    <2> HIDE DEF before
    <2> QED
        BY <1>2, <1>3, AppendProperties
<1>6. ASSUME NEW i \in 1 .. total PROVE after[i] = Append(before, msg)[i]
    <2> DEFINE j == IF first + i - 1 < msgCount THEN first + i - 1 ELSE first + i - 1 - msgCount
    <2> HIDE DEF before, after
    <2>1. after[i] = new[j] /\ j \in Index
        BY <1>4
    <2>2. CASE i = used + 1
        <3>1. j = k
            BY <1>1, <2>2
        <3> QED
            BY <1>2, <1>5, <2>1, <2>2, <3>1
    <2>3. CASE i \in 1 .. used
        <3>1. j # k
            BY <1>1, <2>3
        <3>2. before[i] = array[j]
            BY <1>3, <2>3
        <3> HIDE DEF j
        <3> QED
            BY <1>2, <1>5, <2>1, <2>3, <3>1, <3>2
    <2>4. i = used + 1 \/ i \in 1 .. used
        OBVIOUS
    <2> HIDE DEF j
    <2> QED
        BY Zenon, <2>2, <2>3, <2>4
<1>7. after = Append(before, msg)
    <2> HIDE DEF after, before
    <2> QED
        BY <1>4, <1>5, <1>6, SeqEqual
<1> QED
    BY <1>7 DEF new, k

\* OS_JamMessage writes before the first message.
LEMMA RingPrepend ==
    ASSUME NEW array \in [Index -> MessageOrNull], NEW first \in Index, NEW used \in 0 .. msgCount - 1,
           NEW msg \in Message, NEW k, k = Place(first + msgCount - 1)
    PROVE  Ring([array EXCEPT ![k] = msg], k, used + 1) = <<msg>> \o Ring(array, first, used)
<1> USE MessageQueues DEF Index
<1> DEFINE new == [array EXCEPT ![k] = msg]
           total == used + 1
           before == Ring(array, first, used)
           after == Ring(new, k, total)
           joined == <<msg>> \o before
<1>1. k = (IF first = 0 THEN msgCount - 1 ELSE first - 1) /\ k \in Index
    <2>1. first + msgCount - 1 \in Nat /\ first + msgCount - 1 < msgCount + msgCount
        OBVIOUS
    <2> QED
        BY <2>1, RingPlace
<1> HIDE DEF new
<1>2. new \in [Index -> MessageOrNull] /\ msg \in MessageOrNull
      /\ used \in 0 .. msgCount /\ total \in 0 .. msgCount
      /\ new[k] = msg /\ \A i \in Index \ {k} : new[i] = array[i]
    BY <1>1 DEF MessageOrNull, new
<1>3. /\ before \in Seq(MessageOrNull) /\ Len(before) = used
      /\ \A i \in 1 .. used :
            before[i] = array[IF first + i - 1 < msgCount THEN first + i - 1 ELSE first + i - 1 - msgCount]
    BY <1>2, RingIsSeq
<1>4. /\ after \in Seq(MessageOrNull) /\ Len(after) = total
      /\ \A i \in 1 .. total :
            after[i] = new[IF k + i - 1 < msgCount THEN k + i - 1 ELSE k + i - 1 - msgCount]
    <2> HIDE DEF total
    <2> QED
        BY ZenonT(30), <1>1, <1>2, RingIsSeq
<1>5. /\ joined \in Seq(MessageOrNull) /\ Len(joined) = 1 + used
      /\ \A i \in 1 .. 1 + used : joined[i] = IF i <= 1 THEN msg ELSE before[i - 1]
    <2> HIDE DEF before
    <2>1. <<msg>> \in Seq(MessageOrNull) /\ Len(<<msg>>) = 1 /\ <<msg>>[1] = msg
        BY <1>2
    <2>2. \A i \in 1 .. Len(<<msg>>) + Len(before) :
             joined[i] = IF i <= Len(<<msg>>) THEN <<msg>>[i] ELSE before[i - Len(<<msg>>)]
        BY <1>3, <2>1, ConcatProperties
    <2>3. joined \in Seq(MessageOrNull) /\ Len(joined) = Len(<<msg>>) + Len(before)
        BY <1>3, <2>1, ConcatProperties
    <2> HIDE DEF joined
    <2> QED
        BY <1>3, <2>1, <2>2, <2>3
<1>6. ASSUME NEW i \in 1 .. total PROVE after[i] = joined[i]
    <2> DEFINE j == IF k + i - 1 < msgCount THEN k + i - 1 ELSE k + i - 1 - msgCount
    <2>0. j \in Index
        BY <1>1
    <2> HIDE DEF before, after, joined
    <2>1. after[i] = new[j] /\ j \in Index
        BY <1>4, <2>0
    <2>2. CASE i = 1
        <3>1. j = k
            BY <1>1, <2>2
        <3> QED
            BY <1>2, <1>5, <2>1, <2>2, <3>1
    <2>3. CASE i \in 2 .. total
        <3>1. j # k
            BY <1>1, <2>3
        <3>2. i - 1 \in 1 .. used
            BY <2>3
        <3>3. j = IF first + (i - 1) - 1 < msgCount THEN first + (i - 1) - 1
                  ELSE first + (i - 1) - 1 - msgCount
            BY <1>1, <2>3
        <3>4. before[i - 1] = array[j]
            BY <1>3, <3>2, <3>3
        <3>5. joined[i] = before[i - 1]
            BY <1>5, <2>3
        <3> HIDE DEF j
        <3> QED
            BY <1>2, <2>1, <3>1, <3>4, <3>5
    <2> QED
        BY <2>2, <2>3
<1>7. after = joined
    <2> HIDE DEF after, before, joined
    <2> QED
        BY <1>4, <1>5, <1>6, SeqEqual
<1> QED
    BY <1>7 DEF new

\* OS_ReceiveMessage and OS_ReadMessage give the first message, and the former moves
\* the start of the ring behind it.
LEMMA RingHeadTail ==
    ASSUME NEW array \in [Index -> MessageOrNull], NEW first \in Index, NEW used \in 1 .. msgCount
    PROVE  /\ Ring(array, first, used) # << >>
           /\ Head(Ring(array, first, used)) = array[first]
           /\ Tail(Ring(array, first, used)) = Ring(array, Place(first + 1), used - 1)
<1> USE MessageQueues DEF Index
<1> DEFINE k == Place(first + 1)
           rest == used - 1
           before == Ring(array, first, used)
           after == Ring(array, k, rest)
<1>1. k = (IF first = msgCount - 1 THEN 0 ELSE first + 1) /\ k \in Index
    <2>1. first + 1 \in Nat /\ first + 1 < msgCount + msgCount
        OBVIOUS
    <2> QED
        BY <2>1, RingPlace
<1> HIDE DEF k
<1>2. /\ before \in Seq(MessageOrNull) /\ Len(before) = used
      /\ \A i \in 1 .. used :
            before[i] = array[IF first + i - 1 < msgCount THEN first + i - 1 ELSE first + i - 1 - msgCount]
    <2>1. used \in 0 .. msgCount
        OBVIOUS
    <2> QED
        BY <2>1, RingIsSeq
<1>3. /\ after \in Seq(MessageOrNull) /\ Len(after) = rest
      /\ \A i \in 1 .. rest :
            after[i] = array[IF k + i - 1 < msgCount THEN k + i - 1 ELSE k + i - 1 - msgCount]
    <2>1. rest \in 0 .. msgCount
        OBVIOUS
    <2> HIDE DEF rest
    <2> QED
        BY <1>1, <2>1, RingIsSeq
<1> HIDE DEF before, after
<1>4. before # << >> /\ Head(before) = before[1] /\ before[1] = array[first]
    BY <1>2
<1>5. /\ Tail(before) \in Seq(MessageOrNull) /\ Len(Tail(before)) = rest
      /\ \A i \in 1 .. rest : Tail(before)[i] = before[i + 1]
    <2>1. /\ Tail(before) \in Seq(MessageOrNull) /\ Len(Tail(before)) = Len(before) - 1
          /\ \A i \in 1 .. Len(Tail(before)) : Tail(before)[i] = before[i + 1]
        BY <1>2, <1>4, HeadTailProperties
    <2> QED
        BY <1>2, <2>1
<1>6. ASSUME NEW i \in 1 .. rest PROVE Tail(before)[i] = after[i]
    <2>1. i + 1 \in 1 .. used
        OBVIOUS
    <2> DEFINE j == IF k + i - 1 < msgCount THEN k + i - 1 ELSE k + i - 1 - msgCount
    <2>2. j = IF first + (i + 1) - 1 < msgCount THEN first + (i + 1) - 1
              ELSE first + (i + 1) - 1 - msgCount
        BY <1>1
    <2>3. before[i + 1] = array[j]
        BY <1>2, <2>1, <2>2
    <2> QED
        BY <1>3, <1>5, <2>3
<1>7. Tail(before) = after
    BY <1>3, <1>5, <1>6, SeqEqual
<1> QED
    BY <1>4, <1>7 DEF before, after, k

-----------------------------------------------------------------------------
(* The refinement, step by step *)

LEMMA ContentsIsRing == /\ Contents = Ring(msgArray, firstIndex, usedCount)
                        /\ Contents' = Ring(msgArray', firstIndex', usedCount')
BY DEF Contents, Ring, Place

\* An effect is a step of the channel, made by the caller or by none in particular.
LEMMA EffectIsChannelStep ==
    ASSUME MessageTypeOK, NEW caller \in Thread \cup {Handler}, NEW r \in Request,
           ~Blocked(r), Effect(caller, r)
    PROVE  Channel!ChannelNext
<1> USE MessageQueues DEF MessageTypeOK, Blocked, Full, Empty, Sends
<1>1. msgArray \in [Index -> MessageOrNull]
    BY DEF MessageOrNull
<1>2. Contents \in Seq(MessageOrNull) /\ Len(Contents) = usedCount
    BY <1>1, ContentsIsRing, RingIsSeq
<1>3. CASE r.call \in {"send", "jam"}
    <2>1. usedCount \in 0 .. msgCount - 1
        BY <1>3
    <2>2. PICK msg \in Message : msg = r.msg
        BY <1>3 DEF Request
    <2>3. Len(Contents) < msgCount
        BY <1>2, <2>1
    <2>4. CASE r.call = "send"
        <3>1. SendEffect(msg)
            BY <2>2, <2>4 DEF Effect
        <3>2. /\ msgArray' = [msgArray EXCEPT ![Place(firstIndex + usedCount)] = msg]
              /\ firstIndex' = firstIndex /\ usedCount' = usedCount + 1 /\ received' = received
            BY <3>1 DEF SendEffect, Place
        <3>3. Contents' = Append(Contents, msg)
            <4>1. Ring([msgArray EXCEPT ![Place(firstIndex + usedCount)] = msg], firstIndex, usedCount + 1)
                     = Append(Ring(msgArray, firstIndex, usedCount), msg)
                <5>1. firstIndex \in Index /\ msg \in Message
                    BY <2>2 DEF Index
                <5> HIDE MessageQueues DEF MessageTypeOK, Blocked, Full, Empty, Sends
                <5> QED
                    BY <1>1, <2>1, <5>1, RingAppend
            <4> QED
                BY <3>2, <4>1, ContentsIsRing
        <3> QED
            BY <2>3, <3>2, <3>3 DEF Channel!ChannelNext, Channel!SendTo, Channel!Insert
    <2>5. CASE r.call = "jam"
        <3>1. JamEffect(msg)
            BY <2>2, <2>5 DEF Effect
        <3>2. /\ JamIndex = Place(firstIndex + msgCount - 1)
              /\ msgArray' = [msgArray EXCEPT ![JamIndex] = msg]
              /\ firstIndex' = JamIndex /\ usedCount' = usedCount + 1 /\ received' = received
            BY <3>1 DEF JamEffect, JamIndex, Place
        <3>3. Contents' = <<msg>> \o Contents
            <4>1. Ring([msgArray EXCEPT ![JamIndex] = msg], JamIndex, usedCount + 1)
                     = <<msg>> \o Ring(msgArray, firstIndex, usedCount)
                <5>1. firstIndex \in Index /\ msg \in Message
                    BY <2>2 DEF Index
                <5> HIDE MessageQueues DEF MessageTypeOK, Blocked, Full, Empty, Sends
                <5> QED
                    BY <1>1, <2>1, <3>2, <5>1, RingPrepend
            <4> QED
                BY <3>2, <4>1, ContentsIsRing
        <3> QED
            BY <2>3, <3>2, <3>3 DEF Channel!ChannelNext, Channel!JamTo, Channel!Insert
    <2> QED
        BY <1>3, <2>4, <2>5
<1>4. CASE r.call \in {"receive", "read"}
    <2>1. usedCount \in 1 .. msgCount
        BY <1>4
    <2>2. /\ Contents # << >> /\ Head(Contents) = msgArray[firstIndex]
          /\ Tail(Contents) = Ring(msgArray, Place(firstIndex + 1), usedCount - 1)
        BY <1>1, <2>1, ContentsIsRing, RingHeadTail
    <2>3. CASE r.call = "receive"
        <3>1. ReceiveEffect(caller)
            BY <2>3 DEF Effect
        <3>2. /\ received' = [received EXCEPT ![caller] = Head(Contents)]
              /\ Contents' = Tail(Contents)
            BY <2>2, <3>1, ContentsIsRing DEF ReceiveEffect, Place
        <3> QED
            BY <2>2, <3>2 DEF Channel!ChannelNext, Channel!ReceiveBy
    <2>4. CASE r.call = "read"
        <3>1. ReadEffect(caller)
            BY <2>4 DEF Effect
        <3>2. /\ received' = [received EXCEPT ![caller] = Head(Contents)]
              /\ Contents' = Contents
            BY <2>2, <3>1, ContentsIsRing DEF ReadEffect, mqVars
        <3> QED
            BY <2>2, <3>2 DEF Channel!ChannelNext, Channel!ReadBy
    <2> QED
        BY <1>4, <2>3, <2>4
<1> QED
    BY <1>3, <1>4 DEF Request

\* The message queue is the bounded channel: whatever the threads, the handlers and the
\* scheduler do, messages leave in the order they were sent and jammed, each once.
THEOREM QueueIsChannel == MessageSpec => RefinesChannel
<1>1. MessageInit => Channel!ChannelInit
    <2> SUFFICES ASSUME MessageInit PROVE Channel!ChannelInit
        OBVIOUS
    <2>1. Contents = << >>
        BY DEF MessageInit, Contents
    <2> QED
        BY <2>1 DEF MessageInit, Channel!ChannelInit
<1>2. MessageInv /\ [MessageNext]_mqAllVars => [Channel!ChannelNext]_<<Contents, received>>
    <2> SUFFICES ASSUME MessageInv, [MessageNext]_mqAllVars
                 PROVE  Channel!ChannelNext \/ UNCHANGED <<Contents, received>>
        OBVIOUS
    <2>1. MessageTypeOK
        BY DEF MessageInv, WaitInv, NobodyMissesMessages
    <2>2. ASSUME UNCHANGED <<mqVars, received>> PROVE UNCHANGED <<Contents, received>>
        BY <2>2 DEF mqVars, Contents
    <2>3. ASSUME NEW self \in Thread, MessageStep(self)
          PROVE  Channel!ChannelNext \/ UNCHANGED <<mqVars, received>>
        <3>1. ASSUME NEW r \in Request, CallNow(self, r) \/ CallAndWait(self, r)
              PROVE  Channel!ChannelNext \/ UNCHANGED <<mqVars, received>>
            BY <2>1, <3>1, EffectIsChannelStep DEF CallNow, CallAndWait, Wait
        <3>2. ASSUME CallLoop(self)
              PROVE  Channel!ChannelNext \/ UNCHANGED <<mqVars, received>>
            <4>1. request[self] \in Request
                BY <2>1, <3>2 DEF MessageTypeOK, CallLoop
            <4> QED
                BY <2>1, <3>2, <4>1, EffectIsChannelStep DEF CallLoop, Wait
        <3> QED
            BY <2>3, <3>1, <3>2 DEF MessageStep
    <2>4. ASSUME NEW r \in Request, IrqCall(r) PROVE Channel!ChannelNext
        BY <2>1, <2>4, EffectIsChannelStep DEF IrqCall
    <2> QED
        BY <2>2, <2>3, <2>4 DEF MessageNext, mqAllVars
<1> QED
    BY <1>1, <1>2, MessageInvariant, PTL DEF MessageSpec, RefinesChannel, Channel!ChannelSpec
=============================================================================
