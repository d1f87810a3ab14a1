--------------------------- MODULE OSThread_proofs ---------------------------
(***************************************************************************)
(* Proofs about OSThread, for any number of threads and queues.            *)
(*                                                                         *)
(* TypeOK, LinkConsistent, NoJoinerLeft and SleepAlarmMatchesSleeper are   *)
(* proved together, as parts of one inductive invariant, LinkInv.  The     *)
(* lemmas of the first part are about the effects the calls are built from *)
(* (Block, Wakeup, WakeupDirect, Terminate, ChangePriority); the lemmas of *)
(* the second part have one step per call.  Locks_proofs uses both.  That  *)
(* there is always a thread to run, and that it is the most urgent one, is *)
(* proved of kernels where no interrupt falls between the reading of the   *)
(* list and the mask in OS_SetThreadPriority.                              *)
(***************************************************************************)
EXTENDS OSThread, TLAPS, WellFoundedInduction, SequenceTheorems

-----------------------------------------------------------------------------
(* The inductive invariant *)

\* A thread is inside a call, or running, exactly when it is alive.
OpLive == \A t \in Thread : op[t] = "none" <=> ~Live(t)

\* A thread inside OS_WaitIrq is linked in OSi_IrqThreadQueue or nowhere, one
\* inside OS_Sleep nowhere: each can be linked when it goes back to sleep.
LinkPlace == \A t \in Thread :
    /\ op[t] \in {"irqcheck", "irqsleep"} => queue[t] \in {NULL, IrqQueue}
    /\ op[t] = "sleep" => queue[t] = NULL

LinkInv == /\ TypeOK
           /\ LinkConsistent
           /\ NoJoinerLeft
           /\ SleepAlarmMatchesSleeper
           /\ OpLive
           /\ LinkPlace

-----------------------------------------------------------------------------
(* Lists *)

NatLess == {ss \in Nat \X Nat : ss[1] < ss[2]}

\* A non-empty set of numbers has a first one.
LEMMA FirstIsLeast ==
    ASSUME NEW I \in SUBSET Nat, I # {}
    PROVE  First(I) \in I /\ \A j \in I : First(I) <= j
<1>1. PICK i \in I : \A j \in I : ~(<<j, i>> \in NatLess)
    <2>1. IsWellFoundedOn(NatLess, Nat)
        BY NatLessThanWellFounded, Zenon DEF OpToRel, NatLess
    <2> QED
        BY <2>1, WFMin
<1>2. \A j \in I : ~(j < i)
    BY <1>1 DEF NatLess
<1>3. \A j \in I : i <= j
    BY <1>2
<1> QED
    BY <1>3 DEF First

\* A non-empty set of numbers that has a bound has a last one.
LEMMA HindmostIsLast ==
    ASSUME NEW n \in Nat, NEW I \in SUBSET (0 .. n), I # {}
    PROVE  Hindmost(I) \in I /\ \A j \in I : j <= Hindmost(I)
<1> DEFINE J == {k \in 0 .. n : n - k \in I}
<1>1. J \in SUBSET Nat /\ J # {}
    <2>1. PICK i \in I : TRUE
        OBVIOUS
    <2>2. n - i \in 0 .. n /\ n - (n - i) = i
        BY <2>1
    <2>3. n - i \in J
        BY <2>1, <2>2
    <2> QED
        BY <2>3
<1>2. First(J) \in J /\ \A k \in J : First(J) <= k
    <2> HIDE DEF J
    <2> QED
        BY <1>1, FirstIsLeast
<1>3. \A j \in I : n - j \in J
    <2> TAKE j \in I
    <2>1. n - j \in 0 .. n /\ n - (n - j) = j
        OBVIOUS
    <2> QED
        BY <2>1
<1>4. n - First(J) \in I /\ \A j \in I : j <= n - First(J)
    <2>1. First(J) \in 0 .. n /\ n - First(J) \in I
        BY <1>2
    <2>2. \A j \in I : First(J) <= n - j
        BY <1>2, <1>3
    <2> HIDE DEF J
    <2> QED
        BY <2>1, <2>2
<1> HIDE DEF J
<1> QED
    BY <1>4 DEF Hindmost

LEMMA PositionInList ==
    ASSUME NEW l \in Seq(Thread), NEW t, \E i \in 1 .. Len(l) : l[i] = t
    PROVE  Position(l, t) \in 1 .. Len(l) /\ l[Position(l, t)] = t
<1> DEFINE I == {i \in 1 .. Len(l) : l[i] = t}
<1>1. I \in SUBSET Nat /\ I # {}
    OBVIOUS
<1>2. First(I) \in I
    BY <1>1, FirstIsLeast
<1> QED
    BY <1>2 DEF Position

LEMMA RemoveThreadType ==
    ASSUME NEW l \in Seq(Thread), NEW t
    PROVE  RemoveThread(l, t) \in Seq(Thread)
BY PositionInList DEF RemoveThread

LEMMA InsertThreadType ==
    ASSUME NEW l \in Seq(Thread), NEW pr, NEW t \in Thread
    PROVE  /\ InsertThread(l, pr, t) \in Seq(Thread)
           /\ Len(InsertThread(l, pr, t)) = Len(l) + 1
<1> DEFINE I == {i \in 1 .. Len(l) : pr[l[i]] >= pr[t]} \cup {Len(l) + 1}
<1>1. First(I) \in I
    <2>1. I \in SUBSET Nat /\ I # {}
        OBVIOUS
    <2> HIDE DEF I
    <2> QED
        BY <2>1, FirstIsLeast
<1>2. First(I) \in 1 .. Len(l) + 1
    BY <1>1
<1>3. ASSUME NEW k \in 1 .. Len(l) + 1
      PROVE  LET r == SubSeq(l, 1, k - 1) \o <<t>> \o SubSeq(l, k, Len(l))
             IN  r \in Seq(Thread) /\ Len(r) = Len(l) + 1
    <2> DEFINE a == SubSeq(l, 1, k - 1)
               c == SubSeq(l, k, Len(l))
    <2>1. a \in Seq(Thread) /\ Len(a) = k - 1
        OBVIOUS
    <2>2. c \in Seq(Thread) /\ Len(c) = Len(l) - k + 1
        OBVIOUS
    <2> HIDE DEF a, c
    <2>3. a \o <<t>> \o c \in Seq(Thread) /\ Len(a \o <<t>> \o c) = Len(a) + 1 + Len(c)
        BY <2>1, <2>2
    <2>4. Len(a) + 1 + Len(c) = Len(l) + 1
        BY <2>1, <2>2
    <2> QED
        BY <2>3, <2>4 DEF a, c
<1> QED
    BY <1>2, <1>3 DEF InsertThread

LEMMA NextOfType ==
    ASSUME list \in Seq(Thread), next \in [Thread -> Thread \cup {NULL}], NEW t \in Thread
    PROVE  NextOf(t) \in Thread \cup {NULL}
<1>1. CASE Contains(list, t)
    <2>1. Position(list, t) \in 1 .. Len(list)
        BY <1>1, PositionInList DEF Contains
    <2> QED
        BY <1>1, <2>1 DEF NextOf
<1>2. CASE ~Contains(list, t)
    BY <1>2 DEF NextOf
<1> QED
    BY <1>1, <1>2

LEMMA KeepNextType ==
    ASSUME next \in [Thread -> Thread \cup {NULL}], NEW f,
           \A x \in Thread : f[x] \in Thread \cup {NULL}, KeepNext(f)
    PROVE  next' \in [Thread -> Thread \cup {NULL}]
BY DEF KeepNext

LEMMA UnlinkedType ==
    ASSUME list \in Seq(Thread), next \in [Thread -> Thread \cup {NULL}], NEW t \in Thread
    PROVE  Unlinked(t) \in Seq(Thread)
<1>1. RemoveThread(list, t) \in Seq(Thread)
    BY RemoveThreadType
<1>2. next[t] # NULL => Append(list, next[t]) \in Seq(Thread)
    OBVIOUS
<1> QED
    BY <1>1, <1>2 DEF Unlinked

LEMMA WalksType ==
    ASSUME list \in Seq(Thread), NEW head, NEW w \in Walks(head)
    PROVE  w \in Seq(Thread)
<1>1. CASE Contains(list, head)
    <2>1. Position(list, head) \in 1 .. Len(list)
        BY <1>1, PositionInList DEF Contains
    <2>2. \A i \in 1 .. Len(list) : SubSeq(list, i, Len(list)) \in Seq(Thread)
        OBVIOUS
    <2> QED
        BY <1>1, <2>1, <2>2 DEF Walks
<1>2. CASE ~Contains(list, head)
    <2>1. w \in SeqOf(Thread, Cardinality(Thread))
        BY <1>2 DEF Walks
    <2>2. PICK m \in Nat : w \in [1 .. m -> Thread]
        BY <2>1 DEF SeqOf
    <2> QED
        BY <2>2
<1> QED
    BY <1>1, <1>2

LEMMA SelectThreadType ==
    ASSUME NEW l \in Seq(Thread), NEW st
    PROVE  SelectThread(l, st) \in Thread \cup {NULL}
<1> DEFINE I == {i \in 1 .. Len(l) : st[l[i]] = "ready"}
<1>1. CASE I = {}
    BY <1>1 DEF SelectThread
<1>2. CASE I # {}
    <2>1. First(I) \in I
        <3>1. I \in SUBSET Nat
            OBVIOUS
        <3> QED
            BY <1>2, <3>1, FirstIsLeast
    <2>2. l[First(I)] \in Thread
        BY <2>1
    <2> QED
        BY <1>2, <2>2 DEF SelectThread
<1> QED
    BY <1>1, <1>2

-----------------------------------------------------------------------------
(* Effects *)

State == {"none", "waiting", "ready", "terminated"}

LEMMA NullIsNoQueue == NULL \notin WaitQueue /\ NULL \notin Thread /\ IrqQueue \in WaitQueue
BY ThreadAssumption DEF ThreadAssumption, WaitQueue

LEMMA RescheduleThreadType ==
    ASSUME KernelTypeOK, RescheduleThread,
           list' \in Seq(Thread), rescheduleCount' \in Nat, irqMode' \in BOOLEAN
    PROVE  /\ current' \in Thread
           /\ isNeedRescheduling' \in BOOLEAN
           /\ missed' \in BOOLEAN
<1>1. SelectThread(list', state') \in Thread \cup {NULL}
    BY SelectThreadType
<1> QED
    BY <1>1 DEF RescheduleThread, KernelTypeOK

\* What the calls change of the kernel's variables leaves the types, the links
\* and the joins right, and each thread as alive as it was.
KernelInv == KernelTypeOK /\ LinkConsistent /\ NoJoinerLeft

LEMMA BlockEffect ==
    ASSUME KernelInv, NEW t \in Thread, Live(t), NEW q \in WaitQueue \cup {NULL},
           q # NULL => queue[t] \in {NULL, q},
           q \in Thread => Live(q),
           Block(t, q), UNCHANGED <<rescheduleCount, irqMode>>
    PROVE  /\ KernelInv'
           /\ state' = [state EXCEPT ![t] = "waiting"]
           /\ \A x \in Thread : Live(x)' <=> Live(x)
           /\ queue' = IF q = NULL THEN queue ELSE [queue EXCEPT ![t] = q]
<1>1. state' = [state EXCEPT ![t] = "waiting"] /\ UNCHANGED <<list, next, priority>>
    BY DEF Block
<1>2. waiters' = IF q = NULL THEN waiters ELSE [waiters EXCEPT ![q] = @ \cup {t}]
    BY DEF Block
<1>3. queue' = IF q = NULL THEN queue ELSE [queue EXCEPT ![t] = q]
    BY DEF Block
<1>4. KernelTypeOK'
    <2>1. /\ current' \in Thread
          /\ isNeedRescheduling' \in BOOLEAN
          /\ missed' \in BOOLEAN
        BY <1>1, RescheduleThreadType DEF KernelInv, KernelTypeOK, Block
    <2>2. waiters' \in [WaitQueue -> SUBSET Thread] /\ queue' \in [Thread -> WaitQueue \cup {NULL}]
        BY <1>2, <1>3 DEF KernelInv, KernelTypeOK
    <2> QED
        BY <1>1, <2>1, <2>2 DEF KernelInv, KernelTypeOK
<1>5. \A x \in Thread : Live(x)' <=> Live(x)
    BY <1>1 DEF KernelInv, KernelTypeOK, Live
<1>6. LinkConsistent'
    <2>0. NULL \notin WaitQueue
        BY NullIsNoQueue
    <2> USE <2>0 DEF KernelInv, KernelTypeOK, LinkConsistent
    <2>1. CASE q = NULL
        BY <2>1, <1>2, <1>3, <1>5
    <2>2. CASE q # NULL
        <3>1. ASSUME NEW p \in WaitQueue, NEW x \in waiters'[p]
              PROVE  x \in Thread /\ Live(x)' /\ queue'[x] = p
            BY <2>2, <3>1, <1>2, <1>3, <1>5
        <3>2. ASSUME NEW x \in Thread, Live(x)', queue'[x] # NULL
              PROVE  x \in waiters'[queue'[x]]
            BY <2>2, <3>2, <1>2, <1>3, <1>5
        <3> QED
            BY <3>1, <3>2
    <2> QED
        BY <2>1, <2>2
<1>7. NoJoinerLeft'
    BY <1>2, <1>5 DEF KernelInv, KernelTypeOK, NoJoinerLeft, WaitQueue
<1> QED
    BY <1>1, <1>3, <1>4, <1>5, <1>6, <1>7 DEF KernelInv

LEMMA WakeupEffect ==
    ASSUME KernelInv, NEW q \in WaitQueue, Wakeup(q), UNCHANGED <<rescheduleCount, irqMode>>
    PROVE  /\ KernelInv'
           /\ \A x \in Thread : Live(x)' <=> Live(x)
           /\ \A x \in Thread : state'[x] \in {state[x], "ready"}
           /\ \A x \in Thread : queue'[x] \in {queue[x], NULL}
           /\ waiters' = [waiters EXCEPT ![q] = {}]
           /\ \A x \in waiters[q] : state'[x] = "ready"
<1> USE DEF KernelInv
<1>1. /\ state' = [t \in Thread |-> IF t \in waiters[q] THEN "ready" ELSE state[t]]
      /\ queue' = [t \in Thread |-> IF t \in waiters[q] THEN NULL ELSE queue[t]]
      /\ waiters' = [waiters EXCEPT ![q] = {}]
      /\ UNCHANGED <<list, next, priority>>
    BY DEF Wakeup
<1>2. KernelTypeOK'
    <2>1. /\ current' \in Thread
          /\ isNeedRescheduling' \in BOOLEAN
          /\ missed' \in BOOLEAN
        BY <1>1, RescheduleThreadType DEF KernelTypeOK, Wakeup, RescheduleIf, schedVars
    <2> QED
        BY <1>1, <2>1 DEF KernelTypeOK
<1>3. \A x \in waiters[q] : x \in Thread /\ Live(x)
    BY DEF KernelTypeOK, LinkConsistent
<1>4. \A x \in Thread : Live(x)' <=> Live(x)
    BY <1>1, <1>3 DEF KernelTypeOK, Live
<1>5. LinkConsistent'
    <2>1. ASSUME NEW p \in WaitQueue, NEW x \in waiters'[p]
          PROVE  x \in Thread /\ Live(x)' /\ queue'[x] = p
        BY <2>1, <1>1, <1>4 DEF KernelTypeOK, LinkConsistent
    <2>2. ASSUME NEW x \in Thread, Live(x)', queue'[x] # NULL
          PROVE  x \in waiters'[queue'[x]]
        BY <2>2, <1>1, <1>4 DEF KernelTypeOK, LinkConsistent
    <2> QED
        BY <2>1, <2>2 DEF LinkConsistent
<1>6. NoJoinerLeft'
    BY <1>1, <1>4 DEF KernelTypeOK, NoJoinerLeft, WaitQueue
<1> QED
    BY <1>1, <1>2, <1>3, <1>4, <1>5, <1>6 DEF KernelTypeOK

LEMMA WakeupDirectEffect ==
    ASSUME KernelInv, NEW t \in Thread, Live(t), WakeupDirect(t),
           UNCHANGED <<rescheduleCount, irqMode>>
    PROVE  /\ KernelInv'
           /\ \A x \in Thread : Live(x)' <=> Live(x)
           /\ state' = [state EXCEPT ![t] = "ready"]
           /\ queue' = queue /\ waiters' = waiters
<1> USE DEF KernelInv
<1>1. /\ state' = [state EXCEPT ![t] = "ready"]
      /\ UNCHANGED <<list, next, priority, waiters, queue>>
    BY DEF WakeupDirect, queueVars
<1>2. KernelTypeOK'
    <2>1. /\ current' \in Thread
          /\ isNeedRescheduling' \in BOOLEAN
          /\ missed' \in BOOLEAN
        BY <1>1, RescheduleThreadType DEF KernelTypeOK, WakeupDirect
    <2> QED
        BY <1>1, <2>1 DEF KernelTypeOK
<1>3. \A x \in Thread : Live(x)' <=> Live(x)
    BY <1>1 DEF KernelTypeOK, Live
<1> QED
    BY <1>1, <1>2, <1>3 DEF KernelTypeOK, LinkConsistent, NoJoinerLeft

\* The end of a thread, as far as the variables that Terminate sets go.
LEMMA TerminateEffect ==
    ASSUME KernelInv, NEW t \in Thread, Live(t), NEW Q \in SUBSET Queue, Terminate(t, Q)
    PROVE  /\ list' \in Seq(Thread)
           /\ next' \in [Thread -> Thread \cup {NULL}]
           /\ state' \in [Thread -> State]
           /\ priority' = priority
           /\ waiters' \in [WaitQueue -> SUBSET Thread]
           /\ queue' \in [Thread -> WaitQueue \cup {NULL}]
           /\ LinkConsistent'
           /\ NoJoinerLeft'
           /\ ~Live(t)'
           /\ \A x \in Thread \ {t} : /\ Live(x)' <=> Live(x)
                                      /\ state'[x] \in {state[x], "ready"}
           /\ \A x \in Thread : queue'[x] \in {queue[x], NULL}
           /\ \A q \in WaitQueue : waiters'[q] \subseteq waiters[q]
           /\ \A q \in Q : waiters'[q] = {}
           /\ \A q \in WaitQueue : \A x \in waiters[q] \ waiters'[q] :
                 x = t \/ state'[x] = "ready"
<1> USE DEF KernelInv, KernelTypeOK
<1> DEFINE W     == WokenAtEnd(t, Q)
           woken == UNION {waiters[q] : q \in W}
<1>0. W \subseteq WaitQueue /\ W = Q \cup {t}
    BY DEF WokenAtEnd, WaitQueue
<1>1. state' = [x \in Thread |-> IF x = t THEN "terminated"
                                 ELSE IF x \in woken THEN "ready" ELSE state[x]]
    BY DEF Terminate
<1>2. queue' = [x \in Thread |-> IF x \in woken THEN NULL ELSE queue[x]]
    BY DEF Terminate
<1>3. waiters' = [q \in WaitQueue |-> IF q \in W THEN {}
                                      ELSE IF q = queue[t] THEN waiters[q] \ {t}
                                      ELSE waiters[q]]
    BY <1>0 DEF Terminate, RemoveSpecifiedLink
<1>4. \A x \in woken : x \in Thread /\ Live(x) /\ queue[x] \in W
    BY <1>0 DEF LinkConsistent
<1>5. \A x \in Thread : Live(x) /\ queue[x] \in W => x \in woken
    BY <1>0, NullIsNoQueue DEF LinkConsistent
<1> HIDE DEF W, woken
<1>6. /\ list' \in Seq(Thread) /\ priority' = priority
      /\ next' \in [Thread -> Thread \cup {NULL}]
    <2>1. \A x \in Thread : [y \in Thread |-> NextOf(y)][x] \in Thread \cup {NULL}
        BY NextOfType
    <2>2. /\ list' = Unlinked(t) /\ priority' = priority
          /\ KeepNext([y \in Thread |-> NextOf(y)])
        BY DEF Terminate
    <2>3. next' \in [Thread -> Thread \cup {NULL}]
        BY <2>1, <2>2, KeepNextType
    <2> QED
        BY <2>2, <2>3, UnlinkedType
<1>7. state' \in [Thread -> State] /\ queue' \in [Thread -> WaitQueue \cup {NULL}]
    BY <1>1, <1>2 DEF State
<1>8. waiters' \in [WaitQueue -> SUBSET Thread]
    BY <1>3
<1>9. ~Live(t)' /\ \A x \in Thread \ {t} : Live(x)' <=> Live(x)
    BY <1>1, <1>4 DEF Live
<1>10. LinkConsistent'
    <2>1. ASSUME NEW p \in WaitQueue, NEW x \in waiters'[p]
          PROVE  x \in Thread /\ Live(x)' /\ queue'[x] = p
        <3>1. x \in waiters[p] /\ p \notin W /\ ~(p = queue[t] /\ x = t)
            BY <2>1, <1>3
        <3>2. x \in Thread /\ Live(x) /\ queue[x] = p
            BY <3>1 DEF LinkConsistent
        <3>3. x # t /\ x \notin woken
            BY <3>1, <3>2, <1>4
        <3> QED
            BY <3>2, <3>3, <1>2, <1>9
    <2>2. ASSUME NEW x \in Thread, Live(x)', queue'[x] # NULL
          PROVE  x \in waiters'[queue'[x]]
        <3>1. x # t /\ x \notin woken /\ queue'[x] = queue[x] /\ Live(x)
            BY <2>2, <1>2, <1>9
        <3>2. x \in waiters[queue[x]] /\ queue[x] \in WaitQueue
            BY <2>2, <3>1 DEF LinkConsistent
        <3>3. queue[x] \notin W
            BY <3>1, <1>5
        <3> QED
            BY <3>1, <3>2, <3>3, <1>3
    <2> QED
        BY <2>1, <2>2 DEF LinkConsistent
<1>11. NoJoinerLeft'
    BY <1>0, <1>3, <1>9 DEF NoJoinerLeft, WaitQueue
<1>12. \A q \in WaitQueue : \A x \in waiters[q] \ waiters'[q] : x = t \/ state'[x] = "ready"
    <2> TAKE q \in WaitQueue
    <2> TAKE x \in waiters[q] \ waiters'[q]
    <2>1. CASE q \in W
        BY <2>1, <1>0, <1>1 DEF woken, W
    <2>2. CASE q \notin W
        BY <2>2, <1>3
    <2> QED
        BY <2>1, <2>2
<1> QED
    BY <1>0, <1>1, <1>2, <1>3, <1>6, <1>7, <1>8, <1>9, <1>10, <1>11, <1>12

LEMMA ChangePriorityType ==
    ASSUME KernelTypeOK, NEW t \in Thread, NEW prio \in Prio, NEW walk \in Seq(Thread),
           ChangePriority(t, prio, walk)
    PROVE  /\ list' \in Seq(Thread)
           /\ next' \in [Thread -> Thread \cup {NULL}]
           /\ priority' \in [Thread -> Prio \cup {LauncherPrio, IdlePrio}]
<1> USE DEF KernelTypeOK
<1>1. CASE Contains(walk, t) /\ priority[t] # prio
    <2> DEFINE k     == Position(walk, t)
               gone  == k > 1 /\ ~Contains(list, walk[k - 1])
               rest  == IF k = 1 THEN Tail(walk) ELSE IF gone THEN list ELSE RemoveThread(list, t)
               links == [x \in Thread |-> IF gone /\ x = walk[k - 1] THEN NextOf(t) ELSE NextOf(x)]
               whole == InsertThread(list, priority', t)
    <2>1. /\ priority' = [priority EXCEPT ![t] = prio]
          /\ list' = IF gone /\ Contains(list, t)
                     THEN SubSeq(whole, 1, Position(list, t) + 1)
                     ELSE InsertThread(rest, priority', t)
          /\ KeepNext(links)
        BY <1>1 DEF ChangePriority
    <2>2. k \in 1 .. Len(walk)
        BY <1>1, PositionInList DEF Contains
    <2>3. rest \in Seq(Thread)
        <3>1. Tail(walk) \in Seq(Thread)
            BY <2>2
        <3> QED
            BY <3>1, RemoveThreadType
    <2>4. \A x \in Thread : links[x] \in Thread \cup {NULL}
        BY NextOfType
    <2> HIDE DEF k, gone, rest, links
    <2>5. next' \in [Thread -> Thread \cup {NULL}]
        BY <2>1, <2>4, KeepNextType
    <2>6. Contains(list, t) => SubSeq(whole, 1, Position(list, t) + 1) \in Seq(Thread)
        <3>1. whole \in Seq(Thread) /\ Len(whole) = Len(list) + 1
            BY InsertThreadType
        <3>2. Contains(list, t) => Position(list, t) \in 1 .. Len(list)
            BY PositionInList DEF Contains
        <3> HIDE DEF whole
        <3> QED
            BY <3>1, <3>2
    <2>7. InsertThread(rest, priority', t) \in Seq(Thread)
        BY <2>3, InsertThreadType
    <2> QED
        BY <2>1, <2>5, <2>6, <2>7
<1>2. CASE ~(Contains(walk, t) /\ priority[t] # prio)
    BY <1>2 DEF ChangePriority
<1> QED
    BY <1>1, <1>2

-----------------------------------------------------------------------------
(* Calls *)

\* The part of LinkInv that is not KernelInv.
CallInv == CallTypeOK /\ SleepAlarmMatchesSleeper /\ OpLive /\ LinkPlace

LEMMA LinkInvParts == /\ LinkInv <=> KernelInv /\ CallInv
                      /\ LinkInv' <=> KernelInv' /\ CallInv'
BY DEF LinkInv, KernelInv, CallInv, TypeOK

\* A call that leaves the kernel's variables alone leaves KernelInv alone.
LEMMA KernelUnchanged ==
    ASSUME KernelInv, UNCHANGED <<threadVars, queueVars, schedVars>>,
           rescheduleCount' \in Nat, irqMode' \in BOOLEAN
    PROVE  /\ KernelInv'
           /\ \A x \in Thread : Live(x)' <=> Live(x)
           /\ state' = state /\ queue' = queue
BY DEF KernelInv, KernelTypeOK, LinkConsistent, NoJoinerLeft, Live,
       threadVars, queueVars, schedVars

\* The running thread, and every thread inside a call, is alive.
LEMMA RunningLive ==
    ASSUME LinkInv, NEW t \in Thread, op[t] # "none"
    PROVE  Live(t)
BY DEF LinkInv, OpLive

LEMMA CreateThreadInv ==
    ASSUME LinkInv, NEW self \in Thread, NEW t \in User, NEW prio \in Prio, NEW d \in BOOLEAN,
           CreateThread(self, t, prio, d)
    PROVE  LinkInv'
<1> USE DEF LinkInv, TypeOK, KernelTypeOK, CallTypeOK
<1>1. t \in Thread /\ ~Live(t) /\ t \in WaitQueue
    BY DEF CreateThread, User, WaitQueue
<1>2. /\ state' = [state EXCEPT ![t] = "waiting"]
      /\ priority' = [priority EXCEPT ![t] = prio]
      /\ list' = InsertThread(list, priority', t) /\ KeepNext(next)
      /\ waiters' = [waiters EXCEPT ![t] = {}]
      /\ queue' = [queue EXCEPT ![t] = NULL]
      /\ destructor' = [destructor EXCEPT ![t] = d]
      /\ op' = [op EXCEPT ![t] = "run"]
      /\ arg' = [arg EXCEPT ![t] = NULL]
      /\ UNCHANGED <<sleepAlarm, current, isNeedRescheduling, missed, irqMode, irqFlag,
                     rescheduleCount>>
    BY DEF CreateThread, schedVars, irqVars
<1>3. KernelTypeOK'
    <2>1. next' \in [Thread -> Thread \cup {NULL}] /\ list' \in Seq(Thread)
        BY <1>1, <1>2, InsertThreadType, KeepNextType
    <2> QED
        BY <1>1, <1>2, <2>1
<1>4. CallTypeOK'
    BY <1>1, <1>2 DEF Op
<1>5. Live(t)' /\ \A x \in Thread \ {t} : Live(x)' <=> Live(x)
    BY <1>1, <1>2 DEF Live
<1>6. waiters[t] = {}
    BY <1>1 DEF NoJoinerLeft
<1>7. LinkConsistent'
    <2>1. ASSUME NEW p \in WaitQueue, NEW x \in waiters'[p]
          PROVE  x \in Thread /\ Live(x)' /\ queue'[x] = p
        BY <2>1, <1>1, <1>2, <1>5 DEF LinkConsistent
    <2>2. ASSUME NEW x \in Thread, Live(x)', queue'[x] # NULL
          PROVE  x \in waiters'[queue'[x]]
        BY <2>2, <1>1, <1>2, <1>5, <1>6 DEF LinkConsistent
    <2> QED
        BY <2>1, <2>2 DEF LinkConsistent
<1>8. NoJoinerLeft'
    BY <1>1, <1>2, <1>5, <1>6 DEF NoJoinerLeft, WaitQueue
<1>9. t \notin sleepAlarm
    BY <1>1 DEF SleepAlarmMatchesSleeper
<1>10. SleepAlarmMatchesSleeper'
    BY <1>1, <1>2, <1>5, <1>9 DEF SleepAlarmMatchesSleeper
<1>11. OpLive' /\ LinkPlace'
    BY <1>1, <1>2, <1>5 DEF OpLive, LinkPlace
<1> QED
    BY <1>3, <1>4, <1>7, <1>8, <1>10, <1>11

\* What the three ends of a thread have in common.
LEMMA EndInv ==
    ASSUME LinkInv, NEW t \in Thread, Live(t), NEW Q \in SUBSET Queue, Terminate(t, Q),
           current' \in Thread, isNeedRescheduling' \in BOOLEAN, missed' \in BOOLEAN,
           UNCHANGED <<destructor, irqMode, irqFlag, rescheduleCount>>,
           sleepAlarm' = sleepAlarm \ {t},
           NEW self \in Thread, self # t => op[self] = "run",
           op' = [op EXCEPT ![self] = "reschedule", ![t] = "none"],
           arg' \in {arg, [arg EXCEPT ![t] = NULL]}
    PROVE  LinkInv'
<1> USE DEF LinkInv, TypeOK, KernelTypeOK, CallTypeOK
<1>1. KernelInv
    BY DEF KernelInv
<1>2. KernelTypeOK' /\ LinkConsistent' /\ NoJoinerLeft'
    BY <1>1, TerminateEffect DEF State
<1>3. CallTypeOK'
    BY DEF Op
<1>4. ~Live(t)' /\ \A x \in Thread \ {t} : (Live(x)' <=> Live(x)) /\ state'[x] \in {state[x], "ready"}
    BY <1>1, TerminateEffect
<1>5. \A x \in Thread : queue'[x] \in {queue[x], NULL}
    BY <1>1, TerminateEffect
<1>6. OpLive' /\ LinkPlace'
    BY <1>4, <1>5 DEF OpLive, LinkPlace
<1>7. SleepAlarmMatchesSleeper'
    BY <1>4 DEF SleepAlarmMatchesSleeper
<1> QED
    BY <1>2, <1>3, <1>6, <1>7

LEMMA RescheduleAfterEnd ==
    ASSUME LinkInv, NEW t \in Thread, Live(t), NEW Q \in SUBSET Queue, Terminate(t, Q),
           RescheduleThread, UNCHANGED <<rescheduleCount, irqMode>>
    PROVE  current' \in Thread /\ isNeedRescheduling' \in BOOLEAN /\ missed' \in BOOLEAN
<1>1. KernelInv
    BY DEF LinkInv, KernelInv, TypeOK
<1>2. list' \in Seq(Thread)
    BY <1>1, TerminateEffect
<1> QED
    BY <1>1, <1>2, RescheduleThreadType DEF KernelInv, KernelTypeOK

LEMMA ExitThreadDestroyInv ==
    ASSUME LinkInv, NEW self \in Thread, NEW Q \in SUBSET Queue, ExitThreadDestroy(self, Q)
    PROVE  LinkInv'
<1>1. Live(self) /\ self \notin sleepAlarm /\ op[self] = "exit"
    BY RunningLive DEF ExitThreadDestroy, LinkInv, SleepAlarmMatchesSleeper
<1>2. current' \in Thread /\ isNeedRescheduling' \in BOOLEAN /\ missed' \in BOOLEAN
    BY <1>1, RescheduleAfterEnd DEF ExitThreadDestroy, irqVars
<1>3. /\ UNCHANGED <<destructor, irqMode, irqFlag, rescheduleCount, arg>>
      /\ sleepAlarm' = sleepAlarm \ {self}
      /\ op' = [op EXCEPT ![self] = "reschedule", ![self] = "none"]
    BY <1>1 DEF ExitThreadDestroy, irqVars, clientVars, LinkInv, TypeOK, CallTypeOK
<1> QED
    BY <1>1, <1>2, <1>3, EndInv DEF ExitThreadDestroy

LEMMA DestroySelfInv ==
    ASSUME LinkInv, NEW self \in Thread, NEW Q \in SUBSET Queue, DestroySelf(self, Q)
    PROVE  LinkInv'
<1>1. Live(self) /\ self \notin sleepAlarm /\ op[self] = "run"
    BY RunningLive DEF DestroySelf, Calling, LinkInv, SleepAlarmMatchesSleeper
<1>2. current' \in Thread /\ isNeedRescheduling' \in BOOLEAN /\ missed' \in BOOLEAN
    BY <1>1, RescheduleAfterEnd DEF DestroySelf, irqVars
<1>3. /\ UNCHANGED <<destructor, irqMode, irqFlag, rescheduleCount, arg>>
      /\ sleepAlarm' = sleepAlarm \ {self}
      /\ op' = [op EXCEPT ![self] = "reschedule", ![self] = "none"]
    BY <1>1 DEF DestroySelf, irqVars, clientVars, LinkInv, TypeOK, CallTypeOK
<1> QED
    BY <1>1, <1>2, <1>3, EndInv DEF DestroySelf

LEMMA DestroyThreadInv ==
    ASSUME LinkInv, NEW self \in Thread, NEW t \in User, NEW Q \in SUBSET Queue,
           DestroyThread(self, t, Q)
    PROVE  LinkInv'
<1>1. t \in Thread /\ Live(t) /\ op[self] = "run" /\ self # t
    BY DEF DestroyThread, Calling, User
<1>2. current' \in Thread /\ isNeedRescheduling' \in BOOLEAN /\ missed' \in BOOLEAN
    BY DEF DestroyThread, LinkInv, TypeOK, KernelTypeOK
<1>3. /\ UNCHANGED <<destructor, irqMode, irqFlag, rescheduleCount>>
      /\ arg' = [arg EXCEPT ![t] = NULL]
      /\ sleepAlarm' = sleepAlarm \ {t}
      /\ op' = [op EXCEPT ![self] = "reschedule", ![t] = "none"]
    BY <1>1 DEF DestroyThread, irqVars, CancelThreadAlarmForSleep, LinkInv, TypeOK, CallTypeOK
<1> QED
    BY <1>1, <1>2, <1>3, EndInv DEF DestroyThread

\* A call that moves no thread to another call, and makes none inside OS_Sleep
\* wait, leaves CallInv alone.
LEMMA CallsUnchanged ==
    ASSUME CallInv, UNCHANGED <<op, arg, destructor, sleepAlarm, irqFlag>>,
           \A x \in Thread : Live(x)' <=> Live(x),
           \A x \in Thread : op[x] = "sleep" /\ state'[x] = "waiting" => state[x] = "waiting",
           \A x \in Thread : op[x] \in {"sleep", "irqcheck", "irqsleep"}
                                => queue'[x] \in {queue[x], NULL}
    PROVE  CallInv'
<1> USE DEF CallInv
<1>1. CallTypeOK'
    BY DEF CallTypeOK
<1>2. SleepAlarmMatchesSleeper'
    BY DEF SleepAlarmMatchesSleeper, CallTypeOK
<1>3. OpLive' /\ LinkPlace'
    BY DEF OpLive, LinkPlace
<1> QED
    BY <1>1, <1>2, <1>3

\* A step of one thread t that moves it to another call, and that changes no
\* queue and no state.
LEMMA CallMoves ==
    ASSUME CallInv, NEW t \in Thread, NEW o \in Op, NEW a \in SetPriorityCall \cup Irq \cup {NULL},
           Live(t), o \notin {"none", "sleep"},
           o = "setprio" => a \in SetPriorityCall,
           o \in {"irqcheck", "irqsleep"} => a \in Irq /\ queue[t] \in {NULL, IrqQueue},
           t \notin sleepAlarm,
           op' = [op EXCEPT ![t] = o], arg' = [arg EXCEPT ![t] = a],
           destructor' \in [Thread -> BOOLEAN], sleepAlarm' = sleepAlarm, irqFlag' \subseteq Irq,
           state' = state, queue' = queue
    PROVE  CallInv'
<1> USE DEF CallInv
<1>1. CallTypeOK'
    BY DEF CallTypeOK
<1>2. SleepAlarmMatchesSleeper'
    BY DEF SleepAlarmMatchesSleeper, CallTypeOK, Live
<1>3. OpLive' /\ LinkPlace'
    BY DEF OpLive, LinkPlace, CallTypeOK, Live
<1> QED
    BY <1>1, <1>2, <1>3

\* OSi_RescheduleThread with nothing else.
LEMMA RescheduleKernel ==
    ASSUME KernelInv, RescheduleThread, UNCHANGED <<next, state, waiters, queue, priority>>,
           list' \in Seq(Thread), UNCHANGED <<rescheduleCount, irqMode>>
    PROVE  KernelInv' /\ \A x \in Thread : Live(x)' <=> Live(x)
<1> USE DEF KernelInv, KernelTypeOK
<1>1. current' \in Thread /\ isNeedRescheduling' \in BOOLEAN /\ missed' \in BOOLEAN
    BY RescheduleThreadType
<1> QED
    BY <1>1 DEF LinkConsistent, NoJoinerLeft, Live

LEMMA ExitThreadInv ==
    ASSUME LinkInv, NEW self \in Thread,
           ExitThread(self) \/ RunDestructor(self) \/ DestructorReturn(self)
    PROVE  LinkInv'
<1> USE LinkInvParts
<1>1. /\ UNCHANGED <<threadVars, queueVars, schedVars, irqMode, irqFlag, rescheduleCount, sleepAlarm>>
      /\ op[self] \notin {"none", "sleep"}
      /\ destructor' \in [Thread -> BOOLEAN]
    BY DEF ExitThread, RunDestructor, DestructorReturn, Calling, Running, irqVars, clientVars,
           CallInv, CallTypeOK
<1>2. KernelInv'
    BY <1>1, KernelUnchanged DEF KernelInv, KernelTypeOK
<1>3. PICK o \in {"exit", "destructor"}, a \in {NULL, arg[self]} :
         op' = [op EXCEPT ![self] = o] /\ arg' = [arg EXCEPT ![self] = a]
    BY DEF ExitThread, RunDestructor, DestructorReturn, CallInv, CallTypeOK, irqVars, clientVars
<1>4. Live(self) /\ self \notin sleepAlarm
    BY <1>1, RunningLive DEF LinkInv, SleepAlarmMatchesSleeper
<1>5. CallInv'
    <2>1. o \in Op /\ a \in SetPriorityCall \cup Irq \cup {NULL} /\ irqFlag' \subseteq Irq
        BY <1>1, <1>3 DEF Op, CallInv, CallTypeOK
    <2>2. state' = state /\ queue' = queue
        BY <1>1 DEF threadVars, queueVars
    <2> QED
        BY <1>1, <1>3, <1>4, <2>1, <2>2, CallMoves
<1> QED
    BY <1>2, <1>5

LEMMA DestroyRescheduleInv ==
    ASSUME LinkInv, NEW self \in Thread, DestroyReschedule(self)
    PROVE  LinkInv'
<1> USE LinkInvParts
<1>1. KernelInv' /\ state' = state /\ queue' = queue
    BY RescheduleKernel
       DEF DestroyReschedule, threadVars, queueVars, irqVars, KernelInv, KernelTypeOK
<1>2. /\ op' = [op EXCEPT ![self] = "run"] /\ arg' = [arg EXCEPT ![self] = arg[self]]
      /\ UNCHANGED <<destructor, sleepAlarm, irqFlag>>
      /\ Live(self) /\ self \notin sleepAlarm
    BY RunningLive DEF DestroyReschedule, clientVars, irqVars, LinkInv, TypeOK, CallTypeOK,
       SleepAlarmMatchesSleeper
<1>3. CallInv'
    <2>1. /\ "run" \in Op /\ arg[self] \in SetPriorityCall \cup Irq \cup {NULL}
          /\ irqFlag' \subseteq Irq /\ destructor' \in [Thread -> BOOLEAN]
        BY <1>2 DEF Op, CallInv, CallTypeOK
    <2> QED
        BY <1>1, <1>2, <2>1, CallMoves
<1> QED
    BY <1>1, <1>3

LEMMA KillThreadInv ==
    ASSUME LinkInv, NEW self \in Thread, NEW t \in User, NEW prio \in Prio,
           KillThread(self, t, prio)
    PROVE  LinkInv'
<1> USE DEF LinkInv, TypeOK, KernelTypeOK, CallTypeOK
<1>1. t \in Thread /\ Live(t)
    BY DEF KillThread, User
<1>2. /\ UNCHANGED <<waiters, queue, destructor, irqMode, irqFlag, rescheduleCount>>
      /\ sleepAlarm' = sleepAlarm \ {t}
      /\ op' = [op EXCEPT ![t] = "exit"] /\ arg' = [arg EXCEPT ![t] = NULL]
      /\ state' = [state EXCEPT ![t] = "ready"]
      /\ ChangePriority(t, prio, list) /\ RescheduleThread
    BY DEF KillThread, queueVars, irqVars, CancelThreadAlarmForSleep
<1>3. /\ list' \in Seq(Thread) /\ next' \in [Thread -> Thread \cup {NULL}]
      /\ priority' \in [Thread -> Prio \cup {LauncherPrio, IdlePrio}]
    BY <1>1, <1>2, ChangePriorityType
<1>4. current' \in Thread /\ isNeedRescheduling' \in BOOLEAN /\ missed' \in BOOLEAN
    BY <1>2, <1>3, RescheduleThreadType
<1>5. \A x \in Thread : Live(x)' <=> Live(x)
    BY <1>1, <1>2 DEF Live
<1>6. TypeOK'
    BY <1>1, <1>2, <1>3, <1>4 DEF Op
<1>7. LinkConsistent' /\ NoJoinerLeft'
    BY <1>2, <1>5 DEF LinkConsistent, NoJoinerLeft
<1>8. SleepAlarmMatchesSleeper'
    BY <1>1, <1>2, <1>5 DEF SleepAlarmMatchesSleeper
<1>9. OpLive' /\ LinkPlace'
    BY <1>1, <1>2, <1>5 DEF OpLive, LinkPlace
<1> QED
    BY <1>6, <1>7, <1>8, <1>9

\* OS_SleepThread, OS_SleepThreadDirect and OS_JoinThread.
LEMMA SleepThreadInv ==
    ASSUME LinkInv, NEW t \in Thread, NEW q \in WaitQueue \cup {NULL}, op[t] = "run",
           queue[t] = NULL, q \in Thread => Live(q), Block(t, q),
           UNCHANGED <<callVars, clientVars, irqVars, rescheduleCount>>
    PROVE  LinkInv'
<1> USE LinkInvParts
<1>1. Live(t)
    BY RunningLive
<1>2. UNCHANGED <<rescheduleCount, irqMode, op, arg, destructor, sleepAlarm, irqFlag>>
    BY DEF callVars, clientVars, irqVars
<1>3. /\ KernelInv'
      /\ state' = [state EXCEPT ![t] = "waiting"]
      /\ \A x \in Thread : Live(x)' <=> Live(x)
      /\ queue' = IF q = NULL THEN queue ELSE [queue EXCEPT ![t] = q]
    BY <1>1, <1>2, BlockEffect
<1>4. /\ \A x \in Thread : op[x] = "sleep" /\ state'[x] = "waiting" => state[x] = "waiting"
      /\ \A x \in Thread : op[x] \in {"sleep", "irqcheck", "irqsleep"}
                              => queue'[x] \in {queue[x], NULL}
    BY <1>3 DEF KernelInv, KernelTypeOK
<1>5. CallInv'
    BY <1>2, <1>3, <1>4, CallsUnchanged
<1> QED
    BY <1>3, <1>5

LEMMA WakeupInv ==
    ASSUME LinkInv, NEW q \in WaitQueue, Wakeup(q),
           UNCHANGED <<callVars, clientVars, irqVars, rescheduleCount>>
    PROVE  LinkInv'
<1> USE LinkInvParts
<1>1. UNCHANGED <<rescheduleCount, irqMode, op, arg, destructor, sleepAlarm, irqFlag>>
    BY DEF callVars, clientVars, irqVars
<1>2. /\ KernelInv'
      /\ \A x \in Thread : Live(x)' <=> Live(x)
      /\ \A x \in Thread : state'[x] \in {state[x], "ready"} /\ queue'[x] \in {queue[x], NULL}
    BY <1>1, WakeupEffect
<1>3. CallInv'
    BY <1>1, <1>2, CallsUnchanged
<1> QED
    BY <1>2, <1>3

LEMMA WakeupThreadDirectInv ==
    ASSUME LinkInv, NEW t \in Thread, Live(t), WakeupDirect(t),
           UNCHANGED <<callVars, clientVars, irqVars, rescheduleCount>>
    PROVE  LinkInv'
<1> USE LinkInvParts
<1>1. UNCHANGED <<rescheduleCount, irqMode, op, arg, destructor, sleepAlarm, irqFlag>>
    BY DEF callVars, clientVars, irqVars
<1>2. /\ KernelInv'
      /\ \A x \in Thread : Live(x)' <=> Live(x)
      /\ state' = [state EXCEPT ![t] = "ready"]
      /\ queue' = queue
    BY <1>1, WakeupDirectEffect
<1>3. \A x \in Thread : state'[x] = "waiting" => state[x] = "waiting"
    BY <1>2 DEF KernelInv, KernelTypeOK
<1>4. CallInv'
    BY <1>1, <1>2, <1>3, CallsUnchanged
<1> QED
    BY <1>2, <1>4

LEMMA YieldThreadInv ==
    ASSUME LinkInv, NEW self \in Thread, YieldThread(self)
    PROVE  LinkInv'
<1> DEFINE same == {i \in 1 .. Len(list) : priority[list[i]] = priority[self]}
           last == Hindmost(same)
           k    == Position(list, self)
<1>1. list \in Seq(Thread)
    BY DEF LinkInv, TypeOK, KernelTypeOK
<1>2. k \in 1 .. Len(list) /\ list[k] = self
    BY <1>1, PositionInList DEF YieldThread, Contains
<1>3. last \in same
    <2>1. k \in same
        BY <1>2
    <2>2. same \in SUBSET (0 .. Len(list)) /\ Len(list) \in Nat
        BY <1>1
    <2> HIDE DEF same, k
    <2> QED
        BY <2>1, <2>2, HindmostIsLast
<1>4. list' \in Seq(Thread)
    <2> HIDE DEF same, k
    <2>1. CASE list[last] = self
        BY <1>1, <2>1 DEF YieldThread, threadVars, same
    <2>2. CASE list[last] # self
        <3>1. last \in 1 .. Len(list)
            BY <1>3 DEF same
        <3>2. /\ SubSeq(list, 1, k - 1) \in Seq(Thread)
              /\ SubSeq(list, k + 1, last) \in Seq(Thread)
              /\ SubSeq(list, last + 1, Len(list)) \in Seq(Thread)
              /\ <<self>> \in Seq(Thread)
            BY <1>1, <1>2, <3>1
        <3>3. list' = SubSeq(list, 1, k - 1) \o SubSeq(list, k + 1, last)
                         \o <<self>> \o SubSeq(list, last + 1, Len(list))
            BY <2>2 DEF YieldThread, same, k
        <3> HIDE DEF last
        <3> QED
            BY <3>2, <3>3
    <2> QED
        BY <2>1, <2>2
<1>5. /\ UNCHANGED <<op, arg, destructor, sleepAlarm, irqFlag, next, state, waiters, queue,
                     priority, rescheduleCount, irqMode>>
      /\ RescheduleThread \/ UNCHANGED <<threadVars, schedVars>>
    BY DEF YieldThread, threadVars, callVars, clientVars, irqVars, queueVars
<1>6. KernelInv' /\ \A x \in Thread : Live(x)' <=> Live(x)
    <2>1. CASE RescheduleThread
        BY <2>1, <1>4, <1>5, LinkInvParts, RescheduleKernel
    <2>2. CASE UNCHANGED <<threadVars, schedVars>>
        BY <2>2, <1>5, LinkInvParts, KernelUnchanged DEF queueVars, KernelInv, KernelTypeOK
    <2> QED
        BY <1>5, <2>1, <2>2
<1>7. CallInv'
    BY <1>5, <1>6, LinkInvParts, CallsUnchanged
<1> QED
    BY <1>6, <1>7, LinkInvParts

\* OS_Sleep, and its loop when it goes back to sleep.
LEMMA SleepInv ==
    ASSUME LinkInv, NEW t \in Thread, op[t] \in {"run", "sleep"}, queue[t] = NULL,
           Block(t, NULL), op' = [op EXCEPT ![t] = "sleep"],
           sleepAlarm' = sleepAlarm \cup {t},
           UNCHANGED <<destructor, arg, irqMode, irqFlag, rescheduleCount>>
    PROVE  LinkInv'
<1> USE LinkInvParts
<1>1. Live(t)
    BY RunningLive
<1>2. /\ KernelInv'
      /\ state' = [state EXCEPT ![t] = "waiting"]
      /\ \A x \in Thread : Live(x)' <=> Live(x)
      /\ queue' = queue
    <2>1. NULL \in WaitQueue \cup {NULL} /\ NULL \notin Thread
        BY NullIsNoQueue
    <2> QED
        BY <1>1, <2>1, BlockEffect
<1> USE DEF CallInv
<1>3. CallTypeOK'
    BY DEF CallTypeOK, Op
<1>4. SleepAlarmMatchesSleeper'
    BY <1>1, <1>2 DEF SleepAlarmMatchesSleeper, CallTypeOK, KernelInv, KernelTypeOK
<1>5. OpLive' /\ LinkPlace'
    BY <1>1, <1>2 DEF OpLive, LinkPlace, CallTypeOK
<1> QED
    BY <1>2, <1>3, <1>4, <1>5

LEMMA SleepLoopInv ==
    ASSUME LinkInv, NEW self \in Thread, SleepLoop(self)
    PROVE  LinkInv'
<1>1. CASE self \in sleepAlarm
    <2>1. /\ op[self] = "sleep" /\ Block(self, NULL) /\ queue[self] = NULL
          /\ sleepAlarm' = sleepAlarm \cup {self}
          /\ op' = [op EXCEPT ![self] = "sleep"]
          /\ UNCHANGED <<destructor, arg, irqMode, irqFlag, rescheduleCount>>
        BY <1>1 DEF SleepLoop, clientVars, irqVars, LinkInv, LinkPlace, TypeOK, CallTypeOK
    <2> QED
        BY <2>1, SleepInv
<1>2. CASE self \notin sleepAlarm
    <2>1. /\ UNCHANGED <<threadVars, queueVars, schedVars, destructor, sleepAlarm, irqFlag,
                         irqMode, rescheduleCount>>
          /\ op[self] = "sleep"
          /\ op' = [op EXCEPT ![self] = "run"]
          /\ arg' = [arg EXCEPT ![self] = arg[self]]
        BY <1>2 DEF SleepLoop, clientVars, irqVars, LinkInv, TypeOK, CallTypeOK
    <2>2. KernelInv' /\ state' = state /\ queue' = queue
        BY <2>1, LinkInvParts, KernelUnchanged DEF KernelInv, KernelTypeOK
    <2>3. /\ "run" \in Op /\ arg[self] \in SetPriorityCall \cup Irq \cup {NULL}
          /\ irqFlag' \subseteq Irq /\ destructor' \in [Thread -> BOOLEAN]
        BY <2>1 DEF Op, LinkInv, TypeOK, CallTypeOK
    <2>4. Live(self)
        BY <2>1, RunningLive
    <2>5. CallInv'
        BY <1>2, <2>1, <2>2, <2>3, <2>4, LinkInvParts, CallMoves
    <2> QED
        BY <2>2, <2>5, LinkInvParts
<1> QED
    BY <1>1, <1>2

\* A call that changes no kernel variable but rescheduleCount, and moves its caller
\* to another call.
LEMMA CallStepInv ==
    ASSUME LinkInv, NEW t \in Thread, NEW o \in Op, NEW a \in SetPriorityCall \cup Irq \cup {NULL},
           op[t] \notin {"none", "sleep"}, o \notin {"none", "sleep"},
           o = "setprio" => a \in SetPriorityCall,
           o \in {"irqcheck", "irqsleep"} => a \in Irq /\ queue[t] \in {NULL, IrqQueue},
           op' = [op EXCEPT ![t] = o], arg' = [arg EXCEPT ![t] = a],
           irqFlag' \subseteq Irq, rescheduleCount' \in Nat,
           UNCHANGED <<threadVars, queueVars, clientVars, schedVars, irqMode>>
    PROVE  LinkInv'
<1> USE LinkInvParts
<1>1. KernelInv' /\ state' = state /\ queue' = queue
    BY KernelUnchanged DEF KernelInv, KernelTypeOK
<1>2. Live(t) /\ t \notin sleepAlarm
    BY RunningLive DEF LinkInv, SleepAlarmMatchesSleeper
<1>3. sleepAlarm' = sleepAlarm /\ destructor' \in [Thread -> BOOLEAN]
    BY DEF clientVars, CallInv, CallTypeOK
<1>4. CallInv'
    BY <1>1, <1>2, <1>3, CallMoves
<1> QED
    BY <1>1, <1>4

LEMMA SetThreadPriorityInv ==
    ASSUME LinkInv, ListIntact, NEW self \in Thread, NEW t \in Thread, NEW prio \in Prio,
           SetThreadPriority(self, t, prio)
    PROVE  LinkInv'
<1> DEFINE a == [thread |-> t, prio |-> prio, head |-> Head(list)]
<1>1. a \in SetPriorityCall
    <2>1. Head(list) \in Thread
        BY DEF ListIntact, LinkInv, TypeOK, KernelTypeOK
    <2> QED
        BY <2>1 DEF SetPriorityCall, SetThreadPriority
<1>2. /\ op[self] = "run" /\ "setprio" \in Op
      /\ op' = [op EXCEPT ![self] = "setprio"] /\ arg' = [arg EXCEPT ![self] = a]
      /\ irqFlag' \subseteq Irq /\ rescheduleCount' \in Nat
      /\ UNCHANGED <<threadVars, queueVars, clientVars, schedVars, irqMode>>
    BY DEF SetThreadPriority, Calling, Op, irqVars, LinkInv, TypeOK, KernelTypeOK, CallTypeOK
<1> HIDE DEF a
<1> QED
    BY <1>1, <1>2, CallStepInv

LEMMA SetThreadPriorityMaskedInv ==
    ASSUME LinkInv, NEW self \in Thread, SetThreadPriorityMasked(self)
    PROVE  LinkInv'
<1> DEFINE t    == arg[self].thread
           prio == arg[self].prio
           head == arg[self].head
<1>1. t \in Thread /\ prio \in Prio
    BY DEF LinkInv, TypeOK, CallTypeOK, SetPriorityCall, SetThreadPriorityMasked
<1>2. /\ op[self] = "setprio"
      /\ \E walk \in Walks(head) : ChangePriority(t, prio, walk)
      /\ UNCHANGED <<state, waiters, queue, destructor, sleepAlarm, irqFlag, irqMode, rescheduleCount>>
      /\ op' = [op EXCEPT ![self] = "run"]
      /\ arg' = [arg EXCEPT ![self] = NULL]
      /\ RescheduleThread \/ UNCHANGED schedVars
    BY DEF SetThreadPriorityMasked, RescheduleIf, queueVars, clientVars, irqVars
<1> HIDE DEF t, prio, head
<1>3. /\ list' \in Seq(Thread) /\ next' \in [Thread -> Thread \cup {NULL}]
      /\ priority' \in [Thread -> Prio \cup {LauncherPrio, IdlePrio}]
    <2>1. KernelTypeOK
        BY DEF LinkInv, TypeOK
    <2>2. PICK walk \in Walks(head) : ChangePriority(t, prio, walk)
        BY <1>2
    <2>3. walk \in Seq(Thread)
        BY <2>1, WalksType DEF KernelTypeOK
    <2> QED
        BY <1>1, <2>1, <2>2, <2>3, ChangePriorityType
<1>4. current' \in Thread /\ isNeedRescheduling' \in BOOLEAN /\ missed' \in BOOLEAN
    BY <1>2, <1>3, RescheduleThreadType DEF LinkInv, TypeOK, KernelTypeOK, schedVars
<1>5. KernelInv'
    BY <1>2, <1>3, <1>4 DEF LinkInv, TypeOK, KernelInv, KernelTypeOK, LinkConsistent, NoJoinerLeft, Live
<1>6. CallInv'
    <2>1. Live(self) /\ self \notin sleepAlarm
        BY <1>2, RunningLive DEF LinkInv, SleepAlarmMatchesSleeper
    <2>2. "run" \in Op /\ irqFlag' \subseteq Irq /\ destructor' \in [Thread -> BOOLEAN]
        BY <1>2 DEF Op, LinkInv, TypeOK, CallTypeOK
    <2> QED
        BY <1>2, <2>1, <2>2, LinkInvParts, CallMoves
<1> QED
    BY <1>5, <1>6, LinkInvParts

\* OS_DisableScheduler and OS_EnableScheduler.
LEMMA SchedulerLockInv ==
    ASSUME LinkInv, NEW self \in Thread, DisableScheduler(self) \/ EnableScheduler(self)
    PROVE  LinkInv'
<1>1. /\ op[self] = "run" /\ "run" \in Op
      /\ op' = [op EXCEPT ![self] = "run"] /\ arg' = [arg EXCEPT ![self] = arg[self]]
      /\ arg[self] \in SetPriorityCall \cup Irq \cup {NULL}
      /\ irqFlag' \subseteq Irq /\ rescheduleCount' \in Nat
      /\ UNCHANGED <<threadVars, queueVars, clientVars, schedVars, irqMode>>
    BY DEF DisableScheduler, EnableScheduler, Calling, callVars, irqVars, Op,
           LinkInv, TypeOK, KernelTypeOK, CallTypeOK
<1> QED
    BY <1>1, CallStepInv

LEMMA RescheduleInv ==
    ASSUME LinkInv, NEW self \in Thread, Reschedule(self)
    PROVE  LinkInv'
<1>1. KernelInv' /\ \A x \in Thread : Live(x)' <=> Live(x)
    BY LinkInvParts, RescheduleKernel
       DEF Reschedule, threadVars, queueVars, irqVars, LinkInv, TypeOK, KernelTypeOK
<1>2. UNCHANGED <<op, arg, destructor, sleepAlarm, irqFlag, state, queue>>
    BY DEF Reschedule, threadVars, queueVars, callVars, clientVars, irqVars
<1>3. CallInv'
    BY <1>1, <1>2, LinkInvParts, CallsUnchanged
<1> QED
    BY <1>1, <1>3, LinkInvParts

LEMMA WaitIrqInv ==
    ASSUME LinkInv, NEW self \in Thread, NEW i \in Irq, NEW clear \in BOOLEAN,
           WaitIrq(self, clear, i)
    PROVE  LinkInv'
<1>1. /\ op[self] = "run" /\ "irqcheck" \in Op /\ queue[self] = NULL
      /\ op' = [op EXCEPT ![self] = "irqcheck"] /\ arg' = [arg EXCEPT ![self] = i]
      /\ irqFlag' \subseteq Irq /\ rescheduleCount' \in Nat
      /\ UNCHANGED <<threadVars, queueVars, clientVars, schedVars, irqMode>>
    BY DEF WaitIrq, Calling, MayBlock, Op, LinkInv, TypeOK, KernelTypeOK, CallTypeOK
<1> QED
    BY <1>1, CallStepInv

LEMMA WaitIrqCheckInv ==
    ASSUME LinkInv, NEW self \in Thread, WaitIrqCheck(self)
    PROVE  LinkInv'
<1>1. /\ op[self] = "irqcheck" /\ queue[self] \in {NULL, IrqQueue}
      /\ arg[self] \in Irq /\ "run" \in Op /\ "irqsleep" \in Op
      /\ irqFlag' \subseteq Irq /\ rescheduleCount' \in Nat
      /\ UNCHANGED <<threadVars, queueVars, clientVars, schedVars, irqMode>>
    BY DEF WaitIrqCheck, irqVars, Op, LinkInv, LinkPlace, TypeOK, KernelTypeOK, CallTypeOK
<1>2. \/ op' = [op EXCEPT ![self] = "run"] /\ arg' = [arg EXCEPT ![self] = NULL]
      \/ op' = [op EXCEPT ![self] = "irqsleep"] /\ arg' = [arg EXCEPT ![self] = arg[self]]
    BY DEF WaitIrqCheck, LinkInv, TypeOK, CallTypeOK
<1> QED
    BY <1>1, <1>2, CallStepInv

LEMMA WaitIrqSleepInv ==
    ASSUME LinkInv, NEW self \in Thread, WaitIrqSleep(self)
    PROVE  LinkInv'
<1>1. /\ op[self] = "irqsleep" /\ queue[self] \in {NULL, IrqQueue} /\ arg[self] \in Irq
      /\ op' = [op EXCEPT ![self] = "irqcheck"] /\ Block(self, IrqQueue)
      /\ UNCHANGED <<arg, destructor, sleepAlarm, irqFlag, irqMode, rescheduleCount>>
    BY DEF WaitIrqSleep, clientVars, irqVars, LinkInv, LinkPlace, TypeOK, CallTypeOK
<1>2. IrqQueue \in WaitQueue \cup {NULL} /\ IrqQueue \notin Thread /\ IrqQueue # NULL
    BY ThreadAssumption DEF ThreadAssumption, WaitQueue
<1>3. Live(self)
    BY <1>1, RunningLive
<1>4. /\ KernelInv'
      /\ state' = [state EXCEPT ![self] = "waiting"]
      /\ \A x \in Thread : Live(x)' <=> Live(x)
      /\ queue' = [queue EXCEPT ![self] = IrqQueue]
    BY <1>1, <1>2, <1>3, LinkInvParts, BlockEffect
<1> USE DEF LinkInv, TypeOK
<1>5. CallTypeOK'
    BY <1>1 DEF CallTypeOK, Op
<1>6. SleepAlarmMatchesSleeper'
    BY <1>1, <1>4 DEF SleepAlarmMatchesSleeper, CallTypeOK, KernelTypeOK
<1>7. OpLive' /\ LinkPlace'
    BY <1>1, <1>4 DEF OpLive, LinkPlace, CallTypeOK, KernelTypeOK
<1> QED
    BY <1>4, <1>5, <1>6, <1>7, LinkInvParts DEF CallInv

-----------------------------------------------------------------------------
(* Interrupts *)

LEMMA IrqEnterInv ==
    ASSUME LinkInv, NEW i \in Irq, IrqEnter(i)
    PROVE  LinkInv'
<1>1. /\ UNCHANGED <<threadVars, queueVars, schedVars, rescheduleCount, op, arg, destructor, sleepAlarm>>
      /\ irqMode' \in BOOLEAN /\ irqFlag' \subseteq Irq
    BY DEF IrqEnter, callVars, clientVars, LinkInv, TypeOK, CallTypeOK
<1>2. KernelInv' /\ (\A x \in Thread : Live(x)' <=> Live(x)) /\ state' = state /\ queue' = queue
    BY <1>1, LinkInvParts, KernelUnchanged DEF KernelInv, KernelTypeOK
<1>3. CallInv'
    BY <1>1, <1>2 DEF LinkInv, TypeOK, CallInv, CallTypeOK, SleepAlarmMatchesSleeper, OpLive, LinkPlace
<1> QED
    BY <1>2, <1>3, LinkInvParts

LEMMA SleepAlarmCallbackInv ==
    ASSUME LinkInv, NEW t \in Thread, SleepAlarmCallback(t)
    PROVE  LinkInv'
<1>1. /\ WakeupDirect(t) /\ t \in sleepAlarm
      /\ sleepAlarm' = sleepAlarm \ {t}
      /\ UNCHANGED <<destructor, op, arg, irqFlag, irqMode, rescheduleCount>>
    BY DEF SleepAlarmCallback, callVars, irqVars
<1>2. Live(t)
    BY <1>1 DEF LinkInv, SleepAlarmMatchesSleeper
<1>3. /\ KernelInv'
      /\ \A x \in Thread : Live(x)' <=> Live(x)
      /\ state' = [state EXCEPT ![t] = "ready"]
      /\ queue' = queue
    BY <1>1, <1>2, LinkInvParts, WakeupDirectEffect
<1>4. CallInv'
    BY <1>1, <1>3 DEF LinkInv, TypeOK, KernelTypeOK, CallInv, CallTypeOK, SleepAlarmMatchesSleeper,
                      OpLive, LinkPlace
<1> QED
    BY <1>3, <1>4, LinkInvParts

LEMMA IrqExitInv ==
    ASSUME LinkInv, IrqExit
    PROVE  LinkInv'
<1> USE DEF LinkInv, TypeOK, KernelTypeOK
<1> DEFINE woken == waiters[IrqQueue]
<1>0. IrqQueue \in WaitQueue
    BY NullIsNoQueue
<1>1. /\ state' = [t \in Thread |-> IF t \in woken THEN "ready" ELSE state[t]]
      /\ queue' = [t \in Thread |-> IF t \in woken THEN NULL ELSE queue[t]]
      /\ waiters' = [waiters EXCEPT ![IrqQueue] = {}]
      /\ isNeedRescheduling' = FALSE /\ irqMode' = FALSE
      /\ UNCHANGED <<list, next, priority, rescheduleCount, op, arg, destructor, sleepAlarm, irqFlag>>
    BY <1>0 DEF IrqExit, WokenByIrq, callVars, clientVars
<1>2. current' \in Thread
    <2>1. SelectThread(list, state') \in Thread \cup {NULL}
        BY SelectThreadType
    <2> QED
        BY <2>1 DEF IrqExit
<1>3. missed' \in BOOLEAN
    BY DEF IrqExit
<1>4. KernelTypeOK'
    BY <1>0, <1>1, <1>2, <1>3
<1>5. \A x \in woken : x \in Thread /\ Live(x) /\ queue[x] = IrqQueue
    BY <1>0 DEF LinkConsistent
<1>6. \A x \in Thread : Live(x)' <=> Live(x)
    BY <1>1, <1>5 DEF Live
<1>7. LinkConsistent'
    <2>1. ASSUME NEW p \in WaitQueue, NEW x \in waiters'[p]
          PROVE  x \in Thread /\ Live(x)' /\ queue'[x] = p
        <3>1. p # IrqQueue /\ x \in waiters[p]
            BY <2>1, <1>0, <1>1
        <3>2. x \in Thread /\ Live(x) /\ queue[x] = p
            BY <3>1 DEF LinkConsistent
        <3>3. x \notin woken
            BY <3>1, <3>2, <1>5
        <3> QED
            BY <3>2, <3>3, <1>1, <1>6
    <2>2. ASSUME NEW x \in Thread, Live(x)', queue'[x] # NULL
          PROVE  x \in waiters'[queue'[x]]
        <3>1. x \notin woken /\ queue'[x] = queue[x] /\ Live(x)
            BY <2>2, <1>1, <1>6
        <3>2. queue[x] \in WaitQueue /\ x \in waiters[queue[x]]
            BY <2>2, <3>1 DEF LinkConsistent
        <3> QED
            BY <3>1, <3>2, <1>1
    <2> QED
        BY <2>1, <2>2 DEF LinkConsistent
<1>8. NoJoinerLeft'
    BY <1>0, <1>1, <1>6 DEF NoJoinerLeft, WaitQueue
<1>9. CallInv'
    <2>1. \A x \in Thread : state'[x] \in {state[x], "ready"} /\ queue'[x] \in {queue[x], NULL}
        BY <1>1
    <2>2. CallInv
        BY LinkInvParts
    <2> QED
        BY <1>1, <1>6, <2>1, <2>2, CallsUnchanged
<1> QED
    BY <1>4, <1>7, <1>8, <1>9, LinkInvParts DEF KernelInv

-----------------------------------------------------------------------------
(* The idle thread *)

\* The idle thread runs no call, is runnable, and every other thread is more urgent.
IdleInv ==
    /\ op[Idle] = "run" /\ state[Idle] = "ready"
    /\ priority[Idle] = IdlePrio
    /\ \A t \in Thread \ {Idle} : priority[t] < IdlePrio

LEMMA ChangePriorityIdle ==
    ASSUME TypeOK, IdleInv, NEW t \in Thread, t # Idle, NEW prio \in Prio, NEW walk,
           ChangePriority(t, prio, walk), op'[Idle] = "run", state'[Idle] = "ready"
    PROVE  IdleInv'
<1>1. prio < IdlePrio /\ Idle \in Thread
    BY ThreadAssumption DEF ThreadAssumption, IdlePrio
<1>2. priority' = priority \/ priority' = [priority EXCEPT ![t] = prio]
    BY DEF ChangePriority
<1>3. \A x \in Thread : priority'[x] = priority[x] \/ (x = t /\ priority'[x] = prio)
    BY <1>2 DEF TypeOK, KernelTypeOK
<1> QED
    BY <1>1, <1>3 DEF IdleInv

\* The other calls of a thread leave the priorities alone.
LEMMA OtherCallsIdle ==
    ASSUME TypeOK, IdleInv, NEW self \in Thread,
           \/ ExitThread(self) \/ RunDestructor(self) \/ DestructorReturn(self)
           \/ DestroyReschedule(self)
           \/ \E q \in ClientQueue \cup {NULL} : SleepThread(self, q)
           \/ \E t \in User, q \in ClientQueue \cup {NULL} : SleepThreadDirect(self, t, q)
           \/ \E t \in User : JoinThread(self, t)
           \/ \E q \in ClientQueue : WakeupThread(self, q)
           \/ \E t \in User : WakeupThreadDirect(self, t)
           \/ Sleep(self) \/ SleepLoop(self) \/ YieldThread(self)
           \/ \E t \in Thread, p \in Prio : SetThreadPriority(self, t, p)
           \/ DisableScheduler(self) \/ EnableScheduler(self) \/ Reschedule(self)
           \/ \E i \in Irq, clear \in BOOLEAN : WaitIrq(self, clear, i)
           \/ WaitIrqCheck(self) \/ WaitIrqSleep(self)
    PROVE  IdleInv'
<1>1. priority' = priority
    BY DEF ExitThread, RunDestructor, DestructorReturn, DestroyReschedule, SleepThread,
           SleepThreadDirect, JoinThread, WakeupThread, WakeupThreadDirect, YieldThread, Sleep, SleepLoop,
           SetThreadPriority, DisableScheduler, EnableScheduler, Reschedule, WaitIrq,
           WaitIrqCheck, WaitIrqSleep, Block, Wakeup, WakeupDirect, threadVars
<1>2. op'[Idle] = "run"
    <2>1. \/ UNCHANGED op
          \/ \E o : op' = [op EXCEPT ![self] = o]
        BY DEF callVars,
           ExitThread, RunDestructor, DestructorReturn, DestroyReschedule, SleepThread,
           SleepThreadDirect, JoinThread, WakeupThread, WakeupThreadDirect, YieldThread, Sleep, SleepLoop,
           SetThreadPriority, DisableScheduler, EnableScheduler, Reschedule, WaitIrq,
           WaitIrqCheck, WaitIrqSleep
    <2>2. UNCHANGED op \/ self # Idle
        BY DEF callVars, Calling, Running, IdleInv,
           ExitThread, RunDestructor, DestructorReturn, DestroyReschedule, SleepThread,
           SleepThreadDirect, JoinThread, WakeupThread, WakeupThreadDirect, YieldThread, Sleep, SleepLoop,
           SetThreadPriority, DisableScheduler, EnableScheduler, Reschedule, WaitIrq,
           WaitIrqCheck, WaitIrqSleep
    <2> QED
        BY <2>1, <2>2, ThreadAssumption DEF ThreadAssumption, IdleInv, TypeOK, CallTypeOK
<1>3. state'[Idle] = "ready"
    <2> USE DEF IdleInv, TypeOK, KernelTypeOK
    <2>0. Idle \in Thread
        BY ThreadAssumption DEF ThreadAssumption
    <2>1. CASE UNCHANGED state
        BY <2>1
    <2>2. ASSUME NEW t \in Thread, t # Idle, NEW q, Block(t, q)
          PROVE  state'[Idle] = "ready"
        BY <2>0, <2>2 DEF Block
    <2>3. ASSUME NEW q, Wakeup(q)
          PROVE  state'[Idle] = "ready"
        BY <2>0, <2>3 DEF Wakeup
    <2>4. ASSUME NEW t, WakeupDirect(t)
          PROVE  state'[Idle] = "ready"
        BY <2>0, <2>4 DEF WakeupDirect
    <2>5. \/ UNCHANGED state
          \/ \E t \in Thread \ {Idle}, q \in WaitQueue \cup {NULL} : Block(t, q)
          \/ \E q \in WaitQueue : Wakeup(q)
          \/ \E t \in Thread : WakeupDirect(t)
        BY ThreadAssumption, NullIsNoQueue
        DEF ThreadAssumption, User, WaitQueue, Calling, Running,
           ExitThread, RunDestructor, DestructorReturn, DestroyReschedule, SleepThread,
           SleepThreadDirect, JoinThread, WakeupThread, WakeupThreadDirect, YieldThread, Sleep, SleepLoop,
           SetThreadPriority, DisableScheduler, EnableScheduler, Reschedule, WaitIrq,
           WaitIrqCheck, WaitIrqSleep, threadVars
    <2> QED
        BY <2>1, <2>2, <2>3, <2>4, <2>5
<1> QED
    BY <1>1, <1>2, <1>3 DEF IdleInv

LEMMA IrqStepIdle ==
    ASSUME TypeOK, IdleInv, IrqStep
    PROVE  IdleInv'
<1>1. priority' = priority /\ op' = op
    BY DEF IrqStep, IrqEnter, IrqWakeupThread, IrqWakeupThreadDirect, SleepAlarmCallback, IrqExit,
           Wakeup, WakeupDirect, callVars, threadVars
<1>2. state'[Idle] = "ready"
    BY ThreadAssumption
       DEF ThreadAssumption, IrqStep, IrqEnter, IrqWakeupThread, IrqWakeupThreadDirect,
           SleepAlarmCallback, IrqExit, Wakeup, WakeupDirect, threadVars, User,
           IdleInv, TypeOK, KernelTypeOK
<1> QED
    BY <1>1, <1>2 DEF IdleInv

LEMMA TerminateIdle ==
    ASSUME IdleInv, NEW t \in Thread \ {Idle}, NEW Q, Terminate(t, Q), op'[Idle] = "run"
    PROVE  IdleInv'
<1>1. Idle \in Thread
    BY ThreadAssumption DEF ThreadAssumption
<1> QED
    BY <1>1 DEF Terminate, IdleInv

-----------------------------------------------------------------------------
(* Every step keeps the invariant *)

Inv == LinkInv /\ IdleInv

\* TypeOK is the only part of LinkInv that the lemmas on the idle thread use.
LEMMA InvTypeOK == Inv => TypeOK /\ LinkInv /\ IdleInv
BY DEF Inv, LinkInv

LEMMA ThreadStepInv ==
    ASSUME Inv, ListIntact, NEW self \in Thread, ThreadStep(self)
    PROVE  Inv'
<1> USE InvTypeOK
<1>0. ClientQueue \cup {NULL} \subseteq WaitQueue \cup {NULL} /\ User \subseteq Thread
      /\ User \subseteq WaitQueue /\ \A q \in ClientQueue : q \in WaitQueue /\ q \notin Thread
    BY ThreadAssumption DEF ThreadAssumption, WaitQueue, User
<1>1. CASE ExitThread(self) \/ RunDestructor(self) \/ DestructorReturn(self)
    BY <1>1, ExitThreadInv, OtherCallsIdle DEF Inv
<1>2. CASE DestroyReschedule(self)
    BY <1>2, DestroyRescheduleInv, OtherCallsIdle DEF Inv
<1>3. ASSUME NEW t \in User, NEW p \in Prio, KillThread(self, t, p)
      PROVE  Inv'
    <2>1. LinkInv'
        BY <1>3, KillThreadInv
    <2>2. t # Idle /\ t \in Thread /\ Idle \in Thread
        BY ThreadAssumption DEF ThreadAssumption, User
    <2>3. /\ ChangePriority(t, p, list)
          /\ op'[Idle] = "run" /\ state'[Idle] = "ready"
        BY <1>3, <2>2 DEF KillThread, IdleInv, TypeOK, KernelTypeOK, CallTypeOK
    <2>4. IdleInv'
        BY <2>2, <2>3, ChangePriorityIdle
    <2> QED
        BY <2>1, <2>4 DEF Inv
<1>4. ASSUME NEW q \in ClientQueue \cup {NULL}, SleepThread(self, q)
      PROVE  Inv'
    <2>1. LinkInv'
        BY <1>0, <1>4, NullIsNoQueue, SleepThreadInv DEF SleepThread, Calling, MayBlock
    <2> QED
        BY <1>4, <2>1, OtherCallsIdle DEF Inv
<1>5. ASSUME NEW t \in User, NEW q \in ClientQueue \cup {NULL}, SleepThreadDirect(self, t, q)
      PROVE  Inv'
    <2>1. LinkInv'
        BY <1>0, <1>5, NullIsNoQueue, SleepThreadInv DEF SleepThreadDirect
    <2> QED
        BY <1>5, <2>1, OtherCallsIdle DEF Inv
<1>6. ASSUME NEW t \in User, JoinThread(self, t)
      PROVE  Inv'
    <2>1. CASE state[t] # "terminated"
        <3>1. /\ t \in WaitQueue \cup {NULL} /\ Live(t)
              /\ op[self] = "run" /\ queue[self] = NULL /\ Block(self, t)
              /\ UNCHANGED <<callVars, clientVars, irqVars, rescheduleCount>>
            BY <1>0, <1>6, <2>1
               DEF JoinThread, Calling, MayBlock, Live, TypeOK, KernelTypeOK
        <3> QED
            BY <3>1, <1>6, SleepThreadInv, OtherCallsIdle DEF Inv
    <2>2. CASE state[t] = "terminated"
        <3>1. UNCHANGED vars
            BY <1>6, <2>2 DEF JoinThread, vars
        <3>2. KernelInv' /\ CallInv'
            BY <3>1, LinkInvParts, KernelUnchanged, CallsUnchanged
               DEF vars, threadVars, queueVars, callVars, clientVars, schedVars, irqVars,
                   KernelInv, KernelTypeOK
        <3> QED
            BY <1>6, <3>2, LinkInvParts, OtherCallsIdle DEF Inv
    <2> QED
        BY <2>1, <2>2
<1>7. ASSUME NEW q \in ClientQueue, WakeupThread(self, q)
      PROVE  Inv'
    BY <1>0, <1>7, WakeupInv, OtherCallsIdle DEF WakeupThread, Inv
<1>8. ASSUME NEW t \in User, WakeupThreadDirect(self, t)
      PROVE  Inv'
    BY <1>0, <1>8, WakeupThreadDirectInv, OtherCallsIdle DEF WakeupThreadDirect, Inv
<1>9. CASE YieldThread(self)
    BY <1>9, YieldThreadInv, OtherCallsIdle DEF Inv
<1>10. CASE Sleep(self)
    <2>1. LinkInv'
        BY <1>10, SleepInv DEF Sleep, Calling, MayBlock, irqVars
    <2> QED
        BY <1>10, <2>1, OtherCallsIdle DEF Inv
<1>11. CASE SleepLoop(self)
    BY <1>11, SleepLoopInv, OtherCallsIdle DEF Inv
<1>12. ASSUME NEW t \in Thread, NEW p \in Prio, SetThreadPriority(self, t, p)
       PROVE  Inv'
    BY <1>12, SetThreadPriorityInv, OtherCallsIdle DEF Inv
<1>13. CASE SetThreadPriorityMasked(self)
    <2>1. LinkInv'
        BY <1>13, SetThreadPriorityMaskedInv
    <2>2. arg[self].thread \in Thread \ {Idle} /\ arg[self].prio \in Prio
        BY <1>13 DEF SetThreadPriorityMasked, TypeOK, CallTypeOK, SetPriorityCall
    <2>3. /\ \E walk : ChangePriority(arg[self].thread, arg[self].prio, walk)
          /\ op'[Idle] = "run" /\ state'[Idle] = "ready"
        BY <1>13, ThreadAssumption
           DEF SetThreadPriorityMasked, ThreadAssumption, IdleInv, TypeOK, CallTypeOK
    <2>4. IdleInv'
        BY <2>2, <2>3, ChangePriorityIdle
    <2> QED
        BY <2>1, <2>4 DEF Inv
<1>14. CASE DisableScheduler(self) \/ EnableScheduler(self)
    BY <1>14, SchedulerLockInv, OtherCallsIdle DEF Inv
<1>15. CASE Reschedule(self)
    BY <1>15, RescheduleInv, OtherCallsIdle DEF Inv
<1>16. ASSUME NEW i \in Irq, NEW clear \in BOOLEAN, WaitIrq(self, clear, i)
       PROVE  Inv'
    BY <1>16, WaitIrqInv, OtherCallsIdle DEF Inv
<1>17. CASE WaitIrqCheck(self)
    BY <1>17, WaitIrqCheckInv, OtherCallsIdle DEF Inv
<1>18. CASE WaitIrqSleep(self)
    BY <1>18, WaitIrqSleepInv, OtherCallsIdle DEF Inv
<1> QED
    BY <1>1, <1>2, <1>3, <1>4, <1>5, <1>6, <1>7, <1>8, <1>9, <1>10, <1>11, <1>12, <1>13, <1>14,
       <1>15, <1>16, <1>17, <1>18 DEF ThreadStep

LEMMA IrqStepInv ==
    ASSUME Inv, IrqStep
    PROVE  Inv'
<1>1. IdleInv'
    BY InvTypeOK, IrqStepIdle
<1>2. LinkInv'
    <2>0. User \subseteq Thread /\ ClientQueue \subseteq WaitQueue /\ LinkInv
        BY InvTypeOK, ThreadAssumption DEF ThreadAssumption, User, WaitQueue
    <2>1. ASSUME NEW i \in Irq, IrqEnter(i)
          PROVE  LinkInv'
        BY <2>0, <2>1, IrqEnterInv
    <2>2. ASSUME NEW q \in ClientQueue, IrqWakeupThread(q)
          PROVE  LinkInv'
        BY <2>0, <2>2, WakeupInv DEF IrqWakeupThread
    <2>3. ASSUME NEW t \in User, IrqWakeupThreadDirect(t)
          PROVE  LinkInv'
        BY <2>0, <2>3, WakeupThreadDirectInv DEF IrqWakeupThreadDirect
    <2>4. ASSUME NEW t \in User, SleepAlarmCallback(t)
          PROVE  LinkInv'
        BY <2>0, <2>4, SleepAlarmCallbackInv
    <2>5. CASE IrqExit
        BY <2>0, <2>5, IrqExitInv
    <2> QED
        BY <2>1, <2>2, <2>3, <2>4, <2>5 DEF IrqStep
<1> QED
    BY <1>1, <1>2 DEF Inv

\* The creation and the end of a thread, which release the mutexes of the queues Q.
LEMMA LifeStepInv ==
    ASSUME Inv, NEW self \in Thread, NEW Q \in SUBSET Queue,
           \/ \E t \in User, p \in Prio, d \in BOOLEAN : CreateThread(self, t, p, d)
           \/ ExitThreadDestroy(self, Q)
           \/ DestroySelf(self, Q)
           \/ \E t \in User : DestroyThread(self, t, Q)
    PROVE  Inv'
<1> USE InvTypeOK
<1>0. Idle \in Thread /\ User \subseteq Thread /\ Idle \notin User /\ self \in Thread
      /\ User \cup {Launcher, Idle} = Thread
    BY ThreadAssumption DEF ThreadAssumption, User
<1>1. ASSUME NEW t \in User, NEW p \in Prio, NEW d \in BOOLEAN, CreateThread(self, t, p, d)
      PROVE  Inv'
    <2>1. LinkInv'
        BY <1>1, CreateThreadInv
    <2>2. priority' = [priority EXCEPT ![t] = p] /\ p < IdlePrio
        BY <1>1, ThreadAssumption DEF CreateThread, ThreadAssumption, IdlePrio
    <2>3. op'[Idle] = "run" /\ state'[Idle] = "ready"
        BY <1>0, <1>1 DEF CreateThread, IdleInv, TypeOK, KernelTypeOK, CallTypeOK
    <2>4. IdleInv'
        BY <1>0, <2>2, <2>3 DEF IdleInv, TypeOK, KernelTypeOK
    <2> QED
        BY <2>1, <2>4 DEF Inv
<1>2. CASE ExitThreadDestroy(self, Q)
    <2>1. LinkInv'
        BY <1>2, ExitThreadDestroyInv
    <2>2. self # Idle
        BY <1>2 DEF ExitThreadDestroy, IdleInv
    <2>3. Terminate(self, Q) /\ op'[Idle] = "run"
        BY <1>0, <1>2, <2>2 DEF ExitThreadDestroy, IdleInv, TypeOK, CallTypeOK
    <2>4. self \in Thread \ {Idle}
        BY <2>2
    <2>5. IdleInv'
        BY <2>3, <2>4, TerminateIdle
    <2> QED
        BY <2>1, <2>5 DEF Inv
<1>3. CASE DestroySelf(self, Q)
    <2>1. LinkInv'
        BY <1>3, DestroySelfInv
    <2>2. self \in User /\ Terminate(self, Q) /\ op'[Idle] = "run"
        BY <1>0, <1>3 DEF DestroySelf, IdleInv, TypeOK, CallTypeOK
    <2>3. IdleInv'
        BY <1>0, <2>2, TerminateIdle
    <2> QED
        BY <2>1, <2>3 DEF Inv
<1>4. ASSUME NEW t \in User, DestroyThread(self, t, Q)
      PROVE  Inv'
    <2>1. LinkInv'
        BY <1>4, DestroyThreadInv
    <2>2. self # Idle
        BY <1>4 DEF DestroyThread, Calling, Running
    <2>3. Terminate(t, Q) /\ op'[Idle] = "run"
        BY <1>0, <1>4, <2>2 DEF DestroyThread, IdleInv, TypeOK, CallTypeOK
    <2>4. IdleInv'
        BY <1>0, <2>3, TerminateIdle
    <2> QED
        BY <2>1, <2>4 DEF Inv
<1> QED
    BY <1>1, <1>2, <1>3, <1>4

LEMMA InitInv == Init => Inv
<1> SUFFICES ASSUME Init PROVE Inv
    OBVIOUS
<1> USE ThreadAssumption DEF ThreadAssumption, Init
<1>1. /\ Launcher \in Thread /\ Idle \in Thread /\ Launcher # Idle
      /\ Launcher \notin User /\ Idle \notin User /\ NULL \notin Thread
    BY DEF User
<1>2. list \in Seq(Thread) /\ Len(list) = 2 /\ list[2] = Idle
    BY <1>1
<1>3. KernelTypeOK
    BY <1>1, <1>2 DEF KernelTypeOK, LauncherPrio, IdlePrio
<1>4. CallTypeOK
    BY <1>1 DEF CallTypeOK, Op
<1>5. /\ \A t \in Thread : queue[t] = NULL
      /\ \A q \in WaitQueue : waiters[q] = {}
      /\ \A t \in Thread : t \in WaitQueue
    BY DEF WaitQueue
<1>6. LinkConsistent /\ NoJoinerLeft
    BY <1>5 DEF LinkConsistent, NoJoinerLeft
<1>7. SleepAlarmMatchesSleeper /\ OpLive /\ LinkPlace
    BY <1>5 DEF SleepAlarmMatchesSleeper, OpLive, LinkPlace, Live
<1>8. IdleInv
    BY <1>1, <1>2 DEF IdleInv, LauncherPrio, IdlePrio
<1> QED
    BY <1>3, <1>4, <1>6, <1>7, <1>8 DEF Inv, LinkInv, TypeOK

LEMMA StutterInv == Inv /\ UNCHANGED vars => Inv'
<1> SUFFICES ASSUME Inv, UNCHANGED vars PROVE Inv'
    OBVIOUS
<1>1. UNCHANGED <<list, next, state, priority, current, waiters, queue, destructor, sleepAlarm, op,
                  arg, rescheduleCount, isNeedRescheduling, irqMode, irqFlag, missed>>
    BY DEF vars, threadVars, queueVars, callVars, clientVars, schedVars, irqVars
<1>2. KernelInv' /\ CallInv'
    BY <1>1, InvTypeOK, LinkInvParts, KernelUnchanged, CallsUnchanged
       DEF threadVars, queueVars, schedVars, KernelInv, KernelTypeOK
<1>3. IdleInv'
    BY <1>1, InvTypeOK DEF IdleInv
<1> QED
    BY <1>2, <1>3, LinkInvParts DEF Inv

LEMMA NextInv == Inv /\ [Next]_vars => Inv'
<1> SUFFICES ASSUME Inv, [Next]_vars PROVE Inv'
    OBVIOUS
<1>1. {} \in SUBSET Queue
    OBVIOUS
<1>2. ASSUME NEW self \in Thread,
             \/ \E t \in User, p \in Prio, d \in BOOLEAN : CreateThread(self, t, p, d)
             \/ ExitThreadDestroy(self, {})
             \/ DestroySelf(self, {})
             \/ \E t \in User : DestroyThread(self, t, {})
      PROVE  Inv'
    BY <1>1, <1>2, LifeStepInv
<1> QED
    BY <1>2, ThreadStepInv, IrqStepInv, StutterInv DEF Next

-----------------------------------------------------------------------------
(* What the modules that extend the kernel need: threads that sleep inside a  *)
(* call of theirs, in a queue of theirs.                                      *)

OutsideCall == {"lock", "send", "receive"}

OutsideQueue == Queue \ (ClientQueue \cup {IrqQueue})

LEMMA OutsideQueues ==
    /\ OutsideQueue \subseteq Queue /\ OutsideQueue \subseteq WaitQueue
    /\ \A q \in OutsideQueue : q \notin ClientQueue /\ q # IrqQueue /\ q \notin Thread /\ q # NULL
    /\ NULL \notin Thread
BY ThreadAssumption DEF ThreadAssumption, WaitQueue, OutsideQueue

\* What a step of the kernel's own calls does to the threads inside one of those:
\* none joins them or leaves their queues, and only an end or a wake-up makes one
\* ready.
LEMMA ThreadStepKeepsOutside ==
    ASSUME Inv, NEW self \in Thread, ThreadStep(self)
    PROVE  /\ \A x \in Thread : Live(x)' <=> Live(x)
           /\ \A q \in OutsideQueue : waiters'[q] = waiters[q]
           /\ \A x \in Thread : op'[x] \in OutsideCall =>
                 /\ op[x] = op'[x]
                 /\ queue'[x] \in {queue[x], NULL}
                 /\ state'[x] = "waiting" => state[x] = "waiting"
<1> USE InvTypeOK, OutsideQueues DEF TypeOK, KernelTypeOK, CallTypeOK, OutsideCall
<1> DEFINE Kept == /\ \A x \in Thread : Live(x)' <=> Live(x)
                   /\ \A q \in OutsideQueue : waiters'[q] = waiters[q]
                   /\ \A x \in Thread : op'[x] \in OutsideCall =>
                         /\ queue'[x] \in {queue[x], NULL}
                         /\ state'[x] = "waiting" => state[x] = "waiting"
<1>1. \A x \in Thread : op'[x] \in OutsideCall => op[x] = op'[x]
    <2>1. \/ op' = op
          \/ \E x \in Thread, o \in Op \ OutsideCall : op' = [op EXCEPT ![x] = o]
        BY DEF ThreadStep, ExitThread, RunDestructor, DestructorReturn, DestroyReschedule,
               KillThread, SleepThread, SleepThreadDirect, JoinThread, WakeupThread,
               WakeupThreadDirect, YieldThread, Sleep, SleepLoop, SetThreadPriority,
               SetThreadPriorityMasked, DisableScheduler, EnableScheduler, Reschedule, WaitIrq,
               WaitIrqCheck, WaitIrqSleep, callVars, Op, User
    <2> QED
        BY <2>1
<1>2. ASSUME UNCHANGED <<state, queueVars>> PROVE Kept
    BY <1>2 DEF queueVars, Live
<1>3. ASSUME NEW x \in Thread, Live(x), op'[x] \notin OutsideCall,
             NEW q \in WaitQueue \cup {NULL}, q \notin OutsideQueue, Block(x, q)
      PROVE  Kept
    BY <1>3 DEF Block, Live
<1>4. ASSUME NEW q \in ClientQueue, Wakeup(q) PROVE Kept
    <2>1. q \in WaitQueue
        BY ThreadAssumption DEF ThreadAssumption, WaitQueue
    <2>2. \A x \in waiters[q] : x \in Thread /\ Live(x)
        BY <2>1 DEF LinkInv, LinkConsistent
    <2> QED
        BY <1>4, <2>1, <2>2 DEF Wakeup, Live
<1>5. ASSUME NEW x \in Thread, Live(x), UNCHANGED queueVars, state' = [state EXCEPT ![x] = "ready"]
      PROVE  Kept
    BY <1>5 DEF queueVars, Live
<1>6. ASSUME NEW x \in Thread, op[x] \in Op \ ({"none"} \cup OutsideCall)
      PROVE  Live(x) /\ op'[x] \notin OutsideCall
    BY <1>1, <1>6, RunningLive
<1>7. \/ UNCHANGED <<state, queueVars>>
      \/ \E x \in Thread, q \in WaitQueue \cup {NULL} :
            op[x] \in Op \ ({"none"} \cup OutsideCall) /\ q \notin OutsideQueue /\ Block(x, q)
      \/ \E q \in ClientQueue : Wakeup(q)
      \/ \E x \in Thread : /\ Live(x) /\ UNCHANGED queueVars
                           /\ state' = [state EXCEPT ![x] = "ready"]
    <2>1. /\ \A q \in ClientQueue \cup {NULL} : q \in WaitQueue \cup {NULL} /\ q \notin OutsideQueue
          /\ \A q \in User : q \in Thread /\ q \in WaitQueue \cup {NULL} /\ q \notin OutsideQueue
          /\ IrqQueue \in WaitQueue \cup {NULL} /\ IrqQueue \notin OutsideQueue
          /\ NULL \in WaitQueue \cup {NULL} /\ NULL \notin OutsideQueue
        BY ThreadAssumption DEF ThreadAssumption, WaitQueue, User
    <2>2. CASE \/ ExitThread(self) \/ RunDestructor(self) \/ DestructorReturn(self)
               \/ DestroyReschedule(self) \/ YieldThread(self)
               \/ \E t \in Thread, p \in Prio : SetThreadPriority(self, t, p)
               \/ SetThreadPriorityMasked(self)
               \/ DisableScheduler(self) \/ EnableScheduler(self) \/ Reschedule(self)
               \/ \E i \in Irq, clear \in BOOLEAN : WaitIrq(self, clear, i)
               \/ WaitIrqCheck(self)
        BY <2>2 DEF ExitThread, RunDestructor, DestructorReturn, DestroyReschedule, YieldThread,
               SetThreadPriority, SetThreadPriorityMasked, DisableScheduler, EnableScheduler,
               Reschedule, WaitIrq, WaitIrqCheck, threadVars, queueVars
    <2>3. ASSUME NEW t \in User, NEW p \in Prio, KillThread(self, t, p)
          PROVE  /\ Live(t) /\ UNCHANGED queueVars
                 /\ state' = [state EXCEPT ![t] = "ready"]
        BY <2>3 DEF KillThread
    <2>4. ASSUME NEW t \in User, WakeupThreadDirect(self, t)
          PROVE  /\ Live(t) /\ UNCHANGED queueVars
                 /\ state' = [state EXCEPT ![t] = "ready"]
        BY <2>4 DEF WakeupThreadDirect, WakeupDirect
    <2>5. ASSUME NEW q \in ClientQueue, WakeupThread(self, q) PROVE Wakeup(q)
        BY <2>5 DEF WakeupThread
    <2>6. CASE \/ \E q \in ClientQueue \cup {NULL} : SleepThread(self, q)
               \/ \E t \in User, q \in ClientQueue \cup {NULL} : SleepThreadDirect(self, t, q)
               \/ \E t \in User : JoinThread(self, t)
               \/ Sleep(self) \/ SleepLoop(self) \/ WaitIrqSleep(self)
        BY <2>1, <2>6 DEF SleepThread, SleepThreadDirect, JoinThread, Sleep, SleepLoop, Calling,
               WaitIrqSleep, threadVars, Op
    <2> QED
        BY <2>1, <2>2, <2>3, <2>4, <2>5, <2>6 DEF ThreadStep
<1>8. Kept
    BY <1>2, <1>3, <1>4, <1>5, <1>6, <1>7
<1> QED
    BY <1>1, <1>8

LEMMA IrqStepKeepsOutside ==
    ASSUME Inv, IrqStep
    PROVE  /\ \A x \in Thread : Live(x)' <=> Live(x)
           /\ \A q \in OutsideQueue : waiters'[q] = waiters[q]
           /\ op' = op
           /\ \A x \in Thread : queue'[x] \in {queue[x], NULL}
           /\ \A x \in Thread : state'[x] = "waiting" => state[x] = "waiting"
<1> USE InvTypeOK, OutsideQueues DEF TypeOK, KernelTypeOK
<1>1. op' = op
    BY DEF IrqStep, IrqEnter, IrqWakeupThread, IrqWakeupThreadDirect, SleepAlarmCallback, IrqExit,
           callVars
<1> DEFINE Kept == /\ \A x \in Thread : Live(x)' <=> Live(x)
                   /\ \A q \in OutsideQueue : waiters'[q] = waiters[q]
                   /\ \A x \in Thread : queue'[x] \in {queue[x], NULL}
                   /\ \A x \in Thread : state'[x] = "waiting" => state[x] = "waiting"
<1>2. ASSUME NEW i \in Irq, IrqEnter(i) PROVE Kept
    BY <1>2 DEF IrqEnter, threadVars, queueVars, Live
<1>3. ASSUME NEW q \in ClientQueue, IrqWakeupThread(q) PROVE Kept
    <2>1. q \in WaitQueue
        BY ThreadAssumption DEF ThreadAssumption, WaitQueue
    <2>2. \A x \in waiters[q] : x \in Thread /\ Live(x)
        BY <2>1 DEF LinkInv, LinkConsistent
    <2> QED
        BY <1>3, <2>1, <2>2 DEF IrqWakeupThread, Wakeup, Live
<1>4. ASSUME NEW t \in User, IrqWakeupThreadDirect(t) PROVE Kept
    BY <1>4 DEF IrqWakeupThreadDirect, WakeupDirect, queueVars, Live
<1>5. ASSUME NEW t \in User, SleepAlarmCallback(t) PROVE Kept
    <2>1. Live(t)
        BY <1>5 DEF SleepAlarmCallback, LinkInv, SleepAlarmMatchesSleeper
    <2> QED
        BY <1>5, <2>1 DEF SleepAlarmCallback, WakeupDirect, queueVars, Live
<1>6. ASSUME IrqExit PROVE Kept
    <2>1. \A x \in waiters[IrqQueue] : x \in Thread /\ Live(x)
        BY NullIsNoQueue DEF LinkInv, LinkConsistent
    <2> QED
        BY <1>6, <2>1 DEF IrqExit, WokenByIrq, Live
<1>7. Kept
    BY <1>2, <1>3, <1>4, <1>5, <1>6 DEF IrqStep
<1> QED
    BY <1>1, <1>7

\* A call that neither blocks nor wakes, with or without leaving the call.
LEMMA NoSwitchInv ==
    ASSUME Inv, NEW self \in Thread, op[self] \in Op \ {"none", "sleep"}, self # Idle,
           op' \in {op, [op EXCEPT ![self] = "run"]},
           UNCHANGED <<threadVars, queueVars, schedVars, arg, clientVars, irqVars, rescheduleCount>>
    PROVE  Inv'
<1> USE InvTypeOK DEF TypeOK, KernelTypeOK, CallTypeOK
<1>1. PICK o \in {op[self], "run"} : op' = [op EXCEPT ![self] = o]
    <2>1. op = [op EXCEPT ![self] = op[self]]
        OBVIOUS
    <2> QED
        BY <2>1
<1>2. arg' = [arg EXCEPT ![self] = arg[self]] /\ irqFlag' \subseteq Irq /\ rescheduleCount' \in Nat
      /\ irqMode' = irqMode /\ o \in Op \ {"none", "sleep"}
      /\ arg[self] \in SetPriorityCall \cup Irq \cup {NULL}
    BY <1>1 DEF irqVars, Op
<1>3. /\ o = "setprio" => arg[self] \in SetPriorityCall
      /\ o \in {"irqcheck", "irqsleep"} => arg[self] \in Irq /\ queue[self] \in {NULL, IrqQueue}
    BY <1>1 DEF LinkInv, LinkPlace
<1>4. LinkInv'
    BY <1>1, <1>2, <1>3, CallStepInv
<1>5. IdleInv'
    BY <1>1, ThreadAssumption DEF ThreadAssumption, IdleInv, threadVars
<1> QED
    BY <1>4, <1>5 DEF Inv

\* A call that puts its caller to sleep.
LEMMA OutsideBlockInv ==
    ASSUME Inv, NEW self \in Thread, NEW m \in OutsideQueue, NEW call \in OutsideCall,
           op[self] \in {"run", call}, self # Idle,
           queue[self] \in {NULL, m}, Block(self, m), op' = [op EXCEPT ![self] = call],
           UNCHANGED <<arg, clientVars, irqVars, rescheduleCount>>
    PROVE  /\ Inv'
           /\ waiters' = [waiters EXCEPT ![m] = @ \cup {self}]
           /\ queue' = [queue EXCEPT ![self] = m]
           /\ state' = [state EXCEPT ![self] = "waiting"]
           /\ \A x \in Thread : Live(x)' <=> Live(x)
<1> USE InvTypeOK, OutsideQueues DEF TypeOK, KernelTypeOK, CallTypeOK, OutsideCall
<1>1. Live(self) /\ KernelInv
    BY RunningLive, LinkInvParts
<1>2. /\ KernelInv'
      /\ state' = [state EXCEPT ![self] = "waiting"]
      /\ \A x \in Thread : Live(x)' <=> Live(x)
      /\ queue' = [queue EXCEPT ![self] = m]
    <2>1. /\ m \in WaitQueue \cup {NULL} /\ (m # NULL => queue[self] \in {NULL, m})
          /\ (m \in Thread => Live(m)) /\ UNCHANGED <<rescheduleCount, irqMode>> /\ m # NULL
        BY DEF irqVars
    <2> QED
        BY <1>1, <2>1, BlockEffect
<1>3. waiters' = [waiters EXCEPT ![m] = @ \cup {self}]
    BY DEF Block
<1>4. CallInv'
    <2>1. UNCHANGED <<arg, destructor, sleepAlarm, irqFlag>>
        BY DEF clientVars, irqVars
    <2>2. CallTypeOK'
        BY <2>1 DEF Op
    <2>3. SleepAlarmMatchesSleeper'
        BY <1>2, <2>1 DEF LinkInv, SleepAlarmMatchesSleeper
    <2>4. OpLive' /\ LinkPlace'
        BY <1>1, <1>2 DEF LinkInv, OpLive, LinkPlace
    <2> QED
        BY <2>2, <2>3, <2>4 DEF CallInv
<1>5. IdleInv'
    BY <1>2, ThreadAssumption DEF ThreadAssumption, IdleInv, Block
<1> QED
    BY <1>2, <1>3, <1>4, <1>5, LinkInvParts DEF Inv

\* A call that wakes the threads of its queue, and returns if its caller has slept in it.
LEMMA OutsideWakeupInv ==
    ASSUME Inv, NEW m \in OutsideQueue, Wakeup(m), NEW self \in Thread,
           \/ op' = op
           \/ op[self] \in OutsideCall /\ op' = [op EXCEPT ![self] = "run"],
           UNCHANGED <<arg, clientVars, irqVars, rescheduleCount>>
    PROVE  /\ Inv'
           /\ waiters' = [waiters EXCEPT ![m] = {}]
           /\ \A x \in Thread : Live(x)' <=> Live(x)
           /\ \A x \in Thread : state'[x] \in {state[x], "ready"} /\ queue'[x] \in {queue[x], NULL}
           /\ \A x \in waiters[m] : state'[x] = "ready"
<1> USE InvTypeOK, OutsideQueues DEF TypeOK, KernelTypeOK, CallTypeOK, OutsideCall
<1>1. UNCHANGED <<arg, destructor, sleepAlarm, irqFlag, irqMode, rescheduleCount>>
    BY DEF clientVars, irqVars
<1>2. /\ KernelInv'
      /\ waiters' = [waiters EXCEPT ![m] = {}]
      /\ \A x \in Thread : Live(x)' <=> Live(x)
      /\ \A x \in Thread : state'[x] \in {state[x], "ready"} /\ queue'[x] \in {queue[x], NULL}
      /\ \A x \in waiters[m] : state'[x] = "ready"
    BY <1>1, WakeupEffect, LinkInvParts
<1>3. CallInv'
    <2>1. CallTypeOK'
        BY <1>1 DEF Op
    <2>2. SleepAlarmMatchesSleeper'
        BY <1>1, <1>2 DEF LinkInv, SleepAlarmMatchesSleeper
    <2>3. OpLive' /\ LinkPlace'
        BY <1>1, <1>2, RunningLive DEF LinkInv, OpLive, LinkPlace
    <2> QED
        BY <2>1, <2>2, <2>3 DEF CallInv
<1>4. IdleInv'
    BY ThreadAssumption DEF ThreadAssumption, IdleInv, Wakeup
<1> QED
    BY <1>2, <1>3, <1>4, LinkInvParts DEF Inv

-----------------------------------------------------------------------------
(* The order of the list.  A step that reschedules selects the most urgent     *)
(* thread from the list it leaves; the others leave the list in an order in    *)
(* which the same thread is selected.                                          *)

\* The most urgent first, and no thread twice.
Sorted(l, pr) == \A i, j \in 1 .. Len(l) : i < j => l[i] # l[j] /\ pr[l[i]] <= pr[l[j]]

\* OSi_InsertThreadToList: the thread comes behind the more urgent ones, in front of the
\* others, and the list is the same but for it.
LEMMA InsertThreadItems ==
    ASSUME NEW l \in Seq(Thread), NEW pr \in [Thread -> Int], NEW t \in Thread
    PROVE  \E k \in 1 .. Len(l) + 1 :
              /\ InsertThread(l, pr, t) \in Seq(Thread)
              /\ Len(InsertThread(l, pr, t)) = Len(l) + 1
              /\ InsertThread(l, pr, t)[k] = t
              /\ \A i \in 1 .. k - 1 : InsertThread(l, pr, t)[i] = l[i] /\ pr[l[i]] < pr[t]
              /\ \A i \in k .. Len(l) : InsertThread(l, pr, t)[i + 1] = l[i]
              /\ k \in 1 .. Len(l) => pr[l[k]] >= pr[t]
<1> DEFINE I == {i \in 1 .. Len(l) : pr[l[i]] >= pr[t]} \cup {Len(l) + 1}
           k == First(I)
           r == SubSeq(l, 1, k - 1) \o <<t>> \o SubSeq(l, k, Len(l))
<1>1. k \in I /\ \A j \in I : k <= j
    <2>1. I \in SUBSET Nat /\ I # {}
        OBVIOUS
    <2> HIDE DEF I
    <2> QED
        BY <2>1, FirstIsLeast
<1> HIDE DEF k
<1>2. k \in 1 .. Len(l) + 1 /\ (k \in 1 .. Len(l) => pr[l[k]] >= pr[t])
    BY <1>1
<1>3. \A i \in 1 .. k - 1 : pr[l[i]] < pr[t]
    <2> TAKE i \in 1 .. k - 1
    <2>1. i \in 1 .. Len(l) /\ i < k
        BY <1>2
    <2>2. i \notin I
        BY <1>1, <2>1
    <2>3. l[i] \in Thread
        BY <2>1
    <2> QED
        BY <2>1, <2>2, <2>3
<1> HIDE DEF I
<1>4. /\ r \in Seq(Thread) /\ Len(r) = Len(l) + 1 /\ r[k] = t
      /\ \A i \in 1 .. k - 1 : r[i] = l[i]
      /\ \A i \in k .. Len(l) : r[i + 1] = l[i]
    <2> DEFINE a == SubSeq(l, 1, k - 1)
               c == SubSeq(l, k, Len(l))
    <2>1. a \in Seq(Thread) /\ Len(a) = k - 1 /\ \A i \in 1 .. k - 1 : a[i] = l[i]
        BY <1>2
    <2>2. c \in Seq(Thread) /\ Len(c) = Len(l) + 1 - k /\ \A i \in k .. Len(l) : c[i + 1 - k] = l[i]
        BY <1>2
    <2> HIDE DEF a, c
    <2>3. a \o <<t>> \in Seq(Thread) /\ Len(a \o <<t>>) = k /\ (a \o <<t>>)[k] = t
          /\ \A i \in 1 .. k - 1 : (a \o <<t>>)[i] = l[i]
        BY <1>2, <2>1
    <2> DEFINE b == a \o <<t>>
    <2> HIDE DEF b
    <2>4. /\ b \o c \in Seq(Thread) /\ Len(b \o c) = Len(l) + 1 /\ (b \o c)[k] = t
          /\ \A i \in 1 .. k - 1 : (b \o c)[i] = l[i]
          /\ \A i \in k .. Len(l) : (b \o c)[i + 1] = l[i]
        <3>1. /\ b \o c \in Seq(Thread) /\ Len(b \o c) = Len(b) + Len(c)
              /\ \A i \in 1 .. Len(b) + Len(c) :
                    (b \o c)[i] = IF i <= Len(b) THEN b[i] ELSE c[i - Len(b)]
            BY SMTT(30), <2>2, <2>3, ConcatProperties DEF b
        <3>2. b \in Seq(Thread) /\ Len(b) = k /\ b[k] = t /\ \A i \in 1 .. k - 1 : b[i] = l[i]
            BY <2>3 DEF b
        <3> DEFINE d == b \o c
        <3> HIDE DEF d
        <3>3. Len(d) = Len(l) + 1 /\ d[k] = t /\ \A i \in 1 .. k - 1 : d[i] = l[i]
            BY <1>2, <2>2, <3>1, <3>2 DEF d
        <3>4. ASSUME NEW i \in k .. Len(l) PROVE d[i + 1] = l[i]
            <4>1. d[i + 1] = c[i + 1 - k]
                <5>1. /\ (i + 1) - Len(b) = i + 1 - k /\ i + 1 \in 1 .. Len(b) + Len(c)
                      /\ ~(i + 1 <= Len(b))
                    BY <1>2, <2>2, <3>2
                <5> QED
                    BY <3>1, <5>1 DEF d
            <4> QED
                BY <2>2, <4>1
        <3> QED
            BY <3>1, <3>3, <3>4 DEF d
    <2> QED
        BY <2>4 DEF a, b, c
<1> HIDE DEF r
<1>5. InsertThread(l, pr, t) = r
    BY DEF InsertThread, r, k, I
<1> QED
    BY <1>2, <1>3, <1>4, <1>5

\* OSi_RemoveThreadFromList: the same list without the thread.
LEMMA RemoveThreadItems ==
    ASSUME NEW l \in Seq(Thread), NEW t, Contains(l, t)
    PROVE  /\ RemoveThread(l, t) \in Seq(Thread)
           /\ Len(RemoveThread(l, t)) = Len(l) - 1
           /\ Position(l, t) \in 1 .. Len(l) /\ l[Position(l, t)] = t
           /\ \A i \in 1 .. Position(l, t) - 1 : RemoveThread(l, t)[i] = l[i]
           /\ \A i \in Position(l, t) .. Len(l) - 1 : RemoveThread(l, t)[i] = l[i + 1]
<1> DEFINE k == Position(l, t)
           a == SubSeq(l, 1, k - 1)
           c == SubSeq(l, k + 1, Len(l))
<1>1. k \in 1 .. Len(l) /\ l[k] = t
    BY PositionInList DEF Contains
<1>2. RemoveThread(l, t) = a \o c
    BY DEF RemoveThread, Contains
<1> HIDE DEF k
<1>3. a \in Seq(Thread) /\ Len(a) = k - 1 /\ \A i \in 1 .. k - 1 : a[i] = l[i]
    BY <1>1
<1>4. c \in Seq(Thread) /\ Len(c) = Len(l) - k /\ \A i \in k .. Len(l) - 1 : c[i + 1 - k] = l[i + 1]
    BY <1>1
<1> HIDE DEF a, c
<1>5. /\ a \o c \in Seq(Thread) /\ Len(a \o c) = Len(l) - 1
      /\ \A i \in 1 .. k - 1 : (a \o c)[i] = l[i]
      /\ \A i \in k .. Len(l) - 1 : (a \o c)[i] = l[i + 1]
    <2>1. /\ a \o c \in Seq(Thread) /\ Len(a \o c) = Len(a) + Len(c)
          /\ \A i \in 1 .. Len(a) + Len(c) :
                (a \o c)[i] = IF i <= Len(a) THEN a[i] ELSE c[i - Len(a)]
        BY <1>3, <1>4, ConcatProperties
    <2> DEFINE d == a \o c
    <2> HIDE DEF d
    <2>2. Len(d) = Len(l) - 1 /\ \A i \in 1 .. k - 1 : d[i] = l[i]
        BY <1>1, <1>3, <1>4, <2>1 DEF d
    <2>3. ASSUME NEW i \in k .. Len(l) - 1 PROVE d[i] = l[i + 1]
        <3>1. d[i] = c[i + 1 - k]
            <4>1. i - Len(a) = i + 1 - k /\ i \in 1 .. Len(a) + Len(c) /\ ~(i <= Len(a))
                BY <1>1, <1>3, <1>4
            <4> QED
                BY <2>1, <4>1 DEF d
        <3> QED
            BY <1>4, <3>1
    <2> QED
        BY <2>1, <2>2, <2>3 DEF d
<1> QED
    BY <1>1, <1>2, <1>5 DEF k

\* Both keep the order, and change the threads of the list by the one.
LEMMA InsertThreadSorted ==
    ASSUME NEW l \in Seq(Thread), NEW pr \in [Thread -> Int], NEW t \in Thread,
           Sorted(l, pr), ~Contains(l, t)
    PROVE  /\ Sorted(InsertThread(l, pr, t), pr)
           /\ ToSet(InsertThread(l, pr, t)) = ToSet(l) \cup {t}
<1> DEFINE r == InsertThread(l, pr, t)
<1>1. PICK k \in 1 .. Len(l) + 1 :
         /\ r \in Seq(Thread)
         /\ Len(r) = Len(l) + 1
         /\ r[k] = t
         /\ \A i \in 1 .. k - 1 : r[i] = l[i] /\ pr[l[i]] < pr[t]
         /\ \A i \in k .. Len(l) : r[i + 1] = l[i]
         /\ k \in 1 .. Len(l) => pr[l[k]] >= pr[t]
    BY InsertThreadItems
<1> HIDE DEF r
<1>2. \A i \in 1 .. Len(l) : l[i] \in Thread /\ l[i] # t /\ pr[l[i]] \in Int
    BY DEF Contains
<1>3. \A i \in 1 .. Len(r) : \/ i < k /\ i \in 1 .. Len(l) /\ r[i] = l[i]
                             \/ i = k /\ r[i] = t
                             \/ i > k /\ i - 1 \in k .. Len(l) /\ i - 1 \in 1 .. Len(l) /\ r[i] = l[i - 1]
    <2> TAKE i \in 1 .. Len(r)
    <2>0. Len(l) \in Nat
        OBVIOUS
    <2>1. CASE i < k
        <3>1. i \in 1 .. k - 1 /\ i \in 1 .. Len(l)
            BY <1>1, <2>0, <2>1
        <3>2. r[i] = l[i]
            BY <1>1, <3>1
        <3> QED
            BY <2>1, <3>1, <3>2
    <2>2. CASE i = k
        <3>1. r[i] = t
            BY <1>1, <2>2
        <3> QED
            BY <2>2, <3>1
    <2>3. CASE i > k
        <3>0. k \in 1 .. Len(l) + 1 /\ i \in 1 .. Len(l) + 1
            BY <1>1
        <3>1. i - 1 \in k .. Len(l) /\ i - 1 \in 1 .. Len(l) /\ (i - 1) + 1 = i
            BY <2>0, <2>3, <3>0
        <3> QED
            BY <1>1, <2>3, <3>1
    <2> QED
        BY <1>1, <2>1, <2>2, <2>3
<1>4. \A i \in 1 .. Len(l) : i >= k => pr[t] <= pr[l[i]]
    <2> TAKE i \in 1 .. Len(l)
    <2> HAVE i >= k
    <2>0. k \in 1 .. Len(l)
        OBVIOUS
    <2>1. k \in 1 .. Len(l) /\ pr[l[k]] >= pr[t]
        BY <1>1, <2>0
    <2>2. pr[l[k]] <= pr[l[i]]
        BY <1>2, <2>1 DEF Sorted
    <2>3. pr[t] \in Int /\ pr[l[k]] \in Int /\ pr[l[i]] \in Int
        BY <1>2, <2>1
    <2> QED
        BY <2>1, <2>2, <2>3
<1>5. Sorted(r, pr)
    <2> SUFFICES ASSUME NEW i \in 1 .. Len(r), NEW j \in 1 .. Len(r), i < j
                 PROVE  r[i] # r[j] /\ pr[r[i]] <= pr[r[j]]
        BY DEF Sorted
    <2>1. CASE j < k
        <3>1. r[j] = l[j] /\ r[i] = l[i] /\ i \in 1 .. Len(l) /\ j \in 1 .. Len(l)
            BY <1>1, <1>3, <2>1
        <3> QED
            BY <3>1 DEF Sorted
    <2>2. CASE j = k
        BY SMTT(30), <1>1, <1>2, <1>3, <2>2
    <2>3. CASE j > k /\ i < k
        <3>1. r[j] = l[j - 1] /\ r[i] = l[i] /\ i < j - 1 /\ i \in 1 .. Len(l) /\ j - 1 \in 1 .. Len(l)
            BY <1>3, <2>3
        <3> QED
            BY <3>1 DEF Sorted
    <2>4. CASE j > k /\ i = k
        <3>1. r[j] = l[j - 1] /\ r[i] = t /\ j - 1 \in 1 .. Len(l) /\ j - 1 >= k
            BY <1>3, <2>4
        <3> QED
            BY <1>2, <1>4, <3>1
    <2>5. CASE j > k /\ i > k
        <3>1. r[j] = l[j - 1] /\ r[i] = l[i - 1] /\ i - 1 < j - 1
              /\ i - 1 \in 1 .. Len(l) /\ j - 1 \in 1 .. Len(l)
            BY <1>3, <2>5
        <3> QED
            BY <3>1 DEF Sorted
    <2> QED
        BY <2>1, <2>2, <2>3, <2>4, <2>5
<1>6. ToSet(r) = ToSet(l) \cup {t}
    <2>0. /\ \A x : x \in ToSet(r) <=> \E i \in 1 .. Len(r) : x = r[i]
          /\ \A x : x \in ToSet(l) <=> \E i \in 1 .. Len(l) : x = l[i]
          /\ Len(l) \in Nat /\ Len(r) \in Nat
        <3>1. DOMAIN r = 1 .. Len(r) /\ DOMAIN l = 1 .. Len(l) /\ Len(l) \in Nat /\ Len(r) \in Nat
            BY <1>1
        <3> QED
            BY <3>1 DEF ToSet
    <2>1. ASSUME NEW x \in ToSet(r) PROVE x \in ToSet(l) \cup {t}
        <3>1. PICK i \in 1 .. Len(r) : x = r[i]
            BY <2>0
        <3>2. r[i] = t \/ (i \in 1 .. Len(l) /\ r[i] = l[i])
              \/ (i - 1 \in 1 .. Len(l) /\ r[i] = l[i - 1])
            BY <1>3
        <3> QED
            BY <2>0, <3>1, <3>2
    <2>2. ASSUME NEW x \in ToSet(l) PROVE x \in ToSet(r)
        <3>1. PICK i \in 1 .. Len(l) : x = l[i]
            BY <2>0
        <3>2. CASE i < k
            <4>1. i \in 1 .. k - 1 /\ i \in 1 .. Len(r)
                BY <1>1, <2>0, <3>1, <3>2
            <4> QED
                BY <1>1, <2>0, <3>1, <4>1
        <3>3. CASE i >= k
            <4>1. i \in k .. Len(l) /\ i + 1 \in 1 .. Len(r)
                BY <1>1, <2>0, <3>1, <3>3
            <4> QED
                BY <1>1, <2>0, <3>1, <4>1
        <3> QED
            BY <3>2, <3>3
    <2>3. t \in ToSet(r)
        <3>1. k \in 1 .. Len(r)
            BY <1>1, <2>0
        <3> QED
            BY <1>1, <2>0, <3>1
    <2> QED
        BY <2>1, <2>2, <2>3
<1> QED
    BY <1>5, <1>6 DEF r

LEMMA RemoveThreadSorted ==
    ASSUME NEW l \in Seq(Thread), NEW pr, NEW t, Sorted(l, pr)
    PROVE  /\ Sorted(RemoveThread(l, t), pr)
           /\ ToSet(RemoveThread(l, t)) = ToSet(l) \ {t}
           /\ RemoveThread(l, t) \in Seq(Thread)
<1>1. CASE ~Contains(l, t)
    <2>1. RemoveThread(l, t) = l
        BY <1>1 DEF RemoveThread, Contains
    <2>2. t \notin ToSet(l)
        BY <1>1 DEF ToSet, Contains
    <2> QED
        BY <2>1, <2>2
<1>2. CASE Contains(l, t)
    <2> DEFINE r == RemoveThread(l, t)
               k == Position(l, t)
    <2>1. /\ r \in Seq(Thread)
          /\ Len(r) = Len(l) - 1
          /\ k \in 1 .. Len(l) /\ l[k] = t
          /\ \A i \in 1 .. k - 1 : r[i] = l[i]
          /\ \A i \in k .. Len(l) - 1 : r[i] = l[i + 1]
        BY <1>2, RemoveThreadItems
    <2> HIDE DEF r, k
    <2>2. \A i \in 1 .. Len(r) : \/ i < k /\ i \in 1 .. Len(l) /\ r[i] = l[i]
                                 \/ i >= k /\ i + 1 \in 1 .. Len(l) /\ r[i] = l[i + 1]
        <3> TAKE i \in 1 .. Len(r)
        <3>0. Len(l) \in Nat
            OBVIOUS
        <3>1. CASE i < k
            <4>1. i \in 1 .. k - 1 /\ i \in 1 .. Len(l)
                BY <2>1, <3>0, <3>1
            <4>2. r[i] = l[i]
                BY <2>1, <4>1
            <4> QED
                BY <3>1, <4>1, <4>2
        <3>2. CASE i >= k
            <4>1. i \in k .. Len(l) - 1 /\ i + 1 \in 1 .. Len(l)
                BY <2>1, <3>0, <3>2
            <4>2. r[i] = l[i + 1]
                BY <2>1, <4>1
            <4> QED
                BY <3>2, <4>1, <4>2
        <3> QED
            BY <2>1, <3>1, <3>2
    <2>3. Sorted(r, pr)
        <3> SUFFICES ASSUME NEW i \in 1 .. Len(r), NEW j \in 1 .. Len(r), i < j
                     PROVE  r[i] # r[j] /\ pr[r[i]] <= pr[r[j]]
            BY DEF Sorted
        <3>1. CASE j < k
            <4>1. r[j] = l[j] /\ r[i] = l[i] /\ i \in 1 .. Len(l) /\ j \in 1 .. Len(l)
                BY <2>1, <2>2, <3>1
            <4> QED
                BY <4>1 DEF Sorted
        <3>2. CASE i < k /\ j >= k
            <4>1. r[i] = l[i] /\ r[j] = l[j + 1] /\ i < j + 1 /\ i \in 1 .. Len(l) /\ j + 1 \in 1 .. Len(l)
                BY <2>1, <2>2, <3>2
            <4> QED
                BY <4>1 DEF Sorted
        <3>3. CASE i >= k
            <4>1. r[i] = l[i + 1] /\ r[j] = l[j + 1] /\ i + 1 < j + 1
                  /\ i + 1 \in 1 .. Len(l) /\ j + 1 \in 1 .. Len(l)
                BY <2>1, <2>2, <3>3
            <4> QED
                BY <4>1 DEF Sorted
        <3> QED
            BY <2>1, <3>1, <3>2, <3>3
    <2>4. ToSet(r) = ToSet(l) \ {t}
        <3>0. /\ \A x : x \in ToSet(r) <=> \E i \in 1 .. Len(r) : x = r[i]
              /\ \A x : x \in ToSet(l) <=> \E i \in 1 .. Len(l) : x = l[i]
              /\ Len(l) \in Nat
            <4>1. DOMAIN r = 1 .. Len(r) /\ DOMAIN l = 1 .. Len(l) /\ Len(l) \in Nat
                BY <2>1
            <4> QED
                BY <4>1 DEF ToSet
        <3>1. ASSUME NEW x \in ToSet(r) PROVE x \in ToSet(l) \ {t}
            <4>1. PICK i \in 1 .. Len(r) : x = r[i]
                BY <3>0
            <4>2. CASE i < k
                <5>1. x = l[i] /\ i \in 1 .. Len(l) /\ i < k
                    BY <2>1, <2>2, <4>1, <4>2
                <5> QED
                    BY <2>1, <3>0, <5>1 DEF Sorted
            <4>3. CASE i >= k
                <5>1. x = l[i + 1] /\ i + 1 \in 1 .. Len(l) /\ k < i + 1
                    BY <2>1, <2>2, <4>1, <4>3
                <5> QED
                    BY <2>1, <3>0, <5>1 DEF Sorted
            <4> QED
                BY <2>1, <4>2, <4>3
        <3>2. ASSUME NEW x \in ToSet(l) \ {t} PROVE x \in ToSet(r)
            <4>1. PICK i \in 1 .. Len(l) : x = l[i] /\ i # k
                BY <2>1, <3>0
            <4>2. CASE i < k
                <5>1. i \in 1 .. k - 1 /\ i \in 1 .. Len(r)
                    BY <2>1, <3>0, <4>1, <4>2
                <5> QED
                    BY <2>1, <3>0, <4>1, <5>1
            <4>3. CASE i > k
                <5>1. i - 1 \in k .. Len(l) - 1 /\ i - 1 \in 1 .. Len(r) /\ (i - 1) + 1 = i
                    BY <2>1, <3>0, <4>1, <4>3
                <5> QED
                    BY <2>1, <3>0, <4>1, <5>1
            <4> QED
                BY <2>1, <4>1, <4>2, <4>3
        <3> QED
            BY <3>1, <3>2
    <2> QED
        BY <2>1, <2>3, <2>4 DEF r
<1> QED
    BY <1>1, <1>2

FirstReady(l, st, n) == /\ n \in 1 .. Len(l) /\ st[l[n]] = "ready"
                        /\ \A j \in 1 .. n - 1 : st[l[j]] # "ready"

\* OS_SelectThread returns the first runnable thread of the list.
LEMMA SelectThreadIs ==
    ASSUME NEW l \in Seq(Thread), NEW st, NEW n, FirstReady(l, st, n)
    PROVE  SelectThread(l, st) = l[n]
<1> USE DEF FirstReady
<1> DEFINE I == {i \in 1 .. Len(l) : st[l[i]] = "ready"}
<1>1. I \in SUBSET Nat /\ n \in I
    OBVIOUS
<1>2. First(I) \in I /\ First(I) <= n
    <2> HIDE DEF I
    <2> QED
        BY <1>1, FirstIsLeast
<1>3. First(I) = n
    <2>1. First(I) \notin 1 .. n - 1
        BY <1>2
    <2>2. First(I) \in 1 .. Len(l)
        BY <1>2
    <2> HIDE DEF I
    <2> QED
        BY <1>2, <2>1, <2>2
<1> QED
    BY <1>1, <1>3 DEF SelectThread

\* ... and if it returns a thread there is a first runnable one.
LEMMA SelectThreadPlace ==
    ASSUME NEW l \in Seq(Thread), NEW st, SelectThread(l, st) # NULL
    PROVE  \E n \in 1 .. Len(l) : SelectThread(l, st) = l[n] /\ FirstReady(l, st, n)
<1> USE DEF FirstReady
<1> DEFINE I == {i \in 1 .. Len(l) : st[l[i]] = "ready"}
<1>1. I # {} /\ SelectThread(l, st) = l[First(I)] /\ I \in SUBSET Nat
    BY DEF SelectThread
<1>2. First(I) \in I /\ \A j \in I : First(I) <= j
    <2> HIDE DEF I
    <2> QED
        BY <1>1, FirstIsLeast
<1>3. First(I) \in 1 .. Len(l) /\ st[l[First(I)]] = "ready"
    BY <1>2
<1>4. \A j \in 1 .. First(I) - 1 : st[l[j]] # "ready"
    <2> TAKE j \in 1 .. First(I) - 1
    <2>1. j \in 1 .. Len(l) /\ ~(First(I) <= j)
        BY <1>3
    <2> QED
        BY <1>2, <2>1
<1> QED
    BY <1>1, <1>3, <1>4

\* t is not in l, and not runnable in the states sn, the others of which are st's.
Joins(l, t, st, sn) == /\ sn[t] # "ready"
                       /\ \A x \in Thread \ {t} : sn[x] = st[x]
                       /\ \A i \in 1 .. Len(l) : l[i] # t

\* A thread that is not runnable may join the list, and one that is not selected may
\* leave it: the same thread is selected.
LEMMA InsertKeepsSelected ==
    ASSUME NEW l \in Seq(Thread), NEW pr \in [Thread -> Int], NEW t \in Thread,
           NEW st, NEW sn, Joins(l, t, st, sn), SelectThread(l, st) # NULL
    PROVE  SelectThread(InsertThread(l, pr, t), sn) = SelectThread(l, st)
<1> USE DEF Joins
<1> DEFINE r == InsertThread(l, pr, t)
<1>1. PICK n \in 1 .. Len(l) : /\ SelectThread(l, st) = l[n] /\ st[l[n]] = "ready"
                               /\ \A j \in 1 .. n - 1 : st[l[j]] # "ready"
    BY SelectThreadPlace DEF FirstReady
<1>2. PICK k \in 1 .. Len(l) + 1 :
         /\ r \in Seq(Thread)
         /\ Len(r) = Len(l) + 1
         /\ r[k] = t
         /\ \A i \in 1 .. k - 1 : r[i] = l[i]
         /\ \A i \in k .. Len(l) : r[i + 1] = l[i]
    <2>1. PICK k \in 1 .. Len(l) + 1 :
             /\ r \in Seq(Thread)
             /\ Len(r) = Len(l) + 1
             /\ r[k] = t
             /\ \A i \in 1 .. k - 1 : r[i] = l[i] /\ pr[l[i]] < pr[t]
             /\ \A i \in k .. Len(l) : r[i + 1] = l[i]
             /\ k \in 1 .. Len(l) => pr[l[k]] >= pr[t]
        BY InsertThreadItems
    <2> HIDE DEF r
    <2> QED
        BY <2>1
<1> HIDE DEF r
<1>3. \A i \in 1 .. Len(l) : l[i] \in Thread /\ sn[l[i]] = st[l[i]]
    OBVIOUS
<1>4. CASE n < k
    <2>1. n \in 1 .. Len(r) /\ r[n] = l[n] /\ sn[r[n]] = "ready"
        BY SMTT(30), <1>1, <1>2, <1>3, <1>4
    <2>2. ASSUME NEW j \in 1 .. n - 1 PROVE sn[r[j]] # "ready"
        <3>1. j \in 1 .. k - 1 /\ j \in 1 .. Len(l)
            BY <1>4
        <3> QED
            BY <1>1, <1>2, <1>3, <3>1
    <2>3. FirstReady(r, sn, n)
        BY <2>1, <2>2 DEF FirstReady
    <2>4. SelectThread(r, sn) = r[n]
        BY <1>2, <2>3, SelectThreadIs
    <2> QED
        BY <1>1, <2>1, <2>4 DEF r
<1>5. CASE n >= k
    <2>1. n \in k .. Len(l) /\ n + 1 \in 1 .. Len(r)
        BY SMTT(30), <1>1, <1>2, <1>5
    <2>2. r[n + 1] = l[n] /\ sn[r[n + 1]] = "ready"
        BY <1>1, <1>2, <1>3, <2>1
    <2>3. ASSUME NEW j \in 1 .. (n + 1) - 1 PROVE sn[r[j]] # "ready"
        <3>1. CASE j < k
            <4>1. j \in 1 .. k - 1 /\ j \in 1 .. n - 1 /\ j \in 1 .. Len(l)
                BY <1>5, <3>1
            <4> QED
                BY ZenonT(30), <1>1, <1>2, <1>3, <4>1
        <3>2. CASE j = k
            BY <1>2, <3>2
        <3>3. CASE j > k
            <4>1. j - 1 \in k .. Len(l) /\ j - 1 \in 1 .. n - 1 /\ j - 1 \in 1 .. Len(l) /\ (j - 1) + 1 = j
                BY SMTT(30), <3>3
            <4>2. r[j] = l[j - 1]
                BY <1>2, <4>1
            <4> QED
                BY <1>1, <1>3, <4>1, <4>2
        <3> QED
            BY <3>1, <3>2, <3>3
    <2>4. SelectThread(r, sn) = r[n + 1]
        <3>1. FirstReady(r, sn, n + 1)
            BY <2>1, <2>2, <2>3 DEF FirstReady
        <3> QED
            BY <1>2, <3>1, SelectThreadIs
    <2> QED
        BY <1>1, <2>2, <2>4 DEF r
<1> QED
    BY <1>4, <1>5

LEMMA RemoveKeepsSelected ==
    ASSUME NEW l \in Seq(Thread), NEW t \in Thread, NEW st, NEW sn,
           \A x \in Thread \ {t} : sn[x] = st[x],
           \A i, j \in 1 .. Len(l) : i < j => l[i] # l[j],
           SelectThread(l, st) \notin {NULL, t}
    PROVE  SelectThread(RemoveThread(l, t), sn) = SelectThread(l, st)
<1> DEFINE r == RemoveThread(l, t)
<1>1. PICK n \in 1 .. Len(l) : /\ SelectThread(l, st) = l[n] /\ st[l[n]] = "ready"
                               /\ \A j \in 1 .. n - 1 : st[l[j]] # "ready"
    BY SelectThreadPlace DEF FirstReady
<1>2. \A i \in 1 .. Len(l) : l[i] \in Thread /\ (l[i] # t => sn[l[i]] = st[l[i]])
    OBVIOUS
<1>3. CASE ~Contains(l, t)
    <2>1. r = l /\ \A i \in 1 .. Len(l) : l[i] # t
        BY <1>3 DEF RemoveThread, Contains
    <2>2. FirstReady(l, sn, n)
        BY <1>1, <1>2, <2>1 DEF FirstReady
    <2> QED
        BY <1>1, <2>1, <2>2, SelectThreadIs
<1>4. CASE Contains(l, t)
    <2> DEFINE k == Position(l, t)
    <2>1. /\ r \in Seq(Thread)
          /\ Len(r) = Len(l) - 1
          /\ k \in 1 .. Len(l) /\ l[k] = t
          /\ \A i \in 1 .. k - 1 : r[i] = l[i]
          /\ \A i \in k .. Len(l) - 1 : r[i] = l[i + 1]
        BY <1>4, RemoveThreadItems
    <2> HIDE DEF r, k
    <2>2. \A i \in 1 .. Len(l) : i # k => l[i] # t
        BY <2>1
    <2>3. n # k
        BY <1>1, <2>1
    <2>4. CASE n < k
        <3>1. n \in 1 .. k - 1 /\ n \in 1 .. Len(r)
            BY <2>1, <2>4
        <3>2. r[n] = l[n] /\ sn[r[n]] = "ready"
            BY <1>1, <1>2, <2>1, <2>2, <2>3, <3>1
        <3>3. ASSUME NEW j \in 1 .. n - 1 PROVE sn[r[j]] # "ready"
            <4>1. j \in 1 .. k - 1 /\ j \in 1 .. Len(l) /\ j # k
                BY <2>1, <2>4
            <4> QED
                BY <1>1, <1>2, <2>1, <2>2, <4>1
        <3>4. SelectThread(r, sn) = r[n]
            <4>1. FirstReady(r, sn, n)
                BY <3>1, <3>2, <3>3 DEF FirstReady
            <4> QED
                BY <2>1, <4>1, SelectThreadIs
        <3> QED
            BY <1>1, <3>2, <3>4 DEF r
    <2>5. CASE n > k
        <3>1. n - 1 \in k .. Len(l) - 1 /\ n - 1 \in 1 .. Len(r) /\ (n - 1) + 1 = n
            BY <2>1, <2>5
        <3>2. r[n - 1] = l[n] /\ sn[r[n - 1]] = "ready"
            BY <1>1, <1>2, <2>1, <2>2, <2>3, <3>1
        <3>3. ASSUME NEW j \in 1 .. (n - 1) - 1 PROVE sn[r[j]] # "ready"
            <4>1. CASE j < k
                <5>1. j \in 1 .. k - 1 /\ j \in 1 .. n - 1 /\ j \in 1 .. Len(l) /\ j # k
                    BY <2>1, <2>5, <4>1
                <5> QED
                    BY <1>1, <1>2, <2>1, <2>2, <5>1
            <4>2. CASE j >= k
                <5>1. j \in k .. Len(l) - 1 /\ j + 1 \in 1 .. n - 1 /\ j + 1 \in 1 .. Len(l) /\ j + 1 # k
                    BY <2>1, <2>5, <4>2
                <5>2. r[j] = l[j + 1]
                    BY <2>1, <5>1
                <5> QED
                    BY <1>1, <1>2, <2>2, <5>1, <5>2
            <4> QED
                BY <2>1, <4>1, <4>2
        <3>4. SelectThread(r, sn) = r[n - 1]
            <4>1. FirstReady(r, sn, n - 1)
                BY <3>1, <3>2, <3>3 DEF FirstReady
            <4> QED
                BY <2>1, <4>1, SelectThreadIs
        <3> QED
            BY <1>1, <3>2, <3>4 DEF r
    <2> QED
        BY <2>1, <2>3, <2>4, <2>5
<1> QED
    BY <1>3, <1>4

\* The second half of MostUrgentRuns.
Urgent == \/ current = SelectThread(list, state)
          \/ irqMode /\ isNeedRescheduling
          \/ missed

\* The head that OS_SetThreadPriority has read is the head still.
HeadIsFresh == \A t \in Thread :
    op[t] = "setprio" => current = t /\ ~irqMode /\ arg[t].head = Head(list)

UrgentInv == Inv /\ ThreadListSorted /\ Urgent /\ HeadIsFresh

LEMMA SortedList == ThreadListSorted <=> Sorted(list, priority) /\ ToSet(list) = {t \in Thread : Live(t)}
BY DEF ThreadListSorted, Sorted

LEMMA PriorityIsInt == TypeOK => priority \in [Thread -> Int]
<1>1. \A p \in Prio \cup {LauncherPrio, IdlePrio} : p \in Int
    BY ThreadAssumption DEF ThreadAssumption, LauncherPrio, IdlePrio
<1> QED
    BY <1>1 DEF TypeOK, KernelTypeOK

LEMMA ToSetOfList ==
    ASSUME NEW l \in Seq(Thread), NEW x
    PROVE  /\ x \in ToSet(l) <=> \E i \in 1 .. Len(l) : l[i] = x
           /\ x \in ToSet(l) <=> Contains(l, x)
<1>1. DOMAIN l = 1 .. Len(l)
    OBVIOUS
<1> QED
    BY <1>1 DEF ToSet, Contains

\* The idle thread is in the list and runnable.
LEMMA SortedThreadToRun ==
    ASSUME TypeOK, IdleInv, ThreadListSorted
    PROVE  ThreadToRun
<1> USE DEF TypeOK, KernelTypeOK
<1> DEFINE ready == {i \in 1 .. Len(list) : state[list[i]] = "ready"}
<1>1. ready # {} /\ ready \in SUBSET Nat
    <2>1. Idle \in ToSet(list)
        BY ThreadAssumption DEF ThreadAssumption, ThreadListSorted, IdleInv, Live
    <2>2. \E i \in 1 .. Len(list) : list[i] = Idle
        BY <2>1, ToSetOfList
    <2> QED
        BY <2>2 DEF IdleInv
<1>2. First(ready) \in ready
    <2> HIDE DEF ready
    <2> QED
        BY <1>1, FirstIsLeast
<1>3. list[First(ready)] \in Thread
    BY <1>2
<1>4. SelectThread(list, state) = list[First(ready)]
    BY <1>1 DEF SelectThread
<1> QED
    BY <1>3, <1>4, NullIsNoQueue DEF ThreadToRun

LEMMA SortedAfterInsert ==
    ASSUME NEW l \in Seq(Thread), NEW pr \in [Thread -> Int], NEW t \in Thread,
           NEW pn \in [Thread -> Int], \A x \in Thread \ {t} : pn[x] = pr[x],
           Sorted(l, pr), t \notin ToSet(l)
    PROVE  /\ Sorted(InsertThread(l, pn, t), pn)
           /\ ToSet(InsertThread(l, pn, t)) = ToSet(l) \cup {t}
<1>1. \A i \in 1 .. Len(l) : l[i] \in Thread /\ l[i] # t /\ pn[l[i]] = pr[l[i]]
    BY ToSetOfList
<1>2. Sorted(l, pn)
    BY <1>1 DEF Sorted
<1>3. ~Contains(l, t)
    BY ToSetOfList
<1> QED
    BY <1>2, <1>3, InsertThreadSorted

\* Unlinking the head of the list.
LEMMA RemoveHead ==
    ASSUME NEW l \in Seq(Thread), NEW t, Contains(l, t), Position(l, t) = 1
    PROVE  RemoveThread(l, t) = Tail(l)
<1>1. l # << >> /\ RemoveThread(l, t) = SubSeq(l, 1, 1 - 1) \o SubSeq(l, 1 + 1, Len(l))
    BY DEF RemoveThread, Contains
<1>2. SubSeq(l, 1, 1 - 1) = << >> /\ SubSeq(l, 1 + 1, Len(l)) = Tail(l) /\ Tail(l) \in Seq(Thread)
    BY <1>1
<1>3. \A r \in Seq(Thread) : << >> \o r = r
    BY ConcatEmptySeq
<1> QED
    BY <1>1, <1>2, <1>3

\* From the head that is the head still, the list is walked from its beginning.
LEMMA WalkFromHead ==
    ASSUME list \in Seq(Thread), list # << >>, NEW walk \in Walks(Head(list))
    PROVE  walk = list
<1> DEFINE I == {i \in 1 .. Len(list) : list[i] = Head(list)}
<1>1. 1 \in I /\ I \in SUBSET Nat /\ \A j \in I : 1 <= j
    OBVIOUS
<1>2. First(I) = 1
    <2>1. First(I) \in I /\ First(I) <= 1 /\ First(I) \in Nat
        <3> HIDE DEF I
        <3> QED
            BY <1>1, FirstIsLeast
    <2> HIDE DEF I
    <2> QED
        BY <1>1, <2>1
<1>3. Contains(list, Head(list)) /\ Position(list, Head(list)) = 1
    BY <1>1, <1>2 DEF Contains, Position
<1>4. walk = SubSeq(list, 1, Len(list))
    BY <1>3 DEF Walks
<1> QED
    BY <1>4

\* With the head of the list as it is, OS_SetThreadPriority puts its thread where it belongs.
LEMMA ChangePrioritySorted ==
    ASSUME TypeOK, ThreadListSorted, NEW t \in Thread, NEW prio \in Prio,
           ChangePriority(t, prio, list), \A x \in Thread : Live(x)' <=> Live(x)
    PROVE  ThreadListSorted'
<1> USE SortedList, PriorityIsInt DEF TypeOK, KernelTypeOK
<1>1. CASE Contains(list, t) /\ priority[t] # prio
    <2> DEFINE rest == RemoveThread(list, t)
    <2>1. /\ priority' = [priority EXCEPT ![t] = prio]
          /\ list' = InsertThread(rest, priority', t)
        <3> DEFINE k == Position(list, t)
        <3>1. k \in 1 .. Len(list) /\ list[k] = t
            BY <1>1, PositionInList DEF Contains
        <3>2. k = 1 => Tail(list) = rest
            BY <1>1, RemoveHead
        <3>3. k > 1 => Contains(list, list[k - 1])
            BY <3>1 DEF Contains
        <3> HIDE DEF rest
        <3> QED
            BY <1>1, <3>2, <3>3 DEF ChangePriority, rest
    <2>2. /\ rest \in Seq(Thread)
          /\ Sorted(rest, priority)
          /\ ToSet(rest) = ToSet(list) \ {t}
        BY RemoveThreadSorted
    <2>3. prio \in Int
        BY ThreadAssumption DEF ThreadAssumption
    <2> HIDE DEF rest
    <2>4. Sorted(list', priority') /\ ToSet(list') = ToSet(list) \cup {t}
        <3>1. /\ t \notin ToSet(rest) /\ priority \in [Thread -> Int]
              /\ priority' \in [Thread -> Int] /\ \A x \in Thread \ {t} : priority'[x] = priority[x]
            BY <2>1, <2>2, <2>3
        <3>2. /\ Sorted(InsertThread(rest, priority', t), priority')
              /\ ToSet(InsertThread(rest, priority', t)) = ToSet(rest) \cup {t}
            BY <2>2, <3>1, SortedAfterInsert
        <3> QED
            BY <2>1, <2>2, <3>2
    <2>5. t \in ToSet(list)
        BY <1>1, ToSetOfList
    <2> QED
        BY <2>4, <2>5 DEF ThreadListSorted, Sorted
<1>2. CASE ~(Contains(list, t) /\ priority[t] # prio)
    BY <1>2 DEF ChangePriority, ThreadListSorted
<1> QED
    BY <1>1, <1>2

\* OS_YieldThread moves its caller behind the last thread of its priority: the
\* priorities in the list are what they were, place by place.
LEMMA YieldThreadSorted ==
    ASSUME TypeOK, ThreadListSorted, NEW self \in Thread, YieldThread(self)
    PROVE  ThreadListSorted'
<1> USE SortedList, PriorityIsInt DEF TypeOK, KernelTypeOK
<1> DEFINE same == {i \in 1 .. Len(list) : priority[list[i]] = priority[self]}
           last == Hindmost(same)
           k    == Position(list, self)
<1>1. k \in 1 .. Len(list) /\ list[k] = self
    BY PositionInList DEF YieldThread, Contains
<1>2. last \in same /\ \A i \in same : i <= last
    <2>1. k \in same
        BY <1>1
    <2>2. same \in SUBSET (0 .. Len(list)) /\ Len(list) \in Nat
        OBVIOUS
    <2> HIDE DEF same, k
    <2> QED
        BY <2>1, <2>2, HindmostIsLast
<1>3. last \in 1 .. Len(list) /\ priority[list[last]] = priority[self] /\ k <= last
    <2>1. k \in same
        BY <1>1
    <2> QED
        BY <1>2, <2>1
<1>4. UNCHANGED <<state, priority>> /\ \A x \in Thread : Live(x)' <=> Live(x)
    BY DEF YieldThread, threadVars, Live
<1>5. CASE list[last] = self
    <2>1. list' = list
        BY <1>5 DEF YieldThread, threadVars
    <2> QED
        BY <1>4, <2>1 DEF ThreadListSorted
<1>6. CASE list[last] # self
    <2> DEFINE a == SubSeq(list, 1, k - 1)
               b == SubSeq(list, k + 1, last)
               c == SubSeq(list, last + 1, Len(list))
    <2>1. list' = a \o b \o <<self>> \o c
        BY <1>6 DEF YieldThread
    <2> HIDE DEF same, last, k
    <2>2. k < last
        BY <1>1, <1>3, <1>6
    <2>3. a \in Seq(Thread) /\ Len(a) = k - 1 /\ \A i \in 1 .. k - 1 : a[i] = list[i]
        BY SMTT(30), <1>1
    <2>4. b \in Seq(Thread) /\ Len(b) = last - k /\ \A i \in 1 .. last - k : b[i] = list[i + k]
        BY <1>1, <1>3, <2>2
    <2>5. c \in Seq(Thread) /\ Len(c) = Len(list) - last
          /\ \A i \in 1 .. Len(list) - last : c[i] = list[i + last]
        BY SMTT(30), <1>3
    <2> HIDE DEF a, b, c
    <2>6. PICK s : s = a \o b
        OBVIOUS
    <2>7. s \in Seq(Thread) /\ Len(s) = last - 1
          /\ \A i \in 1 .. last - 1 : s[i] = IF i < k THEN list[i] ELSE list[i + 1]
        <3>1. /\ s \in Seq(Thread) /\ Len(s) = last - 1
              /\ \A i \in 1 .. last - 1 : s[i] = IF i <= k - 1 THEN a[i] ELSE b[i - (k - 1)]
            <4>1. (k - 1) + (last - k) = last - 1
                BY <1>1, <1>3
            <4>2. /\ a \o b \in Seq(Thread) /\ Len(a \o b) = Len(a) + Len(b)
                  /\ \A i \in 1 .. Len(a) + Len(b) :
                        (a \o b)[i] = IF i <= Len(a) THEN a[i] ELSE b[i - Len(a)]
                BY <2>3, <2>4, ConcatProperties
            <4> QED
                BY <2>3, <2>4, <2>6, <4>1, <4>2
        <3>2. ASSUME NEW i \in 1 .. last - 1 PROVE s[i] = IF i < k THEN list[i] ELSE list[i + 1]
            <4>1. CASE i < k
                <5>1. i \in 1 .. k - 1 /\ i <= k - 1
                    BY <1>1, <4>1
                <5> QED
                    BY <2>3, <3>1, <4>1, <5>1
            <4>2. CASE i >= k
                <5>1. /\ i - (k - 1) \in 1 .. last - k /\ ~(i <= k - 1) /\ ~(i < k)
                      /\ (i - (k - 1)) + k = i + 1
                    BY <1>1, <1>3, <4>2
                <5> QED
                    BY <2>4, <3>1, <5>1
            <4> QED
                BY <1>1, <4>1, <4>2
        <3> QED
            BY <3>1, <3>2
    <2>8. PICK u : u = s \o <<self>>
        OBVIOUS
    <2>9. u \in Seq(Thread) /\ Len(u) = last
          /\ \A i \in 1 .. last : u[i] = IF i < k THEN list[i] ELSE IF i < last THEN list[i + 1] ELSE self
        <3>1. u \in Seq(Thread) /\ Len(u) = last /\ u[last] = self
              /\ \A i \in 1 .. last - 1 : u[i] = s[i]
            <4>1. s \in Seq(Thread) /\ Len(s) = last - 1 /\ last \in Nat /\ (last - 1) + 1 = last
                BY <1>3, <2>7
            <4> QED
                <5>1. /\ <<self>> \in Seq(Thread) /\ Len(<<self>>) = 1 /\ <<self>>[1] = self
                      /\ s \in Seq(Thread)
                    BY <4>1
                <5>2. /\ u \in Seq(Thread) /\ Len(u) = Len(s) + 1
                      /\ \A i \in 1 .. Len(s) + 1 :
                            u[i] = IF i <= Len(s) THEN s[i] ELSE <<self>>[i - Len(s)]
                    BY <2>8, <5>1, ConcatProperties
                <5> QED
                    BY <4>1, <5>1, <5>2
        <3>2. ASSUME NEW i \in 1 .. last
              PROVE  u[i] = IF i < k THEN list[i] ELSE IF i < last THEN list[i + 1] ELSE self
            <4>1. CASE i = last
                <5>1. ~(last < k) /\ ~(last < last)
                    BY <1>1, <1>3, <2>2
                <5> QED
                    BY <3>1, <4>1, <5>1
            <4>2. CASE i < last
                <5>1. i \in 1 .. last - 1
                    BY <1>3, <4>2
                <5> QED
                    BY <2>7, <3>1, <4>2, <5>1
            <4> QED
                BY <1>3, <4>1, <4>2
        <3> QED
            BY <3>1, <3>2
    <2>10. list' = u \o c
        BY <2>1, <2>6, <2>8
    <2> DEFINE From(i) == IF i < k THEN i ELSE IF i < last THEN i + 1
                          ELSE IF i = last THEN k ELSE i
    <2>11. /\ list' \in Seq(Thread) /\ Len(list') = Len(list)
           /\ \A i \in 1 .. Len(list) : list'[i] = list[From(i)]
        <3>1. /\ list' \in Seq(Thread) /\ Len(list') = Len(list)
              /\ \A i \in 1 .. Len(list) : list'[i] = IF i <= last THEN u[i] ELSE c[i - last]
            <4>1. last + (Len(list) - last) = Len(list)
                BY <1>3
            <4>2. u \in Seq(Thread) /\ Len(u) = last /\ c \in Seq(Thread)
                BY <2>5, <2>9
            <4>3. /\ u \o c \in Seq(Thread) /\ Len(u \o c) = Len(u) + Len(c)
                  /\ \A i \in 1 .. Len(u) + Len(c) :
                        (u \o c)[i] = IF i <= Len(u) THEN u[i] ELSE c[i - Len(u)]
                BY <4>2, ConcatProperties
            <4> QED
                BY <2>5, <2>10, <4>1, <4>2, <4>3
        <3>2. ASSUME NEW i \in 1 .. Len(list) PROVE list'[i] = list[From(i)]
            <4>1. CASE i <= last
                <5>1. i \in 1 .. last
                    BY <1>3, <4>1
                <5>2. list'[i] = IF i < k THEN list[i] ELSE IF i < last THEN list[i + 1] ELSE self
                    BY <2>9, <3>1, <4>1, <5>1
                <5> QED
                    BY <1>1, <1>3, <2>2, <4>1, <5>2
            <4>2. CASE i > last
                <5>1. /\ i - last \in 1 .. Len(list) - last /\ ~(i <= last) /\ (i - last) + last = i
                    BY <1>3, <4>2
                <5>2. list'[i] = list[i]
                    BY <2>5, <3>1, <5>1
                <5> QED
                    BY <1>1, <1>3, <2>2, <4>2, <5>2
            <4> QED
                BY <1>3, <4>1, <4>2
        <3> QED
            BY <3>1, <3>2
    <2>12. \A i \in 1 .. Len(list) : From(i) \in 1 .. Len(list)
        BY <1>1, <1>3, <2>2
    <2>13. \A i, j \in 1 .. Len(list) : i # j => From(i) # From(j)
        BY <1>1, <1>3, <2>2
    <2>14. \A i \in 1 .. Len(list) : \E j \in 1 .. Len(list) : From(j) = i
        <3> TAKE i \in 1 .. Len(list)
        <3> DEFINE j == IF i < k THEN i ELSE IF i = k THEN last ELSE IF i <= last THEN i - 1 ELSE i
        <3>1. j \in 1 .. Len(list) /\ From(j) = i
            BY <1>1, <1>3, <2>2
        <3> QED
            BY <3>1
    <2>15. \A i, j \in 1 .. Len(list) : i < j => list[i] # list[j] /\ priority[list[i]] <= priority[list[j]]
        BY DEF ThreadListSorted
    <2>16. \A i \in 1 .. Len(list) : priority[list[From(i)]] = priority[list[i]]
        <3>1. \A i \in 1 .. Len(list) : k <= i /\ i <= last => priority[list[i]] = priority[self]
            <4> TAKE i \in 1 .. Len(list)
            <4> HAVE k <= i /\ i <= last
            <4>1. priority[list[k]] <= priority[list[i]] /\ priority[list[i]] <= priority[list[last]]
                  /\ priority[list[i]] \in Int
                BY SMTT(30), <1>1, <1>3, <2>15
            <4> QED
                BY <1>1, <1>3, <4>1
        <3> TAKE i \in 1 .. Len(list)
        <3>2. CASE k <= i /\ i <= last
            <4>1. From(i) \in 1 .. Len(list) /\ k <= From(i) /\ From(i) <= last
                BY <1>1, <1>3, <2>2, <3>2
            <4> HIDE DEF From
            <4> QED
                BY <3>1, <3>2, <4>1
        <3>3. CASE ~(k <= i /\ i <= last)
            <4>1. From(i) = i
                BY <1>1, <1>3, <3>3
            <4> QED
                BY <4>1
        <3> QED
            BY <3>2, <3>3
    <2> HIDE DEF From
    <2>17. Sorted(list', priority)
        <3> SUFFICES ASSUME NEW i \in 1 .. Len(list), NEW j \in 1 .. Len(list), i < j
                     PROVE  list'[i] # list'[j] /\ priority[list'[i]] <= priority[list'[j]]
            BY <2>11 DEF Sorted
        <3>1. From(i) \in 1 .. Len(list) /\ From(j) \in 1 .. Len(list) /\ From(i) # From(j)
            BY <2>12, <2>13
        <3>2. list[From(i)] # list[From(j)]
            BY SMTT(30), <2>15, <3>1
        <3>3. priority[list[From(i)]] <= priority[list[From(j)]]
            BY <2>15, <2>16
        <3> QED
            BY <2>11, <3>2, <3>3
    <2>18. ToSet(list') = ToSet(list)
        <3>1. \A x : x \in ToSet(list') <=> \E i \in 1 .. Len(list) : list[From(i)] = x
            <4>1. \A x : x \in ToSet(list') <=> \E i \in 1 .. Len(list') : list'[i] = x
                BY <2>11, ToSetOfList
            <4> QED
                BY <2>11, <4>1
        <3>2. \A x : x \in ToSet(list) <=> \E i \in 1 .. Len(list) : list[i] = x
            BY ToSetOfList
        <3> QED
            BY <2>12, <2>14, <3>1, <3>2
    <2> QED
        BY <1>4, <2>17, <2>18 DEF ThreadListSorted, Sorted
<1> QED
    BY <1>5, <1>6

LEMMA ThreadStepSorted ==
    ASSUME Inv, ListIntact, ThreadListSorted, HeadIsFresh, NEW self \in Thread, ThreadStep(self)
    PROVE  ThreadListSorted'
<1> USE InvTypeOK
<1>1. \A x \in Thread : Live(x)' <=> Live(x)
    BY ThreadStepKeepsOutside
<1>2. CASE YieldThread(self)
    BY <1>2, YieldThreadSorted
<1>3. ASSUME NEW t \in User, NEW p \in Prio, KillThread(self, t, p) PROVE ThreadListSorted'
    <2>1. t \in Thread /\ ChangePriority(t, p, list)
        BY <1>3 DEF KillThread, User
    <2> QED
        BY <1>1, <2>1, ChangePrioritySorted
<1>4. CASE SetThreadPriorityMasked(self)
    <2>1. /\ arg[self].thread \in Thread /\ arg[self].prio \in Prio
          /\ arg[self].head = Head(list)
          /\ \E walk \in Walks(arg[self].head) :
                ChangePriority(arg[self].thread, arg[self].prio, walk)
        BY <1>4 DEF SetThreadPriorityMasked, HeadIsFresh, TypeOK, CallTypeOK, SetPriorityCall
    <2>2. \A walk \in Walks(Head(list)) : walk = list
        BY WalkFromHead DEF ListIntact, TypeOK, KernelTypeOK
    <2>3. ChangePriority(arg[self].thread, arg[self].prio, list)
        BY <2>1, <2>2
    <2> QED
        BY <1>1, <2>1, <2>3, ChangePrioritySorted
<1>5. CASE UNCHANGED <<list, priority>>
    BY <1>1, <1>5 DEF ThreadListSorted
<1>6. \/ YieldThread(self)
      \/ \E t \in User, p \in Prio : KillThread(self, t, p)
      \/ SetThreadPriorityMasked(self)
      \/ UNCHANGED <<list, priority>>
    BY DEF ThreadStep, ExitThread, RunDestructor, DestructorReturn, DestroyReschedule, SleepThread,
           SleepThreadDirect, JoinThread, WakeupThread, WakeupThreadDirect, Sleep, SleepLoop,
           SetThreadPriority, DisableScheduler, EnableScheduler, Reschedule, WaitIrq,
           WaitIrqCheck, WaitIrqSleep, Block, Wakeup, WakeupDirect, threadVars
<1> QED
    BY <1>2, <1>3, <1>4, <1>5, <1>6

\* What a reschedule leaves behind, and a step that neither reschedules nor touches
\* the list or the states.
LEMMA RescheduleUrgent ==
    ASSUME RescheduleThread, irqMode' = irqMode, ThreadToRun'
    PROVE  Urgent'
BY DEF RescheduleThread, ThreadToRun, Urgent

LEMMA SameUrgent ==
    ASSUME Urgent, UNCHANGED <<list, state, schedVars>>, irqMode' \in {irqMode, TRUE}
    PROVE  Urgent'
BY DEF Urgent, schedVars

LEMMA WakeupUrgent ==
    ASSUME TypeOK, Urgent, NEW q, Wakeup(q), irqMode' = irqMode, ThreadToRun'
    PROVE  Urgent'
<1>1. CASE waiters[q] = {}
    <2>1. state' = state /\ UNCHANGED <<list, schedVars>>
        BY <1>1 DEF Wakeup, RescheduleIf, TypeOK, KernelTypeOK
    <2> QED
        BY <2>1, SameUrgent
<1>2. CASE waiters[q] # {}
    BY <1>2, RescheduleUrgent DEF Wakeup, RescheduleIf
<1> QED
    BY <1>1, <1>2

LEMMA ThreadStepUrgent ==
    ASSUME Inv, Urgent, ThreadToRun', NEW self \in Thread, ThreadStep(self)
    PROVE  Urgent'
<1> USE InvTypeOK
<1>1. ASSUME NEW q \in ClientQueue, WakeupThread(self, q) PROVE Urgent'
    BY <1>1, WakeupUrgent DEF WakeupThread, irqVars
<1>2. CASE RescheduleThread /\ irqMode' = irqMode
    BY <1>2, RescheduleUrgent
<1>3. CASE UNCHANGED <<list, state, schedVars, irqMode>>
    BY <1>3, SameUrgent
<1>4. \/ \E q \in ClientQueue : WakeupThread(self, q)
      \/ RescheduleThread /\ irqMode' = irqMode
      \/ UNCHANGED <<list, state, schedVars, irqMode>>
    BY DEF ThreadStep, ExitThread, RunDestructor, DestructorReturn, DestroyReschedule, KillThread,
           SleepThread, SleepThreadDirect, JoinThread, WakeupThreadDirect, YieldThread, Sleep,
           SleepLoop, SetThreadPriority, SetThreadPriorityMasked, ChangePriority, RescheduleIf,
           DisableScheduler, EnableScheduler, Reschedule, WaitIrq, WaitIrqCheck, WaitIrqSleep,
           Block, WakeupDirect, threadVars, irqVars
<1> QED
    BY <1>1, <1>2, <1>3, <1>4

LEMMA IrqExitUrgent ==
    ASSUME Inv, Urgent, ThreadToRun', IrqExit
    PROVE  Urgent'
<1> USE InvTypeOK DEF TypeOK, KernelTypeOK
<1>1. list' = list /\ SelectThread(list, state') # NULL
    BY DEF IrqExit, ThreadToRun
<1>2. CASE isNeedRescheduling \/ WokenByIrq # {}
    BY <1>1, <1>2 DEF IrqExit, Urgent
<1>3. CASE ~(isNeedRescheduling \/ WokenByIrq # {})
    <2>1. state' = state /\ current' = current /\ missed' = missed
        BY <1>3 DEF IrqExit
    <2> QED
        BY <1>1, <1>3, <2>1 DEF Urgent
<1> QED
    BY <1>2, <1>3

LEMMA IrqStepSorted ==
    ASSUME Inv, ThreadListSorted, IrqStep
    PROVE  ThreadListSorted'
<1>1. list' = list /\ priority' = priority
    BY DEF IrqStep, IrqEnter, IrqWakeupThread, IrqWakeupThreadDirect, SleepAlarmCallback, IrqExit,
           Wakeup, WakeupDirect, threadVars
<1> QED
    BY <1>1, IrqStepKeepsOutside DEF ThreadListSorted

LEMMA IrqStepUrgent ==
    ASSUME Inv, Urgent, ThreadToRun', IrqStep
    PROVE  Urgent'
<1> USE InvTypeOK
<1>1. ASSUME NEW i \in Irq, IrqEnter(i) PROVE Urgent'
    <2>1. UNCHANGED <<list, state, schedVars>> /\ irqMode' \in {irqMode, TRUE}
        BY <1>1 DEF IrqEnter, threadVars
    <2> QED
        BY <2>1, SameUrgent
<1>2. ASSUME NEW q \in ClientQueue, IrqWakeupThread(q) PROVE Urgent'
    BY <1>2, WakeupUrgent DEF IrqWakeupThread, irqVars
<1>3. ASSUME NEW t \in User, IrqWakeupThreadDirect(t) \/ SleepAlarmCallback(t) PROVE Urgent'
    BY <1>3, RescheduleUrgent DEF IrqWakeupThreadDirect, SleepAlarmCallback, WakeupDirect, irqVars
<1> QED
    BY <1>1, <1>2, <1>3, IrqExitUrgent DEF IrqStep

LEMMA CreateThreadUrgent ==
    ASSUME UrgentInv, NEW self \in Thread, NEW t \in User, NEW p \in Prio, NEW d,
           CreateThread(self, t, p, d)
    PROVE  ThreadListSorted' /\ Urgent'
<1> USE InvTypeOK DEF UrgentInv, TypeOK, KernelTypeOK
<1>1. /\ priority' = [priority EXCEPT ![t] = p]
      /\ state' = [state EXCEPT ![t] = "waiting"]
      /\ list' = InsertThread(list, priority', t)
      /\ t \in Thread /\ ~Live(t) /\ UNCHANGED <<schedVars, irqMode>>
    BY DEF CreateThread, User, irqVars
<1>2. priority \in [Thread -> Int] /\ p \in Int
    BY PriorityIsInt, ThreadAssumption DEF ThreadAssumption
<1>3. priority' \in [Thread -> Int] /\ \A x \in Thread \ {t} : priority'[x] = priority[x]
    BY <1>1, <1>2
<1>4. t \notin ToSet(list)
    BY <1>1 DEF ThreadListSorted
<1>5. ThreadListSorted'
    <2>1. Sorted(list', priority') /\ ToSet(list') = ToSet(list) \cup {t}
        BY <1>1, <1>2, <1>3, <1>4, SortedList, SortedAfterInsert
    <2>2. Live(t)' /\ \A x \in Thread \ {t} : Live(x)' <=> Live(x)
        BY <1>1 DEF Live
    <2>3. ToSet(list) = {x \in Thread : Live(x)}
        BY DEF ThreadListSorted
    <2>4. ToSet(list') = {x \in Thread : Live(x)'}
        BY <1>1, <2>1, <2>2, <2>3
    <2> QED
        BY <2>1, <2>4 DEF ThreadListSorted, Sorted
<1>6. SelectThread(list', state') = SelectThread(list, state)
    <2>1. /\ state'[t] # "ready" /\ \A x \in Thread \ {t} : state'[x] = state[x]
          /\ \A i \in 1 .. Len(list) : list[i] # t
        BY <1>1, <1>4, ToSetOfList
    <2>2. SelectThread(list, state) # NULL
        BY SortedThreadToRun DEF ThreadToRun
    <2>3. \A pr \in [Thread -> Int] :
             SelectThread(InsertThread(list, pr, t), state') = SelectThread(list, state)
        <3>1. Joins(list, t, state, state')
            BY <2>1 DEF Joins
        <3>2. list \in Seq(Thread) /\ t \in Thread
            BY <1>1
        <3> TAKE pr \in [Thread -> Int]
        <3> QED
            BY ONLY <2>2, <3>1, <3>2, InsertKeepsSelected, pr \in [Thread -> Int]
    <2> QED
        BY <1>1, <1>3, <2>3
<1>7. Urgent'
    BY <1>1, <1>6 DEF Urgent, schedVars
<1> QED
    BY <1>5, <1>7

\* A thread that is alive is found in the list.
LEMMA LiveUnlinked ==
    ASSUME TypeOK, ThreadListSorted, NEW t \in Thread, Live(t)
    PROVE  Unlinked(t) = RemoveThread(list, t)
<1>1. t \in ToSet(list)
    BY DEF ThreadListSorted
<1> QED
    BY <1>1, ToSetOfList DEF Unlinked, TypeOK, KernelTypeOK

\* The end of a thread, whoever ends it.
LEMMA TerminateSorted ==
    ASSUME UrgentInv, NEW t \in Thread, Live(t), NEW Q \in SUBSET Queue, Terminate(t, Q)
    PROVE  ThreadListSorted'
<1> USE InvTypeOK DEF UrgentInv, TypeOK, KernelTypeOK
<1>1. list' = RemoveThread(list, t) /\ priority' = priority
    BY LiveUnlinked DEF Terminate
<1>2. ~Live(t)' /\ \A x \in Thread \ {t} : Live(x)' <=> Live(x)
    BY LinkInvParts, TerminateEffect
<1>3. Sorted(list', priority') /\ ToSet(list') = ToSet(list) \ {t}
    BY <1>1, SortedList, RemoveThreadSorted
<1> QED
    BY <1>2, <1>3 DEF ThreadListSorted, Sorted

LEMMA DestroyThreadUrgent ==
    ASSUME UrgentInv, NEW self \in Thread, NEW t \in User, NEW Q \in SUBSET Queue,
           DestroyThread(self, t, Q)
    PROVE  Urgent'
<1> USE InvTypeOK DEF UrgentInv, TypeOK, KernelTypeOK
<1>1. /\ t \in Thread /\ t # self /\ current = self /\ ~irqMode
      /\ UNCHANGED <<current, isNeedRescheduling, irqMode>>
    BY DEF DestroyThread, Calling, Running, User, irqVars
<1>2. CASE \E q \in WokenAtEnd(t, Q) : waiters[q] # {}
    BY <1>2 DEF DestroyThread, Urgent
<1>3. CASE missed
    BY <1>3 DEF DestroyThread, Urgent
<1>4. CASE ~missed /\ ~\E q \in WokenAtEnd(t, Q) : waiters[q] # {}
    <2>1. \A x \in Thread \ {t} : state'[x] = state[x]
        BY <1>4 DEF DestroyThread, Terminate
    <2>2. current = SelectThread(list, state)
        BY <1>1, <1>4 DEF Urgent
    <2>3. \A i, j \in 1 .. Len(list) : i < j => list[i] # list[j]
        BY DEF ThreadListSorted
    <2>4. SelectThread(list, state) \notin {NULL, t}
        BY <1>1, <2>2, SortedThreadToRun DEF ThreadToRun
    <2>5. SelectThread(RemoveThread(list, t), state') = SelectThread(list, state)
        BY <1>1, <2>1, <2>3, <2>4, RemoveKeepsSelected
    <2>6. list' = RemoveThread(list, t)
        <3>1. Live(t) /\ Terminate(t, Q)
            BY DEF DestroyThread
        <3> QED
            BY <1>1, <3>1, LiveUnlinked DEF Terminate
    <2> QED
        BY <1>1, <2>2, <2>5, <2>6 DEF Urgent
<1> QED
    BY <1>2, <1>3, <1>4

\* OS_SetThreadPriority, with no interrupt between the read of the head and its use.
LEMMA HeadStaysFresh ==
    ASSUME "setprio" \notin Windows, Inv, HeadIsFresh, [Next]_vars
    PROVE  HeadIsFresh'
<1> USE InvTypeOK DEF TypeOK, CallTypeOK
<1> SUFFICES ASSUME NEW t \in Thread, op'[t] = "setprio"
             PROVE  current' = t /\ ~irqMode' /\ arg'[t].head = Head(list')
    BY DEF HeadIsFresh
<1>1. CASE UNCHANGED vars
    <2>1. UNCHANGED <<op, arg, current, irqMode, list>>
        BY <1>1 DEF vars, callVars, schedVars, irqVars, threadVars
    <2> QED
        BY <2>1 DEF HeadIsFresh
<1>2. CASE IrqStep
    <2>1. op' = op
        BY <1>2, IrqStepKeepsOutside
    <2>2. op[current] = "setprio" /\ ~irqMode
        BY <2>1 DEF HeadIsFresh
    <2> QED
        BY <1>2, <2>2 DEF IrqStep, IrqEnter, IrqWakeupThread, IrqWakeupThreadDirect,
                          SleepAlarmCallback, IrqExit
<1>3. ASSUME NEW self \in Thread,
             \/ ThreadStep(self)
             \/ \E x \in User, p \in Prio, d \in BOOLEAN : CreateThread(self, x, p, d)
             \/ ExitThreadDestroy(self, {})
             \/ DestroySelf(self, {})
             \/ \E x \in User : DestroyThread(self, x, {})
      PROVE  current' = t /\ ~irqMode' /\ arg'[t].head = Head(list')
    <2>1. CASE op[t] = "setprio"
        <3>1. current = t
            BY <2>1 DEF HeadIsFresh
        <3>2. SetThreadPriorityMasked(t)
            BY <1>3, <2>1, <3>1
               DEF ThreadStep, ExitThread, RunDestructor, DestructorReturn, DestroyReschedule,
                   KillThread, SleepThread, SleepThreadDirect, JoinThread, WakeupThread,
                   WakeupThreadDirect, YieldThread, Sleep, SleepLoop, SetThreadPriority,
                   SetThreadPriorityMasked, DisableScheduler, EnableScheduler, Reschedule,
                   WaitIrq, WaitIrqCheck, WaitIrqSleep, CreateThread, ExitThreadDestroy,
                   DestroySelf, DestroyThread, Calling, Running
        <3> QED
            BY <3>2 DEF SetThreadPriorityMasked
    <2>2. CASE op[t] # "setprio"
        <3>1. \/ \E x \in Thread, p \in Prio : SetThreadPriority(self, x, p)
              \/ op' = op
              \/ \E x \in Thread, o \in Op \ {"setprio"} : op' = [op EXCEPT ![x] = o]
              \/ \E x \in Thread : op' = [op EXCEPT ![x] = "none", ![self] = "reschedule"]
            BY <1>3
               DEF ThreadStep, ExitThread, RunDestructor, DestructorReturn, DestroyReschedule,
                   KillThread, SleepThread, SleepThreadDirect, JoinThread, WakeupThread,
                   WakeupThreadDirect, YieldThread, Sleep, SleepLoop,
                   SetThreadPriorityMasked, DisableScheduler, EnableScheduler, Reschedule,
                   WaitIrq, WaitIrqCheck, WaitIrqSleep, CreateThread, ExitThreadDestroy,
                   DestroySelf, DestroyThread, callVars, Op, User
        <3>2. \E x \in Thread, p \in Prio : SetThreadPriority(self, x, p)
            BY <2>2, <3>1
        <3> QED
            BY <2>2, <3>2 DEF SetThreadPriority, Calling, Running, schedVars, irqVars, threadVars
    <2> QED
        BY <2>1, <2>2
<1> QED
    BY <1>1, <1>2, <1>3 DEF Next

LEMMA UrgentNext ==
    ASSUME "setprio" \notin Windows, UrgentInv, [Next]_vars
    PROVE  UrgentInv'
<1> USE DEF UrgentInv
<1>1. Inv' /\ HeadIsFresh'
    BY NextInv, HeadStaysFresh
<1>2. Next => ListIntact
    BY DEF Next
<1>3. ASSUME NEW self \in Thread, ExitThreadDestroy(self, {}) \/ DestroySelf(self, {})
      PROVE  Live(self) /\ Terminate(self, {}) /\ RescheduleThread /\ irqMode' = irqMode
    <2>1. Live(self)
        BY <1>3, InvTypeOK, RunningLive DEF ExitThreadDestroy, DestroySelf, Calling
    <2> QED
        BY <1>3, <2>1 DEF ExitThreadDestroy, DestroySelf, irqVars
<1>4. ASSUME NEW self \in Thread, NEW t \in User, DestroyThread(self, t, {})
      PROVE  t \in Thread /\ Live(t) /\ Terminate(t, {})
    BY <1>4 DEF DestroyThread, User
<1>5. ThreadListSorted'
    <2>1. CASE UNCHANGED vars
        BY <2>1 DEF vars, threadVars, ThreadListSorted, Live
    <2>2. ASSUME NEW self \in Thread, ThreadStep(self), ListIntact PROVE ThreadListSorted'
        BY <2>2, ThreadStepSorted
    <2>3. ASSUME NEW self \in Thread, NEW t \in User, NEW p \in Prio, NEW d \in BOOLEAN,
                 CreateThread(self, t, p, d)
          PROVE  ThreadListSorted'
        BY <2>3, CreateThreadUrgent
    <2>4. ASSUME NEW t \in Thread, Live(t), Terminate(t, {}) PROVE ThreadListSorted'
        <3>1. {} \in SUBSET Queue
            OBVIOUS
        <3> QED
            BY <2>4, <3>1, TerminateSorted
    <2>5. CASE IrqStep
        BY <2>5, IrqStepSorted
    <2> QED
        BY <1>2, <1>3, <1>4, <2>1, <2>2, <2>3, <2>4, <2>5 DEF Next
<1>6. ThreadToRun'
    <2>1. TypeOK' /\ IdleInv'
        BY <1>1 DEF Inv, LinkInv
    <2>2. TypeOK' /\ IdleInv' /\ ThreadListSorted' => ThreadToRun'
        BY SortedThreadToRun, PTL
    <2> QED
        BY <1>5, <2>1, <2>2
<1>7. Urgent'
    <2>1. CASE UNCHANGED vars
        <3>1. UNCHANGED <<list, state, schedVars, irqMode>>
            BY <2>1 DEF vars, threadVars, irqVars
        <3> QED
            BY <3>1, SameUrgent
    <2>2. ASSUME NEW self \in Thread, ThreadStep(self) PROVE Urgent'
        BY <1>6, <2>2, ThreadStepUrgent
    <2>3. ASSUME NEW self \in Thread, NEW t \in User, NEW p \in Prio, NEW d \in BOOLEAN,
                 CreateThread(self, t, p, d)
          PROVE  Urgent'
        BY <2>3, CreateThreadUrgent
    <2>4. ASSUME RescheduleThread, irqMode' = irqMode PROVE Urgent'
        BY <1>6, <2>4, RescheduleUrgent
    <2>5. ASSUME NEW self \in Thread, NEW t \in User, DestroyThread(self, t, {})
          PROVE  Urgent'
        <3>1. {} \in SUBSET Queue
            OBVIOUS
        <3> QED
            BY <2>5, <3>1, DestroyThreadUrgent
    <2>6. CASE IrqStep
        BY <1>6, <2>6, IrqStepUrgent
    <2> QED
        BY <1>3, <2>1, <2>2, <2>3, <2>4, <2>5, <2>6 DEF Next
<1> QED
    BY <1>1, <1>5, <1>7

LEMMA UrgentInit == Init => UrgentInv
<1> SUFFICES ASSUME Init PROVE UrgentInv
    OBVIOUS
<1> USE ThreadAssumption DEF ThreadAssumption, Init
<1>1. /\ Launcher \in Thread /\ Idle \in Thread /\ Launcher # Idle
      /\ Launcher \notin User /\ Idle \notin User
    BY DEF User
<1>2. list \in Seq(Thread) /\ Len(list) = 2 /\ list[1] = Launcher /\ list[2] = Idle
    BY <1>1
<1>3. ThreadListSorted
    <2>1. ToSet(list) = {Launcher, Idle}
        <3>1. \A x : x \in ToSet(list) <=> \E i \in 1 .. 2 : list[i] = x
            BY <1>2, ToSetOfList
        <3> QED
            BY <1>2, <3>1
    <2>2. \A t \in Thread : Live(t) <=> t \in {Launcher, Idle}
        BY DEF Live, User
    <2>3. \A i, j \in 1 .. Len(list) : i < j => i = 1 /\ j = 2
        BY <1>2
    <2>4. priority[Launcher] <= priority[Idle]
        BY <1>1 DEF LauncherPrio, IdlePrio
    <2> QED
        BY <1>1, <1>2, <2>1, <2>2, <2>3, <2>4 DEF ThreadListSorted
<1>4. Urgent
    <2>1. FirstReady(list, state, 1)
        BY <1>1, <1>2 DEF FirstReady
    <2> QED
        BY <1>2, <2>1, SelectThreadIs DEF Urgent
<1>5. HeadIsFresh
    BY DEF HeadIsFresh
<1> QED
    BY <1>3, <1>4, <1>5, InitInv DEF UrgentInv


-----------------------------------------------------------------------------
(* The scheduler lock                                                          *)

\* Nothing waits in OSi_IrqThreadQueue, and a reschedule that the handler has put off
\* was asked for with the scheduler enabled.
LockInv ==
    /\ Inv
    /\ \A t \in Thread : op[t] \notin {"irqcheck", "irqsleep"}
    /\ waiters[IrqQueue] = {}
    /\ isNeedRescheduling => irqMode /\ rescheduleCount = 0

LEMMA RescheduleLocked ==
    ASSUME RescheduleThread, UNCHANGED <<irqMode, rescheduleCount>>,
           isNeedRescheduling => irqMode /\ rescheduleCount = 0
    PROVE  /\ isNeedRescheduling' => irqMode' /\ rescheduleCount' = 0
           /\ rescheduleCount > 0 => current' = current
BY DEF RescheduleThread

LEMMA LockNext ==
    ASSUME "waitirq" \notin Calls, LockInv, [Next]_vars
    PROVE  LockInv' /\ (rescheduleCount > 0 => current' = current)
<1> USE InvTypeOK, NullIsNoQueue DEF LockInv, TypeOK, KernelTypeOK, CallTypeOK
<1> DEFINE Sched == /\ isNeedRescheduling' => irqMode' /\ rescheduleCount' = 0
                    /\ rescheduleCount > 0 => current' = current
           Idles == \A t \in Thread : op'[t] \notin {"irqcheck", "irqsleep"}
           Empty == waiters'[IrqQueue] = {}
<1>0. Inv'
    BY NextInv
<1>1. ASSUME UNCHANGED <<schedVars, irqMode>>, rescheduleCount' = rescheduleCount \/ ~irqMode
      PROVE  Sched
    BY <1>1 DEF schedVars
<1>2. ASSUME RescheduleThread, UNCHANGED <<irqMode, rescheduleCount>> PROVE Sched
    BY <1>2, RescheduleLocked
<1>3. ASSUME NEW c, RescheduleIf(c), UNCHANGED <<irqMode, rescheduleCount>> PROVE Sched
    BY <1>1, <1>2, <1>3 DEF RescheduleIf
<1>4. ASSUME NEW self \in Thread,
             \/ ThreadStep(self)
             \/ \E t \in User, p \in Prio, d \in BOOLEAN : CreateThread(self, t, p, d)
             \/ ExitThreadDestroy(self, {})
             \/ DestroySelf(self, {})
             \/ \E t \in User : DestroyThread(self, t, {})
      PROVE  Sched /\ Idles /\ Empty
    <2>1. Idles
        <3>1. \/ op' = op
              \/ \E x \in Thread, o \in Op \ {"irqcheck", "irqsleep"} : op' = [op EXCEPT ![x] = o]
              \/ \E x \in Thread : op' = [op EXCEPT ![x] = "none", ![self] = "reschedule"]
            BY <1>4
               DEF ThreadStep, ExitThread, RunDestructor, DestructorReturn, DestroyReschedule,
                   KillThread, SleepThread, SleepThreadDirect, JoinThread, WakeupThread,
                   WakeupThreadDirect, YieldThread, Sleep, SleepLoop, SetThreadPriority,
                   SetThreadPriorityMasked, DisableScheduler, EnableScheduler, Reschedule,
                   WaitIrq, WaitIrqCheck, WaitIrqSleep, CreateThread, ExitThreadDestroy,
                   DestroySelf, DestroyThread, callVars, Op, User, Calling
        <3> QED
            BY <3>1
    <2>2. Empty
        <3>1. ASSUME NEW x \in Thread, NEW q \in ClientQueue \cup Thread \cup {NULL}, Block(x, q)
              PROVE  Empty
            <4>1. q # IrqQueue
                BY ThreadAssumption DEF ThreadAssumption
            <4> QED
                BY <3>1, <4>1 DEF Block
        <3>2. ASSUME NEW q, Wakeup(q) PROVE Empty
            BY <3>2 DEF Wakeup
        <3>3. ASSUME NEW t, NEW Q, Terminate(t, Q) PROVE Empty
            BY <3>3 DEF Terminate, RemoveSpecifiedLink
        <3>4. \/ waiters' = waiters
              \/ \E t \in User : waiters' = [waiters EXCEPT ![t] = {}]
              \/ \E x \in Thread, q \in ClientQueue \cup Thread \cup {NULL} : Block(x, q)
              \/ \E q \in ClientQueue : Wakeup(q)
              \/ \E t : Terminate(t, {})
            BY <1>4
               DEF ThreadStep, ExitThread, RunDestructor, DestructorReturn, DestroyReschedule,
                   KillThread, SleepThread, SleepThreadDirect, JoinThread, WakeupThread,
                   WakeupThreadDirect, WakeupDirect, YieldThread, Sleep, SleepLoop, SetThreadPriority,
                   SetThreadPriorityMasked, DisableScheduler, EnableScheduler, Reschedule,
                   WaitIrq, WaitIrqCheck, WaitIrqSleep, CreateThread, ExitThreadDestroy,
                   DestroySelf, DestroyThread, queueVars, User, Calling
        <3> QED
            BY <3>1, <3>2, <3>3, <3>4
    <2>3. Sched
        <3>1. ASSUME NEW t \in User, DestroyThread(self, t, {}) PROVE Sched
            BY <3>1 DEF DestroyThread, irqVars
        <3>2. \/ UNCHANGED <<schedVars, irqMode>> /\ (rescheduleCount' = rescheduleCount \/ ~irqMode)
              \/ RescheduleThread /\ UNCHANGED <<irqMode, rescheduleCount>>
              \/ \E c : RescheduleIf(c) /\ UNCHANGED <<irqMode, rescheduleCount>>
              \/ \E t \in User : DestroyThread(self, t, {})
            BY <1>4
               DEF ThreadStep, ExitThread, RunDestructor, DestructorReturn, DestroyReschedule,
                   KillThread, SleepThread, SleepThreadDirect, JoinThread, WakeupThread,
                   WakeupThreadDirect, WakeupDirect, YieldThread, Sleep, SleepLoop, SetThreadPriority,
                   SetThreadPriorityMasked, DisableScheduler, EnableScheduler, Reschedule,
                   WaitIrq, WaitIrqCheck, WaitIrqSleep, CreateThread, ExitThreadDestroy,
                   DestroySelf, Block, Wakeup, irqVars, Calling, Running
        <3> QED
            BY <1>1, <1>2, <1>3, <3>1, <3>2
    <2> QED
        BY <2>1, <2>2, <2>3
<1>5. CASE IrqStep
    <2>1. Idles
        BY <1>5, IrqStepKeepsOutside
    <2>2. ASSUME NEW i \in Irq, IrqEnter(i) PROVE Sched /\ Empty
        BY <2>2 DEF IrqEnter, schedVars, queueVars
    <2>3. ASSUME NEW q \in ClientQueue, IrqWakeupThread(q) PROVE Sched /\ Empty
        <3>1. Wakeup(q) /\ UNCHANGED <<irqMode, rescheduleCount>>
            BY <2>3 DEF IrqWakeupThread, irqVars
        <3>2. Sched
            BY <1>3, <3>1 DEF Wakeup
        <3> QED
            BY <3>1, <3>2 DEF Wakeup
    <2>4. ASSUME NEW t \in User, IrqWakeupThreadDirect(t) \/ SleepAlarmCallback(t)
          PROVE  Sched /\ Empty
        <3>1. RescheduleThread /\ UNCHANGED <<irqMode, rescheduleCount, waiters>>
            BY <2>4 DEF IrqWakeupThreadDirect, SleepAlarmCallback, WakeupDirect, irqVars, queueVars
        <3> QED
            BY <1>2, <3>1
    <2>5. CASE IrqExit
        <3>1. Empty
            BY <2>5 DEF IrqExit
        <3>2. ~isNeedRescheduling'
            BY <2>5 DEF IrqExit
        <3>3. ASSUME rescheduleCount > 0 PROVE current' = current
            <4>1. ~isNeedRescheduling
                BY <3>3
            <4> QED
                BY <2>5, <4>1 DEF IrqExit, WokenByIrq
        <3> QED
            BY <1>0, <2>1, <3>1, <3>2, <3>3
    <2> QED
        BY <1>0, <1>5, <2>1, <2>2, <2>3, <2>4, <2>5 DEF IrqStep
<1>6. CASE UNCHANGED vars
    <2>1. UNCHANGED <<schedVars, irqMode, rescheduleCount, op, waiters>>
        BY <1>6 DEF vars, irqVars, callVars, queueVars
    <2> QED
        BY <1>0, <1>1, <2>1
<1> QED
    BY <1>0, <1>4, <1>5, <1>6 DEF Next


-----------------------------------------------------------------------------
(* Theorems *)

\* Inv is an invariant of the kernel.
THEOREM KernelInvariant == Spec => []Inv
BY InitInv, NextInv, PTL DEF Spec

\* Every variable keeps its type, and a thread that was preempted or put to sleep
\* inside OS_SetThreadPriority or OS_WaitIrq finds the locals of that call.
THEOREM TypeCorrect == Spec => []TypeOK
<1>1. Inv => TypeOK
    BY DEF Inv, LinkInv
<1> QED
    BY <1>1, KernelInvariant, PTL

\* thread->queue and the links of the queues agree, for every interleaving of the
\* calls and the interrupts, the kills and the destroys included.
THEOREM LinksConsistent == Spec => []LinkConsistent
<1>1. Inv => LinkConsistent
    BY DEF Inv, LinkInv
<1> QED
    BY <1>1, KernelInvariant, PTL

\* No thread is left in the joinQueue of a thread that has ended.
THEOREM NoJoinerIsLeft == Spec => []NoJoinerLeft
<1>1. Inv => NoJoinerLeft
    BY DEF Inv, LinkInv
<1> QED
    BY <1>1, KernelInvariant, PTL

\* The alarm of OS_Sleep never outlives the call, however the call is ended.
THEOREM SleepAlarmNeverDangles == Spec => []SleepAlarmMatchesSleeper
<1>1. Inv => SleepAlarmMatchesSleeper
    BY DEF Inv, LinkInv
<1> QED
    BY <1>1, KernelInvariant, PTL

\* UrgentInv is one too, where no interrupt comes between OS_SetThreadPriority's reading
\* of the list's head and its masked part.
THEOREM UrgentInvariant == "setprio" \notin Windows => (Spec => []UrgentInv)
<1> SUFFICES ASSUME "setprio" \notin Windows PROVE Spec => []UrgentInv
    OBVIOUS
<1>1. UrgentInv /\ [Next]_vars => UrgentInv'
    BY UrgentNext
<1> QED
    BY <1>1, UrgentInit, PTL DEF Spec

\* OS_SelectThread always finds a runnable thread.  The hypothesis is that of
\* UrgentInvariant, and it is needed: when the head that was read ends before the masked
\* part, OS_SetThreadPriority may link a thread to itself, the list comes to no end and
\* the idle thread is no longer in it.
THEOREM AlwaysAThreadToRun == "setprio" \notin Windows => (Spec => []ThreadToRun)
<1> SUFFICES ASSUME "setprio" \notin Windows PROVE Spec => []ThreadToRun
    OBVIOUS
<1>1. UrgentInv => ThreadToRun
    BY InvTypeOK, SortedThreadToRun DEF UrgentInv
<1> QED
    BY <1>1, UrgentInvariant, PTL

\* Links, joiners and the thread to run, for any threads, queues and calls, where no
\* interrupt comes between OS_SetThreadPriority's reading of the list's head and its
\* masked part.  The links and the joiners need no such hypothesis, the thread to run
\* does (AlwaysAThreadToRun).
THEOREM KernelIsConsistent == "setprio" \notin Windows => (Spec => []KernelConsistent)
<1> SUFFICES ASSUME "setprio" \notin Windows PROVE Spec => []KernelConsistent
    OBVIOUS
<1>1. LinkConsistent /\ NoJoinerLeft /\ ThreadToRun => KernelConsistent
    BY DEF KernelConsistent
<1>2. Spec => []ThreadToRun
    BY AlwaysAThreadToRun
<1> QED
    BY <1>1, <1>2, LinksConsistent, NoJoinerIsLeft, PTL

\* OS_JoinThread returns only when the thread it joins has ended, or when its
\* caller is being ended.  This is where the links matter: a joiner is in no other
\* queue (LinkConsistent) and inside no other call (LinkPlace), so no wake-up but
\* the one at the end of the joined thread reaches it.
THEOREM JoinIsRight == Spec => JoinReturnsAfterExit
<1>1. Inv /\ [Next]_vars => JoinersStay
    <2> SUFFICES ASSUME Inv, [Next]_vars, NEW t \in User, NEW w \in waiters[t],
                        state[w] = "waiting", state'[w] # "waiting"
                 PROVE  \/ state'[t] = "terminated" \/ state'[w] = "terminated" \/ op'[w] = "exit"
        BY DEF JoinersStay
    <2> USE InvTypeOK, ThreadAssumption DEF ThreadAssumption, WaitQueue, User
    <2>1. w \in Thread /\ Live(w) /\ queue[w] = t /\ t \in Thread /\ t \notin Queue
        BY DEF LinkInv, LinkConsistent, TypeOK, KernelTypeOK
    <2>2. op[w] # "sleep" /\ w \notin sleepAlarm
        BY <2>1 DEF LinkInv, LinkPlace, SleepAlarmMatchesSleeper
    <2>3. \A q \in Queue : w \notin waiters[q]
        BY <2>1 DEF LinkInv, LinkConsistent
    <2>4. ASSUME NEW q \in Queue, Wakeup(q) PROVE FALSE
        BY <2>1, <2>3, <2>4 DEF Wakeup
    <2>5. ASSUME NEW x \in Thread, NEW q, Block(x, q) PROVE FALSE
        BY <2>1, <2>5 DEF Block, TypeOK, KernelTypeOK
    <2>6. ASSUME NEW x \in Thread, x # w, WakeupDirect(x) PROVE FALSE
        BY <2>1, <2>6 DEF WakeupDirect, TypeOK, KernelTypeOK
    <2>7. ASSUME NEW x \in Thread, Terminate(x, {})
          PROVE  state'[t] = "terminated" \/ state'[w] = "terminated"
        <3>1. state' = [y \in Thread |-> IF y = x THEN "terminated"
                                         ELSE IF y \in waiters[x] THEN "ready" ELSE state[y]]
            BY <2>7 DEF Terminate, WokenAtEnd
        <3>2. w \in waiters[x] => x = t
            BY <2>1 DEF LinkInv, LinkConsistent
        <3> QED
            BY <2>1, <3>1, <3>2
    <2>8. CASE UNCHANGED vars
        BY <2>8 DEF vars, threadVars
    <2>9. CASE IrqStep
        <3>1. CASE IrqExit
            BY <2>1, <2>3, <3>1 DEF IrqExit, WokenByIrq
        <3>2. CASE IrqStep /\ ~IrqExit
            BY <2>1, <2>2, <2>4, <2>6, <3>2
               DEF IrqStep, IrqEnter, IrqWakeupThread, IrqWakeupThreadDirect, SleepAlarmCallback,
                   threadVars
        <3> QED
            BY <2>9, <3>1, <3>2
    <2>10. ASSUME NEW self \in Thread,
                  \/ \E x \in User, p \in Prio, d \in BOOLEAN : CreateThread(self, x, p, d)
                  \/ ExitThreadDestroy(self, {})
                  \/ DestroySelf(self, {})
                  \/ \E x \in User : DestroyThread(self, x, {})
           PROVE  state'[t] = "terminated" \/ state'[w] = "terminated"
        <3>1. ASSUME NEW x \in User, NEW p, NEW d, CreateThread(self, x, p, d) PROVE FALSE
            BY <2>1, <3>1 DEF CreateThread, TypeOK, KernelTypeOK
        <3> QED
            BY <2>7, <2>10, <3>1 DEF ExitThreadDestroy, DestroySelf, DestroyThread
    <2>11. ASSUME NEW self \in Thread, ThreadStep(self)
           PROVE  op'[w] = "exit"
        <3>1. ASSUME NEW x \in User, NEW p \in Prio, KillThread(self, x, p)
              PROVE  op'[w] = "exit"
            BY <2>1, <3>1 DEF KillThread, TypeOK, KernelTypeOK, CallTypeOK
        <3>2. ASSUME NEW q \in ClientQueue, WakeupThread(self, q) PROVE FALSE
            BY <2>4, <3>2 DEF WakeupThread
        <3>3. ASSUME NEW x \in User, WakeupThreadDirect(self, x) PROVE FALSE
            BY <2>1, <2>6, <3>3 DEF WakeupThreadDirect
        <3>4. \/ UNCHANGED state
              \/ \E x \in Thread, q \in WaitQueue \cup {NULL} : Block(x, q)
              \/ \E x \in User, p \in Prio : KillThread(self, x, p)
              \/ \E q \in ClientQueue : WakeupThread(self, q)
              \/ \E x \in User : WakeupThreadDirect(self, x)
            BY <2>11 DEF ThreadStep, ExitThread, RunDestructor, DestructorReturn, DestroyReschedule,
               SleepThread, SleepThreadDirect, JoinThread, YieldThread, Sleep, SleepLoop,
               SetThreadPriority, SetThreadPriorityMasked, DisableScheduler, EnableScheduler,
               Reschedule, WaitIrq, WaitIrqCheck, WaitIrqSleep, threadVars
        <3> QED
            BY <2>5, <3>1, <3>2, <3>3, <3>4
    <2> QED
        BY <2>8, <2>9, <2>10, <2>11 DEF Next
<1> QED
    BY <1>1, KernelInvariant, PTL DEF Spec, JoinReturnsAfterExit

\* The list is sorted and the most urgent thread that can run is running, but for
\* the two cases MostUrgentRuns names.  The hypothesis is that no interrupt comes
\* between OS_SetThreadPriority's reading of the list's head and its masked part:
\* without it LiveThreadsListed, and so the sorted list, is lost.
THEOREM MostUrgent == "setprio" \notin Windows => (Spec => []MostUrgentRuns)
<1> SUFFICES ASSUME "setprio" \notin Windows PROVE Spec => []MostUrgentRuns
    OBVIOUS
<1>1. UrgentInv => MostUrgentRuns
    BY DEF UrgentInv, Urgent, MostUrgentRuns
<1> QED
    BY <1>1, UrgentInvariant, PTL

\* With the scheduler disabled no other thread runs, provided that no thread waits
\* for an interrupt: the end of an interrupt that wakes one switches regardless.
THEOREM LockHeld == "waitirq" \notin Calls => (Spec => SchedulerLockHeld)
<1> SUFFICES ASSUME "waitirq" \notin Calls PROVE Spec => SchedulerLockHeld
    OBVIOUS
<1>1. Init => LockInv
    <2> SUFFICES ASSUME Init PROVE LockInv
        OBVIOUS
    <2>1. Inv
        BY InitInv
    <2> QED
        BY <2>1, NullIsNoQueue DEF Init, LockInv
<1>2. LockInv /\ [Next]_vars => LockInv' /\ (rescheduleCount > 0 => current' = current)
    BY LockNext
<1> QED
    BY <1>1, <1>2, PTL DEF Spec, SchedulerLockHeld

=============================================================================
