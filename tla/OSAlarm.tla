------------------------------ MODULE OSAlarm -------------------------------
(***************************************************************************)
(* The alarms of libraries/os/src/os_alarm.c: a doubly linked queue sorted *)
(* by the time of each alarm, and hardware timer 1, set for its head.      *)
(*                                                                         *)
(* The API functions run with interrupts disabled, so each is one action,  *)
(* of a thread or, while firing # NULL, of the handler that runs.          *)
(* OSi_ArrangeTimer, the handler of the timer's interrupt, calls the       *)
(* alarm's handler with the alarm already out of the queue, so it is two   *)
(* actions with the handler's calls between them.                          *)
(*                                                                         *)
(* Ticks are relative to now: left[a] is alarm->fire - OS_GetTick(), and   *)
(* -1 stands for every time that has passed.                               *)
(***************************************************************************)
EXTENDS Integers, FiniteSets, Sequences, SequencesExt

CONSTANTS
    Alarm,      \* OSAlarm objects
    NULL,
    Span,       \* 0x10000: the longest time timer 1 counts
    Delay,      \* the ticks clients pass to OS_SetAlarm
    Start,      \* the starts, relative to now, they pass to OS_SetPeriodicAlarm
    Period,     \* and the periods
    LateCancel  \* whether a handler cancels its own periodic alarm after it has
                \* made other calls

ASSUME AlarmAssumption ==
    /\ NULL \notin Alarm /\ IsFiniteSet(Alarm)
    /\ NULL \notin [alarm : Alarm, handler : BOOLEAN, changed : BOOLEAN]
    /\ Span \in Nat \ {0}
    /\ Delay \subseteq Nat
    /\ Start \subseteq Int
    /\ Period \subseteq Nat \ {0}
    /\ LateCancel \in BOOLEAN

VARIABLES
    q,          \* OSi_AlarmQueue, the prev and next of the alarms, and the count
                \* timer 1 still has to make until its interrupt (0: stopped)
    handler,    \* whether alarm->handler is set
    left,       \* alarm->fire, relative to now
    period,     \* alarm->period
    start,      \* alarm->start, relative to now
    pending,    \* the interrupt flag of timer 1
    firing      \* the alarm whose handler OSi_ArrangeTimer has called, its local
                \* handler, and whether the handler has changed the queue

alarmFields == <<handler, left, period, start>>
alarmVars == <<q, alarmFields, pending, firing>>

-----------------------------------------------------------------------------
(* The queue *)

\* f with the link of p, if p is an alarm, set to v.
Relink(f, p, v) == [a \in Alarm |-> IF a = p THEN v ELSE f[a]]

\* The alarms a walk from the head visits, cut at the number of alarms there are.
Chain(Q) ==
    LET N == Cardinality(Alarm)
        walk[i \in 0 .. N] == IF i = 0 THEN Q.head
                              ELSE IF walk[i - 1] = NULL THEN NULL
                              ELSE Q.next[walk[i - 1]]
        visits == {i \in 1 .. N : walk[i - 1] # NULL}
    IN  [i \in 1 .. Cardinality(visits) |-> walk[i - 1]]

Queued == ToSet(Chain(q))

\* OSi_SetTimer, for an alarm that is d ticks away.
SetTimer(d) == IF d < 0 THEN 2 ELSE IF d < Span THEN d + 1 ELSE Span

\* The first alarm of the queue that is to fire later than a, if there is one.
LaterThan(Q, fire, a) ==
    LET c == Chain(Q)
        later == {i \in 1 .. Len(c) : fire[c[i]] > fire[a]}
    IN  IF later = {} THEN NULL ELSE c[Min(later)]

\* Mutation: the timer is not set for a new head.
InsertAlarm_NoTimer(Q, fire, a) ==
    LET n == LaterThan(Q, fire, a)
        p == IF n = NULL THEN Q.tail ELSE Q.prev[n]
    IN  [Q EXCEPT !.next = Relink(Relink(Q.next, a, n), p, a),
                  !.prev = Relink(Relink(Q.prev, a, p), n, a),
                  !.head = IF p = NULL THEN a ELSE @,
                  !.tail = IF n = NULL THEN a ELSE @]

\* Mutation: every alarm is put behind the tail.
InsertAlarm_AtTail(Q, fire, a) ==
    [Q EXCEPT !.next = Relink(Relink(Q.next, a, NULL), Q.tail, a),
              !.prev = Relink(Q.prev, a, Q.tail),
              !.head = IF Q.tail = NULL THEN a ELSE @,
              !.tail = a,
              !.timer = IF Q.tail = NULL THEN SetTimer(fire[a]) ELSE @]

\* OSi_InsertAlarm, once alarm->fire is computed: before the first alarm that is
\* to fire later; the timer is set if that makes it the head.
InsertAlarm(Q, fire, a) ==
    LET n == LaterThan(Q, fire, a)
        p == IF n = NULL THEN Q.tail ELSE Q.prev[n]
    IN  [Q EXCEPT !.next = Relink(Relink(Q.next, a, n), p, a),
                  !.prev = Relink(Relink(Q.prev, a, p), n, a),
                  !.head = IF p = NULL THEN a ELSE @,
                  !.tail = IF n = NULL THEN a ELSE @,
                  !.timer = IF p = NULL THEN SetTimer(fire[a]) ELSE @]

\* What OS_CancelAlarm does to the queue, by the links the alarm has kept.
Unlink(Q, a) ==
    LET n == Q.next[a]
        p == Q.prev[a]
    IN  [Q EXCEPT !.tail = IF n = NULL THEN p ELSE @,
                  !.prev = Relink(Q.prev, n, p),
                  !.next = Relink(Q.next, p, n),
                  !.head = IF p = NULL THEN n ELSE @,
                  !.timer = IF p = NULL /\ n # NULL THEN SetTimer(left[n]) ELSE @]

\* A walk of the queue unlinks the alarms of met.
UnlinkAll(Q, met) ==
    LET c == Chain(Q)
        cut[i \in 0 .. Len(c)] == IF i = 0 THEN Q
                                  ELSE IF c[i] \in met THEN Unlink(cut[i - 1], c[i])
                                  ELSE cut[i - 1]
    IN  cut[Len(c)]

\* Mutation: the next period is counted from now.
NextFire_FromNow(s, p) == IF s >= 0 THEN s ELSE p

\* The next time of a periodic alarm: start + k * period, not before now.
NextFire(s, p) == IF s >= 0 THEN s ELSE s + p * ((-s) \div p + 1)

-----------------------------------------------------------------------------
AlarmInit ==
    /\ q = [head |-> NULL, tail |-> NULL, timer |-> 0,
            next |-> [a \in Alarm |-> NULL], prev |-> [a \in Alarm |-> NULL]]
    /\ handler = [a \in Alarm |-> FALSE]
    /\ left = [a \in Alarm |-> -1]
    /\ period = [a \in Alarm |-> 0]
    /\ start = [a \in Alarm |-> 0]
    /\ pending = FALSE
    /\ firing = NULL

\* A call of the handler that runs leaves its mark in firing.
QueueChanged == firing' = IF firing = NULL THEN NULL ELSE [firing EXCEPT !.changed = TRUE]

IsOwn(a) == firing # NULL /\ firing.alarm = a

-----------------------------------------------------------------------------
(* The API *)

\* OS_SetAlarm; it panics on an alarm whose handler is set.
SetAlarm(a, d) ==
    /\ ~handler[a]
    /\ handler' = [handler EXCEPT ![a] = TRUE]
    /\ period' = [period EXCEPT ![a] = 0]
    /\ left' = [left EXCEPT ![a] = d]
    /\ q' = InsertAlarm(q, left', a)
    /\ QueueChanged
    /\ UNCHANGED <<start, pending>>

\* OS_SetPeriodicAlarm.  A handler does not call it on its own alarm: on return
\* OSi_ArrangeTimer would insert the alarm once more.
SetPeriodicAlarm(a, s, p) ==
    /\ ~handler[a] /\ ~IsOwn(a)
    /\ handler' = [handler EXCEPT ![a] = TRUE]
    /\ period' = [period EXCEPT ![a] = p]
    /\ start' = [start EXCEPT ![a] = s]
    /\ left' = [left EXCEPT ![a] = NextFire(s, p)]
    /\ q' = InsertAlarm(q, left', a)
    /\ QueueChanged
    /\ UNCHANGED pending

\* OS_CancelAlarm, which returns at once if the alarm has no handler.  A periodic
\* alarm has one while its handler runs, though it is not in the queue then.
CancelAlarm(a) ==
    /\ handler[a]
    /\ IsOwn(a) => LateCancel \/ ~firing.changed
    /\ q' = Unlink(q, a)
    /\ handler' = [handler EXCEPT ![a] = FALSE]
    /\ period' = [period EXCEPT ![a] = 0]
    /\ QueueChanged
    /\ UNCHANGED <<left, start, pending>>

\* OS_CancelAlarms of a tag that the alarms of S have, or OS_CancelAllAlarms: of
\* those a walk of the queue meets, every one that has a handler is cancelled.
CancelAlarms(S) ==
    LET met == {a \in Queued : a \in S /\ handler[a]}
    IN  /\ met # {}
        /\ q' = UnlinkAll(q, met)
        /\ handler' = [a \in Alarm |-> handler[a] /\ a \notin met]
        /\ period' = [a \in Alarm |-> IF a \in met THEN 0 ELSE period[a]]
        /\ QueueChanged
        /\ UNCHANGED <<left, start, pending>>

-----------------------------------------------------------------------------
(* Timer 1 *)

\* A tick passes.  The interrupt flag stays set until the interrupt is taken,
\* which stops the timer: what it counts meanwhile does not matter.  (Of a start
\* that has passed only its phase is ever used.)
Tick ==
    /\ left' = [a \in Alarm |-> IF left[a] < 0 THEN -1 ELSE left[a] - 1]
    /\ start' = [a \in Alarm |-> IF period[a] = 0 THEN 0
                                 ELSE IF start[a] <= -period[a] THEN start[a] - 1 + period[a]
                                 ELSE start[a] - 1]
    /\ q' = [q EXCEPT !.timer = IF @ = 0 THEN 0 ELSE @ - 1]
    /\ pending' = (pending \/ q.timer = 1)
    /\ UNCHANGED <<handler, period, firing>>

\* The interrupt is taken: the timer is stopped.  With an empty queue that is all.
ArrangeTimerEmpty ==
    /\ pending /\ firing = NULL
    /\ q.head = NULL
    /\ pending' = FALSE
    /\ q' = [q EXCEPT !.timer = 0]
    /\ UNCHANGED <<alarmFields, firing>>

IsDue == left[q.head] <= 0

\* The head is not due: the timer is set again.
ArrangeTimerEarly ==
    /\ pending /\ firing = NULL
    /\ q.head # NULL /\ ~IsDue
    /\ pending' = FALSE
    /\ q' = [q EXCEPT !.timer = SetTimer(left[q.head])]
    /\ UNCHANGED <<alarmFields, firing>>

\* The handler of an alarm that goes off stays set if the alarm is periodic.
KeepsHandler(a) == handler[a] /\ period[a] # 0

\* The head is due: it leaves the queue, keeping its own links, and its handler
\* is called.
ArrangeTimerFire ==
    LET a == q.head
        n == q.next[a]
    IN  /\ pending /\ firing = NULL
        /\ a # NULL /\ IsDue
        /\ pending' = FALSE
        /\ q' = [q EXCEPT !.head = n,
                          !.tail = IF n = NULL THEN NULL ELSE @,
                          !.prev = Relink(@, n, NULL),
                          !.timer = 0]
        /\ handler' = [handler EXCEPT ![a] = KeepsHandler(a)]
        /\ firing' = [alarm |-> a, handler |-> handler[a], changed |-> FALSE]
        /\ UNCHANGED <<left, period, start>>

\* Mutation: the timer is left as it is.
Rearm_Never(Q, fire) == Q

\* The end of OSi_ArrangeTimer: the timer is set for the head.
Rearm(Q, fire) == IF Q.head = NULL THEN Q ELSE [Q EXCEPT !.timer = SetTimer(fire[Q.head])]

\* The handler returns: an alarm that is periodic is put back.
ArrangeTimerReturn ==
    /\ firing # NULL
    /\ LET a == firing.alarm
       IN  IF period[a] > 0
           THEN /\ handler' = [handler EXCEPT ![a] = firing.handler]
                /\ left' = [left EXCEPT ![a] = NextFire(start[a], period[a])]
                /\ q' = Rearm(InsertAlarm(q, left', a), left')
           ELSE /\ q' = Rearm(q, left)
                /\ UNCHANGED <<handler, left>>
    /\ firing' = NULL
    /\ UNCHANGED <<period, start, pending>>

-----------------------------------------------------------------------------
ApiCall ==
    \/ \E a \in Alarm, d \in Delay : SetAlarm(a, d)
    \/ \E a \in Alarm, s \in Start, p \in Period : SetPeriodicAlarm(a, s, p)
    \/ \E a \in Alarm : CancelAlarm(a)
    \/ \E S \in SUBSET Alarm : CancelAlarms(S)

ArrangeTimer ==
    \/ ArrangeTimerEmpty
    \/ ArrangeTimerEarly
    \/ ArrangeTimerFire
    \/ ArrangeTimerReturn

AlarmNext == ApiCall \/ ArrangeTimer \/ Tick

AlarmSpec == AlarmInit /\ [][AlarmNext]_alarmVars

\* Time passes, the processor takes the timer's interrupt, and handlers return.
FairAlarmSpec == AlarmSpec /\ WF_alarmVars(Tick) /\ WF_alarmVars(ArrangeTimer)

-----------------------------------------------------------------------------
(* Properties *)

\* Every variable has its type.
AlarmTypeOK ==
    /\ q \in [head : Alarm \cup {NULL}, tail : Alarm \cup {NULL}, timer : 0 .. Span \cup {2},
              next : [Alarm -> Alarm \cup {NULL}], prev : [Alarm -> Alarm \cup {NULL}]]
    /\ handler \in [Alarm -> BOOLEAN]
    /\ left \in [Alarm -> Int]
    /\ period \in [Alarm -> Period \cup {0}]
    /\ start \in [Alarm -> Int]
    /\ pending \in BOOLEAN
    /\ firing \in [alarm : Alarm, handler : BOOLEAN, changed : BOOLEAN] \cup {NULL}

\* The queue is one chain from head to tail, whichever alarms were set, fired and
\* cancelled, by threads or by handlers: no alarm is in it twice (a second
\* insertion would tie a knot and hang the next insertion with interrupts off),
\* the walk ends at the tail, and prev is the inverse of next.  Nothing is left in it
\* of an alarm that was cancelled or has fired.
LinksConsistent ==
    LET c == Chain(q)
    IN  /\ IsInjective(c)
        /\ q.tail = IF c = <<>> THEN NULL ELSE Last(c)
        /\ \A i \in 1 .. Len(c) :
              /\ q.next[c[i]] = IF i = Len(c) THEN NULL ELSE c[i + 1]
              /\ q.prev[c[i]] = IF i = 1 THEN NULL ELSE c[i - 1]
              /\ handler[c[i]] /\ ~(IsOwn(c[i]) /\ period[c[i]] > 0)

\* OS_SetAlarm panics with "alarm could be already used." on an alarm whose
\* handler is set.  Such an alarm is in use: it is in the queue, or its handler
\* runs; otherwise it would never fire and could never be set again.
UsedAlarmsQueued ==
    \A a \in Alarm : handler[a] => a \in Queued \/ IsOwn(a)

\* While alarms wait, timer 1 runs and interrupts no later than one tick after
\* the first of them is due, or two ticks from now if it is already.
HeadIsTimed ==
    firing = NULL /\ q.head # NULL =>
       \/ pending
       \/ q.timer > 0 /\ q.timer <= IF left[q.head] > 0 THEN left[q.head] + 1 ELSE 2

\* The queue is one chain of the alarms that are set, and the timer counts to its head.
QueueIsTimed == AlarmTypeOK /\ LinksConsistent /\ UsedAlarmsQueued /\ HeadIsTimed

\* A periodic alarm keeps its phase: whatever the delay with which its handlers
\* ran, and however many periods were missed, it waits for start + k * period.
PeriodKept ==
    \A a \in Queued : period[a] > 0 /\ left[a] >= 0 => (left[a] - start[a]) % period[a] = 0

Clock == INSTANCE AlarmClock WITH
            pending <- Queued,
            running <- IF firing = NULL THEN NULL ELSE firing.alarm

\* The queue and the timer implement the abstract alarms: no alarm goes off early,
\* before another that is due earlier, or after it was cancelled.
RefinesClock == Clock!Spec

\* An alarm that is set goes off, unless it is cancelled first.
AlarmGoesOff == \A a \in Alarm : handler[a] ~> IsOwn(a) \/ ~handler[a]
=============================================================================
