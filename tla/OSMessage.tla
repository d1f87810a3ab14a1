----------------------------- MODULE OSMessage ------------------------------
(***************************************************************************)
(* A message queue of libraries/os/src/os_message.c on top of the thread   *)
(* kernel: a ring buffer and two thread queues.  Threads call with or      *)
(* without OS_MESSAGE_BLOCK, interrupt handlers without.                   *)
(***************************************************************************)
EXTENDS OSThread

CONSTANTS
    queueSend,      \* mq->queueSend, the threads that wait for room
    queueReceive,   \* mq->queueReceive, the threads that wait for a message
    Message,
    msgCount,       \* mq->msgCount
    Handler         \* the interrupt handler, as a caller

ASSUME MessageAssumption ==
    /\ {queueSend, queueReceive} \subseteq Queue \ (ClientQueue \cup {IrqQueue})
    /\ queueSend # queueReceive
    /\ msgCount \in Nat \ {0}
    /\ NULL \notin Message
    /\ Handler \notin Thread

VARIABLES
    msgArray,       \* mq->msgArray
    firstIndex,     \* mq->firstIndex
    usedCount,      \* mq->usedCount
    request,        \* the call each thread sleeps in
    received        \* *msg of each caller's last receive or read

mqVars  == <<msgArray, firstIndex, usedCount>>
mqAllVars == <<vars, mqVars, request, received>>

Index == 0 .. msgCount - 1

MessageInit ==
    /\ Init
    /\ msgArray = [i \in Index |-> NULL]
    /\ firstIndex = 0
    /\ usedCount = 0
    /\ request = [t \in Thread |-> NULL]
    /\ received = [c \in Thread \cup {Handler} |-> NULL]

Full  == msgCount <= usedCount
Empty == usedCount = 0

-----------------------------------------------------------------------------
(* The effects, once there is room or a message *)

\* OS_SendMessage: behind the last message.
SendEffect(msg) ==
    /\ msgArray' = [msgArray EXCEPT ![(firstIndex + usedCount) % msgCount] = msg]
    /\ usedCount' = usedCount + 1
    /\ Wakeup(queueReceive)
    /\ UNCHANGED <<firstIndex, received>>

\* Mutation: the index of the first message.
JamIndex_First == firstIndex

JamIndex == (firstIndex + msgCount - 1) % msgCount

\* OS_JamMessage: before the first message.
JamEffect(msg) ==
    /\ firstIndex' = JamIndex
    /\ msgArray' = [msgArray EXCEPT ![JamIndex] = msg]
    /\ usedCount' = usedCount + 1
    /\ Wakeup(queueReceive)
    /\ UNCHANGED received

ReceiveEffect(caller) ==
    /\ received' = [received EXCEPT ![caller] = msgArray[firstIndex]]
    /\ firstIndex' = (firstIndex + 1) % msgCount
    /\ usedCount' = usedCount - 1
    /\ Wakeup(queueSend)
    /\ UNCHANGED msgArray

\* OS_ReadMessage leaves the message in the queue and wakes no one.
ReadEffect(caller) ==
    /\ received' = [received EXCEPT ![caller] = msgArray[firstIndex]]
    /\ UNCHANGED <<mqVars, threadVars, queueVars, schedVars>>

Request == [call : {"send", "jam"}, msg : Message] \cup [call : {"receive", "read"}]

Sends(r) == r.call \in {"send", "jam"}

Blocked(r) == IF Sends(r) THEN Full ELSE Empty

Effect(caller, r) == CASE r.call = "send"    -> SendEffect(r.msg)
                       [] r.call = "jam"     -> JamEffect(r.msg)
                       [] r.call = "receive" -> ReceiveEffect(caller)
                       [] r.call = "read"    -> ReadEffect(caller)

\* OS_SleepThread in the queue of the callers that wait for the same event.
Wait(self, r) == /\ Block(self, IF Sends(r) THEN queueSend ELSE queueReceive)
                 /\ UNCHANGED <<mqVars, received>>

-----------------------------------------------------------------------------
\* A call that finds what it needs, or finds it not and does not block: it
\* returns FALSE, and nothing changes.
CallNow(self, r) ==
    /\ r.call \in Calls /\ Running(self)
    /\ ~Blocked(r)
    /\ Effect(self, r)
    /\ UNCHANGED <<request, callVars, clientVars, irqVars, rescheduleCount>>

\* A call with OS_MESSAGE_BLOCK that has to wait.
CallAndWait(self, r) ==
    /\ Calling(self, r.call) /\ MayBlock(self)
    /\ Blocked(r)
    /\ request' = [request EXCEPT ![self] = r]
    /\ op' = [op EXCEPT ![self] = IF Sends(r) THEN "send" ELSE "receive"]
    /\ Wait(self, r)
    /\ UNCHANGED <<arg, clientVars, irqVars, rescheduleCount>>

\* The loop of the call after its thread was woken: the test again.
CallLoop(self) ==
    LET r == request[self]
    IN  /\ ~irqMode /\ current = self /\ op[self] \in {"send", "receive"}
        /\ IF Blocked(r)
           THEN /\ Wait(self, r)
                /\ UNCHANGED <<op, request>>
           ELSE /\ Effect(self, r)
                /\ op' = [op EXCEPT ![self] = "run"]
                /\ request' = [request EXCEPT ![self] = NULL]
        /\ UNCHANGED <<arg, clientVars, irqVars, rescheduleCount>>

\* An interrupt handler calls without OS_MESSAGE_BLOCK.
IrqCall(r) ==
    /\ irqMode /\ "irqmessage" \in Calls /\ r.call \in Calls
    /\ ~Blocked(r)
    /\ Effect(Handler, r)
    /\ UNCHANGED <<request, callVars, clientVars, irqVars, rescheduleCount>>

-----------------------------------------------------------------------------
MessageStep(self) ==
    \/ \E r \in Request : CallNow(self, r) \/ CallAndWait(self, r)
    \/ CallLoop(self)

ThreadEnds(self) == \/ ExitThreadDestroy(self, {})
                    \/ DestroySelf(self, {})
                    \/ \E t \in User : DestroyThread(self, t, {})

MessageNext ==
    /\ ListIntact
    /\ \/ \E self \in Thread :
             \/ MessageStep(self)
             \/ /\ \/ ThreadStep(self)
                   \/ ThreadEnds(self)
                   \/ \E t \in User, p \in Prio, d \in BOOLEAN : CreateThread(self, t, p, d)
                /\ UNCHANGED <<mqVars, request, received>>
       \/ \E r \in Request : IrqCall(r)
       \/ IrqStep /\ UNCHANGED <<mqVars, request, received>>

MessageSpec == MessageInit /\ [][MessageNext]_mqAllVars

-----------------------------------------------------------------------------
(* Properties *)

\* The ring buffer's indices stay inside it, and a thread inside a call has its
\* arguments.
MessageTypeOK ==
    /\ msgArray \in [Index -> Message \cup {NULL}]
    /\ firstIndex \in Index
    /\ usedCount \in 0 .. msgCount
    /\ request \in [Thread -> Request \cup {NULL}]
    /\ received \in [Thread \cup {Handler} -> Message \cup {NULL}]
    /\ \A t \in Thread :
          /\ op[t] = "send" => request[t] \in Request /\ Sends(request[t])
          /\ op[t] = "receive" => request[t] \in Request /\ ~Sends(request[t])

\* No wake-up is lost on either side: a thread is linked in queueReceive only
\* while the queue is empty, in queueSend only while it is full, so that senders
\* and receivers are never asleep together.
WaitersBlocked == /\ waiters[queueReceive] # {} => Empty
                  /\ waiters[queueSend] # {} => Full

\* A thread that sleeps inside a call of the message queue is linked in the
\* queue that the event it waits for wakes.
SleepersLinked ==
    \A t \in Thread : state[t] = "waiting" =>
        /\ op[t] = "send" => t \in waiters[queueSend]
        /\ op[t] = "receive" => t \in waiters[queueReceive]

\* No wake-up of a sender or receiver is lost.
NobodyMissesMessages == WaitersBlocked /\ SleepersLinked /\ MessageTypeOK

\* The messages of the ring, the first one first.
Contents == [i \in 1 .. usedCount |-> msgArray[(firstIndex + i - 1) % msgCount]]

Channel == INSTANCE MessageChannel
               WITH Client <- Thread \cup {Handler}, Capacity <- msgCount,
                    NoMessage <- NULL, contents <- Contents

\* The ring buffer, with its wake-ups, its interrupts and the threads killed while
\* they wait in it, is a bounded channel: messages leave in the order they were
\* sent and jammed, none is lost, made up or given twice, and a blocked call has
\* its effect at one moment, on the queue of that moment.
RefinesChannel == Channel!ChannelSpec
=============================================================================
