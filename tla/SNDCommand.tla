----------------------------- MODULE SNDCommand -----------------------------
(***************************************************************************)
(* The sound commands of libraries/snd/src/snd_command.c.  Threads of the  *)
(* ARM9 reserve commands and flush them as lists over the PXI FIFO; the    *)
(* sound thread of the ARM7 executes the lists and counts them; the ARM9   *)
(* collects the finished ones and puts their commands back into its free   *)
(* list.  What the ARM9 writes is in its cache until DC_FlushRange, or an  *)
(* eviction, brings it to the memory the ARM7 reads.                       *)
(*                                                                         *)
(* A section of the ARM9 with interrupts disabled is a step; the functions *)
(* are cut where they enable them, and where they wait for the ARM7.       *)
(***************************************************************************)
EXTENDS Integers, SequencesExt

CONSTANTS
    Command,        \* sCommandArray; SND_COMMAND_NUM is its size
    Client,         \* the threads of the ARM9 that call
    Waiter,         \* those that call with SND_COMMAND_BLOCK too
    NULL,
    Request,        \* SND_MSG_REQUEST_COMMAND_PROC
    BufSize,        \* SND_PXI_FIFO_MESSAGE_BUFSIZE
    FifoSize,       \* words the hardware FIFO holds
    TagMod,         \* 2^32, the number of values of a tag
    MaxShared       \* bound: the lists sent when there is more than one client

ASSUME CommandAssumption ==
    /\ Command # {} /\ IsFiniteSet(Command)
    /\ Waiter \subseteq Client
    /\ NULL \notin Command \cup Client
    /\ Request \notin Command
    /\ BufSize \in Nat \ {0} /\ FifoSize \in Nat \ {0}
    /\ TagMod \in Nat /\ TagMod % 2 = 0 /\ TagMod \div 2 > BufSize + 1
    /\ MaxShared \in Nat

VARIABLES
    next,           \* command->next as the ARM9 sees it
    mem,            \* command->next in memory, as the ARM7 sees it
    free,           \* sFreeList and sFreeListEnd
    reserve,        \* sReserveList and sReserveListEnd
    ring,           \* sWaitingCommandListQueue with its Read and Write
    waitingCount,   \* sWaitingCommandListCount
    currentTag,     \* sCurrentTag
    finishedTag,    \* sFinishedTag
    fifo,           \* the words on their way to the ARM7
    mesgQueue,      \* sCommandMesgQueue
    command_p,      \* of SND_CommandProc
    inList,         \* it is in the loop over a list
    finishCommandTag, \* of the shared work
    user,           \* the clients there are in this program
    pc,             \* where each client is
    call,           \* the function it is in, how many commands it wants, and
                    \* how many it has counted
    own,            \* the command it has reserved and not yet pushed
    tag,            \* the tag it took
    due             \* history: what that tag stands for and is not yet executed

listVars == <<next, free, reserve>>
ringVars == <<ring, waitingCount, currentTag, finishedTag>>
arm7Vars == <<mesgQueue, command_p, inList, finishCommandTag>>
callVars == <<pc, call, own, tag, due>>
vars == <<listVars, mem, ringVars, fifo, arm7Vars, callVars, user>>

Num   == Cardinality(Command)
Slot  == 0 .. BufSize
Tag   == 0 .. TagMod - 1
Link  == Command \cup {NULL}

\* The commands from first on, along the links (a cycle shows as one too many).
Chain(link, first) ==
    LET rest[n \in 0 .. Num + 1] ==
            [c \in Link |-> IF c = NULL \/ n = 0 THEN << >> ELSE <<c>> \o rest[n - 1][link[c]]]
    IN  rest[Num + 1][first]

Init ==
    /\ LET order == SetToSeq(Command)
       IN  /\ next = [c \in Command |->
                        LET i == CHOOSE i \in 1 .. Num : order[i] = c
                        IN  IF i = Num THEN NULL ELSE order[i + 1]]
           /\ free = [head |-> order[1], end |-> order[Num]]
    /\ mem = [c \in Command |-> NULL]
    /\ reserve = [head |-> NULL, end |-> NULL]
    /\ ring = [slot |-> [i \in Slot |-> NULL], read |-> 0, write |-> 0]
    /\ waitingCount = 0
    /\ currentTag = 1 /\ finishedTag = 0 /\ finishCommandTag = 0
    /\ fifo = << >> /\ mesgQueue = << >>
    /\ command_p = NULL /\ inList = FALSE
    /\ user \in {us \in SUBSET Client : us \cap Waiter # {}}
    /\ pc = [t \in Client |-> "idle"]
    /\ call = [t \in Client |-> [kind |-> "none", want |-> 0, seen |-> 0]]
    /\ own = [t \in Client |-> NULL]
    /\ tag = [t \in Client |-> NULL]
    /\ due = [t \in Client |-> {}]

-----------------------------------------------------------------------------
(* The lists of the ARM9 *)

NextTag(n) == (n + 1) % TagMod

\* Mutation: the write index does not wrap.
NextSlot_NoWrap(i) == i + 1

NextSlot(i) == IF i + 1 > BufSize THEN 0 ELSE i + 1

FreeRest == [head |-> next[free.head],
             end  |-> IF next[free.head] = NULL THEN NULL ELSE free.end]

TagReceived == NextTag(finishedTag)

ReplyReady == finishedTag # finishCommandTag

\* The part of SND_RecvCommandReply after its test: the first waiting list goes
\* to the end of the free list.  (Its slot, which is written before it is read
\* again, is forgotten.)
RecvReply ==
    LET list == ring.slot[ring.read]
    IN  /\ ring' = [ring EXCEPT !.slot[ring.read] = NULL, !.read = NextSlot(ring.read)]
        /\ next' = IF free.end # NULL THEN [next EXCEPT ![free.end] = list] ELSE next
        /\ free' = [head |-> IF free.end # NULL THEN free.head ELSE list,
                    end  |-> Last(Chain(next, list))]
        /\ waitingCount' = waitingCount - 1
        /\ finishedTag' = TagReceived
        /\ UNCHANGED <<reserve, currentTag, mem, fifo>>

\* Mutation: the cache is not written back.
Flushed_Not == mem

\* DC_FlushRange(sCommandArray)
Flushed == next

Room == Len(fifo) < FifoSize

\* The loop of SND_FlushCommand looks again at the count after it enabled interrupts.
MaySend == waitingCount < BufSize /\ Room

\* The list is in the FIFO: the rest of SND_FlushCommand's section.
Sent ==
    /\ mem' = Flushed
    /\ fifo' = Append(fifo, reserve.head)
    /\ ring' = [ring EXCEPT !.slot[ring.write] = reserve.head, !.write = NextSlot(ring.write)]
    /\ reserve' = [head |-> NULL, end |-> NULL]
    /\ waitingCount' = waitingCount + 1
    /\ currentTag' = NextTag(currentTag)
    /\ UNCHANGED <<next, free, finishedTag>>

\* Mutation: the tags are compared without regard to their wrap.
IsFinished_NoWrap(n) == n <= finishedTag

\* SND_IsFinishedCommandTag
IsFinished(n) == IF n > finishedTag THEN n - finishedTag >= TagMod \div 2
                 ELSE finishedTag - n < TagMod \div 2

CountFree == Len(Chain(next, free.head))
CountReserved == Len(Chain(next, reserve.head))

-----------------------------------------------------------------------------
(* Calls of the ARM9's threads *)

\* A client that waits inside SND_FlushCommand has interrupts disabled.
Masked(t) == pc[t] \in {"spin", "send"}

Step(t, from, to) == /\ \A u \in Client \ {t} : ~Masked(u)
                     /\ pc[t] = from
                     /\ pc' = [pc EXCEPT ![t] = to]

\* A client pushes what it has reserved before it makes another call.
Enter(t, to, kind, want, seen) ==
    /\ Step(t, "idle", to) /\ own[t] = NULL
    /\ call' = [call EXCEPT ![t] = [kind |-> kind, want |-> want, seen |-> seen]]
    /\ UNCHANGED <<own, tag, due>>

NoCall == [kind |-> "none", want |-> 0, seen |-> 0]

Leave(t, from) == /\ Step(t, from, "idle")
                  /\ call' = [call EXCEPT ![t] = NoCall]

\* AllocCommand
Take(t) == /\ free.head # NULL
           /\ own' = [own EXCEPT ![t] = free.head]
           /\ free' = FreeRest
           /\ UNCHANGED <<next, reserve>>

\* SND_AllocCommand finds a command,
Alloc(t) ==
    /\ Step(t, "idle", "idle") /\ own[t] = NULL /\ tag[t] = NULL
    /\ Take(t)
    /\ UNCHANGED <<call, tag, due, mem, ringVars, fifo, arm7Vars>>

\* or, with SND_COMMAND_BLOCK, goes on to find one,
AllocWait(t) ==
    /\ Enter(t, "count", "alloc", 1, 0) /\ tag[t] = NULL
    /\ free.head = NULL
    /\ UNCHANGED <<listVars, mem, ringVars, fifo, arm7Vars>>

\* and SND_WaitForFreeCommand does the same until n commands are free.
WaitForFreeCommand(t, n) ==
    /\ Enter(t, "count", "free", n, CountFree) /\ tag[t] = NULL
    /\ CountFree < n
    /\ UNCHANGED <<listVars, mem, ringVars, fifo, arm7Vars>>

PushCommand(t) ==
    /\ Step(t, "idle", "idle") /\ own[t] # NULL
    /\ next' = IF reserve.end = NULL THEN [next EXCEPT ![own[t]] = NULL]
               ELSE [next EXCEPT ![reserve.end] = own[t], ![own[t]] = NULL]
    /\ reserve' = [head |-> IF reserve.end = NULL THEN own[t] ELSE reserve.head,
                   end  |-> own[t]]
    /\ own' = [own EXCEPT ![t] = NULL]
    /\ UNCHANGED <<free, call, tag, due, mem, ringVars, fifo, arm7Vars>>

\* SND_GetCurrentCommandTag
GetCurrentCommandTag(t) ==
    /\ Step(t, "idle", "idle") /\ own[t] = NULL /\ tag[t] = NULL
    /\ tag' = [tag EXCEPT ![t] = IF reserve.head = NULL THEN finishedTag ELSE currentTag]
    /\ due' = [due EXCEPT ![t] = ToSet(Chain(next, reserve.head))]
    /\ UNCHANGED <<call, own, listVars, mem, ringVars, fifo, arm7Vars>>

\* The wait for the tag is over.
DropTag(t) == /\ tag' = [tag EXCEPT ![t] = NULL]
              /\ due' = [due EXCEPT ![t] = {}]

\* SND_WaitForCommandProc, once the list was flushed, returns
WaitedAlready(t) ==
    /\ Step(t, "idle", "idle") /\ tag[t] # NULL /\ tag[t] # currentTag
    /\ IsFinished(tag[t])
    /\ DropTag(t)
    /\ UNCHANGED <<call, own, listVars, mem, ringVars, fifo, arm7Vars>>

\* or goes on to collect replies.
WaitForCommandProc(t) ==
    /\ tag[t] # NULL /\ tag[t] # currentTag
    /\ ~IsFinished(tag[t])
    /\ Enter(t, "drain", "proc", 0, 0)
    /\ UNCHANGED <<listVars, mem, ringVars, fifo, arm7Vars>>

\* The bound on the lists that are sent when there is more than one client.
MaySendMore == Cardinality(user) = 1 \/ currentTag <= MaxShared

\* SND_FlushCommand without SND_COMMAND_BLOCK sends the list or gives up.
FlushNoBlock(t) ==
    /\ Step(t, "idle", "idle") /\ own[t] = NULL
    /\ reserve.head # NULL /\ waitingCount < BufSize /\ MaySendMore
    /\ IF Room THEN Sent
       ELSE mem' = Flushed /\ UNCHANGED <<listVars, ringVars, fifo>>
    /\ UNCHANGED <<call, own, tag, due, arm7Vars>>

\* SND_RecvCommandReply without SND_COMMAND_BLOCK.
RecvReplyNoBlock(t) ==
    /\ Step(t, "idle", "idle") /\ own[t] = NULL
    /\ ReplyReady
    /\ RecvReply
    /\ UNCHANGED <<call, own, tag, due, arm7Vars>>

\* SND_FlushCommand with SND_COMMAND_BLOCK, and with SND_COMMAND_IMMEDIATE or not.
FlushCommand(t, kind) ==
    /\ Enter(t, "flush", kind, 0, 0) /\ tag[t] \in {NULL, currentTag}
    /\ reserve.head # NULL
    /\ UNCHANGED <<listVars, mem, ringVars, fifo, arm7Vars>>

-----------------------------------------------------------------------------
(* SND_WaitForFreeCommand and the part of SND_AllocCommand like it *)

\* SND_CountWaitingCommand counts the free commands again,
CountFreeAgain(t) ==
    /\ Step(t, "count", "decide")
    /\ call' = [call EXCEPT ![t].seen = @ - CountFree]
    /\ UNCHANGED <<own, tag, due, listVars, mem, ringVars, fifo, arm7Vars>>

\* Mutation: the reserved commands are taken for waiting ones.
Enough_CountsReserved(t) == Num + call[t].seen >= call[t].want

\* and then the reserved ones: the others are taken to be with the ARM7.
Enough(t) == Num + call[t].seen - CountReserved >= call[t].want

\* Either enough commands are with the ARM7, or the reserved ones are flushed too.
Decide(t) ==
    /\ Step(t, "decide", IF Enough(t) THEN "drain" ELSE "flush")
    /\ call' = [call EXCEPT ![t].seen = 0]
    /\ UNCHANGED <<own, tag, due, listVars, mem, ringVars, fifo, arm7Vars>>

\* while (SND_RecvCommandReply(SND_COMMAND_NOBLOCK) != NULL)
Drain(t) ==
    \/ /\ ReplyReady /\ Step(t, "drain", "drain")
       /\ RecvReply
       /\ UNCHANGED <<call, own, tag, due, arm7Vars>>
    \/ /\ ~ReplyReady /\ Step(t, "drain", "check")
       /\ UNCHANGED <<call, own, tag, due, listVars, mem, ringVars, fifo, arm7Vars>>

\* What the call waits for.
Satisfied(t) == CASE call[t].kind = "alloc" -> free.head # NULL
                  [] call[t].kind = "free"  -> CountFree >= call[t].want
                  [] call[t].kind = "proc"  -> IsFinished(tag[t])

\* The call returns, SND_AllocCommand with a command.
Return(t, from) ==
    /\ Leave(t, from) /\ Satisfied(t)
    /\ IF call[t].kind = "alloc" THEN Take(t) ELSE UNCHANGED <<own, listVars>>
    /\ IF call[t].kind = "proc" THEN DropTag(t) ELSE UNCHANGED <<tag, due>>
    /\ UNCHANGED <<mem, ringVars, fifo, arm7Vars>>

GoOn(t, from, to) ==
    /\ Step(t, from, to) /\ ~Satisfied(t)
    /\ UNCHANGED <<call, own, tag, due, listVars, mem, ringVars, fifo, arm7Vars>>

\* The test after the replies were collected, and RequestCommandProc if it fails;
Check(t) == Return(t, "check") \/ GoOn(t, "check", "request")

\* RequestCommandProc sends again until the FIFO takes the word.
RequestCommandProc(t) ==
    /\ Step(t, "request", CASE call[t].kind = "immediate"       -> "idle"
                            [] call[t].kind \in {"alloc", "free"} -> "recv"
                            [] OTHER                            -> "test")
    /\ Room
    /\ fifo' = Append(fifo, Request)
    /\ call' = IF call[t].kind = "immediate" THEN [call EXCEPT ![t] = NoCall] ELSE call
    /\ UNCHANGED <<own, tag, due, listVars, mem, ringVars, arm7Vars>>

\* then the loop over SND_RecvCommandReply(SND_COMMAND_BLOCK) and the test.
RecvBlock(t) ==
    /\ Step(t, "recv", "test")
    /\ ReplyReady
    /\ RecvReply
    /\ UNCHANGED <<call, own, tag, due, arm7Vars>>

Test(t) == Return(t, "test") \/ GoOn(t, "test", "recv")

-----------------------------------------------------------------------------
(* SND_FlushCommand *)

\* Where the function that flushed goes on.
AfterFlush(t, sent) ==
    CASE call[t].kind \in {"alloc", "free"} -> "request"
      [] call[t].kind = "immediate" /\ sent -> "request"
      [] OTHER                              -> "idle"

EndFlush(t, from, sent) ==
    /\ Step(t, from, AfterFlush(t, sent))
    /\ call' = IF AfterFlush(t, sent) = "idle" THEN [call EXCEPT ![t] = NoCall] ELSE call
    /\ UNCHANGED <<own, tag, due>>

\* Another client has flushed the reserved commands.
FlushNothing(t, from) ==
    /\ reserve.head = NULL /\ EndFlush(t, from, FALSE)
    /\ UNCHANGED <<listVars, ringVars, fifo, arm7Vars>>

FlushSend(t, from, may) ==
    /\ reserve.head # NULL /\ may
    /\ EndFlush(t, from, TRUE)
    /\ Sent
    /\ UNCHANGED arm7Vars

FlushMove(t, from, to) ==
    /\ Step(t, from, to)
    /\ UNCHANGED <<call, own, tag, due, listVars, ringVars, fifo, arm7Vars>>

\* With eight lists at the ARM7 the function waits with interrupts disabled; with a
\* full FIFO it tries again with interrupts enabled.
FlushBegin(t) ==
    \/ FlushNothing(t, "flush") /\ UNCHANGED mem
    \/ FlushSend(t, "flush", waitingCount < BufSize /\ Room /\ MaySendMore)
    \/ reserve.head # NULL /\ waitingCount >= BufSize /\ MaySendMore
       /\ FlushMove(t, "flush", "spin") /\ UNCHANGED mem
    \/ reserve.head # NULL /\ waitingCount < BufSize /\ ~Room
       /\ FlushMove(t, "flush", "retry") /\ mem' = Flushed

\* SND_RecvCommandReply(SND_COMMAND_BLOCK) inside the section.
FlushSpin(t) ==
    /\ Step(t, "spin", IF waitingCount - 1 >= BufSize THEN "spin" ELSE "send")
    /\ ReplyReady
    /\ RecvReply
    /\ UNCHANGED <<call, own, tag, due, arm7Vars>>

FlushSpun(t) ==
    \/ FlushSend(t, "send", Room)
    \/ ~Room /\ FlushMove(t, "send", "retry") /\ mem' = Flushed

\* The body of the loop: SND_RecvCommandReply(SND_COMMAND_NOBLOCK),
FlushRetry(t) ==
    /\ Step(t, "retry", "retest")
    /\ IF ReplyReady THEN RecvReply ELSE UNCHANGED <<listVars, mem, ringVars, fifo>>
    /\ UNCHANGED <<call, own, tag, due, arm7Vars>>

\* and with interrupts disabled again, what is to be sent and whether it can be.
FlushRetest(t) ==
    \/ FlushNothing(t, "retest") /\ mem' = Flushed
    \/ FlushSend(t, "retest", MaySend /\ MaySendMore)
    \/ reserve.head # NULL /\ ~MaySend /\ FlushMove(t, "retest", "retry") /\ mem' = Flushed

-----------------------------------------------------------------------------
(* The cache of the ARM9, and the ARM7 *)

\* A line the ARM9 has written may leave its cache at any time.
Evict(c) ==
    /\ mem[c] # next[c]
    /\ mem' = [mem EXCEPT ![c] = next[c]]
    /\ UNCHANGED <<listVars, ringVars, fifo, arm7Vars, callVars>>

\* PxiFifoCallback of the ARM7: a list goes to sCommandMesgQueue if there is room; a
\* request wakes the sound thread, which its periodic alarm wakes in any case.
PxiFifoCallback ==
    /\ fifo # << >>
    /\ fifo' = Tail(fifo)
    /\ mesgQueue' = IF Head(fifo) \in Command /\ Len(mesgQueue) < BufSize
                    THEN Append(mesgQueue, Head(fifo)) ELSE mesgQueue
    /\ UNCHANGED <<listVars, mem, ringVars, command_p, inList, finishCommandTag, callVars>>

\* SND_CommandProc takes the next list,
CommandProcList ==
    /\ ~inList /\ mesgQueue # << >>
    /\ command_p' = Head(mesgQueue)
    /\ mesgQueue' = Tail(mesgQueue)
    /\ inList' = TRUE
    /\ UNCHANGED <<listVars, mem, ringVars, fifo, finishCommandTag, callVars>>

\* copies a command, executes it and goes on to the next,
CommandProcExecute ==
    /\ inList /\ command_p # NULL
    /\ command_p' = mem[command_p]
    /\ due' = [t \in Client |-> due[t] \ {command_p}]
    /\ UNCHANGED <<listVars, mem, ringVars, fifo, mesgQueue, inList, finishCommandTag,
                   pc, call, own, tag>>

\* Mutation: the list counts as finished when its last command is still to do.
ListDone_Early == IF command_p = NULL THEN TRUE ELSE mem[command_p] = NULL

ListDone == command_p = NULL

\* and counts the list as finished.
CommandProcFinish ==
    /\ inList /\ ListDone
    /\ inList' = FALSE
    /\ finishCommandTag' = NextTag(finishCommandTag)
    /\ UNCHANGED <<listVars, mem, ringVars, fifo, mesgQueue, command_p, callVars>>

-----------------------------------------------------------------------------
\* The loops and the rest of the calls that wait
CallStep(t) ==
    \/ CountFreeAgain(t) \/ Decide(t) \/ Drain(t) \/ Check(t)
    \/ RequestCommandProc(t) \/ RecvBlock(t) \/ Test(t)
    \/ FlushBegin(t) \/ FlushSpin(t) \/ FlushSpun(t) \/ FlushRetry(t) \/ FlushRetest(t)

ClientStep(t) ==
    \/ Alloc(t) \/ PushCommand(t) \/ FlushNoBlock(t) \/ RecvReplyNoBlock(t)

WaiterStep(t) ==
    \/ AllocWait(t)
    \/ \E n \in 1 .. Num : WaitForFreeCommand(t, n)
    \/ GetCurrentCommandTag(t) \/ WaitedAlready(t) \/ WaitForCommandProc(t)
    \/ \E kind \in {"flush", "immediate"} : FlushCommand(t, kind)
    \/ CallStep(t)

SoundThread == CommandProcList \/ CommandProcExecute \/ CommandProcFinish

Next == /\ \/ \E t \in user : ClientStep(t)
           \/ \E t \in user \cap Waiter : WaiterStep(t)
           \/ \E c \in Command : Evict(c)
           \/ PxiFifoCallback
           \/ SoundThread
        /\ UNCHANGED user

Spec == Init /\ [][Next]_vars

\* A client inside a call goes on, the ARM7 takes its interrupts, and its sound
\* thread, which a periodic alarm wakes, runs.
FairSpec == Spec /\ \A t \in Waiter : WF_vars(CallStep(t) /\ UNCHANGED user)
                 /\ WF_vars(PxiFifoCallback /\ UNCHANGED user)
                 /\ WF_vars(SoundThread /\ UNCHANGED user)

-----------------------------------------------------------------------------
(* Properties *)

\* The indices of the ring stay inside it, and its count within its bound.
TypeOK ==
    /\ next \in [Command -> Link] /\ mem \in [Command -> Link]
    /\ free \in [head : Link, end : Link] /\ reserve \in [head : Link, end : Link]
    /\ ring \in [slot : [Slot -> Link], read : Slot, write : Slot]
    /\ waitingCount \in 0 .. BufSize
    /\ {currentTag, finishedTag, finishCommandTag} \subseteq Tag
    /\ fifo \in Seq(Command \cup {Request}) /\ Len(fifo) <= FifoSize
    /\ mesgQueue \in Seq(Command) /\ Len(mesgQueue) <= BufSize
    /\ command_p \in Link /\ inList \in BOOLEAN
    /\ own \in [Client -> Link]
    /\ tag \in [Client -> Tag \cup {NULL}]
    /\ due \in [Client -> SUBSET Command]

\* The lists the ARM9 has sent and not yet got back, the oldest first.
Waiting == [i \in 1 .. waitingCount |-> ring.slot[(ring.read + i - 1) % (BufSize + 1)]]

Owned == {own[t] : t \in Client} \ {NULL}

EndOf(list) == IF list.head = NULL THEN NULL ELSE Last(Chain(next, list.head))

\* No command is lost or is in two places: each is free, reserved, in one list
\* that waits, or in the hands of one client, and the ends of the lists are ends.
CommandsConserved ==
    LET all == Chain(next, free.head) \o Chain(next, reserve.head)
                   \o FlattenSeq([i \in 1 .. waitingCount |-> Chain(next, Waiting[i])])
    IN  /\ Len(all) + Cardinality(Owned) = Num
        /\ ToSet(all) \cup Owned = Command
        /\ \A list \in {free, reserve} : list.end = EndOf(list)

\* The lists among the words ws.
Lists(ws) == FlattenSeq([i \in 1 .. Len(ws) |-> IF ws[i] = Request THEN << >> ELSE <<ws[i]>>])

\* The lists that are with the ARM7 but not yet begun.
ListsToDo == mesgQueue \o Lists(fifo)

\* The commands the ARM7 has yet to read, in its order.
ToRead == Chain(mem, command_p)
              \o FlattenSeq([i \in 1 .. Len(ListsToDo) |-> Chain(mem, ListsToDo[i])])

\* The ARM9 gives no command to a client, and links none into another list, that
\* the ARM7 has yet to read.
NotReusedEarly ==
    ToSet(ToRead) \cap (ToSet(Chain(next, free.head)) \cup ToSet(Chain(next, reserve.head))
                           \cup Owned) = {}

\* Every list that waits has a reply to come, in the order of the ring: the lists
\* the ARM7 has not begun are the last ones of the ring, and the tags count them.
RepliesMatch ==
    LET todo == Len(ListsToDo)
        begun == todo + IF inList THEN 1 ELSE 0
    IN  /\ todo <= waitingCount
        /\ SubSeq(Waiting, waitingCount - todo + 1, waitingCount) = ListsToDo
        /\ (finishCommandTag - finishedTag) % TagMod = waitingCount - begun
        /\ (currentTag - 1 - finishedTag) % TagMod = waitingCount

\* OS_SendMessage in the ARM7's callback has room for every list: the assertion
\* "Failed OS_SendMessage" holds, and no list is dropped.
NoListLost == fifo # << >> /\ Head(fifo) \in Command => Len(mesgQueue) < BufSize

\* Commands, lists and replies keep their number, whatever a client has just done.
ListsAreOrderly == TypeOK /\ CommandsConserved /\ RepliesMatch /\ NoListLost

\* SND_WaitForCommandProc returns when everything that was reserved when its tag
\* was taken has been executed.
WaitedForIsDone ==
    [][\A t \in Client : tag[t] # NULL /\ tag'[t] = NULL => due[t] = {}]_vars

Pipe == INSTANCE CommandPipe WITH pipe <- ToRead \o Chain(next, reserve.head)

\* Links, cache, FIFO and queues are a pipe: the commands are executed in the order
\* they were pushed, each once, whatever is flushed by whom and when.
RefinesPipe == Pipe!PipeSpec

\* The calls of a client that has the sound commands to itself return: it never waits
\* for a reply that does not come.
SoleCallerReturns ==
    \A t \in Waiter : user = {t} => (pc[t] # "idle" ~> pc[t] = "idle")
=============================================================================
