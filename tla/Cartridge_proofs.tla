-------------------------- MODULE Cartridge_proofs --------------------------
(***************************************************************************)
(* Proofs about the card library and the command queue of a file system    *)
(* archive.  The card library: for any number of clients, operations and   *)
(* retries one operation has the card at a time, nobody sleeps for what    *)
(* has come, and a write that ends with SUCCESS has been done.  The        *)
(* archive: for any set of files one thread, callback or device at a time  *)
(* executes a command, the list holds the busy files in their order, a     *)
(* suspended archive is at rest, and nobody sleeps for what has come.  The *)
(* last section puts the two together.                                     *)
(***************************************************************************)
EXTENDS MCCartridge, FiniteSetTheorems, SequenceTheorems, WellFoundedInduction, TLAPS

USE CardAssumption

(***************************************************************************)
(* What the clients do.  CARDi_RequestStreamCommandCore always makes a     *)
(* turn of its loop and a read by DMA is one of len > 0 (card_rom.c:109);  *)
(* nobody writes beyond the end of the device.                             *)
(***************************************************************************)
Calls == [kind : Kinds, async : BOOLEAN, verify : BOOLEAN, len : 0 .. ChipPages]
CardConstants ==
    /\ Target \in [Clients -> {"ROM", "BACKUP"}]
    /\ \A c \in Clients : \A op \in Operations[c] :
          op \in Calls /\ (op.kind \in {"stream", "sector", "dma"} => op.len # 0)

(***************************************************************************)
(* The inductive invariant.                                                *)
(***************************************************************************)
Asking == {"request", "ack", "initack", "answered"}
Steps == {"first", "stream", "sector", "sectorpage", "rom", "end"} \cup Asking
Outside == {"idle", "lock"}
RequestTypes == {"none", "IDENTIFY", "READ", "STATUS", "PROGRAM", "VERIFY", "ERASE"}

WordType ==
    /\ flag \subseteq {"INIT_CMD", "BUSY", "TASK", "REQ", "CANCEL"} /\ curTh \in Threads
    /\ dst \in Nat /\ left \in Int /\ result \in Results

BitType == excused \in BOOLEAN /\ capable \in BOOLEAN

LockType == lock \in [owner : Clients \cup {NoOwner}, ref : Nat, target : {"NONE", "ROM", "BACKUP"}]

JobType == job \in [client : Clients \cup {NoOwner}, kind : Kinds \cup {"none"}, verify : BOOLEAN,
                    len : Nat]

RequestType == request \in [type : RequestTypes, tries : 0 .. RetryMax]

CardPlaces == Steps \cup Outside \cup {"wait", "locked", "waittask", "settask", "async",
                                    "waitasync", "unlock", "return"}

PlaceType == pc \in [Threads -> CardPlaces]

QueueType == asleep \in [Threads -> {"no", "lock", "busy", "direct"}]

CallType ==
    /\ call \in [Clients -> [kind : Kinds \cup {"none"}, async : BOOLEAN, verify : BOOLEAN,
                             len : 0 .. ChipPages]]
    /\ own \in [Clients -> Results]
    /\ DOMAIN page = Pages

Arm7Type == arm7 \in [flag : SUBSET {"BUSY", "RECV"}, step : {0, 1},
                      command : {"none", "INIT"} \cup RequestTypes,
                      pc : {"wait", "execute", "endtask"},
                      asleep : BOOLEAN, reading : BOOLEAN, hasCmd : BOOLEAN]

TypeInv ==
    /\ WordType /\ BitType /\ LockType /\ JobType /\ RequestType /\ PlaceType /\ QueueType
    /\ CallType /\ Arm7Type

\* A client that is inside holds the lock; it asks for what it may ask for.
OwnerInv ==
    /\ \A c \in Clients : pc[c] # "wait" /\ (lock.owner = c <=> pc[c] \notin Outside)
    /\ \A c \in Clients : pc[c] = "unlock" => lock.target = "BACKUP"
    /\ \A c \in Clients : pc[c] = "waittask" => call[c] \in Operations[c]
    /\ pc["task"] \in Steps \cup {"wait"}

\* The task is the client's who holds the lock, and is executed by the client,
\* by the thread, or by DMA.
JobInv ==
    /\ "BUSY" \in flag =>
        /\ job.client \in Clients /\ job.client = lock.owner /\ job.kind \in Kinds
        /\ pc[job.client] \notin Outside \cup {"locked", "return"}
    /\ \A c \in Clients : Operating(c) =>
        "BUSY" \in flag /\ job.client = c /\ "TASK" \notin flag /\ job.kind # "dma"
    /\ Operating("task") => "TASK" \in flag
    /\ "TASK" \in flag => "BUSY" \in flag /\ job.kind # "dma"

\* Where the executing thread is fits the operation, and what is left of it.
PhaseInv ==
    \A t \in Threads :
        /\ pc[t] = "first" => job.kind \in {"identify", "status"}
        /\ pc[t] \in {"stream", "rom"} => job.kind = pc[t]
        /\ pc[t] \in {"sector", "sectorpage"} => job.kind = "sector"
        /\ pc[t] = "sectorpage" => job.len >= SectorPages /\ left >= 1
        /\ pc[t] \in Asking =>
            /\ job.kind = "stream" => request.type \in {"PROGRAM", "VERIFY"}
            /\ job.kind = "sector" => request.type \in {"ERASE", "PROGRAM", "VERIFY"}
            /\ job.kind = "sector" =>
                  job.len >= SectorPages /\ (request.type # "ERASE" => left >= 1)

\* An operation that has not ended has pages left.
LenInv ==
    "BUSY" \in flag /\ job.kind \in {"stream", "sector", "dma"} =>
        job.len >= 1 \/ \E t \in Threads : pc[t] = "end"

\* A request is in one place: on its way, with the ARM7's thread, or answered.
Sent(t) ==
    \/ /\ arm7.step = 0 /\ "RECV" \notin arm7.flag /\ arm7.pc # "execute" /\ toARM9 = <<>>
       /\ toARM7 = IF pc[t] = "initack" THEN <<"INIT", "cmd">> ELSE <<request.type>>
    \/ /\ arm7.step = 1 /\ "RECV" \notin arm7.flag /\ arm7.pc # "execute" /\ toARM9 = <<>>
       /\ pc[t] = "initack" /\ arm7.command = "INIT" /\ toARM7 = <<"cmd">>
    \/ /\ arm7.step = 0 /\ toARM7 = <<>> /\ toARM9 = <<>>
       /\ "RECV" \in arm7.flag <=> arm7.pc # "execute"
       /\ arm7.command = IF pc[t] = "initack" THEN "INIT" ELSE request.type
    \/ /\ arm7.step = 0 /\ toARM7 = <<>> /\ "RECV" \notin arm7.flag /\ arm7.pc # "execute"
       /\ toARM9 = <<"ACK">>

NothingSent ==
    /\ toARM7 = <<>> /\ toARM9 = <<>> /\ arm7.step = 0
    /\ "RECV" \notin arm7.flag /\ arm7.pc # "execute"

ChannelInv ==
    /\ "REQ" \in flag => \E t \in Threads : pc[t] \in {"ack", "initack"}
    /\ \A t \in Threads : "REQ" \in flag /\ pc[t] \in {"ack", "initack"} => Sent(t)
    /\ "REQ" \notin flag => NothingSent

\* The ARM7's poll and its thread take turns.
ReadingInv ==
    /\ arm7.reading => arm7.pc = "wait" /\ "BUSY" \in arm7.flag
    /\ arm7.pc # "wait" => "BUSY" \in arm7.flag

\* The client waits for the result of the operation under way, and that is the one it
\* has asked for.
Wanted == "BUSY" \in flag /\ pc[job.client] \notin {"waittask", "unlock"}

KindInv ==
    Wanted => job.kind = call[job.client].kind /\ job.verify = call[job.client].verify

Writing == Wanted /\ job.kind \in {"stream", "sector"} /\ ~excused

\* The pages of the sector that have been written already.
Inner(t) == pc[t] = "sectorpage" \/ (pc[t] \in Asking /\ request.type # "ERASE")
Counted == IF job.kind = "sector" /\ \E t \in Threads : Inner(t) THEN SectorPages - left ELSE 0

\* The pages written and the pages left make up what was asked for.
CountInv ==
    Writing =>
        IF \E t \in Threads : pc[t] = "end"
        THEN result = "SUCCESS" => dst = call[job.client].len
        ELSE dst + job.len = call[job.client].len + Counted

Verified(n) == \A p \in 0 .. n - 1 : page[p] = p

\* What was asked for last has been done.
Answered(t) == pc[t] = "answered" \/ (pc[t] = "ack" /\ ("REQ" \notin flag \/ toARM9 # <<>>))

\* Pages that have been verified, and the one whose verification was answered, are there.
PagesInv ==
    Writing =>
        /\ job.verify => Verified(dst)
        /\ \A t \in Threads :
              Answered(t) /\ request.type = "VERIFY" /\ result = "SUCCESS" => page[dst] = dst

\* The result of an operation that has ended.
ResultInv ==
    \A c \in Clients :
        "BUSY" \notin flag /\ pc[c] \in {"async", "waitasync", "return"} /\ ~excused =>
            /\ result = own[c]
            /\ result = "SUCCESS" /\ call[c].kind \in {"stream", "sector"} /\ call[c].verify =>
                  Verified(call[c].len)

\* An answer wakes the thread that executes; who sleeps where, and that what it waits
\* for has not come.
WakeInv ==
    /\ \A t \in Threads : pc[t] \in Steps => curTh = t
    /\ "TASK" \in flag => curTh = "task"

SleepInv ==
    \A t \in Threads :
        /\ asleep[t] = "lock" => pc[t] = "lock" /\ lock.owner # NoOwner
        /\ asleep[t] = "busy" => pc[t] \in {"unlock", "waittask", "waitasync"} /\ "BUSY" \in flag
        /\ asleep[t] = "direct" =>
            \/ pc[t] = "wait" /\ "TASK" \notin flag
            \/ pc[t] \in {"ack", "initack"} /\ "REQ" \in flag

Arm7Inv == arm7.asleep => "RECV" \notin arm7.flag \/ "BUSY" \in arm7.flag

CardInv ==
    /\ TypeInv /\ OwnerInv /\ JobInv /\ PhaseInv /\ LenInv /\ ChannelInv /\ ReadingInv /\ KindInv
    /\ CountInv /\ PagesInv /\ ResultInv /\ WakeInv /\ SleepInv /\ Arm7Inv

-----------------------------------------------------------------------------
(* Lemmas *)

LEMMA TypeInvTypes == TypeInv => TypeOK
BY DEF TypeInv, WordType, LockType, JobType, RequestType, PlaceType, QueueType, CallType, TypeOK,
       RequestTypes

\* One thread executes an operation at a time, and it is the one whose task it is.
LEMMA OnlyOne ==
    ASSUME CardInv, NEW t \in Threads, pc[t] \in Steps
    PROVE  /\ \A u \in Threads : pc[u] \in Steps \cup {"settask"} => u = t
           /\ "BUSY" \in flag /\ job.client \in Clients /\ job.client = lock.owner
           /\ job.kind \in Kinds \ {"dma"}
           /\ IF t = "task" THEN "TASK" \in flag ELSE job.client = t /\ "TASK" \notin flag
BY DEF CardInv, JobInv, OwnerInv, Operating, Steps, Asking, Threads


LEMMA GoTyped ==
    ASSUME PlaceType, NEW t \in Threads, NEW where \in CardPlaces, Go(t, where)
    PROVE  PlaceType'
BY DEF PlaceType, Go

\* Where the others are while a thread makes a step of its operation.
LEMMA RunFrame ==
    ASSUME CardInv, NEW t \in Threads, pc[t] \in Steps, NEW where, Go(t, where)
    PROVE  /\ pc'[t] = where
           /\ \A u \in Threads : u # t => pc'[u] = pc[u] /\ pc[u] \notin Steps
           /\ job.client \in Clients
           /\ (where \in Steps /\ pc'[job.client] \notin {"waittask", "unlock"})
                 => pc[job.client] \notin {"waittask", "unlock"}
BY OnlyOne DEF Go, CardInv, TypeInv, PlaceType, Threads, Steps, Asking

\* Whole sectors that are not none are one at least.
LEMMA SectorFits ==
    \A len \in Nat : len >= 1 /\ len % SectorPages = 0 => len >= SectorPages
<1> SUFFICES ASSUME NEW len \in Nat, len >= 1, len < SectorPages PROVE len % SectorPages = len
    BY CardAssumption
<1> QED
    BY CardAssumption

LEMMA OneMorePage ==
    dst \in Nat /\ Verified(dst) /\ page[dst] = dst => Verified(dst + 1)
<1> SUFFICES ASSUME dst \in Nat, Verified(dst), page[dst] = dst, NEW p \in 0 .. dst
             PROVE  page[p] = p
    BY DEF Verified
<1>1. p = dst \/ p \in 0 .. dst - 1
    OBVIOUS
<1> QED
    BY <1>1 DEF Verified

-----------------------------------------------------------------------------
(* The types *)

LEMMA WordNext == ASSUME CardConstants, CardInv, [Next]_vars PROVE WordType'
<1> USE DEF CardInv, TypeInv, WordType, Results, Threads
<1>1. ASSUME NEW c \in Clients, LockResource(c) PROVE WordType'
    BY <1>1 DEF LockResource, Go, Awake, Sleep
<1>2. ASSUME NEW c \in Clients, UnlockResource(c) PROVE WordType'
    BY <1>2 DEF UnlockResource, Go, Awake, Sleep, Wakeup
<1>3. ASSUME NEW c \in Clients, WaitTask(c) PROVE WordType'
    BY <1>3 DEF WaitTask, Go, Awake, Sleep, TaskInUse, JobOf, Entry
<1>4. ASSUME NEW c \in Clients, SetTask(c) PROVE WordType'
    BY <1>4 DEF SetTask, Go, Awake, WakeupDirect
<1>5. ASSUME NEW t \in Threads, End(t) PROVE WordType'
    BY <1>5 DEF End, Go, Awake, EndTask, Wakeup, JobOf, NoCall
<1>6. ASSUME NEW t \in Threads, SendRequest(t) PROVE WordType'
    BY <1>6 DEF SendRequest, Go, Awake
<1>7. ASSUME NEW t \in Threads, StreamPage(t) PROVE WordType'
    BY <1>7 DEF StreamPage, TakeCancel, IsCancelled
<1>8. ASSUME NEW t \in Threads, StreamAnswered(t) PROVE WordType'
    BY <1>8 DEF StreamAnswered, Go, Awake, Ask, Advance
<1>9. ASSUME NEW t \in Threads, Sector(t) PROVE WordType'
    BY <1>9 DEF Sector, TakeCancel, IsCancelled
<1>10. ASSUME NEW t \in Threads, SectorPage(t) PROVE WordType'
    BY <1>10 DEF SectorPage, TakeCancel, IsCancelled
<1>11. ASSUME NEW t \in Threads, SectorAnswered(t) PROVE WordType'
    BY <1>11 DEF SectorAnswered, Go, Awake, Ask, Advance, NextSector
<1>12. ASSUME NEW t \in Threads, ReadRomSync(t) PROVE WordType'
    BY <1>12 DEF ReadRomSync, Go, Awake
<1>13. ASSUME CancelBackupAsync PROVE WordType'
    BY <1>13 DEF CancelBackupAsync
<1>14. ASSUME OnFifoRecvARM9 PROVE WordType'
    BY <1>14 DEF OnFifoRecvARM9, WakeupDirect
<1>15. ASSUME OnReadCard PROVE WordType'
    BY <1>15 DEF OnReadCard, EndTask, JobOf, NoCall, Wakeup
<1>16. ASSUME Execute PROVE WordType'
    BY <1>16 DEF Execute, Holds
<1>17. ASSUME EndCompare PROVE WordType'
    BY <1>17 DEF EndCompare, EndTaskARM7
<1>18. CASE \/ \E c \in Clients : Return(c) \/ WaitAsync(c)
            \/ \E c \in Clients : \E op \in Operations[c] : Call(c, op)
            \/ \E t \in Threads : AwaitAck(t) \/ FirstRequest(t) \/ OtherAnswered(t)
            \/ TaskThread \/ OnFifoRecvARM7 \/ TakeRequest \/ EndRequest \/ CompareCardID
            \/ UNCHANGED vars
    <2>1. UNCHANGED <<flag, curTh, dst, left, result>>
        BY <1>18 DEF vars, Return, WaitAsync, Call, AwaitAck, FirstRequest, OtherAnswered,
           TaskThread, OnFifoRecvARM7, TakeRequest, EndRequest, CompareCardID
    <2> QED
        BY <2>1
<1> QED
    BY <1>1, <1>2, <1>3, <1>4, <1>5, <1>6, <1>7, <1>8, <1>9, <1>10, <1>11, <1>12, <1>13, <1>14,
       <1>15, <1>16, <1>17, <1>18 DEF Next, Run, ARM7

LEMMA BitNext == ASSUME CardConstants, CardInv, [Next]_vars PROVE BitType'
<1> USE DEF CardInv, TypeInv, BitType
<1>1. ASSUME NEW c \in Clients, WaitTask(c) PROVE BitType'
    BY <1>1 DEF WaitTask, Go, Awake, Sleep, TaskInUse, JobOf, Entry
<1>2. ASSUME NEW c \in Clients, Return(c) PROVE BitType'
    BY <1>2 DEF Return, Go, Awake, NoCall
<1>3. ASSUME NEW t \in Threads, SectorPage(t) PROVE BitType'
    BY <1>3 DEF SectorPage, Go, Awake, Ask, TakeCancel, IsCancelled, NextSector
<1>4. ASSUME NEW t \in Threads, SectorAnswered(t) PROVE BitType'
    BY <1>4 DEF SectorAnswered, Go, Awake, Ask, Advance, NextSector
<1>5. ASSUME EndCompare PROVE BitType'
    BY <1>5 DEF EndCompare, EndTaskARM7
<1>6. CASE \/ \E c \in Clients : LockResource(c) \/ UnlockResource(c) \/ SetTask(c) \/ WaitAsync(c)
           \/ \E c \in Clients : \E op \in Operations[c] : Call(c, op)
           \/ \E t \in Threads :
                 \/ End(t) \/ SendRequest(t) \/ AwaitAck(t) \/ StreamPage(t)
                 \/ StreamAnswered(t) \/ Sector(t) \/ FirstRequest(t) \/ OtherAnswered(t)
                 \/ ReadRomSync(t)
           \/ TaskThread \/ CancelBackupAsync \/ OnFifoRecvARM9 \/ OnReadCard \/ OnFifoRecvARM7
           \/ TakeRequest \/ Execute \/ EndRequest \/ CompareCardID
           \/ UNCHANGED vars
    <2>1. UNCHANGED <<excused, capable>>
        BY <1>6 DEF vars, LockResource, UnlockResource, SetTask, WaitAsync, Call, End,
           SendRequest, AwaitAck, StreamPage, StreamAnswered, Sector, FirstRequest, OtherAnswered,
           ReadRomSync, TaskThread, CancelBackupAsync, OnFifoRecvARM9, OnReadCard, OnFifoRecvARM7,
           TakeRequest, Execute, EndRequest, CompareCardID
    <2> QED
        BY <2>1
<1> QED
    BY <1>1, <1>2, <1>3, <1>4, <1>5, <1>6 DEF Next, Run, ARM7

LEMMA LockNext == ASSUME CardConstants, CardInv, [Next]_vars PROVE LockType'
<1> USE DEF CardInv, TypeInv, LockType, CardConstants
<1>1. ASSUME NEW c \in Clients, LockResource(c) PROVE LockType'
    BY <1>1 DEF LockResource, Go, Awake, Sleep
<1>2. ASSUME NEW c \in Clients, UnlockResource(c) PROVE LockType'
    BY <1>2 DEF UnlockResource, Go, Awake, Sleep, Wakeup
<1>3. CASE \/ \E c \in Clients : WaitTask(c) \/ SetTask(c) \/ Return(c) \/ WaitAsync(c)
           \/ \E c \in Clients : \E op \in Operations[c] : Call(c, op)
           \/ \E t \in Threads :
                 \/ End(t) \/ SendRequest(t) \/ AwaitAck(t) \/ StreamPage(t)
                 \/ StreamAnswered(t) \/ Sector(t) \/ SectorPage(t) \/ SectorAnswered(t)
                 \/ FirstRequest(t) \/ OtherAnswered(t) \/ ReadRomSync(t)
           \/ TaskThread \/ CancelBackupAsync \/ OnFifoRecvARM9 \/ OnReadCard \/ OnFifoRecvARM7
           \/ TakeRequest \/ Execute \/ EndRequest \/ EndCompare \/ CompareCardID
           \/ UNCHANGED vars
    <2>1. UNCHANGED lock
        BY <1>3 DEF vars, WaitTask, SetTask, Return, WaitAsync, Call, End, SendRequest, AwaitAck,
           StreamPage, StreamAnswered, Sector, SectorPage, SectorAnswered, FirstRequest,
           OtherAnswered, ReadRomSync, TaskThread, CancelBackupAsync, OnFifoRecvARM9, OnReadCard,
           OnFifoRecvARM7, TakeRequest, Execute, EndRequest, EndCompare, CompareCardID
    <2> QED
        BY <2>1
<1> QED
    BY <1>1, <1>2, <1>3 DEF Next, Run, ARM7

LEMMA JobNextType == ASSUME CardConstants, CardInv, [Next]_vars PROVE JobType'
<1> USE DEF CardInv, TypeInv, JobType, CallType, CardConstants, Calls, Kinds
<1>1. ASSUME NEW c \in Clients, WaitTask(c) PROVE JobType'
    BY <1>1 DEF WaitTask, Go, Awake, Sleep, TaskInUse, JobOf, Entry
<1>2. ASSUME NEW t \in Threads, End(t) PROVE JobType'
    BY <1>2 DEF End, Go, Awake, EndTask, Wakeup, JobOf, NoCall
<1>3. ASSUME NEW t \in Threads, StreamAnswered(t) PROVE JobType'
    BY <1>3, OnlyOne DEF StreamAnswered, Go, Awake, Ask, Advance, PhaseInv, LenInv, Steps, Asking,
       Threads, Operating
<1>4. ASSUME NEW t \in Threads, SectorPage(t) PROVE JobType'
    BY <1>4 DEF SectorPage, Awake, IsCancelled, NextSector, PhaseInv, Threads
<1>5. ASSUME NEW t \in Threads, SectorAnswered(t) PROVE JobType'
    BY <1>5 DEF SectorAnswered, Awake, Advance, NextSector, PhaseInv, Threads, Asking
<1>6. ASSUME NEW t \in Threads, ReadRomSync(t) PROVE JobType'
    BY <1>6 DEF ReadRomSync, Go, Awake
<1>7. ASSUME OnReadCard PROVE JobType'
    <2> HIDE DEF CardInv
    <2>1. "BUSY" \in flag /\ job.kind = "dma"
        BY <1>7 DEF OnReadCard
    <2>2. \A t \in Threads : pc[t] # "end"
        BY <2>1 DEF CardInv, JobInv, Operating, Threads
    <2>3. job.len >= 1
        BY <2>1, <2>2 DEF CardInv, LenInv
    <2>4. \/ job' = [client |-> NoOwner, kind |-> "none", verify |-> FALSE, len |-> 0]
          \/ job' = [job EXCEPT !.len = job.len - 1]
        BY <1>7 DEF OnReadCard, EndTask, JobOf, NoCall
    <2>5. job \in [client : Clients \cup {NoOwner}, kind : Kinds \cup {"none"}, verify : BOOLEAN,
                  len : Nat]
        BY DEF CardInv, TypeInv, JobType
    <2>6. CASE job' = [job EXCEPT !.len = job.len - 1]
        <3>1. job.len - 1 \in Nat
            BY <2>3, <2>5
        <3> QED
            BY <2>5, <2>6, <3>1 DEF JobType
    <2>7. CASE job' = [client |-> NoOwner, kind |-> "none", verify |-> FALSE, len |-> 0]
        BY <2>7 DEF JobType
    <2> QED
        BY <2>4, <2>6, <2>7
<1>8. CASE \/ \E c \in Clients :
                 \/ LockResource(c) \/ UnlockResource(c) \/ SetTask(c) \/ Return(c)
                 \/ WaitAsync(c)
           \/ \E c \in Clients : \E op \in Operations[c] : Call(c, op)
           \/ \E t \in Threads :
                 \/ SendRequest(t) \/ AwaitAck(t) \/ StreamPage(t) \/ Sector(t)
                 \/ FirstRequest(t) \/ OtherAnswered(t)
           \/ TaskThread \/ CancelBackupAsync \/ OnFifoRecvARM9 \/ OnFifoRecvARM7 \/ TakeRequest
           \/ Execute \/ EndRequest \/ EndCompare \/ CompareCardID
           \/ UNCHANGED vars
    <2>1. UNCHANGED job
        BY <1>8 DEF vars, LockResource, UnlockResource, SetTask, Return, WaitAsync, Call,
           SendRequest, AwaitAck, StreamPage, Sector, FirstRequest, OtherAnswered, TaskThread,
           CancelBackupAsync, OnFifoRecvARM9, OnFifoRecvARM7, TakeRequest, Execute, EndRequest,
           EndCompare, CompareCardID
    <2> QED
        BY <2>1
<1> QED
    BY <1>1, <1>2, <1>3, <1>4, <1>5, <1>6, <1>7, <1>8 DEF Next, Run, ARM7

LEMMA RequestNext == ASSUME CardConstants, CardInv, [Next]_vars PROVE RequestType'
<1> USE DEF CardInv, TypeInv, RequestType, RequestTypes
<1>1. ASSUME NEW t \in Threads, End(t) PROVE RequestType'
    BY <1>1 DEF End, Go, Awake, EndTask, Wakeup, JobOf, NoCall
<1>2. ASSUME NEW t \in Threads, AwaitAck(t) PROVE RequestType'
    BY <1>2 DEF AwaitAck, Go, Awake, Sleep, Ask
<1>3. ASSUME NEW t \in Threads, StreamPage(t) PROVE RequestType'
    BY <1>3 DEF StreamPage, Go, Awake, Ask, TakeCancel, IsCancelled
<1>4. ASSUME NEW t \in Threads, StreamAnswered(t) PROVE RequestType'
    BY <1>4 DEF StreamAnswered, Go, Awake, Ask, Advance
<1>5. ASSUME NEW t \in Threads, Sector(t) PROVE RequestType'
    BY <1>5 DEF Sector, Go, Awake, Ask, TakeCancel, IsCancelled
<1>6. ASSUME NEW t \in Threads, SectorPage(t) PROVE RequestType'
    BY <1>6 DEF SectorPage, Go, Awake, Ask, TakeCancel, IsCancelled, NextSector
<1>7. ASSUME NEW t \in Threads, SectorAnswered(t) PROVE RequestType'
    BY <1>7 DEF SectorAnswered, Go, Awake, Ask, Advance, NextSector
<1>8. ASSUME NEW t \in Threads, FirstRequest(t) PROVE RequestType'
    BY <1>8 DEF FirstRequest, Go, Awake, Ask
<1>9. ASSUME NEW t \in Threads, OtherAnswered(t) PROVE RequestType'
    BY <1>9 DEF OtherAnswered, Go, Awake, Ask
<1>10. ASSUME OnReadCard PROVE RequestType'
    BY <1>10 DEF OnReadCard, EndTask, JobOf, NoCall, Wakeup
<1>11. CASE \/ \E c \in Clients :
                  \/ LockResource(c) \/ UnlockResource(c) \/ WaitTask(c) \/ SetTask(c)
                  \/ Return(c) \/ WaitAsync(c)
            \/ \E c \in Clients : \E op \in Operations[c] : Call(c, op)
            \/ \E t \in Threads : SendRequest(t) \/ ReadRomSync(t)
            \/ TaskThread \/ CancelBackupAsync \/ OnFifoRecvARM9 \/ OnFifoRecvARM7 \/ TakeRequest
            \/ Execute \/ EndRequest \/ EndCompare \/ CompareCardID
            \/ UNCHANGED vars
    <2>1. UNCHANGED request
        BY <1>11 DEF vars, LockResource, UnlockResource, WaitTask, SetTask, Return, WaitAsync,
           Call, SendRequest, ReadRomSync, TaskThread, CancelBackupAsync, OnFifoRecvARM9,
           OnFifoRecvARM7, TakeRequest, Execute, EndRequest, EndCompare, CompareCardID
    <2> QED
        BY <2>1
<1> QED
    BY <1>1, <1>2, <1>3, <1>4, <1>5, <1>6, <1>7, <1>8, <1>9, <1>10, <1>11 DEF Next, Run, ARM7

LEMMA PlaceNext == ASSUME CardConstants, CardInv, [Next]_vars PROVE PlaceType'
<1> USE DEF CardInv, TypeInv, CardPlaces, Steps, Asking, Outside, Threads, Entry
<1>1. ASSUME NEW c \in Clients, LockResource(c) PROVE PlaceType'
    BY <1>1, GoTyped DEF LockResource, Awake, Sleep
<1>2. ASSUME NEW c \in Clients, UnlockResource(c) PROVE PlaceType'
    BY <1>2, GoTyped DEF UnlockResource, Awake, Sleep, Wakeup
<1>3. ASSUME NEW c \in Clients, NEW op \in Operations[c], Call(c, op) PROVE PlaceType'
    BY <1>3, GoTyped DEF Call, Awake
<1>4. ASSUME NEW c \in Clients, WaitTask(c) PROVE PlaceType'
    <2> HIDE DEF CardInv
    <2>1. CASE TaskInUse
        BY <1>4, <2>1 DEF WaitTask, CardInv, TypeInv, PlaceType
    <2>2. CASE ~TaskInUse
        <3>1. call[c].kind \in Kinds
            BY <1>4 DEF WaitTask, Awake, CardInv, OwnerInv, CardConstants, Calls
        <3>2. PICK where \in CardPlaces : Go(c, where)
            <4>1. CASE call[c].kind = "dma"
                BY <1>4, <2>2, <4>1 DEF WaitTask, CardPlaces
            <4>2. CASE call[c].kind # "dma" /\ call[c].async
                BY <1>4, <2>2, <4>2 DEF WaitTask, CardPlaces
            <4>3. CASE call[c].kind # "dma" /\ ~call[c].async
                <5>1. Go(c, Entry(call[c]))
                    BY <1>4, <2>2, <4>3 DEF WaitTask
                <5> QED
                    BY <3>1, <4>3, <5>1 DEF Entry, Kinds, CardPlaces, Steps
            <4> QED
                BY <4>1, <4>2, <4>3
        <3> QED
            BY <3>2, GoTyped DEF CardInv, TypeInv, Threads
    <2> QED
        BY <2>1, <2>2
<1>5. ASSUME NEW c \in Clients, SetTask(c) PROVE PlaceType'
    BY <1>5, GoTyped DEF SetTask, Awake, WakeupDirect
<1>6. ASSUME NEW c \in Clients, Return(c) PROVE PlaceType'
    BY <1>6, GoTyped DEF Return, Awake, NoCall
<1>7. ASSUME NEW c \in Clients, WaitAsync(c) PROVE PlaceType'
    BY <1>7, GoTyped DEF WaitAsync, Awake, Sleep
<1>8. ASSUME NEW t \in Threads, End(t) PROVE PlaceType'
    BY <1>8, GoTyped DEF End, Awake, EndTask, Wakeup, JobOf, NoCall
<1>9. ASSUME NEW t \in Threads, SendRequest(t) PROVE PlaceType'
    BY <1>9, GoTyped DEF SendRequest, Awake
<1>10. ASSUME NEW t \in Threads, AwaitAck(t) PROVE PlaceType'
    <2> HIDE DEF CardInv
    <2>1. UNCHANGED pc \/ Go(t, "request") \/ Go(t, "answered")
        BY <1>10 DEF AwaitAck, Ask
    <2> QED
        BY <2>1, GoTyped DEF CardInv, TypeInv, PlaceType, CardPlaces, Steps, Asking
<1>11. ASSUME NEW t \in Threads, StreamPage(t) PROVE PlaceType'
    BY <1>11, GoTyped DEF StreamPage, Awake, Ask, TakeCancel, IsCancelled
<1>12. ASSUME NEW t \in Threads, StreamAnswered(t) PROVE PlaceType'
    BY <1>12, GoTyped DEF StreamAnswered, Awake, Ask, Advance
<1>13. ASSUME NEW t \in Threads, Sector(t) PROVE PlaceType'
    BY <1>13, GoTyped DEF Sector, Awake, Ask, TakeCancel, IsCancelled
<1>14. ASSUME NEW t \in Threads, SectorPage(t) PROVE PlaceType'
    BY <1>14, GoTyped DEF SectorPage, Awake, Ask, TakeCancel, IsCancelled, NextSector
<1>15. ASSUME NEW t \in Threads, SectorAnswered(t) PROVE PlaceType'
    BY <1>15, GoTyped DEF SectorAnswered, Awake, Ask, Advance, NextSector
<1>16. ASSUME NEW t \in Threads, FirstRequest(t) PROVE PlaceType'
    BY <1>16, GoTyped DEF FirstRequest, Awake, Ask
<1>17. ASSUME NEW t \in Threads, OtherAnswered(t) PROVE PlaceType'
    BY <1>17, GoTyped DEF OtherAnswered, Awake, Ask
<1>18. ASSUME NEW t \in Threads, ReadRomSync(t) PROVE PlaceType'
    BY <1>18, GoTyped DEF ReadRomSync, Awake
<1>19. ASSUME TaskThread PROVE PlaceType'
    <2> HIDE DEF CardInv
    <2>1. CASE "TASK" \in flag
        <3>1. job.kind \in Kinds \ {"dma"}
            BY <2>1 DEF CardInv, JobInv
        <3>2. Go("task", Entry(job)) /\ Entry(job) \in CardPlaces
            BY <1>19, <2>1, <3>1 DEF TaskThread, Entry, Kinds, CardPlaces, Steps
        <3> QED
            BY <3>2, GoTyped DEF CardInv, TypeInv, Threads
    <2>2. CASE "TASK" \notin flag
        BY <1>19, <2>2 DEF TaskThread, CardInv, TypeInv, PlaceType
    <2> QED
        BY <2>1, <2>2
<1>20. CASE \/ CancelBackupAsync \/ OnFifoRecvARM9 \/ OnReadCard \/ OnFifoRecvARM7 \/ TakeRequest
            \/ Execute \/ EndRequest \/ EndCompare \/ CompareCardID
            \/ UNCHANGED vars
    <2>1. UNCHANGED pc
        BY <1>20 DEF vars, CancelBackupAsync, OnFifoRecvARM9, OnReadCard, OnFifoRecvARM7,
           TakeRequest, Execute, EndRequest, EndCompare, CompareCardID
    <2> QED
        BY <2>1 DEF PlaceType
<1> QED
    BY <1>1, <1>2, <1>3, <1>4, <1>5, <1>6, <1>7, <1>8, <1>9, <1>10, <1>11, <1>12, <1>13, <1>14,
       <1>15, <1>16, <1>17, <1>18, <1>19, <1>20 DEF Next, Run, ARM7

LEMMA QueueNext == ASSUME CardConstants, CardInv, [Next]_vars PROVE QueueType'
<1> USE DEF CardInv, TypeInv, QueueType, Threads
<1>1. ASSUME NEW c \in Clients, LockResource(c) PROVE QueueType'
    BY <1>1 DEF LockResource, Sleep
<1>2. ASSUME NEW c \in Clients, UnlockResource(c) PROVE QueueType'
    BY <1>2 DEF UnlockResource, Go, Awake, Sleep, Wakeup
<1>3. ASSUME NEW c \in Clients, WaitTask(c) PROVE QueueType'
    BY <1>3 DEF WaitTask, Sleep
<1>4. ASSUME NEW c \in Clients, SetTask(c) PROVE QueueType'
    BY <1>4 DEF SetTask, Go, Awake, WakeupDirect
<1>5. ASSUME NEW c \in Clients, WaitAsync(c) PROVE QueueType'
    BY <1>5 DEF WaitAsync, Go, Awake, Sleep
<1>6. ASSUME NEW t \in Threads, End(t) PROVE QueueType'
    BY <1>6 DEF End, Go, Awake, EndTask, Wakeup, JobOf, NoCall
<1>7. ASSUME NEW t \in Threads, AwaitAck(t) PROVE QueueType'
    BY <1>7 DEF AwaitAck, Go, Awake, Sleep, Ask
<1>8. ASSUME TaskThread PROVE QueueType'
    BY <1>8 DEF TaskThread, Go, Awake, Sleep, Entry
<1>9. ASSUME OnFifoRecvARM9 PROVE QueueType'
    BY <1>9 DEF OnFifoRecvARM9, WakeupDirect
<1>10. ASSUME OnReadCard PROVE QueueType'
    BY <1>10 DEF OnReadCard, EndTask, JobOf, NoCall, Wakeup
<1>11. CASE \/ \E c \in Clients : Return(c)
            \/ \E c \in Clients : \E op \in Operations[c] : Call(c, op)
            \/ \E t \in Threads :
                  \/ SendRequest(t) \/ StreamPage(t) \/ StreamAnswered(t) \/ Sector(t)
                  \/ SectorPage(t) \/ SectorAnswered(t) \/ FirstRequest(t) \/ OtherAnswered(t)
                  \/ ReadRomSync(t)
            \/ CancelBackupAsync \/ OnFifoRecvARM7 \/ TakeRequest \/ Execute \/ EndRequest
            \/ EndCompare \/ CompareCardID
            \/ UNCHANGED vars
    <2>1. UNCHANGED asleep
        BY <1>11 DEF vars, Return, Call, SendRequest, StreamPage, StreamAnswered, Sector,
           SectorPage, SectorAnswered, FirstRequest, OtherAnswered, ReadRomSync,
           CancelBackupAsync, OnFifoRecvARM7, TakeRequest, Execute, EndRequest, EndCompare,
           CompareCardID
    <2> QED
        BY <2>1
<1> QED
    BY <1>1, <1>2, <1>3, <1>4, <1>5, <1>6, <1>7, <1>8, <1>9, <1>10, <1>11 DEF Next, Run, ARM7

LEMMA CallNext == ASSUME CardConstants, CardInv, [Next]_vars PROVE CallType'
<1> USE DEF CardInv, TypeInv, CallType, WordType, Results, Kinds, CardConstants, Calls, Pages
<1>1. ASSUME NEW c \in Clients, UnlockResource(c) PROVE CallType'
    BY <1>1 DEF UnlockResource, Go, Awake, Sleep, Wakeup
<1>2. ASSUME NEW c \in Clients, NEW op \in Operations[c], Call(c, op) PROVE CallType'
    BY <1>2 DEF Call, Go, Awake
<1>3. ASSUME NEW c \in Clients, WaitTask(c) PROVE CallType'
    BY <1>3 DEF WaitTask, Go, Awake, Sleep, TaskInUse, JobOf, Entry
<1>4. ASSUME NEW c \in Clients, Return(c) PROVE CallType'
    BY <1>4 DEF Return, Go, Awake, NoCall
<1>5. ASSUME NEW t \in Threads, End(t) PROVE CallType'
    BY <1>5 DEF End, Go, Awake, EndTask, Wakeup, JobOf, NoCall
<1>6. ASSUME OnReadCard PROVE CallType'
    BY <1>6 DEF OnReadCard, EndTask, JobOf, NoCall, Wakeup
<1>7. ASSUME Execute PROVE CallType'
    BY <1>7 DEF Execute, Holds
<1>8. CASE \/ \E c \in Clients : LockResource(c) \/ SetTask(c) \/ WaitAsync(c)
           \/ \E t \in Threads :
                 \/ SendRequest(t) \/ AwaitAck(t) \/ StreamPage(t) \/ StreamAnswered(t)
                 \/ Sector(t) \/ SectorPage(t) \/ SectorAnswered(t) \/ FirstRequest(t)
                 \/ OtherAnswered(t) \/ ReadRomSync(t)
           \/ TaskThread \/ CancelBackupAsync \/ OnFifoRecvARM9 \/ OnFifoRecvARM7 \/ TakeRequest
           \/ EndRequest \/ EndCompare \/ CompareCardID
           \/ UNCHANGED vars
    <2>1. UNCHANGED <<call, own, page>>
        BY <1>8 DEF vars, LockResource, SetTask, WaitAsync, SendRequest, AwaitAck, StreamPage,
           StreamAnswered, Sector, SectorPage, SectorAnswered, FirstRequest, OtherAnswered,
           ReadRomSync, TaskThread, CancelBackupAsync, OnFifoRecvARM9, OnFifoRecvARM7,
           TakeRequest, EndRequest, EndCompare, CompareCardID
    <2> QED
        BY <2>1
<1> QED
    BY <1>1, <1>2, <1>3, <1>4, <1>5, <1>6, <1>7, <1>8 DEF Next, Run, ARM7

LEMMA Arm7Next == ASSUME CardConstants, CardInv, [Next]_vars PROVE Arm7Type'
<1> USE DEF CardInv, TypeInv, Arm7Type, RequestTypes
<1>1. ASSUME OnFifoRecvARM7 PROVE Arm7Type'
    <2> HIDE DEF CardInv
    <2> DEFINE word == IF arm7.step = 0 THEN Head(toARM7) ELSE arm7.command
    <2>1. PICK t \in Threads : Sent(t) /\ toARM7 # <<>>
        BY <1>1 DEF OnFifoRecvARM7, CardInv, ChannelInv, NothingSent
    <2>2. word \in {"none", "INIT"} \cup RequestTypes
        BY <2>1 DEF CardInv, TypeInv, Arm7Type, RequestType, Sent
    <2> DEFINE complete == ~(word = "INIT" /\ arm7.step = 0)
               hasCmd == arm7.hasCmd \/ (word = "INIT" /\ complete)
               step == IF complete THEN 0 ELSE 1
               words == IF complete THEN arm7.flag \cup {"RECV"} ELSE arm7.flag
               sleeps == arm7.asleep /\ ~complete
    <2>3. hasCmd \in BOOLEAN /\ sleeps \in BOOLEAN /\ step \in {0, 1}
        BY DEF CardInv, TypeInv, Arm7Type
    <2>4. words \in SUBSET {"BUSY", "RECV"}
        BY DEF CardInv, TypeInv, Arm7Type
    <2>5. arm7' = [arm7 EXCEPT !.command = word, !.step = step, !.hasCmd = hasCmd,
                               !.flag = words, !.asleep = sleeps]
        BY <1>1 DEF OnFifoRecvARM7
    <2> HIDE DEF word, complete, hasCmd, step, words, sleeps
    <2> QED
        BY <2>2, <2>3, <2>4, <2>5 DEF CardInv, TypeInv, Arm7Type
<1>2. ASSUME TakeRequest PROVE Arm7Type'
    <2> HIDE DEF CardInv
    <2>1. \/ arm7' = [arm7 EXCEPT !.flag = {"BUSY"}, !.pc = "execute"]
          \/ arm7' = [arm7 EXCEPT !.asleep = TRUE]
        BY <1>2 DEF TakeRequest
    <2>2. CASE arm7' = [arm7 EXCEPT !.flag = {"BUSY"}, !.pc = "execute"]
        BY <2>2 DEF CardInv, TypeInv, Arm7Type
    <2>3. CASE arm7' = [arm7 EXCEPT !.asleep = TRUE]
        BY <2>3 DEF CardInv, TypeInv, Arm7Type
    <2> QED
        BY <2>1, <2>2, <2>3
<1>3. ASSUME Execute PROVE Arm7Type'
    BY <1>3 DEF Execute, Holds
<1>4. ASSUME EndRequest PROVE Arm7Type'
    BY <1>4 DEF EndRequest, EndTaskARM7
<1>5. ASSUME EndCompare PROVE Arm7Type'
    BY <1>5 DEF EndCompare, EndTaskARM7
<1>6. ASSUME CompareCardID PROVE Arm7Type'
    BY <1>6 DEF CompareCardID
<1>7. CASE \/ \E c \in Clients :
                 \/ LockResource(c) \/ UnlockResource(c) \/ WaitTask(c) \/ SetTask(c)
                 \/ Return(c) \/ WaitAsync(c)
           \/ \E c \in Clients : \E op \in Operations[c] : Call(c, op)
           \/ \E t \in Threads :
                 \/ End(t) \/ SendRequest(t) \/ AwaitAck(t) \/ StreamPage(t)
                 \/ StreamAnswered(t) \/ Sector(t) \/ SectorPage(t) \/ SectorAnswered(t)
                 \/ FirstRequest(t) \/ OtherAnswered(t) \/ ReadRomSync(t)
           \/ TaskThread \/ CancelBackupAsync \/ OnFifoRecvARM9 \/ OnReadCard
           \/ UNCHANGED vars
    <2>1. UNCHANGED arm7
        BY <1>7 DEF vars, LockResource, UnlockResource, WaitTask, SetTask, Return, WaitAsync,
           Call, End, SendRequest, AwaitAck, StreamPage, StreamAnswered, Sector, SectorPage,
           SectorAnswered, FirstRequest, OtherAnswered, ReadRomSync, TaskThread,
           CancelBackupAsync, OnFifoRecvARM9, OnReadCard
    <2> QED
        BY <2>1
<1> QED
    BY <1>1, <1>2, <1>3, <1>4, <1>5, <1>6, <1>7 DEF Next, Run, ARM7

-----------------------------------------------------------------------------
(* Who has the lock, the task and the card *)

LEMMA OwnerNext == ASSUME CardConstants, CardInv, [Next]_vars PROVE OwnerInv'
<1> USE DEF CardInv, TypeInv, LockType, PlaceType, CallType, OwnerInv, JobInv, Steps, Asking,
    Outside, Threads, Operating, Kinds
<1>1. ASSUME NEW c \in Clients, LockResource(c) PROVE OwnerInv'
    BY <1>1 DEF LockResource, Go, Awake, Sleep
<1>2. ASSUME NEW c \in Clients, UnlockResource(c) PROVE OwnerInv'
    BY <1>2 DEF UnlockResource, Go, Awake, Sleep, Wakeup
<1>3. ASSUME NEW c \in Clients, NEW op \in Operations[c], Call(c, op) PROVE OwnerInv'
    BY <1>3 DEF Call, Go, Awake
<1>4. ASSUME NEW c \in Clients, WaitTask(c) PROVE OwnerInv'
    BY <1>4 DEF WaitTask, Go, Awake, Sleep, TaskInUse, JobOf, Entry
<1>5. ASSUME NEW c \in Clients, SetTask(c) PROVE OwnerInv'
    BY <1>5 DEF SetTask, Go, Awake, WakeupDirect
<1>6. ASSUME NEW c \in Clients, Return(c) PROVE OwnerInv'
    BY <1>6 DEF Return, Go, Awake, NoCall
<1>7. ASSUME NEW c \in Clients, WaitAsync(c) PROVE OwnerInv'
    BY <1>7 DEF WaitAsync, Go, Awake, Sleep
<1>8. ASSUME NEW t \in Threads, End(t) PROVE OwnerInv'
    BY <1>8, OnlyOne DEF End, Go, Awake, EndTask, Wakeup, JobOf, NoCall
<1>9. ASSUME NEW t \in Threads, SendRequest(t) PROVE OwnerInv'
    BY <1>9, OnlyOne DEF SendRequest, Go, Awake
<1>10. ASSUME NEW t \in Threads, AwaitAck(t) PROVE OwnerInv'
    BY <1>10, OnlyOne DEF AwaitAck, Go, Awake, Sleep, Ask
<1>11. ASSUME NEW t \in Threads, StreamPage(t) PROVE OwnerInv'
    BY <1>11, OnlyOne DEF StreamPage, Go, Awake, Ask, TakeCancel, IsCancelled
<1>12. ASSUME NEW t \in Threads, StreamAnswered(t) PROVE OwnerInv'
    BY <1>12, OnlyOne DEF StreamAnswered, Go, Awake, Ask, Advance
<1>13. ASSUME NEW t \in Threads, Sector(t) PROVE OwnerInv'
    BY <1>13, OnlyOne DEF Sector, Go, Awake, Ask, TakeCancel, IsCancelled
<1>14. ASSUME NEW t \in Threads, SectorPage(t) PROVE OwnerInv'
    BY <1>14, OnlyOne DEF SectorPage, Go, Awake, Ask, TakeCancel, IsCancelled, NextSector
<1>15. ASSUME NEW t \in Threads, SectorAnswered(t) PROVE OwnerInv'
    BY <1>15, OnlyOne DEF SectorAnswered, Go, Awake, Ask, Advance, NextSector
<1>16. ASSUME NEW t \in Threads, FirstRequest(t) PROVE OwnerInv'
    BY <1>16, OnlyOne DEF FirstRequest, Go, Awake, Ask
<1>17. ASSUME NEW t \in Threads, OtherAnswered(t) PROVE OwnerInv'
    BY <1>17, OnlyOne DEF OtherAnswered, Go, Awake, Ask
<1>18. ASSUME NEW t \in Threads, ReadRomSync(t) PROVE OwnerInv'
    BY <1>18, OnlyOne DEF ReadRomSync, Go, Awake
<1>19. ASSUME TaskThread PROVE OwnerInv'
    BY <1>19 DEF TaskThread, Go, Awake, Sleep, Entry
<1>20. CASE \/ CancelBackupAsync \/ OnFifoRecvARM9 \/ OnReadCard \/ OnFifoRecvARM7 \/ TakeRequest
            \/ Execute \/ EndRequest \/ EndCompare \/ CompareCardID
            \/ UNCHANGED vars
    <2>1. UNCHANGED <<pc, lock, call>>
        BY <1>20 DEF vars, CancelBackupAsync, OnFifoRecvARM9, OnReadCard, OnFifoRecvARM7,
           TakeRequest, Execute, EndRequest, EndCompare, CompareCardID
    <2> QED
        BY <2>1
<1> QED
    BY <1>1, <1>2, <1>3, <1>4, <1>5, <1>6, <1>7, <1>8, <1>9, <1>10, <1>11, <1>12, <1>13, <1>14,
       <1>15, <1>16, <1>17, <1>18, <1>19, <1>20 DEF Next, Run, ARM7

LEMMA JobNext == ASSUME CardConstants, CardInv, [Next]_vars PROVE JobInv'
<1> USE DEF CardInv, TypeInv, LockType, PlaceType, CardPlaces, OwnerInv, JobInv, Steps, Asking,
    Outside, Threads, Operating, JobType, CardConstants, Calls, Kinds
<1>1. ASSUME NEW c \in Clients, LockResource(c) PROVE JobInv'
    BY <1>1 DEF LockResource, Go, Awake, Sleep
<1>2. ASSUME NEW c \in Clients, UnlockResource(c) PROVE JobInv'
    BY <1>2 DEF UnlockResource, Go, Awake, Sleep, Wakeup
<1>3. ASSUME NEW c \in Clients, NEW op \in Operations[c], Call(c, op) PROVE JobInv'
    BY <1>3 DEF Call, Go, Awake
<1>4. ASSUME NEW c \in Clients, WaitTask(c) PROVE JobInv'
    BY <1>4 DEF WaitTask, Go, Awake, Sleep, TaskInUse, JobOf, Entry
<1>5. ASSUME NEW c \in Clients, SetTask(c) PROVE JobInv'
    BY <1>5 DEF SetTask, Go, Awake, WakeupDirect
<1>6. ASSUME NEW c \in Clients, Return(c) PROVE JobInv'
    BY <1>6 DEF Return, Go, Awake, NoCall
<1>7. ASSUME NEW c \in Clients, WaitAsync(c) PROVE JobInv'
    BY <1>7 DEF WaitAsync, Go, Awake, Sleep
<1>8. ASSUME NEW t \in Threads, End(t) PROVE JobInv'
    BY <1>8, OnlyOne DEF End, Go, Awake, EndTask, Wakeup, JobOf, NoCall
<1>9. ASSUME NEW t \in Threads, SendRequest(t) PROVE JobInv'
    BY <1>9, OnlyOne DEF SendRequest, Go, Awake
<1>10. ASSUME NEW t \in Threads, AwaitAck(t) PROVE JobInv'
    BY <1>10, OnlyOne DEF AwaitAck, Go, Awake, Sleep, Ask
<1>11. ASSUME NEW t \in Threads, StreamPage(t) PROVE JobInv'
    BY <1>11, OnlyOne DEF StreamPage, Go, Awake, Ask, TakeCancel, IsCancelled
<1>12. ASSUME NEW t \in Threads, StreamAnswered(t) PROVE JobInv'
    BY <1>12, OnlyOne DEF StreamAnswered, Go, Awake, Ask, Advance
<1>13. ASSUME NEW t \in Threads, Sector(t) PROVE JobInv'
    BY <1>13, OnlyOne DEF Sector, Go, Awake, Ask, TakeCancel, IsCancelled
<1>14. ASSUME NEW t \in Threads, SectorPage(t) PROVE JobInv'
    BY <1>14, OnlyOne DEF SectorPage, Go, Awake, Ask, TakeCancel, IsCancelled, NextSector
<1>15. ASSUME NEW t \in Threads, SectorAnswered(t) PROVE JobInv'
    BY <1>15, OnlyOne DEF SectorAnswered, Go, Awake, Ask, Advance, NextSector
<1>16. ASSUME NEW t \in Threads, FirstRequest(t) PROVE JobInv'
    BY <1>16, OnlyOne DEF FirstRequest, Go, Awake, Ask
<1>17. ASSUME NEW t \in Threads, OtherAnswered(t) PROVE JobInv'
    BY <1>17, OnlyOne DEF OtherAnswered, Go, Awake, Ask
<1>18. ASSUME NEW t \in Threads, ReadRomSync(t) PROVE JobInv'
    BY <1>18, OnlyOne DEF ReadRomSync, Go, Awake
<1>19. ASSUME TaskThread PROVE JobInv'
    BY <1>19 DEF TaskThread, Go, Awake, Sleep, Entry
<1>20. ASSUME CancelBackupAsync PROVE JobInv'
    BY <1>20 DEF CancelBackupAsync
<1>21. ASSUME OnFifoRecvARM9 PROVE JobInv'
    BY <1>21 DEF OnFifoRecvARM9, WakeupDirect
<1>22. ASSUME OnReadCard PROVE JobInv'
    BY <1>22 DEF OnReadCard, EndTask, JobOf, NoCall, Wakeup
<1>23. CASE \/ OnFifoRecvARM7 \/ TakeRequest \/ Execute \/ EndRequest \/ EndCompare
            \/ CompareCardID
            \/ UNCHANGED vars
    <2>1. UNCHANGED <<flag, job, lock, pc>>
        BY <1>23 DEF vars, OnFifoRecvARM7, TakeRequest, Execute, EndRequest, EndCompare,
           CompareCardID
    <2> QED
        BY <2>1
<1> QED
    BY <1>1, <1>2, <1>3, <1>4, <1>5, <1>6, <1>7, <1>8, <1>9, <1>10, <1>11, <1>12, <1>13, <1>14,
       <1>15, <1>16, <1>17, <1>18, <1>19, <1>20, <1>21, <1>22, <1>23 DEF Next, Run, ARM7

LEMMA PhaseNext == ASSUME CardConstants, CardInv, [Next]_vars PROVE PhaseInv'
<1> USE DEF CardInv, TypeInv, LockType, PlaceType, CardPlaces, OwnerInv, JobInv, Steps, Asking,
    Outside, Threads, Operating, PhaseInv, JobType, RequestType, RequestTypes, Kinds
<1>1. ASSUME NEW c \in Clients, LockResource(c) PROVE PhaseInv'
    BY <1>1 DEF LockResource, Go, Awake, Sleep
<1>2. ASSUME NEW c \in Clients, UnlockResource(c) PROVE PhaseInv'
    BY <1>2 DEF UnlockResource, Go, Awake, Sleep, Wakeup
<1>3. ASSUME NEW c \in Clients, NEW op \in Operations[c], Call(c, op) PROVE PhaseInv'
    BY <1>3 DEF Call, Go, Awake
<1>4. ASSUME NEW c \in Clients, WaitTask(c) PROVE PhaseInv'
    BY <1>4 DEF WaitTask, Go, Awake, Sleep, TaskInUse, JobOf, Entry, CardConstants, Calls,
       CallType
<1>5. ASSUME NEW c \in Clients, SetTask(c) PROVE PhaseInv'
    BY <1>5 DEF SetTask, Go, Awake, WakeupDirect
<1>6. ASSUME NEW c \in Clients, Return(c) PROVE PhaseInv'
    BY <1>6 DEF Return, Go, Awake, NoCall
<1>7. ASSUME NEW c \in Clients, WaitAsync(c) PROVE PhaseInv'
    BY <1>7 DEF WaitAsync, Go, Awake, Sleep
<1>8. ASSUME NEW t \in Threads, End(t) PROVE PhaseInv'
    BY <1>8, OnlyOne DEF End, Go, Awake, EndTask, Wakeup, JobOf, NoCall
<1>9. ASSUME NEW t \in Threads, SendRequest(t) PROVE PhaseInv'
    BY <1>9, OnlyOne DEF SendRequest, Go, Awake
<1>10. ASSUME NEW t \in Threads, AwaitAck(t) PROVE PhaseInv'
    BY <1>10, OnlyOne DEF AwaitAck, Go, Awake, Sleep, Ask
<1>11. ASSUME NEW t \in Threads, StreamPage(t) PROVE PhaseInv'
    BY <1>11, OnlyOne DEF StreamPage, Go, Awake, Ask, TakeCancel, IsCancelled
<1>12. ASSUME NEW t \in Threads, StreamAnswered(t) PROVE PhaseInv'
    BY <1>12, OnlyOne DEF StreamAnswered, Go, Awake, Ask, Advance
<1>13. ASSUME NEW t \in Threads, Sector(t) PROVE PhaseInv'
    <2> HIDE DEF CardInv
    <2>1. PICK where \in {"end", "request"} :
             /\ Go(t, where) /\ UNCHANGED <<job, left>> /\ pc[t] = "sector"
             /\ where = "request" =>
                   request'.type = "ERASE" /\ job.len % SectorPages = 0
        BY <1>13 DEF Sector, Awake, Ask
    <2>2. job.kind = "sector" /\ job.len \in Nat /\ job.len >= 1
        BY <2>1, OnlyOne DEF CardInv, TypeInv, JobType, PhaseInv, LenInv, Steps
    <2>3. job.len % SectorPages = 0 => job.len >= SectorPages
        BY <2>2, SectorFits
    <2>4. \A u \in Threads : pc[u] \in Steps => u = t
        BY <2>1, OnlyOne DEF Steps
    <2> QED
        BY <2>1, <2>2, <2>3, <2>4 DEF PhaseInv, Go, Steps, Asking, CardInv, TypeInv, PlaceType
<1>14. ASSUME NEW t \in Threads, SectorPage(t) PROVE PhaseInv'
    BY <1>14, OnlyOne DEF SectorPage, Go, Awake, Ask, TakeCancel, IsCancelled, NextSector
<1>15. ASSUME NEW t \in Threads, SectorAnswered(t) PROVE PhaseInv'
    <2> HIDE DEF CardInv
    <2>1. /\ job.kind = "sector" /\ job.len \in Nat /\ left \in Int /\ job.len >= SectorPages
          /\ request.type # "ERASE" => left >= 1
          /\ \A u \in Threads : pc[u] \in Steps => u = t
          /\ pc \in [Threads -> CardPlaces]
        BY <1>15, OnlyOne DEF SectorAnswered, Awake, CardInv, TypeInv, JobType, WordType,
           PlaceType, PhaseInv,
           Steps, Asking
    <2>2. CASE request.type = "ERASE"
        BY <1>15, <2>1, <2>2 DEF SectorAnswered, Go, PhaseInv, Steps, Asking
    <2>3. CASE request.type # "ERASE" /\ result # "SUCCESS"
        <3>1. /\ job' = [job EXCEPT !.len = @ - SectorPages] /\ UNCHANGED <<request, left>>
              /\ Go(t, "sector") \/ Go(t, "end")
            BY <1>15, <2>3 DEF SectorAnswered, NextSector
        <3> QED
            BY <2>1, <3>1 DEF Go, PhaseInv, Steps, Asking
    <2>4. CASE request.type = "PROGRAM" /\ result = "SUCCESS" /\ job.verify
        BY <1>15, <2>1, <2>4 DEF SectorAnswered, Ask, Go, PhaseInv, Steps, Asking
    <2>5. CASE /\ request.type # "ERASE" /\ result = "SUCCESS"
               /\ ~(request.type = "PROGRAM" /\ job.verify)
        <3>1. /\ UNCHANGED request
              /\ IF left = 1 THEN NextSector(t, FALSE) ELSE Go(t, "sectorpage") /\ UNCHANGED job
              /\ left' = left - 1
            BY <1>15, <2>5 DEF SectorAnswered
        <3>2. CASE left = 1
            <4>1. /\ job' = [job EXCEPT !.len = @ - SectorPages] /\ UNCHANGED request
                  /\ Go(t, "sector") \/ Go(t, "end")
                BY <3>1, <3>2 DEF NextSector
            <4> QED
                BY <2>1, <4>1 DEF Go, PhaseInv, Steps, Asking
        <3>3. CASE left # 1
            BY <2>1, <2>5, <3>1, <3>3 DEF Go, PhaseInv, Steps, Asking
        <3> QED
            BY <3>2, <3>3
    <2> QED
        BY <2>2, <2>3, <2>4, <2>5
<1>16. ASSUME NEW t \in Threads, FirstRequest(t) PROVE PhaseInv'
    BY <1>16, OnlyOne DEF FirstRequest, Go, Awake, Ask
<1>17. ASSUME NEW t \in Threads, OtherAnswered(t) PROVE PhaseInv'
    BY <1>17, OnlyOne DEF OtherAnswered, Go, Awake, Ask
<1>18. ASSUME NEW t \in Threads, ReadRomSync(t) PROVE PhaseInv'
    BY <1>18, OnlyOne DEF ReadRomSync, Go, Awake
<1>19. ASSUME TaskThread PROVE PhaseInv'
    BY <1>19 DEF TaskThread, Go, Awake, Sleep, Entry
<1>20. ASSUME OnReadCard PROVE PhaseInv'
    BY <1>20 DEF OnReadCard, EndTask, JobOf, NoCall, Wakeup
<1>21. CASE \/ CancelBackupAsync \/ OnFifoRecvARM9 \/ OnFifoRecvARM7 \/ TakeRequest \/ Execute
            \/ EndRequest \/ EndCompare \/ CompareCardID
            \/ UNCHANGED vars
    <2>1. UNCHANGED <<pc, job, request, left>>
        BY <1>21 DEF vars, CancelBackupAsync, OnFifoRecvARM9, OnFifoRecvARM7, TakeRequest,
           Execute, EndRequest, EndCompare, CompareCardID
    <2> QED
        BY <2>1
<1> QED
    BY <1>1, <1>2, <1>3, <1>4, <1>5, <1>6, <1>7, <1>8, <1>9, <1>10, <1>11, <1>12, <1>13, <1>14,
       <1>15, <1>16, <1>17, <1>18, <1>19, <1>20, <1>21 DEF Next, Run, ARM7

LEMMA LenNext == ASSUME CardConstants, CardInv, [Next]_vars PROVE LenInv'
<1> USE DEF CardInv, TypeInv, LockType, PlaceType, CardPlaces, OwnerInv, JobInv, Steps, Asking,
    Outside, Threads, Operating, PhaseInv, LenInv, JobType, CardConstants, Calls, Kinds, CallType
<1>1. ASSUME NEW c \in Clients, LockResource(c) PROVE LenInv'
    BY <1>1 DEF LockResource, Go, Awake, Sleep
<1>2. ASSUME NEW c \in Clients, UnlockResource(c) PROVE LenInv'
    BY <1>2 DEF UnlockResource, Go, Awake, Sleep, Wakeup
<1>3. ASSUME NEW c \in Clients, NEW op \in Operations[c], Call(c, op) PROVE LenInv'
    BY <1>3 DEF Call, Go, Awake
<1>4. ASSUME NEW c \in Clients, WaitTask(c) PROVE LenInv'
    BY <1>4 DEF WaitTask, Go, Awake, Sleep, TaskInUse, JobOf, Entry
<1>5. ASSUME NEW c \in Clients, SetTask(c) PROVE LenInv'
    BY <1>5 DEF SetTask, Go, Awake, WakeupDirect
<1>6. ASSUME NEW c \in Clients, Return(c) PROVE LenInv'
    BY <1>6 DEF Return, Go, Awake, NoCall
<1>7. ASSUME NEW c \in Clients, WaitAsync(c) PROVE LenInv'
    BY <1>7 DEF WaitAsync, Go, Awake, Sleep
<1>8. ASSUME NEW t \in Threads, End(t) PROVE LenInv'
    BY <1>8, OnlyOne DEF End, Go, Awake, EndTask, Wakeup, JobOf, NoCall
<1>9. ASSUME NEW t \in Threads, SendRequest(t) PROVE LenInv'
    BY <1>9, OnlyOne DEF SendRequest, Go, Awake
<1>10. ASSUME NEW t \in Threads, AwaitAck(t) PROVE LenInv'
    BY <1>10, OnlyOne DEF AwaitAck, Go, Awake, Sleep, Ask
<1>11. ASSUME NEW t \in Threads, StreamPage(t) PROVE LenInv'
    BY <1>11, OnlyOne DEF StreamPage, Go, Awake, Ask, TakeCancel, IsCancelled
<1>12. ASSUME NEW t \in Threads, StreamAnswered(t) PROVE LenInv'
    BY <1>12, OnlyOne DEF StreamAnswered, Go, Awake, Ask, Advance
<1>13. ASSUME NEW t \in Threads, Sector(t) PROVE LenInv'
    BY <1>13, OnlyOne DEF Sector, Go, Awake, Ask, TakeCancel, IsCancelled
<1>14. ASSUME NEW t \in Threads, SectorPage(t) PROVE LenInv'
    BY <1>14, OnlyOne DEF SectorPage, Go, Awake, Ask, TakeCancel, IsCancelled, NextSector
<1>15. ASSUME NEW t \in Threads, SectorAnswered(t) PROVE LenInv'
    BY <1>15, OnlyOne DEF SectorAnswered, Go, Awake, Ask, Advance, NextSector
<1>16. ASSUME NEW t \in Threads, FirstRequest(t) PROVE LenInv'
    BY <1>16, OnlyOne DEF FirstRequest, Go, Awake, Ask
<1>17. ASSUME NEW t \in Threads, OtherAnswered(t) PROVE LenInv'
    BY <1>17, OnlyOne DEF OtherAnswered, Go, Awake, Ask
<1>18. ASSUME NEW t \in Threads, ReadRomSync(t) PROVE LenInv'
    BY <1>18, OnlyOne DEF ReadRomSync, Go, Awake
<1>19. ASSUME TaskThread PROVE LenInv'
    BY <1>19 DEF TaskThread, Go, Awake, Sleep, Entry
<1>20. ASSUME CancelBackupAsync PROVE LenInv'
    BY <1>20 DEF CancelBackupAsync
<1>21. ASSUME OnFifoRecvARM9 PROVE LenInv'
    BY <1>21 DEF OnFifoRecvARM9, WakeupDirect
<1>22. ASSUME OnReadCard PROVE LenInv'
    BY <1>22 DEF OnReadCard, EndTask, JobOf, NoCall, Wakeup
<1>23. CASE \/ OnFifoRecvARM7 \/ TakeRequest \/ Execute \/ EndRequest \/ EndCompare
            \/ CompareCardID
            \/ UNCHANGED vars
    <2>1. UNCHANGED <<flag, job, pc>>
        BY <1>23 DEF vars, OnFifoRecvARM7, TakeRequest, Execute, EndRequest, EndCompare,
           CompareCardID
    <2> QED
        BY <2>1
<1> QED
    BY <1>1, <1>2, <1>3, <1>4, <1>5, <1>6, <1>7, <1>8, <1>9, <1>10, <1>11, <1>12, <1>13, <1>14,
       <1>15, <1>16, <1>17, <1>18, <1>19, <1>20, <1>21, <1>22, <1>23 DEF Next, Run, ARM7

-----------------------------------------------------------------------------
(* Requests to the ARM7 and their answers *)

LEMMA ChannelNext == ASSUME CardConstants, CardInv, [Next]_vars PROVE ChannelInv'
<1> USE DEF CardInv, TypeInv, LockType, PlaceType, CardPlaces, OwnerInv, JobInv, Steps, Asking,
    Outside, Threads, Operating, ChannelInv, Sent, NothingSent, RequestType, Arm7Type
<1>1. ASSUME NEW c \in Clients, LockResource(c) PROVE ChannelInv'
    BY <1>1 DEF LockResource, Go, Awake, Sleep
<1>2. ASSUME NEW c \in Clients, UnlockResource(c) PROVE ChannelInv'
    BY <1>2 DEF UnlockResource, Go, Awake, Sleep, Wakeup
<1>3. ASSUME NEW c \in Clients, NEW op \in Operations[c], Call(c, op) PROVE ChannelInv'
    BY <1>3 DEF Call, Go, Awake
<1>4. ASSUME NEW c \in Clients, WaitTask(c) PROVE ChannelInv'
    BY <1>4 DEF WaitTask, Go, Awake, Sleep, TaskInUse, JobOf, Entry
<1>5. ASSUME NEW c \in Clients, SetTask(c) PROVE ChannelInv'
    BY <1>5 DEF SetTask, Go, Awake, WakeupDirect
<1>6. ASSUME NEW c \in Clients, Return(c) PROVE ChannelInv'
    BY <1>6 DEF Return, Go, Awake, NoCall
<1>7. ASSUME NEW c \in Clients, WaitAsync(c) PROVE ChannelInv'
    BY <1>7 DEF WaitAsync, Go, Awake, Sleep
<1>8. ASSUME NEW t \in Threads, End(t) PROVE ChannelInv'
    BY <1>8, OnlyOne DEF End, Go, Awake, EndTask, Wakeup, JobOf, NoCall
<1>9. ASSUME NEW t \in Threads, SendRequest(t) PROVE ChannelInv'
    <2> HIDE DEF CardInv
    <2>1. "REQ" \notin flag /\ pc[t] = "request" /\ (\A u \in Threads : pc[u] \in Steps => u = t)
        BY <1>9, OnlyOne DEF SendRequest, Awake, CardInv, ChannelInv, Steps, Asking
    <2>2. NothingSent /\ pc \in [Threads -> CardPlaces]
        BY <2>1 DEF CardInv, TypeInv, PlaceType, ChannelInv
    <2>3. /\ "REQ" \in flag' /\ UNCHANGED <<arm7, toARM9, request>>
          /\ \/ toARM7' = <<"INIT", "cmd">> /\ Go(t, "initack")
             \/ toARM7' = <<request.type>> /\ Go(t, "ack")
        BY <1>9, <2>2 DEF SendRequest, NothingSent
    <2>4. Sent(t)'
        BY <2>2, <2>3 DEF Sent, NothingSent, Go
    <2> QED
        BY <2>1, <2>2, <2>3, <2>4 DEF ChannelInv, Go, Steps, Asking
<1>10. ASSUME NEW t \in Threads, AwaitAck(t) PROVE ChannelInv'
    BY <1>10, OnlyOne DEF AwaitAck, Go, Awake, Sleep, Ask
<1>11. ASSUME NEW t \in Threads, StreamPage(t) PROVE ChannelInv'
    BY <1>11, OnlyOne DEF StreamPage, Go, Awake, Ask, TakeCancel, IsCancelled
<1>12. ASSUME NEW t \in Threads, StreamAnswered(t) PROVE ChannelInv'
    BY <1>12, OnlyOne DEF StreamAnswered, Go, Awake, Ask, Advance
<1>13. ASSUME NEW t \in Threads, Sector(t) PROVE ChannelInv'
    BY <1>13, OnlyOne DEF Sector, Go, Awake, Ask, TakeCancel, IsCancelled
<1>14. ASSUME NEW t \in Threads, SectorPage(t) PROVE ChannelInv'
    BY <1>14, OnlyOne DEF SectorPage, Go, Awake, Ask, TakeCancel, IsCancelled, NextSector
<1>15. ASSUME NEW t \in Threads, SectorAnswered(t) PROVE ChannelInv'
    BY <1>15, OnlyOne DEF SectorAnswered, Go, Awake, Ask, Advance, NextSector
<1>16. ASSUME NEW t \in Threads, FirstRequest(t) PROVE ChannelInv'
    BY <1>16, OnlyOne DEF FirstRequest, Go, Awake, Ask
<1>17. ASSUME NEW t \in Threads, OtherAnswered(t) PROVE ChannelInv'
    BY <1>17, OnlyOne DEF OtherAnswered, Go, Awake, Ask
<1>18. ASSUME NEW t \in Threads, ReadRomSync(t) PROVE ChannelInv'
    BY <1>18, OnlyOne DEF ReadRomSync, Go, Awake
<1>19. ASSUME TaskThread PROVE ChannelInv'
    BY <1>19 DEF TaskThread, Go, Awake, Sleep, Entry
<1>20. ASSUME CancelBackupAsync PROVE ChannelInv'
    BY <1>20 DEF CancelBackupAsync
<1>21. ASSUME OnFifoRecvARM9 PROVE ChannelInv'
    <2> HIDE DEF CardInv
    <2>1. PICK t \in Threads : Sent(t) /\ toARM9 # <<>>
        BY <1>21 DEF OnFifoRecvARM9, CardInv, ChannelInv, NothingSent
    <2>2. toARM9 = <<"ACK">> /\ UNCHANGED <<arm7, toARM7>> /\ arm7.step = 0 /\ toARM7 = <<>>
          /\ "RECV" \notin arm7.flag /\ arm7.pc # "execute"
        BY <1>21, <2>1 DEF OnFifoRecvARM9, Sent
    <2>3. toARM9' = <<>>
        BY <1>21, <2>2 DEF OnFifoRecvARM9
    <2>4. "REQ" \notin flag'
        BY <1>21 DEF OnFifoRecvARM9
    <2> QED
        BY <2>2, <2>3, <2>4 DEF ChannelInv, NothingSent
<1>22. ASSUME OnReadCard PROVE ChannelInv'
    BY <1>22 DEF OnReadCard, EndTask, JobOf, NoCall, Wakeup
<1>23. ASSUME OnFifoRecvARM7 PROVE ChannelInv'
    <2> HIDE DEF CardInv
    <2>1. PICK t \in Threads : pc[t] \in {"ack", "initack"} /\ Sent(t) /\ "REQ" \in flag
        BY <1>23 DEF OnFifoRecvARM7, CardInv, ChannelInv, NothingSent
    <2>2. \A u \in Threads : pc[u] \in {"ack", "initack"} => u = t
        BY <2>1, OnlyOne DEF Steps, Asking
    <2>3. UNCHANGED <<pc, flag, request, toARM9>> /\ request.type # "INIT"
        BY <1>23 DEF OnFifoRecvARM7, CardInv, TypeInv, RequestType, RequestTypes
    <2>4. Sent(t)'
        <3>1. CASE toARM7 = <<"INIT", "cmd">>
            <4>1. toARM7' = <<"cmd">> /\ Head(toARM7) = "INIT"
                BY <1>23, <3>1 DEF OnFifoRecvARM7
            <4>2. arm7.step = 0
                BY <2>1, <3>1 DEF Sent
            <4> QED
                BY <1>23, <2>1, <2>3, <3>1, <4>1, <4>2 DEF OnFifoRecvARM7, Sent, CardInv,
                   TypeInv, Arm7Type
        <3>2. CASE arm7.step = 0 /\ toARM7 = <<request.type>> /\ pc[t] = "ack"
            <4>1. toARM7' = <<>> /\ Head(toARM7) = request.type
                BY <1>23, <3>2 DEF OnFifoRecvARM7
            <4> QED
                BY <1>23, <2>1, <2>3, <3>2, <4>1 DEF OnFifoRecvARM7, Sent, CardInv, TypeInv,
                   Arm7Type
        <3>3. CASE arm7.step = 1
            <4>0. toARM7 = <<"cmd">>
                BY <2>1, <3>3 DEF Sent
            <4>1. toARM7' = <<>>
                BY <1>23, <4>0 DEF OnFifoRecvARM7
            <4> QED
                BY <1>23, <2>1, <2>3, <3>3, <4>1 DEF OnFifoRecvARM7, Sent, CardInv, TypeInv,
                   Arm7Type
        <3> QED
            BY <1>23, <2>1, <3>1, <3>2, <3>3 DEF OnFifoRecvARM7, Sent
    <2> QED
        BY <2>1, <2>2, <2>3, <2>4 DEF ChannelInv
<1>24. ASSUME TakeRequest PROVE ChannelInv'
    <2> HIDE DEF CardInv
    <2>1. \/ /\ arm7' = [arm7 EXCEPT !.flag = {"BUSY"}, !.pc = "execute"]
             /\ "RECV" \in arm7.flag /\ arm7.pc = "wait" /\ "BUSY" \notin arm7.flag
          \/ arm7' = [arm7 EXCEPT !.asleep = TRUE]
        BY <1>24 DEF TakeRequest
    <2>2. UNCHANGED <<flag, pc, toARM7, toARM9, request>>
        BY <1>24 DEF TakeRequest
    <2>3. CASE arm7' = [arm7 EXCEPT !.asleep = TRUE]
        BY <2>2, <2>3 DEF CardInv, TypeInv, Arm7Type, ChannelInv, NothingSent, Sent, ReadingInv
    <2>4. CASE /\ arm7' = [arm7 EXCEPT !.flag = {"BUSY"}, !.pc = "execute"]
               /\ "RECV" \in arm7.flag /\ arm7.pc = "wait" /\ "BUSY" \notin arm7.flag
        BY <2>2, <2>4 DEF CardInv, TypeInv, Arm7Type, ChannelInv, NothingSent, Sent, ReadingInv
    <2> QED
        BY <2>1, <2>3, <2>4
<1>25. ASSUME Execute PROVE ChannelInv'
    <2> HIDE DEF CardInv
    <2>1. PICK t \in Threads : pc[t] \in {"ack", "initack"} /\ Sent(t) /\ "REQ" \in flag
        BY <1>25 DEF Execute, CardInv, ChannelInv, NothingSent
    <2>2. \A u \in Threads : pc[u] \in {"ack", "initack"} => u = t
        BY <2>1, OnlyOne DEF Steps, Asking
    <2>3. /\ UNCHANGED <<pc, flag, request, toARM7>>
          /\ toARM9 = <<>> /\ toARM9' = Append(toARM9, "ACK")
        BY <1>25, <2>1 DEF Execute, Sent
    <2>4. toARM9' = <<"ACK">>
        BY <2>3
    <2>5. arm7' = [arm7 EXCEPT !.pc = "endtask"] /\ arm7.pc = "execute"
        BY <1>25 DEF Execute
    <2>6. Sent(t)'
        BY <2>1, <2>3, <2>4, <2>5 DEF Sent, CardInv, TypeInv, Arm7Type
    <2> QED
        BY <2>1, <2>2, <2>3, <2>6 DEF ChannelInv
<1>26. ASSUME EndRequest PROVE ChannelInv'
    BY <1>26 DEF EndRequest, EndTaskARM7
<1>27. ASSUME EndCompare PROVE ChannelInv'
    BY <1>27 DEF EndCompare, EndTaskARM7
<1>28. ASSUME CompareCardID PROVE ChannelInv'
    BY <1>28 DEF CompareCardID
<1>29. CASE \/ UNCHANGED vars
    <2>1. UNCHANGED <<flag, pc, arm7, toARM7, toARM9, request>>
        BY <1>29 DEF vars
    <2> QED
        BY <2>1
<1> QED
    BY <1>1, <1>2, <1>3, <1>4, <1>5, <1>6, <1>7, <1>8, <1>9, <1>10, <1>11, <1>12, <1>13, <1>14,
       <1>15, <1>16, <1>17, <1>18, <1>19, <1>20, <1>21, <1>22, <1>23, <1>24, <1>25, <1>26, <1>27,
       <1>28, <1>29 DEF Next, Run, ARM7

LEMMA ReadingNext == ASSUME CardConstants, CardInv, [Next]_vars PROVE ReadingInv'
<1> USE DEF CardInv, TypeInv, Arm7Type, ReadingInv, ChannelInv, NothingSent, Sent
<1>1. ASSUME OnFifoRecvARM7 PROVE ReadingInv'
    BY <1>1 DEF OnFifoRecvARM7
<1>2. ASSUME TakeRequest PROVE ReadingInv'
    <2> HIDE DEF CardInv
    <2>1. \/ /\ arm7' = [arm7 EXCEPT !.flag = {"BUSY"}, !.pc = "execute"]
             /\ "RECV" \in arm7.flag /\ arm7.pc = "wait" /\ "BUSY" \notin arm7.flag
          \/ arm7' = [arm7 EXCEPT !.asleep = TRUE]
        BY <1>2 DEF TakeRequest
    <2>2. UNCHANGED <<flag, pc, toARM7, toARM9, request>>
        BY <1>2 DEF TakeRequest
    <2>3. CASE arm7' = [arm7 EXCEPT !.asleep = TRUE]
        BY <2>2, <2>3 DEF CardInv, TypeInv, Arm7Type, ChannelInv, NothingSent, Sent, ReadingInv
    <2>4. CASE /\ arm7' = [arm7 EXCEPT !.flag = {"BUSY"}, !.pc = "execute"]
               /\ "RECV" \in arm7.flag /\ arm7.pc = "wait" /\ "BUSY" \notin arm7.flag
        BY <2>2, <2>4 DEF CardInv, TypeInv, Arm7Type, ChannelInv, NothingSent, Sent, ReadingInv
    <2> QED
        BY <2>1, <2>3, <2>4
<1>3. ASSUME Execute PROVE ReadingInv'
    BY <1>3 DEF Execute, Holds
<1>4. ASSUME EndRequest PROVE ReadingInv'
    BY <1>4 DEF EndRequest, EndTaskARM7
<1>5. ASSUME EndCompare PROVE ReadingInv'
    BY <1>5 DEF EndCompare, EndTaskARM7
<1>6. ASSUME CompareCardID PROVE ReadingInv'
    BY <1>6 DEF CompareCardID
<1>7. CASE \/ \E c \in Clients :
                 \/ LockResource(c) \/ UnlockResource(c) \/ WaitTask(c) \/ SetTask(c)
                 \/ Return(c) \/ WaitAsync(c)
           \/ \E c \in Clients : \E op \in Operations[c] : Call(c, op)
           \/ \E t \in Threads :
                 \/ End(t) \/ SendRequest(t) \/ AwaitAck(t) \/ StreamPage(t)
                 \/ StreamAnswered(t) \/ Sector(t) \/ SectorPage(t) \/ SectorAnswered(t)
                 \/ FirstRequest(t) \/ OtherAnswered(t) \/ ReadRomSync(t)
           \/ TaskThread \/ CancelBackupAsync \/ OnFifoRecvARM9 \/ OnReadCard
           \/ UNCHANGED vars
    <2>1. UNCHANGED arm7
        BY <1>7 DEF vars, LockResource, UnlockResource, WaitTask, SetTask, Return, WaitAsync,
           Call, End, SendRequest, AwaitAck, StreamPage, StreamAnswered, Sector, SectorPage,
           SectorAnswered, FirstRequest, OtherAnswered, ReadRomSync, TaskThread,
           CancelBackupAsync, OnFifoRecvARM9, OnReadCard
    <2> QED
        BY <2>1
<1> QED
    BY <1>1, <1>2, <1>3, <1>4, <1>5, <1>6, <1>7 DEF Next, Run, ARM7

-----------------------------------------------------------------------------
(* What has been written *)

LEMMA KindNext == ASSUME CardConstants, CardInv, [Next]_vars PROVE KindInv'
<1> USE DEF CardInv, TypeInv, LockType, PlaceType, CardPlaces, OwnerInv, JobInv, Steps, Asking,
    Outside, Threads, Operating, JobType, KindInv, Wanted, Kinds, CallType
<1>1. ASSUME NEW c \in Clients, LockResource(c) PROVE KindInv'
    BY <1>1 DEF LockResource, Go, Awake, Sleep
<1>2. ASSUME NEW c \in Clients, UnlockResource(c) PROVE KindInv'
    BY <1>2 DEF UnlockResource, Go, Awake, Sleep, Wakeup
<1>3. ASSUME NEW c \in Clients, NEW op \in Operations[c], Call(c, op) PROVE KindInv'
    BY <1>3 DEF Call, Go, Awake
<1>4. ASSUME NEW c \in Clients, WaitTask(c) PROVE KindInv'
    BY <1>4 DEF WaitTask, Go, Awake, Sleep, TaskInUse, JobOf, Entry
<1>5. ASSUME NEW c \in Clients, SetTask(c) PROVE KindInv'
    BY <1>5 DEF SetTask, Go, Awake, WakeupDirect
<1>6. ASSUME NEW c \in Clients, Return(c) PROVE KindInv'
    BY <1>6 DEF Return, Go, Awake, NoCall
<1>7. ASSUME NEW c \in Clients, WaitAsync(c) PROVE KindInv'
    BY <1>7 DEF WaitAsync, Go, Awake, Sleep
<1>8. ASSUME NEW t \in Threads, End(t) PROVE KindInv'
    BY <1>8, OnlyOne DEF End, Go, Awake, EndTask, Wakeup, JobOf, NoCall
<1>9. ASSUME NEW t \in Threads, SendRequest(t) PROVE KindInv'
    BY <1>9, OnlyOne DEF SendRequest, Go, Awake
<1>10. ASSUME NEW t \in Threads, AwaitAck(t) PROVE KindInv'
    BY <1>10, OnlyOne DEF AwaitAck, Go, Awake, Sleep, Ask
<1>11. ASSUME NEW t \in Threads, StreamPage(t) PROVE KindInv'
    BY <1>11, OnlyOne DEF StreamPage, Go, Awake, Ask, TakeCancel, IsCancelled
<1>12. ASSUME NEW t \in Threads, StreamAnswered(t) PROVE KindInv'
    BY <1>12, OnlyOne DEF StreamAnswered, Go, Awake, Ask, Advance
<1>13. ASSUME NEW t \in Threads, Sector(t) PROVE KindInv'
    BY <1>13, OnlyOne DEF Sector, Go, Awake, Ask, TakeCancel, IsCancelled
<1>14. ASSUME NEW t \in Threads, SectorPage(t) PROVE KindInv'
    BY <1>14, OnlyOne DEF SectorPage, Go, Awake, Ask, TakeCancel, IsCancelled, NextSector
<1>15. ASSUME NEW t \in Threads, SectorAnswered(t) PROVE KindInv'
    BY <1>15, OnlyOne DEF SectorAnswered, Go, Awake, Ask, Advance, NextSector
<1>16. ASSUME NEW t \in Threads, FirstRequest(t) PROVE KindInv'
    BY <1>16, OnlyOne DEF FirstRequest, Go, Awake, Ask
<1>17. ASSUME NEW t \in Threads, OtherAnswered(t) PROVE KindInv'
    BY <1>17, OnlyOne DEF OtherAnswered, Go, Awake, Ask
<1>18. ASSUME NEW t \in Threads, ReadRomSync(t) PROVE KindInv'
    BY <1>18, OnlyOne DEF ReadRomSync, Go, Awake
<1>19. ASSUME TaskThread PROVE KindInv'
    BY <1>19 DEF TaskThread, Go, Awake, Sleep, Entry
<1>20. ASSUME CancelBackupAsync PROVE KindInv'
    BY <1>20 DEF CancelBackupAsync
<1>21. ASSUME OnFifoRecvARM9 PROVE KindInv'
    BY <1>21 DEF OnFifoRecvARM9, WakeupDirect
<1>22. ASSUME OnReadCard PROVE KindInv'
    BY <1>22 DEF OnReadCard, EndTask, JobOf, NoCall, Wakeup
<1>23. CASE \/ OnFifoRecvARM7 \/ TakeRequest \/ Execute \/ EndRequest \/ EndCompare
            \/ CompareCardID
            \/ UNCHANGED vars
    <2>1. UNCHANGED <<flag, job, pc, call>>
        BY <1>23 DEF vars, OnFifoRecvARM7, TakeRequest, Execute, EndRequest, EndCompare,
           CompareCardID
    <2> QED
        BY <2>1
<1> QED
    BY <1>1, <1>2, <1>3, <1>4, <1>5, <1>6, <1>7, <1>8, <1>9, <1>10, <1>11, <1>12, <1>13, <1>14,
       <1>15, <1>16, <1>17, <1>18, <1>19, <1>20, <1>21, <1>22, <1>23 DEF Next, Run, ARM7

LEMMA CountNext == ASSUME CardConstants, CardInv, [Next]_vars PROVE CountInv'
<1> USE DEF CardInv, TypeInv, LockType, PlaceType, CardPlaces, OwnerInv, JobInv, Steps, Asking,
    Outside, Threads, Operating, JobType, CallType, WordType, RequestType, RequestTypes, Kinds,
    PhaseInv, LenInv, CountInv, Writing, Wanted, Inner, Counted
<1>1. ASSUME NEW c \in Clients, LockResource(c) PROVE CountInv'
    BY <1>1 DEF LockResource, Go, Awake, Sleep
<1>2. ASSUME NEW c \in Clients, UnlockResource(c) PROVE CountInv'
    BY <1>2 DEF UnlockResource, Go, Awake, Sleep, Wakeup
<1>3. ASSUME NEW c \in Clients, NEW op \in Operations[c], Call(c, op) PROVE CountInv'
    BY <1>3 DEF Call, Go, Awake
<1>4. ASSUME NEW c \in Clients, WaitTask(c) PROVE CountInv'
    BY <1>4 DEF WaitTask, Go, Awake, Sleep, TaskInUse, JobOf, Entry
<1>5. ASSUME NEW c \in Clients, SetTask(c) PROVE CountInv'
    BY <1>5 DEF SetTask, Go, Awake, WakeupDirect
<1>6. ASSUME NEW c \in Clients, Return(c) PROVE CountInv'
    BY <1>6 DEF Return, Go, Awake, NoCall
<1>7. ASSUME NEW c \in Clients, WaitAsync(c) PROVE CountInv'
    BY <1>7 DEF WaitAsync, Go, Awake, Sleep
<1>8. ASSUME NEW t \in Threads, End(t) PROVE CountInv'
    BY <1>8, OnlyOne DEF End, Go, Awake, EndTask, Wakeup, JobOf, NoCall
<1>9. ASSUME NEW t \in Threads, SendRequest(t) PROVE CountInv'
    <2> HIDE DEF CardInv
    <2>1. \A u \in Threads : pc[u] \in Steps => u = t
        BY <1>9, OnlyOne DEF SendRequest, Awake, Steps, Asking
    <2>2. PICK where \in {"ack", "initack"} : Go(t, where)
        BY <1>9 DEF SendRequest
    <2>3. /\ UNCHANGED <<job, dst, result, call, request, left, excused>> /\ pc[t] = "request"
          /\ ("BUSY" \in flag' <=> "BUSY" \in flag) /\ pc \in [Threads -> CardPlaces]
        BY <1>9 DEF SendRequest, Awake, CardInv, TypeInv, PlaceType
    <2>4. ~ \E u \in Threads : pc'[u] = "end" \/ pc[u] = "end"
        BY <2>1, <2>2, <2>3 DEF Go, Steps
    <2>5. (\E u \in Threads : Inner(u)') <=> \E u \in Threads : Inner(u)
        BY <2>1, <2>2, <2>3 DEF Inner, Go, Steps, Asking
    <2>6. Counted' = Counted
        BY <2>3, <2>5 DEF Counted
    <2>7. Writing' => Writing
        BY <2>2, <2>3 DEF Writing, Wanted, Go
    <2> QED
        BY <2>3, <2>4, <2>6, <2>7 DEF CountInv, CardInv
<1>10. ASSUME NEW t \in Threads, AwaitAck(t) PROVE CountInv'
    BY <1>10, OnlyOne DEF AwaitAck, Go, Awake, Sleep, Ask
<1>11. ASSUME NEW t \in Threads, StreamPage(t) PROVE CountInv'
    BY <1>11, OnlyOne DEF StreamPage, Go, Awake, Ask, TakeCancel, IsCancelled
<1>12. ASSUME NEW t \in Threads, StreamAnswered(t) PROVE CountInv'
    BY <1>12, OnlyOne DEF StreamAnswered, Go, Awake, Ask, Advance
<1>13. ASSUME NEW t \in Threads, Sector(t) PROVE CountInv'
    BY <1>13, OnlyOne DEF Sector, Go, Awake, Ask, TakeCancel, IsCancelled
<1>14. ASSUME NEW t \in Threads, SectorPage(t) PROVE CountInv'
    <2> HIDE DEF CardInv
    <2>1. /\ pc[t] = "sectorpage" /\ job.kind = "sector" /\ job.len >= SectorPages
          /\ job.len \in Nat /\ left \in Int /\ dst \in Nat
        BY <1>14 DEF SectorPage, Awake, CardInv, PhaseInv, TypeInv, JobType, WordType
    <2>2. UNCHANGED <<call, dst, left>>
        BY <1>14 DEF SectorPage
    <2>3. CASE IsCancelled
        <3>1. /\ job' = [job EXCEPT !.len = @ - SectorPages] /\ result' = "CANCELED"
              /\ Go(t, IF job.len > SectorPages THEN "sector" ELSE "end")
              /\ excused' = (excused \/ job.len > SectorPages)
            BY <1>14, <2>3 DEF SectorPage, TakeCancel, NextSector
        <3>2. CASE job.len > SectorPages
            BY <3>1, <3>2 DEF CountInv, Writing
        <3>3. CASE job.len <= SectorPages
            <4>1. \E u \in Threads : pc'[u] = "end"
                BY <2>1, <3>1, <3>3 DEF Go, CardInv, TypeInv, PlaceType
            <4> QED
                BY <3>1, <4>1 DEF CountInv
        <3> QED
            BY <2>1, <3>2, <3>3
    <2>4. CASE ~IsCancelled
        <3>1. /\ Go(t, "request") /\ request'.type = "PROGRAM"
              /\ UNCHANGED <<job, excused, result, flag>>
            BY <1>14, <2>4 DEF SectorPage, Ask
        <3>2. /\ ~ \E u \in Threads : pc[u] = "end"
              /\ ~ \E u \in Threads : pc'[u] = "end"
              /\ (\E u \in Threads : Inner(u)) /\ \E u \in Threads : Inner(u)'
            BY <2>1, <3>1, RunFrame DEF Inner, Steps, Asking
        <3>3. Counted' = Counted
            BY <2>2, <3>1, <3>2 DEF Counted
        <3>4. Writing' => Writing
            BY <2>1, <3>1, RunFrame DEF Writing, Wanted, Steps, Asking
        <3> QED
            BY <2>2, <3>1, <3>2, <3>3, <3>4 DEF CountInv, CardInv
    <2> QED
        BY <2>3, <2>4
<1>15. ASSUME NEW t \in Threads, SectorAnswered(t) PROVE CountInv'
    <2> HIDE DEF CardInv
    <2>1. /\ pc[t] = "answered" /\ job.kind = "sector" /\ job.len \in Nat /\ job.len >= SectorPages
          /\ left \in Int /\ dst \in Nat /\ (request.type # "ERASE" => left >= 1)
        BY <1>15 DEF SectorAnswered, Awake, CardInv, PhaseInv, Asking, TypeInv, JobType, WordType
    <2>0. call[job.client].len \in Int
        BY <2>1, OnlyOne DEF Steps, Asking, CardInv, TypeInv, CallType
    <2>2. UNCHANGED <<call, result, flag>>
        BY <1>15 DEF SectorAnswered
    <2>3. /\ ~ \E u \in Threads : pc[u] = "end"
          /\ (\E u \in Threads : Inner(u)) <=> request.type # "ERASE"
        BY <2>1, OnlyOne DEF Inner, Steps, Asking
    <2>4. Writing => dst + job.len = call[job.client].len
                                     + (IF request.type # "ERASE" THEN SectorPages - left ELSE 0)
        BY <2>1, <2>3 DEF CardInv, CountInv, Counted
    <2>5. CASE request.type = "ERASE"
        <3>1. /\ left' = SectorPages /\ UNCHANGED <<request, job, dst, excused>>
              /\ IF result = "SUCCESS" THEN Go(t, "sectorpage") ELSE Go(t, "end")
            BY <1>15, <2>5 DEF SectorAnswered
        <3>2. Writing' => Writing
            BY <2>1, <2>2, <3>1, RunFrame DEF Writing, Wanted, Steps, Asking
        <3>3. CASE result = "SUCCESS"
            <4>1. /\ ~ \E u \in Threads : pc'[u] = "end"
                  /\ \E u \in Threads : Inner(u)'
                BY <2>1, <3>1, <3>3, RunFrame DEF Inner, Steps, Asking
            <4>2. Counted' = 0
                BY <2>1, <3>1, <4>1 DEF Counted
            <4> QED
                BY <2>2, <2>4, <2>5, <3>1, <3>2, <4>1, <4>2 DEF CountInv
        <3>4. CASE result # "SUCCESS"
            <4>1. \E u \in Threads : pc'[u] = "end"
                BY <2>1, <3>1, <3>4, RunFrame DEF Steps, Asking
            <4> QED
                BY <2>2, <3>4, <4>1 DEF CountInv
        <3> QED
            BY <3>3, <3>4
    <2>6. ASSUME NEW broken \in BOOLEAN, NextSector(t, broken), UNCHANGED request,
                 broken => result # "SUCCESS",
                 ~broken => request.type # "ERASE" /\ left = 1 /\ dst' = dst + 1
          PROVE  CountInv'
        <3>1. /\ job' = [job EXCEPT !.len = @ - SectorPages]
              /\ Go(t, IF job.len > SectorPages THEN "sector" ELSE "end")
              /\ excused' = (excused \/ (broken /\ job.len > SectorPages))
            BY <2>6 DEF NextSector
        <3>2. job'.len = job.len - SectorPages /\ job'.client = job.client /\ job'.kind = job.kind
            BY <3>1 DEF CardInv, TypeInv, JobType
        <3>3. Writing' => Writing
            BY <2>1, <2>2, <3>1, <3>2, RunFrame DEF Writing, Wanted, Steps, Asking
        <3>4. CASE job.len > SectorPages
            <4>1. ~ \E u \in Threads : pc'[u] = "end" \/ Inner(u)'
                BY <2>1, <3>1, <3>4, RunFrame DEF Inner, Steps, Asking
            <4>2. Counted' = 0
                BY <4>1 DEF Counted
            <4>3. CASE broken
                BY <3>1, <3>4, <4>3 DEF CountInv, Writing
            <4>4. CASE ~broken
                <5>1. Writing => dst' + job'.len = call[job.client].len
                    BY <2>1, <2>4, <2>6, <3>2, <4>4, <2>0, CardAssumption
                <5> QED
                    BY <2>0, <2>2, <3>2, <3>3, <4>1, <4>2, <5>1 DEF CountInv
            <4> QED
                BY <4>3, <4>4
        <3>5. CASE job.len <= SectorPages
            <4>1. \E u \in Threads : pc'[u] = "end"
                BY <2>1, <3>1, <3>5, RunFrame DEF Steps, Asking
            <4>2. CASE broken
                BY <2>2, <2>6, <4>1, <4>2 DEF CountInv
            <4>3. CASE ~broken
                <5>1. job.len = SectorPages
                    BY <2>1, <3>5, CardAssumption
                <5>2. Writing => dst' = call[job.client].len
                    BY <2>1, <2>4, <2>6, <4>3, <5>1, <2>0, CardAssumption
                <5> QED
                    BY <2>2, <3>2, <3>3, <4>1, <5>2 DEF CountInv
            <4> QED
                BY <4>2, <4>3
        <3> QED
            BY <2>1, <3>4, <3>5, CardAssumption
    <2>7. CASE request.type # "ERASE" /\ result # "SUCCESS"
        BY <1>15, <2>6, <2>7 DEF SectorAnswered
    <2>8. ASSUME UNCHANGED <<job, excused>>, request.type # "ERASE", request'.type # "ERASE",
                 NEW where \in {"request", "sectorpage"}, Go(t, where), dst' - dst = left - left',
                 dst' \in Nat, left' \in Int
          PROVE  CountInv'
        <3>1. /\ ~ \E u \in Threads : pc'[u] = "end"
              /\ \E u \in Threads : Inner(u)'
            BY <2>1, <2>8, RunFrame DEF Inner, Steps, Asking
        <3>2. Counted' = SectorPages - left'
            BY <2>1, <2>8, <3>1 DEF Counted
        <3>3. Writing' => Writing
            BY <2>1, <2>2, <2>8, RunFrame DEF Writing, Wanted, Steps, Asking
        <3>4. Writing => dst' + job.len = call[job.client].len + (SectorPages - left')
            BY <2>1, <2>4, <2>8, <2>0, CardAssumption
        <3> QED
            BY <2>2, <2>8, <3>1, <3>2, <3>3, <3>4 DEF CountInv
    <2>9. CASE request.type = "PROGRAM" /\ result = "SUCCESS" /\ job.verify
        <3>1. Go(t, "request") /\ request'.type = "VERIFY" /\ UNCHANGED <<job, dst, left, excused>>
            BY <1>15, <2>9 DEF SectorAnswered, Ask
        <3> QED
            BY <2>1, <2>8, <2>9, <3>1
    <2>10. CASE request.type # "ERASE" /\ result = "SUCCESS"
                /\ ~(request.type = "PROGRAM" /\ job.verify)
        <3>1. /\ dst' = dst + 1 /\ left' = left - 1 /\ UNCHANGED request
              /\ IF left = 1 THEN NextSector(t, FALSE)
                 ELSE Go(t, "sectorpage") /\ UNCHANGED <<job, excused>>
            BY <1>15, <2>10 DEF SectorAnswered, Advance
        <3>2. CASE left = 1
            BY <2>6, <2>10, <3>1, <3>2
        <3>3. CASE left # 1
            BY <2>1, <2>8, <2>10, <3>1, <3>3
        <3> QED
            BY <3>2, <3>3
    <2> QED
        BY <2>5, <2>7, <2>9, <2>10
<1>16. ASSUME NEW t \in Threads, FirstRequest(t) PROVE CountInv'
    BY <1>16, OnlyOne DEF FirstRequest, Go, Awake, Ask
<1>17. ASSUME NEW t \in Threads, OtherAnswered(t) PROVE CountInv'
    BY <1>17, OnlyOne DEF OtherAnswered, Go, Awake, Ask
<1>18. ASSUME NEW t \in Threads, ReadRomSync(t) PROVE CountInv'
    BY <1>18, OnlyOne DEF ReadRomSync, Go, Awake
<1>19. ASSUME TaskThread PROVE CountInv'
    BY <1>19 DEF TaskThread, Go, Awake, Sleep, Entry
<1>20. ASSUME CancelBackupAsync PROVE CountInv'
    BY <1>20 DEF CancelBackupAsync
<1>21. ASSUME OnFifoRecvARM9 PROVE CountInv'
    BY <1>21 DEF OnFifoRecvARM9, WakeupDirect
<1>22. ASSUME OnReadCard PROVE CountInv'
    BY <1>22 DEF OnReadCard, EndTask, JobOf, NoCall, Wakeup
<1>23. ASSUME Execute PROVE CountInv'
    <2> HIDE DEF CardInv
    <2>1. PICK t \in Threads : pc[t] \in {"ack", "initack"}
        BY <1>23 DEF Execute, CardInv, ChannelInv, NothingSent
    <2>2. ~ \E u \in Threads : pc[u] = "end"
        BY <2>1, OnlyOne DEF Steps, Asking
    <2>3. UNCHANGED <<job, pc, call, request, left, dst, excused, flag>>
        BY <1>23 DEF Execute
    <2>4. (Counted' = Counted) /\ (Writing' <=> Writing)
        BY <2>3 DEF Counted, Inner, Writing, Wanted
    <2> QED
        BY <2>2, <2>3, <2>4 DEF CountInv, CardInv
<1>24. ASSUME EndCompare PROVE CountInv'
    BY ZenonT(30), <1>24 DEF EndCompare, EndTaskARM7
<1>25. CASE \/ OnFifoRecvARM7 \/ TakeRequest \/ EndRequest \/ CompareCardID
            \/ UNCHANGED vars
    <2>1. UNCHANGED <<flag, job, pc, excused, result, dst, call, request, left>>
        BY <1>25 DEF vars, OnFifoRecvARM7, TakeRequest, EndRequest, CompareCardID
    <2> QED
        BY <2>1
<1> QED
    BY <1>1, <1>2, <1>3, <1>4, <1>5, <1>6, <1>7, <1>8, <1>9, <1>10, <1>11, <1>12, <1>13, <1>14,
       <1>15, <1>16, <1>17, <1>18, <1>19, <1>20, <1>21, <1>22, <1>23, <1>24, <1>25 DEF Next, Run,
       ARM7

LEMMA PagesNext == ASSUME CardConstants, CardInv, [Next]_vars PROVE PagesInv'
<1> USE DEF CardInv, TypeInv, LockType, PlaceType, CardPlaces, OwnerInv, JobInv, Steps, Asking,
    Outside, Threads, Operating, JobType, CallType, WordType, RequestType, RequestTypes, Kinds,
    PhaseInv, PagesInv, Verified, Answered, Writing, Wanted
<1>1. ASSUME NEW c \in Clients, LockResource(c) PROVE PagesInv'
    BY <1>1 DEF LockResource, Go, Awake, Sleep
<1>2. ASSUME NEW c \in Clients, UnlockResource(c) PROVE PagesInv'
    BY SMTT(30), <1>2 DEF UnlockResource, Go, Awake, Sleep, Wakeup
<1>3. ASSUME NEW c \in Clients, NEW op \in Operations[c], Call(c, op) PROVE PagesInv'
    BY <1>3 DEF Call, Go, Awake
<1>4. ASSUME NEW c \in Clients, WaitTask(c) PROVE PagesInv'
    BY SMTT(30), <1>4 DEF WaitTask, Go, Awake, Sleep, TaskInUse, JobOf, Entry
<1>5. ASSUME NEW c \in Clients, SetTask(c) PROVE PagesInv'
    BY <1>5 DEF SetTask, Go, Awake, WakeupDirect
<1>6. ASSUME NEW c \in Clients, Return(c) PROVE PagesInv'
    BY ZenonT(30), <1>6 DEF Return, Go, Awake, NoCall
<1>7. ASSUME NEW c \in Clients, WaitAsync(c) PROVE PagesInv'
    BY <1>7 DEF WaitAsync, Go, Awake, Sleep
<1>8. ASSUME NEW t \in Threads, End(t) PROVE PagesInv'
    BY <1>8, OnlyOne DEF End, Go, Awake, EndTask, Wakeup, JobOf, NoCall
<1>9. ASSUME NEW t \in Threads, SendRequest(t) PROVE PagesInv'
    <2> HIDE DEF CardInv
    <2>1. \A u \in Threads : pc[u] \in Steps => u = t
        BY <1>9, OnlyOne DEF SendRequest, Awake, Steps, Asking
    <2>2. PICK where \in {"ack", "initack"} : Go(t, where)
        BY <1>9 DEF SendRequest
    <2>3. /\ UNCHANGED <<job, dst, result, call, request, page, excused, toARM9>>
          /\ pc[t] = "request" /\ ("BUSY" \in flag' <=> "BUSY" \in flag) /\ "REQ" \in flag'
        BY <1>9 DEF SendRequest, Awake
    <2>4. toARM9 = <<>>
        BY <2>1, <2>3 DEF CardInv, ChannelInv, NothingSent, Steps, Asking
    <2>5. ~ \E u \in Threads : Answered(u)'
        BY <2>1, <2>2, <2>3, <2>4, RunFrame DEF Answered, Steps, Asking
    <2>6. Writing' => Writing
        BY <2>2, <2>3, RunFrame DEF Writing, Wanted, Steps, Asking
    <2> QED
        BY <2>3, <2>5, <2>6 DEF PagesInv, Verified, CardInv
<1>10. ASSUME NEW t \in Threads, AwaitAck(t) PROVE PagesInv'
    BY <1>10, OnlyOne DEF AwaitAck, Go, Awake, Sleep, Ask
<1>11. ASSUME NEW t \in Threads, StreamPage(t) PROVE PagesInv'
    BY <1>11, OnlyOne DEF StreamPage, Go, Awake, Ask, TakeCancel, IsCancelled
<1>12. ASSUME NEW t \in Threads, StreamAnswered(t) PROVE PagesInv'
    <2> HIDE DEF CardInv
    <2>1. /\ pc[t] = "answered" /\ job.kind = "stream" /\ request.type \in {"PROGRAM", "VERIFY"}
          /\ dst \in Nat
        BY <1>12 DEF StreamAnswered, Awake, CardInv, PhaseInv, Asking, TypeInv, WordType
    <2>2. UNCHANGED <<call, page, result, flag, excused>>
        BY <1>12 DEF StreamAnswered
    <2>3. PICK where \in {"end", "request", "stream"} :
             /\ Go(t, where) /\ job'.client = job.client
             /\ job'.kind = job.kind /\ job'.verify = job.verify
        <3>1. PICK where \in {"end", "request", "stream"} : Go(t, where)
            BY <1>12 DEF StreamAnswered, Ask
        <3>2. UNCHANGED job \/ job' = [job EXCEPT !.len = @ - 1]
            BY <1>12 DEF StreamAnswered
        <3> QED
            BY <3>1, <3>2 DEF CardInv, TypeInv, JobType
    <2>4. ~ \E u \in Threads : Answered(u)'
        BY <2>1, <2>3, RunFrame DEF Answered, Steps, Asking
    <2>5. Writing' => Writing
        BY <2>1, <2>2, <2>3, RunFrame DEF Writing, Wanted, Steps, Asking
    <2>6. CASE UNCHANGED dst
        BY <2>2, <2>3, <2>4, <2>5, <2>6 DEF PagesInv, Verified, CardInv
    <2>7. CASE result = "SUCCESS" /\ ~(job.verify /\ request.type = "PROGRAM")
        <3>1. dst' = dst + 1
            BY <1>12, <2>7 DEF StreamAnswered, Advance
        <3>2. Writing /\ job.verify => Verified(dst + 1)
            BY <2>1, <2>7, OneMorePage DEF CardInv, PagesInv, Answered
        <3> QED
            BY <2>2, <2>3, <2>4, <2>5, <3>1, <3>2 DEF PagesInv, Verified
    <2> QED
        BY <1>12, <2>6, <2>7 DEF StreamAnswered
<1>13. ASSUME NEW t \in Threads, Sector(t) PROVE PagesInv'
    BY <1>13, OnlyOne DEF Sector, Go, Awake, Ask, TakeCancel, IsCancelled
<1>14. ASSUME NEW t \in Threads, SectorPage(t) PROVE PagesInv'
    <2> HIDE DEF CardInv
    <2>1. /\ pc[t] = "sectorpage" /\ UNCHANGED <<dst, page, call>> /\ (excused => excused')
          /\ ("BUSY" \in flag' <=> "BUSY" \in flag)
        BY <1>14 DEF SectorPage, Awake, NextSector, TakeCancel
    <2>2. PICK where \in {"end", "request", "sector"} : Go(t, where)
        BY <1>14 DEF SectorPage, Ask, NextSector
    <2>3. job'.client = job.client /\ job'.kind = job.kind /\ job'.verify = job.verify
        <3>1. UNCHANGED job \/ job' = [job EXCEPT !.len = @ - SectorPages]
            BY <1>14 DEF SectorPage, NextSector
        <3> QED
            BY <3>1 DEF CardInv, TypeInv, JobType
    <2>4. ~ \E u \in Threads : Answered(u)'
        BY <2>1, <2>2, RunFrame DEF Answered, Steps, Asking
    <2>5. Writing' => Writing
        BY <2>1, <2>2, <2>3, RunFrame DEF Writing, Wanted, Steps, Asking
    <2> QED
        BY <2>1, <2>3, <2>4, <2>5 DEF PagesInv, Verified, CardInv
<1>15. ASSUME NEW t \in Threads, SectorAnswered(t) PROVE PagesInv'
    <2> HIDE DEF CardInv
    <2>1. /\ pc[t] = "answered" /\ job.kind = "sector"
          /\ request.type \in {"ERASE", "PROGRAM", "VERIFY"}
          /\ dst \in Nat
        BY <1>15 DEF SectorAnswered, Awake, CardInv, PhaseInv, Asking, TypeInv, WordType
    <2>2. UNCHANGED <<call, page, result, flag>> /\ (excused => excused')
        BY <1>15 DEF SectorAnswered, NextSector
    <2>3. PICK where \in {"end", "request", "sector", "sectorpage"} :
             /\ Go(t, where) /\ job'.client = job.client
             /\ job'.kind = job.kind /\ job'.verify = job.verify
        <3>1. PICK where \in {"end", "request", "sector", "sectorpage"} : Go(t, where)
            BY <1>15 DEF SectorAnswered, Ask, NextSector
        <3>2. UNCHANGED job \/ job' = [job EXCEPT !.len = @ - SectorPages]
            BY <1>15 DEF SectorAnswered, NextSector
        <3> QED
            BY <3>1, <3>2 DEF CardInv, TypeInv, JobType
    <2>4. ~ \E u \in Threads : Answered(u)'
        BY <2>1, <2>3, RunFrame DEF Answered, Steps, Asking
    <2>5. Writing' => Writing
        BY <2>1, <2>2, <2>3, RunFrame DEF Writing, Wanted, Steps, Asking
    <2>6. CASE UNCHANGED dst
        BY <2>2, <2>3, <2>4, <2>5, <2>6 DEF PagesInv, Verified, CardInv
    <2>7. CASE /\ request.type # "ERASE" /\ result = "SUCCESS"
               /\ ~(job.verify /\ request.type = "PROGRAM")
        <3>1. dst' = dst + 1
            BY <1>15, <2>7 DEF SectorAnswered, Advance
        <3>2. Writing /\ job.verify => Verified(dst + 1)
            BY <2>1, <2>7, OneMorePage DEF CardInv, PagesInv, Answered
        <3> QED
            BY <2>2, <2>3, <2>4, <2>5, <3>1, <3>2 DEF PagesInv, Verified
    <2> QED
        BY <1>15, <2>6, <2>7 DEF SectorAnswered
<1>16. ASSUME NEW t \in Threads, FirstRequest(t) PROVE PagesInv'
    BY <1>16, OnlyOne DEF FirstRequest, Go, Awake, Ask
<1>17. ASSUME NEW t \in Threads, OtherAnswered(t) PROVE PagesInv'
    BY <1>17, OnlyOne DEF OtherAnswered, Go, Awake, Ask
<1>18. ASSUME NEW t \in Threads, ReadRomSync(t) PROVE PagesInv'
    BY <1>18, OnlyOne DEF ReadRomSync, Go, Awake
<1>19. ASSUME TaskThread PROVE PagesInv'
    BY <1>19 DEF TaskThread, Go, Awake, Sleep, Entry
<1>20. ASSUME CancelBackupAsync PROVE PagesInv'
    BY <1>20 DEF CancelBackupAsync
<1>21. ASSUME OnFifoRecvARM9 PROVE PagesInv'
    BY <1>21 DEF OnFifoRecvARM9, WakeupDirect
<1>22. ASSUME OnReadCard PROVE PagesInv'
    <2> HIDE DEF CardInv
    <2>1. CASE job.len = 1
        BY <1>22, <2>1 DEF OnReadCard, EndTask, PagesInv, Writing, Wanted
    <2>2. CASE job.len # 1
        <3>1. job'.kind = "dma"
            BY <1>22, <2>2 DEF OnReadCard, CardInv, TypeInv, JobType
        <3> QED
            BY <3>1 DEF PagesInv, Writing
    <2> QED
        BY <2>1, <2>2
<1>23. ASSUME Execute PROVE PagesInv'
    <2> HIDE DEF CardInv
    <2>1. PICK t \in Threads : pc[t] \in {"ack", "initack"} /\ Sent(t)
        BY <1>23 DEF Execute, CardInv, ChannelInv, NothingSent
    <2>2. \A u \in Threads : pc[u] \in Steps => u = t
        BY <2>1, OnlyOne DEF Steps, Asking
    <2>3. UNCHANGED <<job, pc, call, request, dst, excused, flag>>
        BY <1>23 DEF Execute
    <2>4. Writing' <=> Writing
        BY <2>3 DEF Writing, Wanted
    <2>5. Writing => dst < ChipPages
        <3>1. SUFFICES ASSUME Writing PROVE dst < ChipPages
            OBVIOUS
        <3>2. job.client \in Clients /\ "BUSY" \in flag /\ job.kind \in {"stream", "sector"}
            BY <2>1, <3>1, OnlyOne DEF Steps, Asking, Writing
        <3>3. /\ call[job.client].len \in 0 .. ChipPages
              /\ dst \in Nat /\ job.len \in Nat /\ left \in Int
            BY <3>2 DEF CardInv, TypeInv, CallType, WordType, JobType
        <3>4. ~ \E u \in Threads : pc[u] = "end"
            BY <2>2, <2>1 DEF Steps, Asking
        <3>5. dst + job.len = call[job.client].len + Counted
            BY <3>1, <3>4 DEF CardInv, CountInv
        <3>6. job.len >= 1
            BY <3>2, <3>4 DEF CardInv, LenInv
        <3>7. Counted = 0 \/ (Counted = SectorPages - left /\ left >= 1 /\ job.len >= SectorPages)
            <4>1. CASE job.kind = "sector" /\ \E u \in Threads : Inner(u)
                <5>1. request.type # "ERASE"
                    BY <2>1, <2>2, <4>1 DEF Inner, Steps, Asking
                <5> QED
                    BY <2>1, <4>1, <5>1 DEF Counted, CardInv, PhaseInv, Asking
            <4>2. CASE ~(job.kind = "sector" /\ \E u \in Threads : Inner(u))
                BY <4>2 DEF Counted
            <4> QED
                BY <4>1, <4>2
        <3> QED
            BY <3>3, <3>5, <3>6, <3>7, CardAssumption
    <2>6. Writing /\ Verified(dst) => Verified(dst)'
        <3>1. SUFFICES ASSUME Writing, Verified(dst), NEW p \in 0 .. dst - 1 PROVE page'[p] = p
            BY <2>3 DEF Verified
        <3>2. p \in Pages /\ p # dst /\ ~(p \in dst .. dst + SectorPages - 1) /\ page[p] = p
            BY <2>5, <3>1, CardAssumption DEF Pages, Verified, CardInv, TypeInv, WordType
        <3>3. \/ UNCHANGED page \/ Holds(dst) \/ Holds(-1)
              \/ page' = [q \in Pages |->
                            IF q \in dst .. dst + SectorPages - 1 THEN -1 ELSE page[q]]
            BY <1>23 DEF Execute
        <3> QED
            BY <3>2, <3>3 DEF Holds, CardInv, TypeInv, CallType
    <2>7. ASSUME Answered(t)', request'.type = "VERIFY", result' = "SUCCESS" PROVE page'[dst] = dst
        <3>1. pc[t] = "ack" /\ arm7.command = "VERIFY"
            BY <1>23, <2>1, <2>3, <2>7 DEF Answered, Sent, Execute
        <3> QED
            BY <1>23, <2>7, <3>1 DEF Execute
    <2>8. \A u \in Threads : Answered(u)' => u = t
        BY <2>2, <2>3 DEF Answered, Steps, Asking
    <2> QED
        BY <2>3, <2>4, <2>6, <2>7, <2>8 DEF PagesInv, CardInv
<1>24. ASSUME EndCompare PROVE PagesInv'
    BY <1>24 DEF EndCompare, EndTaskARM7
<1>25. CASE \/ OnFifoRecvARM7 \/ TakeRequest \/ EndRequest \/ CompareCardID
            \/ UNCHANGED vars
    <2>1. UNCHANGED <<flag, job, pc, excused, result, dst, request, toARM9, page, call>>
        BY <1>25 DEF vars, OnFifoRecvARM7, TakeRequest, EndRequest, CompareCardID
    <2> QED
        BY <2>1
<1> QED
    BY <1>1, <1>2, <1>3, <1>4, <1>5, <1>6, <1>7, <1>8, <1>9, <1>10, <1>11, <1>12, <1>13, <1>14,
       <1>15, <1>16, <1>17, <1>18, <1>19, <1>20, <1>21, <1>22, <1>23, <1>24, <1>25 DEF Next, Run,
       ARM7

LEMMA ResultNext == ASSUME CardConstants, CardInv, [Next]_vars PROVE ResultInv'
<1> USE DEF CardInv, TypeInv, LockType, PlaceType, CardPlaces, OwnerInv, JobInv, Steps, Asking,
    Outside, Threads, Operating, JobType, CallType, WordType, Kinds, ResultInv, Verified,
    ChannelInv, NothingSent
<1>1. ASSUME NEW c \in Clients, LockResource(c) PROVE ResultInv'
    BY <1>1 DEF LockResource, Go, Awake, Sleep
<1>2. ASSUME NEW c \in Clients, UnlockResource(c) PROVE ResultInv'
    <2> HIDE DEF CardInv
    <2>1. lock.owner = c /\ pc[c] \notin {"waitasync", "return"}
        BY <1>2 DEF UnlockResource, Awake, CardInv, OwnerInv, Outside
    <2>2. PICK where \in {"unlock", "locked", "idle"} : Go(c, where)
        BY <1>2 DEF UnlockResource
    <2>3. \A d \in Clients : pc'[d] \notin {"async", "waitasync", "return"}
        BY <2>1, <2>2 DEF Go, CardInv, TypeInv, PlaceType, OwnerInv, Outside, Threads
    <2> QED
        BY <2>3 DEF ResultInv
<1>3. ASSUME NEW c \in Clients, NEW op \in Operations[c], Call(c, op) PROVE ResultInv'
    BY <1>3 DEF Call, Go, Awake
<1>4. ASSUME NEW c \in Clients, WaitTask(c) PROVE ResultInv'
    BY <1>4 DEF WaitTask, Go, Awake, Sleep, TaskInUse, JobOf, Entry
<1>5. ASSUME NEW c \in Clients, SetTask(c) PROVE ResultInv'
    BY <1>5 DEF SetTask, Go, Awake, WakeupDirect
<1>6. ASSUME NEW c \in Clients, Return(c) PROVE ResultInv'
    <2> HIDE DEF CardInv
    <2>1. lock.owner = c /\ Go(c, "locked")
        BY <1>6 DEF Return, Awake, CardInv, OwnerInv, Outside
    <2>2. \A d \in Clients : pc'[d] \notin {"async", "waitasync", "return"}
        BY <2>1 DEF Go, CardInv, TypeInv, PlaceType, OwnerInv, Outside, Threads
    <2> QED
        BY <2>2 DEF ResultInv
<1>7. ASSUME NEW c \in Clients, WaitAsync(c) PROVE ResultInv'
    BY <1>7 DEF WaitAsync, Go, Awake, Sleep
<1>8. ASSUME NEW t \in Threads, End(t) PROVE ResultInv'
    <2> HIDE DEF CardInv
    <2> SUFFICES ASSUME NEW c \in Clients, pc'[c] \in {"async", "waitasync", "return"}, ~excused'
                 PROVE  /\ result' = own'[c]
                        /\ (result' = "SUCCESS" /\ call'[c].kind \in {"stream", "sector"}
                              /\ call'[c].verify) => Verified(call[c].len)'
        BY DEF ResultInv
    <2>1. /\ pc[t] = "end" /\ UNCHANGED <<result, call, excused>>
          /\ Go(t, IF t = "task" THEN "wait" ELSE "return")
          /\ own' = [d \in Clients |-> IF d = lock.owner THEN result ELSE own[d]]
          /\ result = "SUCCESS" => page' = page
        BY <1>8 DEF End, Awake, EndTask
    <2>2. pc[c] \in {"async", "waitasync", "return"} \cup Steps
        BY <2>1 DEF Go, CardInv, TypeInv, PlaceType, Threads, Steps
    <2>3. lock.owner = c /\ job.client = c /\ "BUSY" \in flag
        BY <2>1, <2>2, OnlyOne DEF CardInv, OwnerInv, Outside, Steps, Asking
    <2>4. Wanted
        BY <2>2, <2>3 DEF Wanted, Steps, Asking
    <2>5. (result = "SUCCESS" /\ call[c].kind \in {"stream", "sector"} /\ call[c].verify) =>
             Verified(call[c].len)
        <3> SUFFICES ASSUME result = "SUCCESS", call[c].kind \in {"stream", "sector"},
                            call[c].verify
                     PROVE  Verified(call[c].len)
            OBVIOUS
        <3>1. KindInv /\ CountInv /\ PagesInv
            BY DEF CardInv
        <3>2. job.kind = call[c].kind /\ job.verify = call[c].verify
            BY <2>3, <2>4, <3>1 DEF KindInv
        <3>3. ~excused
            BY <2>1
        <3>4. Writing
            BY <2>4, <3>2, <3>3 DEF Writing
        <3>5. Verified(dst)
            BY <3>1, <3>2, <3>4 DEF PagesInv
        <3>6. dst = call[c].len
            BY <2>1, <2>3, <3>1, <3>4 DEF CountInv
        <3> QED
            BY <3>5, <3>6
    <2> QED
        BY <2>1, <2>3, <2>5 DEF Verified
<1>9. ASSUME NEW t \in Threads, SendRequest(t) PROVE ResultInv'
    BY <1>9, OnlyOne DEF SendRequest, Go, Awake
<1>10. ASSUME NEW t \in Threads, AwaitAck(t) PROVE ResultInv'
    BY <1>10, OnlyOne DEF AwaitAck, Go, Awake, Sleep, Ask
<1>11. ASSUME NEW t \in Threads, StreamPage(t) PROVE ResultInv'
    BY <1>11, OnlyOne DEF StreamPage, Go, Awake, Ask, TakeCancel, IsCancelled
<1>12. ASSUME NEW t \in Threads, StreamAnswered(t) PROVE ResultInv'
    BY <1>12, OnlyOne DEF StreamAnswered, Go, Awake, Ask, Advance
<1>13. ASSUME NEW t \in Threads, Sector(t) PROVE ResultInv'
    BY <1>13, OnlyOne DEF Sector, Go, Awake, Ask, TakeCancel, IsCancelled
<1>14. ASSUME NEW t \in Threads, SectorPage(t) PROVE ResultInv'
    BY <1>14, OnlyOne DEF SectorPage, Go, Awake, Ask, TakeCancel, IsCancelled, NextSector
<1>15. ASSUME NEW t \in Threads, SectorAnswered(t) PROVE ResultInv'
    BY <1>15, OnlyOne DEF SectorAnswered, Go, Awake, Ask, Advance, NextSector
<1>16. ASSUME NEW t \in Threads, FirstRequest(t) PROVE ResultInv'
    BY <1>16, OnlyOne DEF FirstRequest, Go, Awake, Ask
<1>17. ASSUME NEW t \in Threads, OtherAnswered(t) PROVE ResultInv'
    BY <1>17, OnlyOne DEF OtherAnswered, Go, Awake, Ask
<1>18. ASSUME NEW t \in Threads, ReadRomSync(t) PROVE ResultInv'
    BY <1>18, OnlyOne DEF ReadRomSync, Go, Awake
<1>19. ASSUME TaskThread PROVE ResultInv'
    BY <1>19 DEF TaskThread, Go, Awake, Sleep, Entry
<1>20. ASSUME CancelBackupAsync PROVE ResultInv'
    BY <1>20 DEF CancelBackupAsync
<1>21. ASSUME OnFifoRecvARM9 PROVE ResultInv'
    BY <1>21 DEF OnFifoRecvARM9, WakeupDirect
<1>22. ASSUME OnReadCard PROVE ResultInv'
    <2> HIDE DEF CardInv
    <2>1. CASE job.len # 1
        BY <1>22, <2>1 DEF OnReadCard, ResultInv
    <2>2. CASE job.len = 1
        <3>1. /\ result' = "SUCCESS" /\ UNCHANGED <<pc, call>>
              /\ "BUSY" \in flag /\ job.kind = "dma"
              /\ own' = [d \in Clients |-> IF d = lock.owner THEN "SUCCESS" ELSE own[d]]
            BY <1>22, <2>2 DEF OnReadCard, EndTask
        <3>2. \A c \in Clients : pc[c] \in {"async", "waitasync", "return"} =>
                 lock.owner = c /\ job.client = c /\ Wanted
            BY <3>1 DEF CardInv, OwnerInv, JobInv, Outside, Wanted
        <3> QED
            BY <3>1, <3>2 DEF ResultInv, CardInv, KindInv
    <2> QED
        BY <2>1, <2>2
<1>23. ASSUME Execute PROVE ResultInv'
    BY <1>23 DEF Execute, Holds
<1>24. ASSUME EndCompare PROVE ResultInv'
    BY ZenonT(30), <1>24 DEF EndCompare, EndTaskARM7
<1>25. CASE \/ OnFifoRecvARM7 \/ TakeRequest \/ EndRequest \/ CompareCardID
            \/ UNCHANGED vars
    <2>1. UNCHANGED <<flag, pc, excused, result, own, call, page>>
        BY <1>25 DEF vars, OnFifoRecvARM7, TakeRequest, EndRequest, CompareCardID
    <2> QED
        BY <2>1
<1> QED
    BY <1>1, <1>2, <1>3, <1>4, <1>5, <1>6, <1>7, <1>8, <1>9, <1>10, <1>11, <1>12, <1>13, <1>14,
       <1>15, <1>16, <1>17, <1>18, <1>19, <1>20, <1>21, <1>22, <1>23, <1>24, <1>25 DEF Next, Run,
       ARM7

-----------------------------------------------------------------------------
(* Sleepers *)

LEMMA WakeNext == ASSUME CardConstants, CardInv, [Next]_vars PROVE WakeInv'
<1> USE DEF CardInv, TypeInv, LockType, PlaceType, CardPlaces, OwnerInv, JobInv, Steps, Asking,
    Outside, Threads, Operating, WakeInv, Entry, CallType, CardConstants, Calls, Kinds
<1>1. ASSUME NEW c \in Clients, LockResource(c) PROVE WakeInv'
    BY <1>1 DEF LockResource, Go, Awake, Sleep
<1>2. ASSUME NEW c \in Clients, UnlockResource(c) PROVE WakeInv'
    BY <1>2 DEF UnlockResource, Go, Awake, Sleep, Wakeup
<1>3. ASSUME NEW c \in Clients, NEW op \in Operations[c], Call(c, op) PROVE WakeInv'
    BY <1>3 DEF Call, Go, Awake
<1>4. ASSUME NEW c \in Clients, WaitTask(c) PROVE WakeInv'
    BY <1>4 DEF WaitTask, Go, Awake, Sleep, TaskInUse, JobOf
<1>5. ASSUME NEW c \in Clients, SetTask(c) PROVE WakeInv'
    BY <1>5 DEF SetTask, Go, Awake, WakeupDirect
<1>6. ASSUME NEW c \in Clients, Return(c) PROVE WakeInv'
    BY <1>6 DEF Return, Go, Awake, NoCall
<1>7. ASSUME NEW c \in Clients, WaitAsync(c) PROVE WakeInv'
    BY <1>7 DEF WaitAsync, Go, Awake, Sleep
<1>8. ASSUME NEW t \in Threads, End(t) PROVE WakeInv'
    BY <1>8, OnlyOne DEF End, Go, Awake, EndTask, Wakeup, JobOf, NoCall
<1>9. ASSUME NEW t \in Threads, SendRequest(t) PROVE WakeInv'
    BY <1>9, OnlyOne DEF SendRequest, Go, Awake
<1>10. ASSUME NEW t \in Threads, AwaitAck(t) PROVE WakeInv'
    BY <1>10, OnlyOne DEF AwaitAck, Go, Awake, Sleep, Ask
<1>11. ASSUME NEW t \in Threads, StreamPage(t) PROVE WakeInv'
    BY <1>11, OnlyOne DEF StreamPage, Go, Awake, Ask, TakeCancel, IsCancelled
<1>12. ASSUME NEW t \in Threads, StreamAnswered(t) PROVE WakeInv'
    BY <1>12, OnlyOne DEF StreamAnswered, Go, Awake, Ask, Advance
<1>13. ASSUME NEW t \in Threads, Sector(t) PROVE WakeInv'
    BY <1>13, OnlyOne DEF Sector, Go, Awake, Ask, TakeCancel, IsCancelled
<1>14. ASSUME NEW t \in Threads, SectorPage(t) PROVE WakeInv'
    BY <1>14, OnlyOne DEF SectorPage, Go, Awake, Ask, TakeCancel, IsCancelled, NextSector
<1>15. ASSUME NEW t \in Threads, SectorAnswered(t) PROVE WakeInv'
    BY <1>15, OnlyOne DEF SectorAnswered, Go, Awake, Ask, Advance, NextSector
<1>16. ASSUME NEW t \in Threads, FirstRequest(t) PROVE WakeInv'
    BY <1>16, OnlyOne DEF FirstRequest, Go, Awake, Ask
<1>17. ASSUME NEW t \in Threads, OtherAnswered(t) PROVE WakeInv'
    BY <1>17, OnlyOne DEF OtherAnswered, Go, Awake, Ask
<1>18. ASSUME NEW t \in Threads, ReadRomSync(t) PROVE WakeInv'
    BY <1>18, OnlyOne DEF ReadRomSync, Go, Awake
<1>19. ASSUME TaskThread PROVE WakeInv'
    BY <1>19 DEF TaskThread, Go, Awake, Sleep
<1>20. ASSUME CancelBackupAsync PROVE WakeInv'
    BY <1>20 DEF CancelBackupAsync
<1>21. ASSUME OnFifoRecvARM9 PROVE WakeInv'
    BY <1>21 DEF OnFifoRecvARM9, WakeupDirect
<1>22. ASSUME OnReadCard PROVE WakeInv'
    BY <1>22 DEF OnReadCard, EndTask, JobOf, NoCall, Wakeup
<1>23. CASE \/ OnFifoRecvARM7 \/ TakeRequest \/ Execute \/ EndRequest \/ EndCompare
            \/ CompareCardID
            \/ UNCHANGED vars
    <2>1. UNCHANGED <<pc, curTh, flag>>
        BY <1>23 DEF vars, OnFifoRecvARM7, TakeRequest, Execute, EndRequest, EndCompare,
           CompareCardID
    <2> QED
        BY <2>1
<1> QED
    BY <1>1, <1>2, <1>3, <1>4, <1>5, <1>6, <1>7, <1>8, <1>9, <1>10, <1>11, <1>12, <1>13, <1>14,
       <1>15, <1>16, <1>17, <1>18, <1>19, <1>20, <1>21, <1>22, <1>23 DEF Next, Run, ARM7

LEMMA SleepNext == ASSUME CardConstants, CardInv, [Next]_vars PROVE SleepInv'
<1> USE DEF CardInv, TypeInv, LockType, PlaceType, CardPlaces, OwnerInv, JobInv, Steps, Asking,
    Outside, Threads, Operating, QueueType, SleepInv, WakeInv, ChannelInv
<1>1. ASSUME NEW c \in Clients, LockResource(c) PROVE SleepInv'
    BY <1>1 DEF LockResource, Go, Awake, Sleep
<1>2. ASSUME NEW c \in Clients, UnlockResource(c) PROVE SleepInv'
    BY <1>2 DEF UnlockResource, Go, Awake, Sleep, Wakeup
<1>3. ASSUME NEW c \in Clients, NEW op \in Operations[c], Call(c, op) PROVE SleepInv'
    BY <1>3 DEF Call, Go, Awake
<1>4. ASSUME NEW c \in Clients, WaitTask(c) PROVE SleepInv'
    BY <1>4 DEF WaitTask, Go, Awake, Sleep, TaskInUse, JobOf, Entry
<1>5. ASSUME NEW c \in Clients, SetTask(c) PROVE SleepInv'
    BY <1>5 DEF SetTask, Go, Awake, WakeupDirect
<1>6. ASSUME NEW c \in Clients, Return(c) PROVE SleepInv'
    BY <1>6 DEF Return, Go, Awake, NoCall
<1>7. ASSUME NEW c \in Clients, WaitAsync(c) PROVE SleepInv'
    BY <1>7 DEF WaitAsync, Go, Awake, Sleep
<1>8. ASSUME NEW t \in Threads, End(t) PROVE SleepInv'
    BY <1>8, OnlyOne DEF End, Go, Awake, EndTask, Wakeup, JobOf, NoCall
<1>9. ASSUME NEW t \in Threads, SendRequest(t) PROVE SleepInv'
    BY <1>9, OnlyOne DEF SendRequest, Go, Awake
<1>10. ASSUME NEW t \in Threads, AwaitAck(t) PROVE SleepInv'
    BY <1>10, OnlyOne DEF AwaitAck, Go, Awake, Sleep, Ask
<1>11. ASSUME NEW t \in Threads, StreamPage(t) PROVE SleepInv'
    BY <1>11, OnlyOne DEF StreamPage, Go, Awake, Ask, TakeCancel, IsCancelled
<1>12. ASSUME NEW t \in Threads, StreamAnswered(t) PROVE SleepInv'
    BY <1>12, OnlyOne DEF StreamAnswered, Go, Awake, Ask, Advance
<1>13. ASSUME NEW t \in Threads, Sector(t) PROVE SleepInv'
    BY <1>13, OnlyOne DEF Sector, Go, Awake, Ask, TakeCancel, IsCancelled
<1>14. ASSUME NEW t \in Threads, SectorPage(t) PROVE SleepInv'
    BY <1>14, OnlyOne DEF SectorPage, Go, Awake, Ask, TakeCancel, IsCancelled, NextSector
<1>15. ASSUME NEW t \in Threads, SectorAnswered(t) PROVE SleepInv'
    BY <1>15, OnlyOne DEF SectorAnswered, Go, Awake, Ask, Advance, NextSector
<1>16. ASSUME NEW t \in Threads, FirstRequest(t) PROVE SleepInv'
    BY <1>16, OnlyOne DEF FirstRequest, Go, Awake, Ask
<1>17. ASSUME NEW t \in Threads, OtherAnswered(t) PROVE SleepInv'
    BY <1>17, OnlyOne DEF OtherAnswered, Go, Awake, Ask
<1>18. ASSUME NEW t \in Threads, ReadRomSync(t) PROVE SleepInv'
    BY <1>18, OnlyOne DEF ReadRomSync, Go, Awake
<1>19. ASSUME TaskThread PROVE SleepInv'
    BY <1>19 DEF TaskThread, Go, Awake, Sleep, Entry
<1>20. ASSUME CancelBackupAsync PROVE SleepInv'
    BY <1>20 DEF CancelBackupAsync
<1>21. ASSUME OnFifoRecvARM9 PROVE SleepInv'
    BY <1>21 DEF OnFifoRecvARM9, WakeupDirect
<1>22. ASSUME OnReadCard PROVE SleepInv'
    BY <1>22 DEF OnReadCard, EndTask, JobOf, NoCall, Wakeup
<1>23. CASE \/ OnFifoRecvARM7 \/ TakeRequest \/ Execute \/ EndRequest \/ EndCompare
            \/ CompareCardID
            \/ UNCHANGED vars
    <2>1. UNCHANGED <<pc, asleep, lock, flag>>
        BY <1>23 DEF vars, OnFifoRecvARM7, TakeRequest, Execute, EndRequest, EndCompare,
           CompareCardID
    <2> QED
        BY <2>1
<1> QED
    BY <1>1, <1>2, <1>3, <1>4, <1>5, <1>6, <1>7, <1>8, <1>9, <1>10, <1>11, <1>12, <1>13, <1>14,
       <1>15, <1>16, <1>17, <1>18, <1>19, <1>20, <1>21, <1>22, <1>23 DEF Next, Run, ARM7

LEMMA Arm7Wakes == ASSUME CardConstants, CardInv, [Next]_vars PROVE Arm7Inv'
<1> USE DEF CardInv, TypeInv, Arm7Type, Arm7Inv, ChannelInv
<1>1. ASSUME OnFifoRecvARM7 PROVE Arm7Inv'
    BY <1>1 DEF OnFifoRecvARM7
<1>2. ASSUME TakeRequest PROVE Arm7Inv'
    BY <1>2 DEF TakeRequest
<1>3. ASSUME Execute PROVE Arm7Inv'
    BY <1>3 DEF Execute, Holds
<1>4. ASSUME EndRequest PROVE Arm7Inv'
    BY <1>4 DEF EndRequest, EndTaskARM7
<1>5. ASSUME EndCompare PROVE Arm7Inv'
    BY <1>5 DEF EndCompare, EndTaskARM7
<1>6. ASSUME CompareCardID PROVE Arm7Inv'
    BY <1>6 DEF CompareCardID
<1>7. CASE \/ \E c \in Clients :
                 \/ LockResource(c) \/ UnlockResource(c) \/ WaitTask(c) \/ SetTask(c)
                 \/ Return(c) \/ WaitAsync(c)
           \/ \E c \in Clients : \E op \in Operations[c] : Call(c, op)
           \/ \E t \in Threads :
                 \/ End(t) \/ SendRequest(t) \/ AwaitAck(t) \/ StreamPage(t)
                 \/ StreamAnswered(t) \/ Sector(t) \/ SectorPage(t) \/ SectorAnswered(t)
                 \/ FirstRequest(t) \/ OtherAnswered(t) \/ ReadRomSync(t)
           \/ TaskThread \/ CancelBackupAsync \/ OnFifoRecvARM9 \/ OnReadCard
           \/ UNCHANGED vars
    <2>1. UNCHANGED arm7
        BY <1>7 DEF vars, LockResource, UnlockResource, WaitTask, SetTask, Return, WaitAsync,
           Call, End, SendRequest, AwaitAck, StreamPage, StreamAnswered, Sector, SectorPage,
           SectorAnswered, FirstRequest, OtherAnswered, ReadRomSync, TaskThread,
           CancelBackupAsync, OnFifoRecvARM9, OnReadCard
    <2> QED
        BY <2>1
<1> QED
    BY <1>1, <1>2, <1>3, <1>4, <1>5, <1>6, <1>7 DEF Next, Run, ARM7

-----------------------------------------------------------------------------
(* Theorems *)

LEMMA CardInit == CardConstants /\ Init => CardInv
<1> SUFFICES ASSUME CardConstants, Init PROVE CardInv
    OBVIOUS
<1> USE DEF Init, CardConstants, Threads, JobOf, NoCall
<1>1. WordType
    BY DEF WordType, Results
<1>11. BitType /\ LockType
    BY DEF BitType, LockType
<1>12. RequestType
    BY CardAssumption DEF RequestType, RequestTypes
<1>2. JobType /\ CallType
    BY CardAssumption DEF JobType, CallType, Kinds, Results
<1>3. PlaceType /\ QueueType
    BY DEF PlaceType, QueueType, CardPlaces, Outside
<1>4. Arm7Type
    BY DEF Arm7Type, RequestTypes
<1>5. OwnerInv
    BY CardAssumption DEF OwnerInv, Outside
<1>6. JobInv /\ PhaseInv /\ LenInv
    BY CardAssumption DEF JobInv, PhaseInv, LenInv, Operating, Asking
<1>7. ChannelInv /\ ReadingInv
    BY DEF ChannelInv, ReadingInv, NothingSent
<1>8. KindInv /\ CountInv /\ PagesInv
    BY DEF KindInv, CountInv, PagesInv, Writing, Wanted
<1>9. ResultInv
    BY CardAssumption DEF ResultInv
<1>10. WakeInv /\ SleepInv /\ Arm7Inv
    BY CardAssumption DEF WakeInv, SleepInv, Arm7Inv, Steps, Asking
<1> QED
    BY <1>1, <1>2, <1>3, <1>4, <1>5, <1>6, <1>7, <1>8, <1>9, <1>10, <1>11, <1>12
       DEF CardInv, TypeInv

LEMMA CardNext == CardConstants /\ CardInv /\ [Next]_vars => CardInv'
<1> SUFFICES ASSUME CardConstants, CardInv, [Next]_vars PROVE CardInv'
    OBVIOUS
<1>1. TypeInv'
    BY WordNext, BitNext, LockNext, JobNextType, RequestNext, PlaceNext, QueueNext, CallNext,
       Arm7Next
       DEF TypeInv
<1> QED
    BY <1>1, OwnerNext, JobNext, PhaseNext, LenNext, ChannelNext, ReadingNext, KindNext,
       CountNext, PagesNext, ResultNext, WakeNext, SleepNext, Arm7Wakes
       DEF CardInv

\* The inductive invariant.
THEOREM CardInvariant == CardConstants => (Spec => []CardInv)
<1> SUFFICES ASSUME CardConstants PROVE Spec => []CardInv
    OBVIOUS
<1>1. Init => CardInv
    BY CardInit
<1>2. CardInv /\ [Next]_vars => CardInv'
    BY CardNext
<1> QED
    BY <1>1, <1>2, PTL DEF Spec

\* The operations of the card are in order: one at a time has it, whether the client
\* that asked for it executes it, the task thread or a DMA; the task is busy as long
\* as one does, and the card is the client's for whom it works, through nested locks,
\* asynchronous calls and calls on top of an operation that has not ended.
THEOREM CardAlwaysOrdered == CardConstants => (Spec => []CardIsOrdered)
<1>1. CardInv => CardIsOrdered
    <2> SUFFICES ASSUME CardInv PROVE CardIsOrdered
        OBVIOUS
    <2>1. TypeOK
        BY TypeInvTypes DEF CardInv
    <2>2. Cardinality({t \in Threads : Operating(t)}) <= 1
        <3>1. \A t, u \in Threads : Operating(t) /\ Operating(u) => t = u
            BY DEF CardInv, JobInv, Threads
        <3>2. CASE {t \in Threads : Operating(t)} = {}
            BY <3>2, FS_EmptySet
        <3>3. CASE \E t \in Threads : {u \in Threads : Operating(u)} = {t}
            BY SMTT(30), <3>3, FS_Singleton
        <3> QED
            BY <3>1, <3>2, <3>3
    <2>3. (\E t \in Threads : Operating(t)) => "BUSY" \in flag
        BY DEF CardInv, JobInv, Threads
    <2>4. "BUSY" \in flag => lock.owner = job.client
        BY DEF CardInv, JobInv
    <2>5. \A c \in Clients :
             pc[c] \in {"locked", "async", "unlock", "waittask", "waitasync", "return"}
                 => lock.owner = c
        BY DEF CardInv, OwnerInv, Outside
    <2> QED
        BY <2>1, <2>2, <2>3, <2>4, <2>5 DEF CardIsOrdered, OneOperation
<1> QED
    BY <1>1, CardInvariant, PTL

\* A verified write that ends with SUCCESS has put every page on the device, and the
\* result its client reads is that of its own operation - but for the two ways the
\* code has to lose a failure, which excused tells.
THEOREM SuccessIsDone == CardConstants => (Spec => []SuccessMeansDone)
<1>1. CardInv => SuccessMeansDone
    <2> SUFFICES ASSUME CardInv, NEW c \in Clients, pc[c] = "return", ~excused
                 PROVE  /\ result = own[c]
                        /\ (result = "SUCCESS" /\ call[c].kind \in {"stream", "sector"}
                              /\ call[c].verify) => \A p \in 0 .. call[c].len - 1 : page[p] = p
        BY DEF SuccessMeansDone
    <2>1. "BUSY" \notin flag
        BY DEF CardInv, OwnerInv, JobInv, Outside
    <2> QED
        BY <2>1 DEF CardInv, ResultInv, Verified
<1> QED
    BY <1>1, CardInvariant, PTL

LEMMA CardSleeps == CardInv => SleepersHaveReason
<1> SUFFICES ASSUME CardInv PROVE SleepersHaveReason
    OBVIOUS
<1>1. \A t \in Threads :
         /\ asleep[t] = "lock" => lock.owner # NoOwner
         /\ asleep[t] = "busy" => "BUSY" \in flag
         /\ asleep[t] = "direct" =>
               IF pc[t] = "wait" THEN "TASK" \notin flag ELSE "REQ" \in flag
    BY DEF CardInv, SleepInv
<1>2. arm7.asleep => "RECV" \notin arm7.flag \/ "BUSY" \in arm7.flag
    BY DEF CardInv, Arm7Inv
<1>3. "REQ" \in flag => \/ toARM7 # <<>> \/ toARM9 # <<>>
                       \/ "RECV" \in arm7.flag \/ arm7.pc = "execute"
    BY DEF CardInv, ChannelInv, Sent
<1> QED
    BY <1>1, <1>2, <1>3 DEF SleepersHaveReason

\* Nobody sleeps for what has come: neither a client for the lock, for the end of an
\* operation or for an answer, nor the task thread for a task, nor the ARM7's thread
\* for a request; and a request that is waited for is on its way or being executed.
THEOREM SleepersWait == CardConstants => (Spec => []SleepersHaveReason)
    BY CardSleeps, CardInvariant, PTL

-----------------------------------------------------------------------------
(* The command queue of an archive.                                        *)

HIDE CardAssumption
USE FilesAssumption

-----------------------------------------------------------------------------
(* Removing files from the list.                                           *)

\* Without keeps the files that are not in fs, each once if it was there once, and
\* the first one if it is among them.
HasFile(s, f) == \E i \in 1 .. Len(s) : s[i] = f
Once(s) == \A i, j \in 1 .. Len(s) : s[i] = s[j] => i = j
IsWithout(t, s, fs) ==
    /\ t \in Seq(Files)
    /\ \A f \in Files : HasFile(t, f) <=> f \notin fs /\ HasFile(s, f)
    /\ Once(s) => Once(t)
    /\ Len(s) # 0 /\ s[1] \notin fs => Len(t) # 0 /\ t[1] = s[1]

\* A set of numbers has a least one.
LEMMA Least ==
    ASSUME NEW T, T \subseteq Nat, T # {}
    PROVE  \E m \in T : \A k \in T : ~(k < m)
<1>1. PICK m \in T : \A k \in T : <<k, m>> \notin OpToRel(<, Nat)
    BY WFMin, NatLessThanWellFounded
<1> QED
    BY <1>1 DEF OpToRel

\* Induction up to n, for a set: it holds 0, and each number with the one before.
LEMMA Stepwise ==
    ASSUME NEW n \in Nat, NEW T, 0 \in T, \A i \in 1 .. n : i - 1 \in T => i \in T
    PROVE  \A i \in 0 .. n : i \in T
<1> SUFFICES ASSUME NEW i \in 0 .. n, i \notin T PROVE FALSE
    OBVIOUS
<1> DEFINE R == (0 .. n) \ T
<1>1. R \subseteq Nat /\ R # {}
    OBVIOUS
<1>2. PICK m \in R : \A k \in R : ~(k < m)
    <2> HIDE DEF R
    <2> QED
        BY <1>1, Least
<1> QED
    BY <1>2

\* What the recursive definition of Without says of a function.
Keeps(s, fs, g, i) ==
    IF i = 0 THEN <<>>
    ELSE IF s[i] \in fs THEN g[i - 1]
    ELSE Append(g[i - 1], s[i])

\* The recursive definition defines the function it describes.
LEMMA WithoutIsDefined ==
    ASSUME NEW s \in Seq(Files), NEW fs
    PROVE  \E g : /\ g = [i \in 0 .. Len(s) |-> Keeps(s, fs, g, i)]
                  /\ Without(s, fs) = g[Len(s)]
<1> DEFINE T == {n \in 0 .. Len(s) : \E g : g = [i \in 0 .. n |-> Keeps(s, fs, g, i)]}
           f == CHOOSE g : g = [i \in 0 .. Len(s) |-> Keeps(s, fs, g, i)]
<1>0. Len(s) \in Nat
    OBVIOUS
<1>1. 0 \in T
    <2> DEFINE g == [i \in 0 .. 0 |-> <<>>]
    <2>1. g = [i \in 0 .. 0 |-> Keeps(s, fs, g, i)]
        BY DEF Keeps
    <2> QED
        BY <2>1
<1>2. ASSUME NEW n \in 1 .. Len(s), n - 1 \in T PROVE n \in T
    <2>1. PICK g : g = [i \in 0 .. n - 1 |-> Keeps(s, fs, g, i)]
        BY <1>2
    <2> DEFINE h == [i \in 0 .. n |-> IF i = n THEN Keeps(s, fs, g, n) ELSE g[i]]
    <2>2. ASSUME NEW i \in 0 .. n PROVE h[i] = Keeps(s, fs, h, i)
        <3>1. i = 0 \/ h[i - 1] = g[i - 1]
            <4>1. i # 0 => i - 1 \in 0 .. n /\ i - 1 # n
                OBVIOUS
            <4> QED
                BY <4>1
        <3>2. CASE i = n
            BY <3>1, <3>2 DEF Keeps
        <3>3. CASE i # n
            <4>1. g[i] = Keeps(s, fs, g, i)
                <5> HIDE DEF h
                <5> QED
                    BY SMTT(30), <2>1, <3>3
            <4>2. h[i] = g[i]
                BY <3>3
            <4>3. Keeps(s, fs, g, i) = Keeps(s, fs, h, i)
                <5> HIDE DEF h
                <5> QED
                    BY <3>1 DEF Keeps
            <4> QED
                BY <4>1, <4>2, <4>3
        <3> QED
            BY <3>2, <3>3
    <2>3. h = [i \in 0 .. n |-> h[i]]
        OBVIOUS
    <2>4. h = [i \in 0 .. n |-> Keeps(s, fs, h, i)]
        <3> HIDE DEF h
        <3> QED
            BY <2>2, <2>3
    <2> HIDE DEF h
    <2> QED
        BY <2>4
<1>3. Len(s) \in T
    <2>1. \A i \in 1 .. Len(s) : i - 1 \in T => i \in T
        BY <1>2
    <2> HIDE DEF T
    <2>2. \A i \in 0 .. Len(s) : i \in T
        BY <1>0, <1>1, <2>1, Stepwise
    <2> QED
        BY <1>0, <2>2
<1>4. f = [i \in 0 .. Len(s) |-> Keeps(s, fs, f, i)]
    BY <1>3
<1>5. Without(s, fs) = f[Len(s)]
    BY DEF Without, Keeps
<1> QED
    BY <1>4, <1>5

\* What Without returns: by induction over the length of what has been looked at.
LEMMA WithoutKeeps ==
    ASSUME NEW s \in Seq(Files), NEW fs
    PROVE  IsWithout(Without(s, fs), s, fs)
<1>1. PICK g : /\ g = [i \in 0 .. Len(s) |-> Keeps(s, fs, g, i)]
               /\ Without(s, fs) = g[Len(s)]
    BY WithoutIsDefined
<1> DEFINE K(n) == /\ g[n] \in Seq(Files)
                   /\ \A f \in Files :
                         HasFile(g[n], f) <=> f \notin fs /\ \E i \in 1 .. n : s[i] = f
                   /\ Once(s) => Once(g[n])
                   /\ n # 0 /\ s[1] \notin fs => Len(g[n]) # 0 /\ g[n][1] = s[1]
           T == {n \in 0 .. Len(s) : K(n)}
<1>0. Len(s) \in Nat /\ DOMAIN s = 1 .. Len(s)
    OBVIOUS
<1>2. \A n \in 0 .. Len(s) : g[n] = Keeps(s, fs, g, n)
    BY <1>1
<1>3. 0 \in T
    <2>1. g[0] = <<>>
        BY <1>0, <1>2 DEF Keeps
    <2>2. K(0)
        BY <1>0, <2>1 DEF HasFile, Once
    <2> HIDE DEF K
    <2> QED
        BY <1>0, <2>2
<1>4. ASSUME NEW n \in 1 .. Len(s), n - 1 \in T PROVE n \in T
    <2> DEFINE u == g[n - 1]
               v == g[n]
    <2>1. K(n - 1) /\ n \in Nat /\ n - 1 \in 0 .. Len(s) /\ s[n] \in Files
        BY <1>0, <1>4
    <2>2. v = IF s[n] \in fs THEN u ELSE Append(u, s[n])
        BY <1>0, <1>2 DEF Keeps
    <2>3. CASE s[n] \in fs
        <3>1. n # 1 \/ s[1] \in fs
            BY <2>3
        <3>2. \A f \in Files :
                 f \notin fs => ((\E i \in 1 .. n : s[i] = f) <=> \E i \in 1 .. n - 1 : s[i] = f)
            BY <1>0, <2>1, <2>3
        <3>3. K(n - 1) => K(n)
            <4>1. v = u
                BY <2>2, <2>3
            <4>2. n # 0 /\ s[1] \notin fs => n - 1 # 0 /\ s[1] \notin fs
                BY <2>1, <3>1
            <4> QED
                BY <2>1, <2>3, <3>2, <4>1, <4>2
        <3> HIDE DEF K
        <3> QED
            BY <1>0, <2>1, <3>3
    <2>4. CASE s[n] \notin fs
        <3>1. /\ v \in Seq(Files) /\ Len(v) = Len(u) + 1 /\ v[Len(u) + 1] = s[n]
              /\ \A k \in 1 .. Len(u) : v[k] = u[k]
              /\ Len(u) \in Nat
            BY <2>1, <2>2, <2>4, AppendProperties
        <3> HIDE DEF v, u
        <3>2. \A f \in Files : HasFile(v, f) <=> HasFile(u, f) \/ f = s[n]
            <4> SUFFICES ASSUME NEW f \in Files PROVE HasFile(v, f) <=> HasFile(u, f) \/ f = s[n]
                OBVIOUS
            <4>1. Len(u) + 1 \in 1 .. Len(v)
                BY <3>1
            <4>2. \A k \in 1 .. Len(v) : k \in 1 .. Len(u) \/ k = Len(u) + 1
                BY <3>1
            <4>3. \A k \in 1 .. Len(u) : k \in 1 .. Len(v)
                BY <3>1
            <4> QED
                BY <3>1, <4>1, <4>2, <4>3 DEF HasFile
        <3>3. \A f \in Files : HasFile(v, f) <=> f \notin fs /\ \E i \in 1 .. n : s[i] = f
            <4>1. \A f \in Files : HasFile(u, f) <=> f \notin fs /\ \E i \in 1 .. n - 1 : s[i] = f
                BY <2>1 DEF u
            <4>2. \A f \in Files :
                     (\E i \in 1 .. n : s[i] = f) <=> (f = s[n] \/ \E i \in 1 .. n - 1 : s[i] = f)
                BY <1>0, <2>1
            <4> QED
                BY <2>4, <3>2, <4>1, <4>2
        <3>4. Once(s) => Once(v)
            <4> SUFFICES ASSUME Once(s) PROVE Once(v)
                OBVIOUS
            <4>1. Once(u) /\ \A f \in Files : HasFile(u, f) => \E i \in 1 .. n - 1 : s[i] = f
                BY <2>1 DEF u
            <4>2. \A i \in 1 .. n - 1 : s[i] # s[n]
                BY <1>0 DEF Once
            <4>3. \A k \in 1 .. Len(u) : u[k] # s[n]
                BY <2>1, <4>1, <4>2 DEF HasFile
            <4>4. \A k \in 1 .. Len(v) : k \in 1 .. Len(u) \/ k = Len(u) + 1
                BY <3>1
            <4> SUFFICES ASSUME NEW i \in 1 .. Len(v), NEW j \in 1 .. Len(v), v[i] = v[j]
                         PROVE  i = j
                BY DEF Once
            <4> QED
                BY <3>1, <4>1, <4>3, <4>4 DEF Once
        <3>5. s[1] \notin fs => Len(v) # 0 /\ v[1] = s[1]
            <4>1. CASE n = 1
                <5>1. Len(u) = 0
                    <6>1. g[0] = <<>>
                        BY <1>0, <1>2 DEF Keeps
                    <6> QED
                        BY <6>1, <4>1 DEF u
                <5> QED
                    BY <3>1, <4>1, <5>1
            <4>2. CASE n # 1
                <5>1. s[1] \notin fs => Len(u) # 0 /\ u[1] = s[1]
                    BY <2>1, <4>2 DEF u
                <5> QED
                    BY <3>1, <5>1
            <4> QED
                BY <4>1, <4>2
        <3>6. K(n)
            BY <3>1, <3>3, <3>4, <3>5 DEF v
        <3> HIDE DEF K
        <3> QED
            BY <1>0, <3>6
    <2> QED
        BY <2>3, <2>4
<1>5. Len(s) \in T
    <2>1. \A i \in 1 .. Len(s) : i - 1 \in T => i \in T
        BY <1>4
    <2> HIDE DEF T
    <2>2. \A i \in 0 .. Len(s) : i \in T
        BY <1>0, <1>3, <2>1, Stepwise
    <2> QED
        BY <1>0, <2>2
<1>6. K(Len(s))
    BY <1>5
<1> QED
    BY <1>1, <1>6 DEF IsWithout, HasFile
-----------------------------------------------------------------------------
(* The inductive invariant.  What it says of a command holds as long as no *)
(* thread has taken another one for it.                                    *)

Bits == {"BUSY", "SYNC", "OPERATING", "CANCEL"}
Flags == {"LOADED", "RUNNING", "SUSPENDING", "SUSPEND", "CANCELING", "IS_SYNC", "IS_ASYNC"}
Codes == {"SUCCESS", "BUSY", "CANCELED", "ERROR", "UNSUPPORTED"}

FlagType == arcFlag \subseteq Flags /\ overtaken \in BOOLEAN
ListType == list \in Seq(Files)
StatType == stat \in [Files -> SUBSET Bits]
ErrorType == error \in [Files -> Codes] /\ command \in [Files -> Commands]
DeviceType == device \in Files \cup {NoFile} /\ romLocked \in BOOLEAN
AtType == at \in [Processes -> Places] /\ cur \in [Processes -> Files \cup {NoFile}]
DormantType == dormant \in [Processes -> BOOLEAN]

\* Where a thread is at work for a file, and where it waits for its own.
FileType ==
    \A p \in Processes :
        /\ at[p] \in {"activate", "translate", "called", "sync?", "release"} => cur[p] \in Files
        /\ at[p] \in {"operating?", "busy?"} => p \in Files /\ cur[p] = p
        /\ at[p] \in {"suspending?", "suspended", "unloaded"} => p = "manager"

ArchiveType ==
    FlagType /\ ListType /\ StatType /\ ErrorType /\ DeviceType /\ AtType /\ DormantType
    /\ FileType

Executes(p) ==
    \/ at[p] \in {"activate", "translate", "release", "next"}
    \/ at[p] \in {"called", "sync?"} /\ p = cur[p] /\ IsSync(p)
    \/ at[p] = "operating?" /\ "OPERATING" \in stat[p]
CardExecutes == device # NoFile /\ ~IsSync(device)

\* One thread, callback or device has the archive while it runs, and nobody else.
TokenInv ==
    /\ \A p, q \in Processes : Executes(p) /\ Executes(q) => p = q
    /\ CardExecutes => \A p \in Processes : ~Executes(p)
    /\ "RUNNING" \in arcFlag <=> CardExecutes \/ \E p \in Processes : Executes(p)

\* The list holds the busy files, each once.
ListInv ==
    /\ Once(list)
    /\ \A f \in Files : HasFile(list, f) <=> "BUSY" \in stat[f]
    /\ \A f \in Files : stat[f] # {} => "BUSY" \in stat[f]

\* An archive at rest that is not suspended has nothing to do.
RestInv == "SUSPEND" \notin arcFlag /\ "RUNNING" \notin arcFlag => Len(list) = 0

\* The command that operates is the first, and somebody has taken it up.
HeadInv ==
    /\ \A f \in Files :
          "OPERATING" \in stat[f] => Len(list) # 0 /\ f = list[1] /\ "RUNNING" \in arcFlag
    /\ \A p \in Processes :
          /\ at[p] \in {"activate", "next"} => \A f \in Files : "OPERATING" \notin stat[f]
          /\ at[p] = "activate" => Len(list) # 0 /\ cur[p] = list[1]
          /\ at[p] \in {"translate", "release"} => "OPERATING" \in stat[cur[p]]
          /\ at[p] = "release" => p = cur[p] /\ IsSync(p)
          /\ at[p] \in {"called", "sync?"} /\ p = cur[p] /\ IsSync(p) => "OPERATING" \in stat[p]
          /\ at[p] = "sync?" => p = cur[p] /\ IsSync(p)

\* The device reads for the command that operates, in the mode the archive's flags tell.
DeviceInv ==
    /\ device # NoFile => "OPERATING" \in stat[device]
    /\ device # NoFile /\ IsSync(device) =>
          at[device] \in {"called", "sync?"} /\ cur[device] = device
    /\ "IS_ASYNC" \in arcFlag <=> device # NoFile /\ ~IsSync(device)
    /\ "IS_SYNC" \in arcFlag <=> device # NoFile /\ IsSync(device)
    /\ romLocked <=> "RUNNING" \in arcFlag /\ \A p \in Processes : at[p] # "activate"

\* A command that is waited for has its thread there.
SyncInv ==
    \A f \in Files :
        /\ IsSync(f) => /\ at[f] \in {"operating?", "activate", "translate", "called", "sync?",
                                      "release"}
                        /\ cur[f] = f
        /\ at[f] = "operating?" => IsSync(f) \/ (stat[f] = {} /\ error[f] = "CANCELED")

\* The flags of a suspension are there as long as the manager is.
SuspendInv ==
    /\ "RUNNING" \in arcFlag => "SUSPEND" \notin arcFlag
    /\ "SUSPENDING" \in arcFlag =>
          "RUNNING" \in arcFlag /\ at["manager"] = "suspending?" /\ dormant["manager"]
    /\ "SUSPEND" \in arcFlag <=> \/ at["manager"] = "suspended"
                                 \/ at["manager"] = "suspending?" /\ ~dormant["manager"]

\* Who sleeps has not been given what it sleeps for.
DormantInv ==
    \A p \in Processes :
        dormant[p] =>
            /\ at[p] \in {"operating?", "busy?", "sync?", "suspending?"}
            /\ at[p] = "operating?" => "OPERATING" \notin stat[p]
            /\ at[p] = "busy?" => "BUSY" \in stat[p]
            /\ at[p] = "sync?" => device = p

ArchiveInv ==
    /\ ArchiveType
    /\ ~overtaken => /\ TokenInv /\ ListInv /\ RestInv /\ HeadInv /\ DeviceInv /\ SyncInv
                     /\ SuspendInv /\ DormantInv

-----------------------------------------------------------------------------
(* What FSi_NextCommand does: the commands of gone are removed; then the   *)
(* archive rests, hands the first command to the thread that waits for it, *)
(* executes it, or begins with it.                                         *)
Removes(gone) ==
    /\ IsWithout(list', list, gone)
    /\ \A f \in gone : HasFile(list, f)
    /\ error' = [f \in Files |-> IF f \in gone THEN "CANCELED" ELSE error[f]]
    /\ UNCHANGED <<command, device>>
Rests(p, flags, gone) ==
    /\ {"SUSPENDING", "SUSPEND"} \cap flags # {} \/ Len(list') = 0
    /\ arcFlag' = (flags \ {"CANCELING", "RUNNING", "SUSPENDING"})
                    \cup (IF "SUSPENDING" \in flags THEN {"SUSPEND"} ELSE {})
    /\ romLocked' = (romLocked /\ "RUNNING" \notin flags)
    /\ stat' = [f \in Files |-> IF f \in gone THEN {} ELSE stat[f]]
    /\ dormant' = [q \in Processes |-> /\ dormant[q]
                                       /\ ~(q \in gone /\ at[q] \in {"operating?", "busy?"})
                                       /\ ~("SUSPENDING" \in flags /\ at[q] = "suspending?")]
    /\ at' = [at EXCEPT ![p] = "idle"] /\ cur' = [cur EXCEPT ![p] = NoFile]
GoesOn(flags) ==
    /\ {"SUSPENDING", "SUSPEND"} \cap flags = {} /\ Len(list') # 0
    /\ list'[1] \in Files /\ HasFile(list', list'[1])
    /\ arcFlag' = (flags \ {"CANCELING"}) \cup {"RUNNING"}
    /\ romLocked' = romLocked
Operates(gone) ==
    stat' = [f \in Files |-> IF f \in gone THEN {}
                             ELSE IF f = list'[1] THEN stat[f] \cup {"OPERATING"}
                             ELSE stat[f]]
HandsOver(p, flags, gone) ==
    /\ GoesOn(flags) /\ Operates(gone) /\ "RUNNING" \in flags /\ IsSync(list'[1])
    /\ WakeFiles(gone \cup {list'[1]})
    /\ at' = [at EXCEPT ![p] = "idle"] /\ cur' = [cur EXCEPT ![p] = NoFile]
TakesUp(p, flags, gone) ==
    /\ GoesOn(flags) /\ Operates(gone) /\ "RUNNING" \in flags /\ ~IsSync(list'[1])
    /\ WakeFiles(gone)
    /\ at' = [at EXCEPT ![p] = "translate"] /\ cur' = [cur EXCEPT ![p] = list'[1]]
Begins(p, flags, gone) ==
    /\ GoesOn(flags) /\ "RUNNING" \notin flags
    /\ stat' = [f \in Files |-> IF f \in gone THEN {} ELSE stat[f]]
    /\ WakeFiles(gone)
    /\ at' = [at EXCEPT ![p] = "activate"] /\ cur' = [cur EXCEPT ![p] = list'[1]]

\* The first of the list, and its files as a set.
LEMMA HeadFile ==
    ASSUME NEW s \in Seq(Files)
    PROVE  /\ s # <<>> <=> Len(s) # 0
           /\ Len(s) # 0 => Head(s) = s[1] /\ s[1] \in Files /\ HasFile(s, s[1])
           /\ \A f : f \in ToSet(s) <=> HasFile(s, f)
           /\ (\A f \in Files : ~HasFile(s, f)) => Len(s) = 0
<1>1. Len(s) # 0 => Head(s) = s[1] /\ s[1] \in Files /\ 1 \in 1 .. Len(s)
    OBVIOUS
<1> QED
    BY <1>1 DEF HasFile, ToSet

LEMMA NextOutcomes ==
    ASSUME ListType, NEW p, NEW flags, NextCommand(p, flags)
    PROVE  \E gone \in SUBSET Files :
              /\ Removes(gone)
              /\ \/ Rests(p, flags, gone)
                 \/ HandsOver(p, flags, gone)
                 \/ TakesUp(p, flags, gone)
                 \/ Begins(p, flags, gone)
<1> DEFINE gone == Cancelled(flags)
<1>1. gone \in SUBSET Files /\ \A f \in gone : HasFile(list, f)
    BY DEF ListType, Cancelled, ToSet, HasFile
<1>2. list' = Without(list, gone) /\ IsWithout(list', list, gone)
    BY WithoutKeeps DEF ListType, NextCommand
<1>3. list' \in Seq(Files) /\ (list' # <<>> => Head(list') = list'[1] /\ list'[1] \in Files)
    BY <1>2 DEF IsWithout
<1>4. Len(list') = 0 <=> list' = <<>>
    BY <1>3
<1>5. Removes(gone)
    BY <1>1, <1>2 DEF Removes, NextCommand
<1> DEFINE starts == {"SUSPENDING", "SUSPEND"} \cap flags = {} /\ list' # <<>>
<1>6. CASE ~starts
    <2>1. Rests(p, flags, gone)
        BY <1>2, <1>4, <1>6 DEF NextCommand, Rests, Leave, Goes
    <2> QED
        BY <1>1, <1>5, <2>1
<1>7. CASE starts
    <2>1. GoesOn(flags)
        <3>1. HasFile(list', list'[1])
            BY <1>3, <1>4, <1>7, HeadFile
        <3> QED
            BY <1>2, <1>3, <1>4, <1>7, <3>1 DEF NextCommand, GoesOn
    <2>2. CASE "RUNNING" \in flags
        <3>1. Operates(gone)
            BY <1>2, <1>3, <1>7, <2>2 DEF NextCommand, Operates
        <3>2. CASE IsSync(list'[1])
            <4>1. HandsOver(p, flags, gone)
                <5>1. {f \in {list'[1]} : IsSync(f)} = {list'[1]}
                    BY <3>2
                <5>2. WakeFiles(gone \cup {list'[1]})
                    <6>1. WakeFiles(gone \cup {f \in {Head(list')} : IsSync(f)})
                        BY <1>2, <1>7, <2>2 DEF NextCommand
                    <6>2. {f \in {Head(list')} : IsSync(f)} = {list'[1]}
                        BY <1>3, <1>7, <5>1
                    <6>3. gone \cup {f \in {Head(list')} : IsSync(f)} = gone \cup {list'[1]}
                        BY <6>2
                    <6> HIDE DEF gone
                    <6> QED
                        BY <6>1, <6>3 DEF WakeFiles
                <5>3. Leave(p)
                    BY <1>2, <1>3, <1>7, <2>2, <3>2 DEF NextCommand
                <5> QED
                    BY <2>1, <2>2, <3>1, <3>2, <5>2, <5>3 DEF HandsOver, Leave, Goes
            <4> QED
                BY <1>1, <1>5, <4>1
        <3>3. CASE ~IsSync(list'[1])
            <4>1. TakesUp(p, flags, gone)
                <5>1. {f \in {list'[1]} : IsSync(f)} = {}
                    BY <3>3
                <5>2. WakeFiles(gone)
                    <6>1. WakeFiles(gone \cup {f \in {Head(list')} : IsSync(f)})
                        BY <1>2, <1>7, <2>2 DEF NextCommand
                    <6>2. gone \cup {f \in {Head(list')} : IsSync(f)} = gone
                        BY <1>3, <1>7, <5>1
                    <6> HIDE DEF gone
                    <6> QED
                        BY <6>1, <6>2 DEF WakeFiles
                <5>3. Goes(p, "translate", list'[1])
                    BY <1>2, <1>3, <1>7, <2>2, <3>3 DEF NextCommand
                <5> QED
                    BY <2>1, <2>2, <3>1, <3>3, <5>2, <5>3 DEF TakesUp, Goes
            <4> QED
                BY <1>1, <1>5, <4>1
        <3> QED
            BY <3>2, <3>3
    <2>3. CASE "RUNNING" \notin flags
        <3>1. Begins(p, flags, gone)
            BY <1>2, <1>3, <1>7, <2>1, <2>3 DEF NextCommand, Begins, Goes
        <3> QED
            BY <1>1, <1>5, <3>1
    <2> QED
        BY <2>2, <2>3
<1> QED
    BY <1>6, <1>7

\* A command is put at the end of the list.
LEMMA AppendedFile ==
    ASSUME NEW s \in Seq(Files), NEW f \in Files
    PROVE  /\ Append(s, f) \in Seq(Files)
           /\ \A g \in Files : HasFile(Append(s, f), g) <=> HasFile(s, g) \/ g = f
           /\ Once(s) /\ ~HasFile(s, f) => Once(Append(s, f))
           /\ Len(Append(s, f)) # 0
           /\ Append(s, f)[1] = IF Len(s) = 0 THEN f ELSE s[1]
<1> DEFINE t == Append(s, f)
<1>1. /\ t \in Seq(Files) /\ Len(t) = Len(s) + 1 /\ t[Len(s) + 1] = f /\ Len(s) \in Nat
      /\ \A k \in 1 .. Len(s) : t[k] = s[k]
    BY AppendProperties
<1> HIDE DEF t
<1>2. \A k \in 1 .. Len(t) : k \in 1 .. Len(s) \/ k = Len(s) + 1
    BY <1>1
<1>3. 1 .. Len(s) \subseteq 1 .. Len(t) /\ Len(s) + 1 \in 1 .. Len(t)
    BY <1>1
<1>4. \A g \in Files : HasFile(t, g) <=> HasFile(s, g) \/ g = f
    BY <1>1, <1>2, <1>3 DEF HasFile
<1>5. ASSUME Once(s), ~HasFile(s, f) PROVE Once(t)
    <2> SUFFICES ASSUME NEW i \in 1 .. Len(t), NEW j \in 1 .. Len(t), t[i] = t[j] PROVE i = j
        BY DEF Once
    <2>1. \A k \in 1 .. Len(s) : s[k] # f
        BY <1>5 DEF HasFile
    <2>2. \A k, l \in 1 .. Len(s) : s[k] = s[l] => k = l
        BY <1>5 DEF Once
    <2>3. i \in 1 .. Len(s) \/ i = Len(s) + 1
        BY <1>2
    <2>4. j \in 1 .. Len(s) \/ j = Len(s) + 1
        BY <1>2
    <2> QED
        BY <1>1, <2>1, <2>2, <2>3, <2>4
<1>6. t[1] = IF Len(s) = 0 THEN f ELSE s[1]
    BY <1>1
<1> QED
    BY <1>1, <1>4, <1>5, <1>6 DEF t

\* What FSi_TranslateCommand does with the command: the device is asked for it, it
\* fails or succeeds at once for the thread that waits, or it ends at once.
Asks(p) ==
    /\ device = NoFile /\ device' = cur[p]
    /\ arcFlag' = arcFlag \cup {IF IsSync(cur[p]) THEN "IS_SYNC" ELSE "IS_ASYNC"}
    /\ at' = [at EXCEPT ![p] = "called"] /\ cur' = [cur EXCEPT ![p] = cur[p]]
    /\ UNCHANGED <<list, stat, error, dormant>>
Replied(p, answer) ==
    /\ IsSync(cur[p])
    /\ arcFlag' = arcFlag \ {"IS_SYNC"}
    /\ error' = [error EXCEPT ![cur[p]] = answer]
    /\ at' = [at EXCEPT ![p] = "release"] /\ cur' = [cur EXCEPT ![p] = cur[p]]
    /\ UNCHANGED <<list, stat, dormant, device>>
Ended(p, answer) ==
    /\ ~IsSync(cur[p])
    /\ arcFlag' = arcFlag \ {"IS_ASYNC"}
    /\ ReleaseCommands({cur[p]}, answer)
    /\ at' = [at EXCEPT ![p] = "next"] /\ cur' = [cur EXCEPT ![p] = NoFile]
    /\ UNCHANGED device

LEMMA TranslateOutcomes ==
    ASSUME ErrorType, AtType, FileType, NEW p \in Processes, Translate(p)
    PROVE  /\ at[p] = "translate" /\ cur[p] \in Files
           /\ UNCHANGED <<command, romLocked, overtaken>>
           /\ \/ Asks(p)
              \/ \E answer \in {"SUCCESS", "UNSUPPORTED"} : Replied(p, answer) \/ Ended(p, answer)
<1>1. at[p] = "translate" /\ cur[p] \in Files /\ UNCHANGED <<command, romLocked, overtaken>>
    BY DEF Translate, FileType
<1>2. command[cur[p]] \in {"READFILE", "WRITEFILE", "OPENFILE"}
    BY <1>1 DEF ErrorType, Commands
<1>3. CASE /\ device = NoFile /\ device' = cur[p]
           /\ arcFlag' = arcFlag \cup {IF IsSync(cur[p]) THEN "IS_SYNC" ELSE "IS_ASYNC"}
           /\ Goes(p, "called", cur[p])
           /\ UNCHANGED <<list, stat, error, dormant>>
    BY <1>1, <1>3 DEF Asks, Goes
<1>4. ASSUME NEW answer \in {"SUCCESS", "UNSUPPORTED"},
             arcFlag' = arcFlag \ {IF IsSync(cur[p]) THEN "IS_SYNC" ELSE "IS_ASYNC"},
             UNCHANGED device,
             IF IsSync(cur[p])
             THEN /\ error' = [error EXCEPT ![cur[p]] = answer]
                  /\ Goes(p, "release", cur[p])
                  /\ UNCHANGED <<list, stat, dormant>>
             ELSE ReleaseCommands({cur[p]}, answer) /\ Goes(p, "next", NoFile)
      PROVE  Replied(p, answer) \/ Ended(p, answer)
    <2>1. CASE IsSync(cur[p])
        BY <1>4, <2>1 DEF Replied, Goes
    <2>2. CASE ~IsSync(cur[p])
        BY <1>4, <2>2 DEF Ended, Goes
    <2> QED
        BY <2>1, <2>2
<1>5. CASE command[cur[p]] = "READFILE"
    BY <1>1, <1>3, <1>5 DEF Translate
<1>6. CASE command[cur[p]] = "WRITEFILE"
    BY <1>1, <1>4, <1>6 DEF Translate
<1>7. CASE command[cur[p]] = "OPENFILE"
    BY <1>1, <1>3, <1>4, <1>7 DEF Translate
<1> QED
    BY <1>2, <1>5, <1>6, <1>7

LEMMA PlaceNames ==
    /\ "idle" \in Places /\ "activate" \in Places /\ "operating?" \in Places
    /\ "translate" \in Places /\ "called" \in Places /\ "sync?" \in Places
    /\ "release" \in Places /\ "next" \in Places /\ "busy?" \in Places
    /\ "suspending?" \in Places /\ "suspended" \in Places /\ "unloaded" \in Places
    BY DEF Places
LEMMA ProcessNames == Files \subseteq Processes /\ "card" \in Processes /\ "manager" \in Processes
    BY DEF Processes

-----------------------------------------------------------------------------
(* The types.                                                              *)
LEMMA FlagTypeNext == ASSUME ArchiveType, [ArchiveNext]_archiveVars PROVE FlagType'
<1> USE DEF ArchiveType, FlagType, Flags
<1>1. ASSUME NEW f \in Files, NEW com \in Commands, NEW async \in BOOLEAN, SendCommand(f, com,
    async) PROVE FlagType'
    BY <1>1 DEF SendCommand, Goes, Leave, AtRest
<1>2. ASSUME NEW f \in Files, WaitFileAsync(f) PROVE FlagType'
    BY <1>2 DEF WaitFileAsync, Goes, FallAsleep
<1>3. ASSUME NEW f \in Files, CancelFile(f) PROVE FlagType'
    BY <1>3 DEF CancelFile
<1>4. ASSUME NEW f \in Files, AwaitOperating(f) PROVE FlagType'
    BY <1>4 DEF AwaitOperating, AwakeAt, Goes, FallAsleep
<1>5. ASSUME NEW f \in Files, AwaitEnd(f) PROVE FlagType'
    BY <1>5 DEF AwaitEnd, AwakeAt, Goes, Leave, FallAsleep
<1>6. ASSUME NEW p \in Processes, Next1(p) PROVE FlagType'
    <2>1. PICK gone \in SUBSET Files : /\ Removes(gone)
                                       /\ \/ Rests(p, arcFlag, gone)
                                          \/ HandsOver(p, arcFlag, gone)
                                          \/ TakesUp(p, arcFlag, gone)
                                          \/ Begins(p, arcFlag, gone)
        BY <1>6, NextOutcomes DEF Next1, ArchiveType
    <2>2. CASE Rests(p, arcFlag, gone)
        BY <1>6, <2>1, <2>2 DEF Rests, Removes, IsWithout, Next1, WakeFiles
    <2>3. CASE HandsOver(p, arcFlag, gone)
        BY <1>6, <2>1, <2>3 DEF HandsOver, GoesOn, Operates, Removes, IsWithout, Next1,
            WakeFiles
    <2>4. CASE TakesUp(p, arcFlag, gone)
        BY <1>6, <2>1, <2>4 DEF TakesUp, GoesOn, Operates, Removes, IsWithout, Next1, WakeFiles
    <2>5. CASE Begins(p, arcFlag, gone)
        BY <1>6, <2>1, <2>5 DEF Begins, GoesOn, Removes, IsWithout, Next1, WakeFiles
    <2> QED
        BY <2>1, <2>2, <2>3, <2>4, <2>5
<1>7. ASSUME NEW p \in Processes, Activate(p) PROVE FlagType'
    BY <1>7 DEF Activate, Goes, Leave, WakeFiles
<1>8. ASSUME NEW p \in Processes, Translate(p) PROVE FlagType'
    <2>1. /\ at[p] = "translate" /\ cur[p] \in Files
          /\ UNCHANGED <<command, romLocked, overtaken>>
          /\ \/ Asks(p)
             \/ \E answer \in {"SUCCESS", "UNSUPPORTED"} : Replied(p, answer) \/ Ended(p,
                 answer)
        BY <1>8, TranslateOutcomes DEF ArchiveType
    <2>2. CASE Asks(p)
        BY <2>1, <2>2 DEF Asks
    <2>3. ASSUME NEW answer \in {"SUCCESS", "UNSUPPORTED"}, Replied(p, answer) PROVE FlagType'
        BY <2>1, <2>3 DEF Replied
    <2>4. ASSUME NEW answer \in {"SUCCESS", "UNSUPPORTED"}, Ended(p, answer) PROVE FlagType'
        BY <2>1, <2>4 DEF Ended, ReleaseCommands, WakeFiles, IsWithout
    <2> QED
        BY <2>1, <2>2, <2>3, <2>4
<1>9. ASSUME NEW p \in Processes, Called(p) PROVE FlagType'
    BY <1>9 DEF Called, Goes, Leave
<1>10. ASSUME NEW p \in Processes, AwaitSync(p) PROVE FlagType'
    BY <1>10 DEF AwaitSync, AwakeAt, Goes, FallAsleep
<1>11. ASSUME NEW p \in Processes, Release(p) PROVE FlagType'
    BY <1>11 DEF Release, ReleaseCommands, WakeFiles, Goes
<1>12. ASSUME NEW ret \in {"SUCCESS", "ERROR"}, NotifyArchiveAsyncEnd(ret) PROVE FlagType'
    BY <1>12 DEF NotifyArchiveAsyncEnd, ReleaseCommands, WakeFiles, WakeSync, Goes
<1>13. ASSUME SuspendArchive PROVE FlagType'
    BY <1>13 DEF SuspendArchive, Goes, FallAsleep
<1>14. ASSUME AwaitSuspended PROVE FlagType'
    BY <1>14 DEF AwaitSuspended, AwakeAt, Goes, FallAsleep
<1>15. ASSUME ResumeArchive PROVE FlagType'
    <2>1. PICK gone \in SUBSET Files : /\ Removes(gone)
                                       /\ \/ Rests("manager", arcFlag \ {"SUSPEND"}, gone)
                                          \/ HandsOver("manager", arcFlag \ {"SUSPEND"}, gone)
                                          \/ TakesUp("manager", arcFlag \ {"SUSPEND"}, gone)
                                          \/ Begins("manager", arcFlag \ {"SUSPEND"}, gone)
        BY <1>15, NextOutcomes DEF ResumeArchive, ArchiveType
    <2>2. CASE Rests("manager", arcFlag \ {"SUSPEND"}, gone)
        BY <1>15, <2>1, <2>2 DEF Rests, Removes, IsWithout, ResumeArchive, WakeFiles
    <2>3. CASE HandsOver("manager", arcFlag \ {"SUSPEND"}, gone)
        BY <1>15, <2>1, <2>3 DEF HandsOver, GoesOn, Operates, Removes, IsWithout,
            ResumeArchive, WakeFiles
    <2>4. CASE TakesUp("manager", arcFlag \ {"SUSPEND"}, gone)
        BY <1>15, <2>1, <2>4 DEF TakesUp, GoesOn, Operates, Removes, IsWithout,
            ResumeArchive, WakeFiles
    <2>5. CASE Begins("manager", arcFlag \ {"SUSPEND"}, gone)
        BY <1>15, <2>1, <2>5 DEF Begins, GoesOn, Removes, IsWithout, ResumeArchive, WakeFiles
    <2> QED
        BY <2>1, <2>2, <2>3, <2>4, <2>5
<1>16. ASSUME UnloadArchive PROVE FlagType'
    BY <1>16 DEF UnloadArchive, ReleaseCommands, WakeFiles, Goes
<1>17. ASSUME LoadArchive PROVE FlagType'
    BY <1>17 DEF LoadArchive, Goes, Leave
<1>18. CASE UNCHANGED archiveVars
    BY <1>18 DEF archiveVars
<1> QED
    BY <1>1, <1>2, <1>3, <1>4, <1>5, <1>6, <1>7, <1>8, <1>9, <1>10, <1>11, <1>12, <1>13,
        <1>14, <1>15, <1>16, <1>17, <1>18
        DEF ArchiveNext, ExecuteCommand, Await, Device

LEMMA ListTypeNext == ASSUME ArchiveType, [ArchiveNext]_archiveVars PROVE ListType'
<1> USE DEF ArchiveType, ListType, IsWithout
<1>1. ASSUME NEW f \in Files, NEW com \in Commands, NEW async \in BOOLEAN, SendCommand(f, com,
    async) PROVE ListType'
    BY <1>1, WithoutKeeps, AppendedFile DEF SendCommand, Goes, Leave, AtRest
<1>2. ASSUME NEW f \in Files, WaitFileAsync(f) PROVE ListType'
    BY <1>2, WithoutKeeps, AppendedFile DEF WaitFileAsync, Goes, FallAsleep
<1>3. ASSUME NEW f \in Files, CancelFile(f) PROVE ListType'
    BY <1>3, WithoutKeeps, AppendedFile DEF CancelFile
<1>4. ASSUME NEW f \in Files, AwaitOperating(f) PROVE ListType'
    BY <1>4, WithoutKeeps, AppendedFile DEF AwaitOperating, AwakeAt, Goes, FallAsleep
<1>5. ASSUME NEW f \in Files, AwaitEnd(f) PROVE ListType'
    BY <1>5, WithoutKeeps, AppendedFile DEF AwaitEnd, AwakeAt, Goes, Leave, FallAsleep
<1>6. ASSUME NEW p \in Processes, Next1(p) PROVE ListType'
    <2>1. PICK gone \in SUBSET Files : /\ Removes(gone)
                                       /\ \/ Rests(p, arcFlag, gone)
                                          \/ HandsOver(p, arcFlag, gone)
                                          \/ TakesUp(p, arcFlag, gone)
                                          \/ Begins(p, arcFlag, gone)
        BY <1>6, NextOutcomes DEF Next1, ArchiveType
    <2>2. CASE Rests(p, arcFlag, gone)
        BY <1>6, <2>1, <2>2, WithoutKeeps, AppendedFile DEF Rests, Removes, IsWithout,
            Next1, WakeFiles
    <2>3. CASE HandsOver(p, arcFlag, gone)
        BY <1>6, <2>1, <2>3, WithoutKeeps, AppendedFile DEF HandsOver, GoesOn, Operates,
            Removes, IsWithout, Next1, WakeFiles
    <2>4. CASE TakesUp(p, arcFlag, gone)
        BY <1>6, <2>1, <2>4, WithoutKeeps, AppendedFile DEF TakesUp, GoesOn, Operates,
            Removes, IsWithout, Next1, WakeFiles
    <2>5. CASE Begins(p, arcFlag, gone)
        BY <1>6, <2>1, <2>5, WithoutKeeps, AppendedFile DEF Begins, GoesOn, Removes,
            IsWithout, Next1, WakeFiles
    <2> QED
        BY <2>1, <2>2, <2>3, <2>4, <2>5
<1>7. ASSUME NEW p \in Processes, Activate(p) PROVE ListType'
    BY <1>7, WithoutKeeps, AppendedFile DEF Activate, Goes, Leave, WakeFiles
<1>8. ASSUME NEW p \in Processes, Translate(p) PROVE ListType'
    <2>1. /\ at[p] = "translate" /\ cur[p] \in Files
          /\ UNCHANGED <<command, romLocked, overtaken>>
          /\ \/ Asks(p)
             \/ \E answer \in {"SUCCESS", "UNSUPPORTED"} : Replied(p, answer) \/ Ended(p,
                 answer)
        BY <1>8, TranslateOutcomes DEF ArchiveType
    <2>2. CASE Asks(p)
        BY <2>1, <2>2, WithoutKeeps, AppendedFile DEF Asks
    <2>3. ASSUME NEW answer \in {"SUCCESS", "UNSUPPORTED"}, Replied(p, answer) PROVE ListType'
        BY <2>1, <2>3, WithoutKeeps, AppendedFile DEF Replied
    <2>4. ASSUME NEW answer \in {"SUCCESS", "UNSUPPORTED"}, Ended(p, answer) PROVE ListType'
        BY <2>1, <2>4, WithoutKeeps, AppendedFile DEF Ended, ReleaseCommands, WakeFiles,
            IsWithout
    <2> QED
        BY <2>1, <2>2, <2>3, <2>4
<1>9. ASSUME NEW p \in Processes, Called(p) PROVE ListType'
    BY <1>9, WithoutKeeps, AppendedFile DEF Called, Goes, Leave
<1>10. ASSUME NEW p \in Processes, AwaitSync(p) PROVE ListType'
    BY <1>10, WithoutKeeps, AppendedFile DEF AwaitSync, AwakeAt, Goes, FallAsleep
<1>11. ASSUME NEW p \in Processes, Release(p) PROVE ListType'
    BY <1>11, WithoutKeeps, AppendedFile DEF Release, ReleaseCommands, WakeFiles, Goes
<1>12. ASSUME NEW ret \in {"SUCCESS", "ERROR"}, NotifyArchiveAsyncEnd(ret) PROVE ListType'
    BY <1>12, WithoutKeeps, AppendedFile DEF NotifyArchiveAsyncEnd, ReleaseCommands,
        WakeFiles, WakeSync, Goes
<1>13. ASSUME SuspendArchive PROVE ListType'
    BY <1>13, WithoutKeeps, AppendedFile DEF SuspendArchive, Goes, FallAsleep
<1>14. ASSUME AwaitSuspended PROVE ListType'
    BY <1>14, WithoutKeeps, AppendedFile DEF AwaitSuspended, AwakeAt, Goes, FallAsleep
<1>15. ASSUME ResumeArchive PROVE ListType'
    <2>1. PICK gone \in SUBSET Files : /\ Removes(gone)
                                       /\ \/ Rests("manager", arcFlag \ {"SUSPEND"}, gone)
                                          \/ HandsOver("manager", arcFlag \ {"SUSPEND"}, gone)
                                          \/ TakesUp("manager", arcFlag \ {"SUSPEND"}, gone)
                                          \/ Begins("manager", arcFlag \ {"SUSPEND"}, gone)
        BY <1>15, NextOutcomes DEF ResumeArchive, ArchiveType
    <2>2. CASE Rests("manager", arcFlag \ {"SUSPEND"}, gone)
        BY <1>15, <2>1, <2>2, WithoutKeeps, AppendedFile DEF Rests, Removes, IsWithout,
            ResumeArchive, WakeFiles
    <2>3. CASE HandsOver("manager", arcFlag \ {"SUSPEND"}, gone)
        BY <1>15, <2>1, <2>3, WithoutKeeps, AppendedFile DEF HandsOver, GoesOn, Operates,
            Removes, IsWithout, ResumeArchive, WakeFiles
    <2>4. CASE TakesUp("manager", arcFlag \ {"SUSPEND"}, gone)
        BY <1>15, <2>1, <2>4, WithoutKeeps, AppendedFile DEF TakesUp, GoesOn, Operates,
            Removes, IsWithout, ResumeArchive, WakeFiles
    <2>5. CASE Begins("manager", arcFlag \ {"SUSPEND"}, gone)
        BY <1>15, <2>1, <2>5, WithoutKeeps, AppendedFile DEF Begins, GoesOn, Removes,
            IsWithout, ResumeArchive, WakeFiles
    <2> QED
        BY <2>1, <2>2, <2>3, <2>4, <2>5
<1>16. ASSUME UnloadArchive PROVE ListType'
    BY <1>16, WithoutKeeps, AppendedFile DEF UnloadArchive, ReleaseCommands, WakeFiles, Goes
<1>17. ASSUME LoadArchive PROVE ListType'
    BY <1>17, WithoutKeeps, AppendedFile DEF LoadArchive, Goes, Leave
<1>18. CASE UNCHANGED archiveVars
    BY <1>18 DEF archiveVars
<1> QED
    BY <1>1, <1>2, <1>3, <1>4, <1>5, <1>6, <1>7, <1>8, <1>9, <1>10, <1>11, <1>12, <1>13,
        <1>14, <1>15, <1>16, <1>17, <1>18
        DEF ArchiveNext, ExecuteCommand, Await, Device

LEMMA StatTypeNext == ASSUME ArchiveType, [ArchiveNext]_archiveVars PROVE StatType'
<1> USE DEF ArchiveType, StatType, ListType, Bits
<1>1. ASSUME NEW f \in Files, NEW com \in Commands, NEW async \in BOOLEAN, SendCommand(f, com,
    async) PROVE StatType'
    BY <1>1 DEF SendCommand, Goes, Leave, AtRest
<1>2. ASSUME NEW f \in Files, WaitFileAsync(f) PROVE StatType'
    BY <1>2 DEF WaitFileAsync, Goes, FallAsleep
<1>3. ASSUME NEW f \in Files, CancelFile(f) PROVE StatType'
    BY <1>3 DEF CancelFile
<1>4. ASSUME NEW f \in Files, AwaitOperating(f) PROVE StatType'
    BY <1>4 DEF AwaitOperating, AwakeAt, Goes, FallAsleep
<1>5. ASSUME NEW f \in Files, AwaitEnd(f) PROVE StatType'
    BY <1>5 DEF AwaitEnd, AwakeAt, Goes, Leave, FallAsleep
<1>6. ASSUME NEW p \in Processes, Next1(p) PROVE StatType'
    <2>1. PICK gone \in SUBSET Files : /\ Removes(gone)
                                       /\ \/ Rests(p, arcFlag, gone)
                                          \/ HandsOver(p, arcFlag, gone)
                                          \/ TakesUp(p, arcFlag, gone)
                                          \/ Begins(p, arcFlag, gone)
        BY <1>6, NextOutcomes DEF Next1, ArchiveType
    <2>2. CASE Rests(p, arcFlag, gone)
        BY <1>6, <2>1, <2>2 DEF Rests, Removes, IsWithout, Next1, WakeFiles
    <2>3. CASE HandsOver(p, arcFlag, gone)
        BY <1>6, <2>1, <2>3 DEF HandsOver, GoesOn, Operates, Removes, IsWithout, Next1,
            WakeFiles
    <2>4. CASE TakesUp(p, arcFlag, gone)
        BY <1>6, <2>1, <2>4 DEF TakesUp, GoesOn, Operates, Removes, IsWithout, Next1, WakeFiles
    <2>5. CASE Begins(p, arcFlag, gone)
        BY <1>6, <2>1, <2>5 DEF Begins, GoesOn, Removes, IsWithout, Next1, WakeFiles
    <2> QED
        BY <2>1, <2>2, <2>3, <2>4, <2>5
<1>7. ASSUME NEW p \in Processes, Activate(p) PROVE StatType'
    BY <1>7 DEF Activate, Goes, Leave, WakeFiles
<1>8. ASSUME NEW p \in Processes, Translate(p) PROVE StatType'
    <2>1. /\ at[p] = "translate" /\ cur[p] \in Files
          /\ UNCHANGED <<command, romLocked, overtaken>>
          /\ \/ Asks(p)
             \/ \E answer \in {"SUCCESS", "UNSUPPORTED"} : Replied(p, answer) \/ Ended(p,
                 answer)
        BY <1>8, TranslateOutcomes DEF ArchiveType
    <2>2. CASE Asks(p)
        BY <2>1, <2>2 DEF Asks
    <2>3. ASSUME NEW answer \in {"SUCCESS", "UNSUPPORTED"}, Replied(p, answer) PROVE StatType'
        BY <2>1, <2>3 DEF Replied
    <2>4. ASSUME NEW answer \in {"SUCCESS", "UNSUPPORTED"}, Ended(p, answer) PROVE StatType'
        BY <2>1, <2>4 DEF Ended, ReleaseCommands, WakeFiles, IsWithout
    <2> QED
        BY <2>1, <2>2, <2>3, <2>4
<1>9. ASSUME NEW p \in Processes, Called(p) PROVE StatType'
    BY <1>9 DEF Called, Goes, Leave
<1>10. ASSUME NEW p \in Processes, AwaitSync(p) PROVE StatType'
    BY <1>10 DEF AwaitSync, AwakeAt, Goes, FallAsleep
<1>11. ASSUME NEW p \in Processes, Release(p) PROVE StatType'
    BY <1>11 DEF Release, ReleaseCommands, WakeFiles, Goes
<1>12. ASSUME NEW ret \in {"SUCCESS", "ERROR"}, NotifyArchiveAsyncEnd(ret) PROVE StatType'
    BY <1>12 DEF NotifyArchiveAsyncEnd, ReleaseCommands, WakeFiles, WakeSync, Goes
<1>13. ASSUME SuspendArchive PROVE StatType'
    BY <1>13 DEF SuspendArchive, Goes, FallAsleep
<1>14. ASSUME AwaitSuspended PROVE StatType'
    BY <1>14 DEF AwaitSuspended, AwakeAt, Goes, FallAsleep
<1>15. ASSUME ResumeArchive PROVE StatType'
    <2>1. PICK gone \in SUBSET Files : /\ Removes(gone)
                                       /\ \/ Rests("manager", arcFlag \ {"SUSPEND"}, gone)
                                          \/ HandsOver("manager", arcFlag \ {"SUSPEND"}, gone)
                                          \/ TakesUp("manager", arcFlag \ {"SUSPEND"}, gone)
                                          \/ Begins("manager", arcFlag \ {"SUSPEND"}, gone)
        BY <1>15, NextOutcomes DEF ResumeArchive, ArchiveType
    <2>2. CASE Rests("manager", arcFlag \ {"SUSPEND"}, gone)
        BY <1>15, <2>1, <2>2 DEF Rests, Removes, IsWithout, ResumeArchive, WakeFiles
    <2>3. CASE HandsOver("manager", arcFlag \ {"SUSPEND"}, gone)
        BY <1>15, <2>1, <2>3 DEF HandsOver, GoesOn, Operates, Removes, IsWithout,
            ResumeArchive, WakeFiles
    <2>4. CASE TakesUp("manager", arcFlag \ {"SUSPEND"}, gone)
        BY <1>15, <2>1, <2>4 DEF TakesUp, GoesOn, Operates, Removes, IsWithout,
            ResumeArchive, WakeFiles
    <2>5. CASE Begins("manager", arcFlag \ {"SUSPEND"}, gone)
        BY <1>15, <2>1, <2>5 DEF Begins, GoesOn, Removes, IsWithout, ResumeArchive, WakeFiles
    <2> QED
        BY <2>1, <2>2, <2>3, <2>4, <2>5
<1>16. ASSUME UnloadArchive PROVE StatType'
    BY <1>16 DEF UnloadArchive, ReleaseCommands, WakeFiles, Goes
<1>17. ASSUME LoadArchive PROVE StatType'
    BY <1>17 DEF LoadArchive, Goes, Leave
<1>18. CASE UNCHANGED archiveVars
    BY <1>18 DEF archiveVars
<1> QED
    BY <1>1, <1>2, <1>3, <1>4, <1>5, <1>6, <1>7, <1>8, <1>9, <1>10, <1>11, <1>12, <1>13,
        <1>14, <1>15, <1>16, <1>17, <1>18
        DEF ArchiveNext, ExecuteCommand, Await, Device

LEMMA ErrorTypeNext == ASSUME ArchiveType, [ArchiveNext]_archiveVars PROVE ErrorType'
<1> USE DEF ArchiveType, ErrorType, Codes, AtType, FileType
<1>1. ASSUME NEW f \in Files, NEW com \in Commands, NEW async \in BOOLEAN, SendCommand(f, com,
    async) PROVE ErrorType'
    BY <1>1 DEF SendCommand, Goes, Leave, AtRest
<1>2. ASSUME NEW f \in Files, WaitFileAsync(f) PROVE ErrorType'
    BY <1>2 DEF WaitFileAsync, Goes, FallAsleep
<1>3. ASSUME NEW f \in Files, CancelFile(f) PROVE ErrorType'
    BY <1>3 DEF CancelFile
<1>4. ASSUME NEW f \in Files, AwaitOperating(f) PROVE ErrorType'
    BY <1>4 DEF AwaitOperating, AwakeAt, Goes, FallAsleep
<1>5. ASSUME NEW f \in Files, AwaitEnd(f) PROVE ErrorType'
    BY <1>5 DEF AwaitEnd, AwakeAt, Goes, Leave, FallAsleep
<1>6. ASSUME NEW p \in Processes, Next1(p) PROVE ErrorType'
    <2>1. PICK gone \in SUBSET Files : /\ Removes(gone)
                                       /\ \/ Rests(p, arcFlag, gone)
                                          \/ HandsOver(p, arcFlag, gone)
                                          \/ TakesUp(p, arcFlag, gone)
                                          \/ Begins(p, arcFlag, gone)
        BY <1>6, NextOutcomes DEF Next1, ArchiveType
    <2>2. CASE Rests(p, arcFlag, gone)
        BY <1>6, <2>1, <2>2 DEF Rests, Removes, IsWithout, Next1, WakeFiles
    <2>3. CASE HandsOver(p, arcFlag, gone)
        BY <1>6, <2>1, <2>3 DEF HandsOver, GoesOn, Operates, Removes, IsWithout, Next1,
            WakeFiles
    <2>4. CASE TakesUp(p, arcFlag, gone)
        BY <1>6, <2>1, <2>4 DEF TakesUp, GoesOn, Operates, Removes, IsWithout, Next1, WakeFiles
    <2>5. CASE Begins(p, arcFlag, gone)
        BY <1>6, <2>1, <2>5 DEF Begins, GoesOn, Removes, IsWithout, Next1, WakeFiles
    <2> QED
        BY <2>1, <2>2, <2>3, <2>4, <2>5
<1>7. ASSUME NEW p \in Processes, Activate(p) PROVE ErrorType'
    BY <1>7 DEF Activate, Goes, Leave, WakeFiles
<1>8. ASSUME NEW p \in Processes, Translate(p) PROVE ErrorType'
    <2>1. /\ at[p] = "translate" /\ cur[p] \in Files
          /\ UNCHANGED <<command, romLocked, overtaken>>
          /\ \/ Asks(p)
             \/ \E answer \in {"SUCCESS", "UNSUPPORTED"} : Replied(p, answer) \/ Ended(p,
                 answer)
        BY <1>8, TranslateOutcomes DEF ArchiveType
    <2>2. CASE Asks(p)
        BY <2>1, <2>2 DEF Asks
    <2>3. ASSUME NEW answer \in {"SUCCESS", "UNSUPPORTED"}, Replied(p, answer) PROVE ErrorType'
        BY <2>1, <2>3 DEF Replied
    <2>4. ASSUME NEW answer \in {"SUCCESS", "UNSUPPORTED"}, Ended(p, answer) PROVE ErrorType'
        BY <2>1, <2>4 DEF Ended, ReleaseCommands, WakeFiles, IsWithout
    <2> QED
        BY <2>1, <2>2, <2>3, <2>4
<1>9. ASSUME NEW p \in Processes, Called(p) PROVE ErrorType'
    BY <1>9 DEF Called, Goes, Leave
<1>10. ASSUME NEW p \in Processes, AwaitSync(p) PROVE ErrorType'
    BY <1>10 DEF AwaitSync, AwakeAt, Goes, FallAsleep
<1>11. ASSUME NEW p \in Processes, Release(p) PROVE ErrorType'
    BY <1>11 DEF Release, ReleaseCommands, WakeFiles, Goes
<1>12. ASSUME NEW ret \in {"SUCCESS", "ERROR"}, NotifyArchiveAsyncEnd(ret) PROVE ErrorType'
    BY <1>12 DEF NotifyArchiveAsyncEnd, ReleaseCommands, WakeFiles, WakeSync, Goes
<1>13. ASSUME SuspendArchive PROVE ErrorType'
    BY <1>13 DEF SuspendArchive, Goes, FallAsleep
<1>14. ASSUME AwaitSuspended PROVE ErrorType'
    BY <1>14 DEF AwaitSuspended, AwakeAt, Goes, FallAsleep
<1>15. ASSUME ResumeArchive PROVE ErrorType'
    <2>1. PICK gone \in SUBSET Files : /\ Removes(gone)
                                       /\ \/ Rests("manager", arcFlag \ {"SUSPEND"}, gone)
                                          \/ HandsOver("manager", arcFlag \ {"SUSPEND"}, gone)
                                          \/ TakesUp("manager", arcFlag \ {"SUSPEND"}, gone)
                                          \/ Begins("manager", arcFlag \ {"SUSPEND"}, gone)
        BY <1>15, NextOutcomes DEF ResumeArchive, ArchiveType
    <2>2. CASE Rests("manager", arcFlag \ {"SUSPEND"}, gone)
        BY <1>15, <2>1, <2>2 DEF Rests, Removes, IsWithout, ResumeArchive, WakeFiles
    <2>3. CASE HandsOver("manager", arcFlag \ {"SUSPEND"}, gone)
        BY <1>15, <2>1, <2>3 DEF HandsOver, GoesOn, Operates, Removes, IsWithout,
            ResumeArchive, WakeFiles
    <2>4. CASE TakesUp("manager", arcFlag \ {"SUSPEND"}, gone)
        BY <1>15, <2>1, <2>4 DEF TakesUp, GoesOn, Operates, Removes, IsWithout,
            ResumeArchive, WakeFiles
    <2>5. CASE Begins("manager", arcFlag \ {"SUSPEND"}, gone)
        BY <1>15, <2>1, <2>5 DEF Begins, GoesOn, Removes, IsWithout, ResumeArchive, WakeFiles
    <2> QED
        BY <2>1, <2>2, <2>3, <2>4, <2>5
<1>16. ASSUME UnloadArchive PROVE ErrorType'
    BY <1>16 DEF UnloadArchive, ReleaseCommands, WakeFiles, Goes
<1>17. ASSUME LoadArchive PROVE ErrorType'
    BY <1>17 DEF LoadArchive, Goes, Leave
<1>18. CASE UNCHANGED archiveVars
    BY <1>18 DEF archiveVars
<1> QED
    BY <1>1, <1>2, <1>3, <1>4, <1>5, <1>6, <1>7, <1>8, <1>9, <1>10, <1>11, <1>12, <1>13,
        <1>14, <1>15, <1>16, <1>17, <1>18
        DEF ArchiveNext, ExecuteCommand, Await, Device

LEMMA DeviceTypeNext == ASSUME ArchiveType, [ArchiveNext]_archiveVars PROVE DeviceType'
<1> USE DEF ArchiveType, DeviceType, AtType, FileType
<1>1. ASSUME NEW f \in Files, NEW com \in Commands, NEW async \in BOOLEAN, SendCommand(f, com,
    async) PROVE DeviceType'
    BY <1>1 DEF SendCommand, Goes, Leave, AtRest
<1>2. ASSUME NEW f \in Files, WaitFileAsync(f) PROVE DeviceType'
    BY <1>2 DEF WaitFileAsync, Goes, FallAsleep
<1>3. ASSUME NEW f \in Files, CancelFile(f) PROVE DeviceType'
    BY <1>3 DEF CancelFile
<1>4. ASSUME NEW f \in Files, AwaitOperating(f) PROVE DeviceType'
    BY <1>4 DEF AwaitOperating, AwakeAt, Goes, FallAsleep
<1>5. ASSUME NEW f \in Files, AwaitEnd(f) PROVE DeviceType'
    BY <1>5 DEF AwaitEnd, AwakeAt, Goes, Leave, FallAsleep
<1>6. ASSUME NEW p \in Processes, Next1(p) PROVE DeviceType'
    <2>1. PICK gone \in SUBSET Files : /\ Removes(gone)
                                       /\ \/ Rests(p, arcFlag, gone)
                                          \/ HandsOver(p, arcFlag, gone)
                                          \/ TakesUp(p, arcFlag, gone)
                                          \/ Begins(p, arcFlag, gone)
        BY <1>6, NextOutcomes DEF Next1, ArchiveType
    <2>2. CASE Rests(p, arcFlag, gone)
        BY <1>6, <2>1, <2>2 DEF Rests, Removes, IsWithout, Next1, WakeFiles
    <2>3. CASE HandsOver(p, arcFlag, gone)
        BY <1>6, <2>1, <2>3 DEF HandsOver, GoesOn, Operates, Removes, IsWithout, Next1,
            WakeFiles
    <2>4. CASE TakesUp(p, arcFlag, gone)
        BY <1>6, <2>1, <2>4 DEF TakesUp, GoesOn, Operates, Removes, IsWithout, Next1, WakeFiles
    <2>5. CASE Begins(p, arcFlag, gone)
        BY <1>6, <2>1, <2>5 DEF Begins, GoesOn, Removes, IsWithout, Next1, WakeFiles
    <2> QED
        BY <2>1, <2>2, <2>3, <2>4, <2>5
<1>7. ASSUME NEW p \in Processes, Activate(p) PROVE DeviceType'
    BY <1>7 DEF Activate, Goes, Leave, WakeFiles
<1>8. ASSUME NEW p \in Processes, Translate(p) PROVE DeviceType'
    <2>1. /\ at[p] = "translate" /\ cur[p] \in Files
          /\ UNCHANGED <<command, romLocked, overtaken>>
          /\ \/ Asks(p)
             \/ \E answer \in {"SUCCESS", "UNSUPPORTED"} : Replied(p, answer) \/ Ended(p,
                 answer)
        BY <1>8, TranslateOutcomes DEF ArchiveType
    <2>2. CASE Asks(p)
        BY <2>1, <2>2 DEF Asks
    <2>3. ASSUME NEW answer \in {"SUCCESS", "UNSUPPORTED"}, Replied(p, answer) PROVE DeviceType'
        BY <2>1, <2>3 DEF Replied
    <2>4. ASSUME NEW answer \in {"SUCCESS", "UNSUPPORTED"}, Ended(p, answer) PROVE DeviceType'
        BY <2>1, <2>4 DEF Ended, ReleaseCommands, WakeFiles, IsWithout
    <2> QED
        BY <2>1, <2>2, <2>3, <2>4
<1>9. ASSUME NEW p \in Processes, Called(p) PROVE DeviceType'
    BY <1>9 DEF Called, Goes, Leave
<1>10. ASSUME NEW p \in Processes, AwaitSync(p) PROVE DeviceType'
    BY <1>10 DEF AwaitSync, AwakeAt, Goes, FallAsleep
<1>11. ASSUME NEW p \in Processes, Release(p) PROVE DeviceType'
    BY <1>11 DEF Release, ReleaseCommands, WakeFiles, Goes
<1>12. ASSUME NEW ret \in {"SUCCESS", "ERROR"}, NotifyArchiveAsyncEnd(ret) PROVE DeviceType'
    BY <1>12 DEF NotifyArchiveAsyncEnd, ReleaseCommands, WakeFiles, WakeSync, Goes
<1>13. ASSUME SuspendArchive PROVE DeviceType'
    BY <1>13 DEF SuspendArchive, Goes, FallAsleep
<1>14. ASSUME AwaitSuspended PROVE DeviceType'
    BY <1>14 DEF AwaitSuspended, AwakeAt, Goes, FallAsleep
<1>15. ASSUME ResumeArchive PROVE DeviceType'
    <2>1. PICK gone \in SUBSET Files : /\ Removes(gone)
                                       /\ \/ Rests("manager", arcFlag \ {"SUSPEND"}, gone)
                                          \/ HandsOver("manager", arcFlag \ {"SUSPEND"}, gone)
                                          \/ TakesUp("manager", arcFlag \ {"SUSPEND"}, gone)
                                          \/ Begins("manager", arcFlag \ {"SUSPEND"}, gone)
        BY <1>15, NextOutcomes DEF ResumeArchive, ArchiveType
    <2>2. CASE Rests("manager", arcFlag \ {"SUSPEND"}, gone)
        BY <1>15, <2>1, <2>2 DEF Rests, Removes, IsWithout, ResumeArchive, WakeFiles
    <2>3. CASE HandsOver("manager", arcFlag \ {"SUSPEND"}, gone)
        BY <1>15, <2>1, <2>3 DEF HandsOver, GoesOn, Operates, Removes, IsWithout,
            ResumeArchive, WakeFiles
    <2>4. CASE TakesUp("manager", arcFlag \ {"SUSPEND"}, gone)
        BY <1>15, <2>1, <2>4 DEF TakesUp, GoesOn, Operates, Removes, IsWithout,
            ResumeArchive, WakeFiles
    <2>5. CASE Begins("manager", arcFlag \ {"SUSPEND"}, gone)
        BY <1>15, <2>1, <2>5 DEF Begins, GoesOn, Removes, IsWithout, ResumeArchive, WakeFiles
    <2> QED
        BY <2>1, <2>2, <2>3, <2>4, <2>5
<1>16. ASSUME UnloadArchive PROVE DeviceType'
    BY <1>16 DEF UnloadArchive, ReleaseCommands, WakeFiles, Goes
<1>17. ASSUME LoadArchive PROVE DeviceType'
    BY <1>17 DEF LoadArchive, Goes, Leave
<1>18. CASE UNCHANGED archiveVars
    BY <1>18 DEF archiveVars
<1> QED
    BY <1>1, <1>2, <1>3, <1>4, <1>5, <1>6, <1>7, <1>8, <1>9, <1>10, <1>11, <1>12, <1>13,
        <1>14, <1>15, <1>16, <1>17, <1>18
        DEF ArchiveNext, ExecuteCommand, Await, Device

LEMMA AtTypeNext == ASSUME ArchiveType, [ArchiveNext]_archiveVars PROVE AtType'
<1> USE DEF ArchiveType, AtType, FileType
<1>1. ASSUME NEW f \in Files, NEW com \in Commands, NEW async \in BOOLEAN, SendCommand(f, com,
    async) PROVE AtType'
    BY SMTT(30), <1>1, PlaceNames, ProcessNames DEF SendCommand, Goes, Leave, AtRest
<1>2. ASSUME NEW f \in Files, WaitFileAsync(f) PROVE AtType'
    BY <1>2, PlaceNames, ProcessNames DEF WaitFileAsync, Goes, FallAsleep
<1>3. ASSUME NEW f \in Files, CancelFile(f) PROVE AtType'
    BY <1>3, PlaceNames, ProcessNames DEF CancelFile
<1>4. ASSUME NEW f \in Files, AwaitOperating(f) PROVE AtType'
    BY <1>4, PlaceNames, ProcessNames DEF AwaitOperating, AwakeAt, Goes, FallAsleep
<1>5. ASSUME NEW f \in Files, AwaitEnd(f) PROVE AtType'
    BY <1>5, PlaceNames, ProcessNames DEF AwaitEnd, AwakeAt, Goes, Leave, FallAsleep
<1>6. ASSUME NEW p \in Processes, Next1(p) PROVE AtType'
    <2>1. PICK gone \in SUBSET Files : /\ Removes(gone)
                                       /\ \/ Rests(p, arcFlag, gone)
                                          \/ HandsOver(p, arcFlag, gone)
                                          \/ TakesUp(p, arcFlag, gone)
                                          \/ Begins(p, arcFlag, gone)
        BY <1>6, NextOutcomes DEF Next1, ArchiveType
    <2>2. CASE Rests(p, arcFlag, gone)
        BY <1>6, <2>1, <2>2, PlaceNames, ProcessNames DEF Rests, Removes, IsWithout, Next1,
            WakeFiles
    <2>3. CASE HandsOver(p, arcFlag, gone)
        BY <1>6, <2>1, <2>3, PlaceNames, ProcessNames DEF HandsOver, GoesOn, Operates,
            Removes, IsWithout, Next1, WakeFiles
    <2>4. CASE TakesUp(p, arcFlag, gone)
        BY <1>6, <2>1, <2>4, PlaceNames, ProcessNames DEF TakesUp, GoesOn, Operates,
            Removes, IsWithout, Next1, WakeFiles
    <2>5. CASE Begins(p, arcFlag, gone)
        BY <1>6, <2>1, <2>5, PlaceNames, ProcessNames DEF Begins, GoesOn, Removes,
            IsWithout, Next1, WakeFiles
    <2> QED
        BY <2>1, <2>2, <2>3, <2>4, <2>5
<1>7. ASSUME NEW p \in Processes, Activate(p) PROVE AtType'
    BY <1>7, PlaceNames, ProcessNames DEF Activate, Goes, Leave, WakeFiles
<1>8. ASSUME NEW p \in Processes, Translate(p) PROVE AtType'
    <2>1. /\ at[p] = "translate" /\ cur[p] \in Files
          /\ UNCHANGED <<command, romLocked, overtaken>>
          /\ \/ Asks(p)
             \/ \E answer \in {"SUCCESS", "UNSUPPORTED"} : Replied(p, answer) \/ Ended(p,
                 answer)
        BY <1>8, TranslateOutcomes DEF ArchiveType
    <2>2. CASE Asks(p)
        BY <2>1, <2>2, PlaceNames, ProcessNames DEF Asks
    <2>3. ASSUME NEW answer \in {"SUCCESS", "UNSUPPORTED"}, Replied(p, answer) PROVE AtType'
        BY <2>1, <2>3, PlaceNames, ProcessNames DEF Replied
    <2>4. ASSUME NEW answer \in {"SUCCESS", "UNSUPPORTED"}, Ended(p, answer) PROVE AtType'
        BY <2>1, <2>4, PlaceNames, ProcessNames DEF Ended, ReleaseCommands, WakeFiles, IsWithout
    <2> QED
        BY <2>1, <2>2, <2>3, <2>4
<1>9. ASSUME NEW p \in Processes, Called(p) PROVE AtType'
    BY <1>9, PlaceNames, ProcessNames DEF Called, Goes, Leave
<1>10. ASSUME NEW p \in Processes, AwaitSync(p) PROVE AtType'
    BY <1>10, PlaceNames, ProcessNames DEF AwaitSync, AwakeAt, Goes, FallAsleep
<1>11. ASSUME NEW p \in Processes, Release(p) PROVE AtType'
    BY <1>11, PlaceNames, ProcessNames DEF Release, ReleaseCommands, WakeFiles, Goes
<1>12. ASSUME NEW ret \in {"SUCCESS", "ERROR"}, NotifyArchiveAsyncEnd(ret) PROVE AtType'
    BY <1>12, PlaceNames, ProcessNames DEF NotifyArchiveAsyncEnd, ReleaseCommands,
        WakeFiles, WakeSync, Goes
<1>13. ASSUME SuspendArchive PROVE AtType'
    BY <1>13, PlaceNames, ProcessNames DEF SuspendArchive, Goes, FallAsleep
<1>14. ASSUME AwaitSuspended PROVE AtType'
    BY <1>14, PlaceNames, ProcessNames DEF AwaitSuspended, AwakeAt, Goes, FallAsleep
<1>15. ASSUME ResumeArchive PROVE AtType'
    <2>1. PICK gone \in SUBSET Files : /\ Removes(gone)
                                       /\ \/ Rests("manager", arcFlag \ {"SUSPEND"}, gone)
                                          \/ HandsOver("manager", arcFlag \ {"SUSPEND"}, gone)
                                          \/ TakesUp("manager", arcFlag \ {"SUSPEND"}, gone)
                                          \/ Begins("manager", arcFlag \ {"SUSPEND"}, gone)
        BY <1>15, NextOutcomes DEF ResumeArchive, ArchiveType
    <2>2. CASE Rests("manager", arcFlag \ {"SUSPEND"}, gone)
        BY <1>15, <2>1, <2>2, PlaceNames, ProcessNames DEF Rests, Removes, IsWithout,
            ResumeArchive, WakeFiles
    <2>3. CASE HandsOver("manager", arcFlag \ {"SUSPEND"}, gone)
        BY <1>15, <2>1, <2>3, PlaceNames, ProcessNames DEF HandsOver, GoesOn, Operates,
            Removes, IsWithout, ResumeArchive, WakeFiles
    <2>4. CASE TakesUp("manager", arcFlag \ {"SUSPEND"}, gone)
        BY <1>15, <2>1, <2>4, PlaceNames, ProcessNames DEF TakesUp, GoesOn, Operates,
            Removes, IsWithout, ResumeArchive, WakeFiles
    <2>5. CASE Begins("manager", arcFlag \ {"SUSPEND"}, gone)
        BY <1>15, <2>1, <2>5, PlaceNames, ProcessNames DEF Begins, GoesOn, Removes,
            IsWithout, ResumeArchive, WakeFiles
    <2> QED
        BY <2>1, <2>2, <2>3, <2>4, <2>5
<1>16. ASSUME UnloadArchive PROVE AtType'
    BY <1>16, PlaceNames, ProcessNames DEF UnloadArchive, ReleaseCommands, WakeFiles, Goes
<1>17. ASSUME LoadArchive PROVE AtType'
    BY <1>17, PlaceNames, ProcessNames DEF LoadArchive, Goes, Leave
<1>18. CASE UNCHANGED archiveVars
    BY <1>18 DEF archiveVars
<1> QED
    BY <1>1, <1>2, <1>3, <1>4, <1>5, <1>6, <1>7, <1>8, <1>9, <1>10, <1>11, <1>12, <1>13,
        <1>14, <1>15, <1>16, <1>17, <1>18
        DEF ArchiveNext, ExecuteCommand, Await, Device

LEMMA DormantTypeNext == ASSUME ArchiveType, [ArchiveNext]_archiveVars PROVE DormantType'
<1> USE DEF ArchiveType, DormantType
<1>1. ASSUME NEW f \in Files, NEW com \in Commands, NEW async \in BOOLEAN, SendCommand(f, com,
    async) PROVE DormantType'
    BY <1>1, ProcessNames DEF SendCommand, Goes, Leave, AtRest
<1>2. ASSUME NEW f \in Files, WaitFileAsync(f) PROVE DormantType'
    BY <1>2, ProcessNames DEF WaitFileAsync, Goes, FallAsleep
<1>3. ASSUME NEW f \in Files, CancelFile(f) PROVE DormantType'
    BY <1>3, ProcessNames DEF CancelFile
<1>4. ASSUME NEW f \in Files, AwaitOperating(f) PROVE DormantType'
    BY <1>4, ProcessNames DEF AwaitOperating, AwakeAt, Goes, FallAsleep
<1>5. ASSUME NEW f \in Files, AwaitEnd(f) PROVE DormantType'
    BY <1>5, ProcessNames DEF AwaitEnd, AwakeAt, Goes, Leave, FallAsleep
<1>6. ASSUME NEW p \in Processes, Next1(p) PROVE DormantType'
    <2>1. PICK gone \in SUBSET Files : /\ Removes(gone)
                                       /\ \/ Rests(p, arcFlag, gone)
                                          \/ HandsOver(p, arcFlag, gone)
                                          \/ TakesUp(p, arcFlag, gone)
                                          \/ Begins(p, arcFlag, gone)
        BY <1>6, NextOutcomes DEF Next1, ArchiveType
    <2>2. CASE Rests(p, arcFlag, gone)
        BY <1>6, <2>1, <2>2, ProcessNames DEF Rests, Removes, IsWithout, Next1, WakeFiles
    <2>3. CASE HandsOver(p, arcFlag, gone)
        BY <1>6, <2>1, <2>3, ProcessNames DEF HandsOver, GoesOn, Operates, Removes,
            IsWithout, Next1, WakeFiles
    <2>4. CASE TakesUp(p, arcFlag, gone)
        BY <1>6, <2>1, <2>4, ProcessNames DEF TakesUp, GoesOn, Operates, Removes, IsWithout,
            Next1, WakeFiles
    <2>5. CASE Begins(p, arcFlag, gone)
        BY <1>6, <2>1, <2>5, ProcessNames DEF Begins, GoesOn, Removes, IsWithout, Next1,
            WakeFiles
    <2> QED
        BY <2>1, <2>2, <2>3, <2>4, <2>5
<1>7. ASSUME NEW p \in Processes, Activate(p) PROVE DormantType'
    BY <1>7, ProcessNames DEF Activate, Goes, Leave, WakeFiles
<1>8. ASSUME NEW p \in Processes, Translate(p) PROVE DormantType'
    <2>1. /\ at[p] = "translate" /\ cur[p] \in Files
          /\ UNCHANGED <<command, romLocked, overtaken>>
          /\ \/ Asks(p)
             \/ \E answer \in {"SUCCESS", "UNSUPPORTED"} : Replied(p, answer) \/ Ended(p,
                 answer)
        BY <1>8, TranslateOutcomes DEF ArchiveType
    <2>2. CASE Asks(p)
        BY <2>1, <2>2, ProcessNames DEF Asks
    <2>3. ASSUME NEW answer \in {"SUCCESS", "UNSUPPORTED"}, Replied(p, answer) PROVE
        DormantType'
        BY <2>1, <2>3, ProcessNames DEF Replied
    <2>4. ASSUME NEW answer \in {"SUCCESS", "UNSUPPORTED"}, Ended(p, answer) PROVE DormantType'
        BY <2>1, <2>4, ProcessNames DEF Ended, ReleaseCommands, WakeFiles, IsWithout
    <2> QED
        BY <2>1, <2>2, <2>3, <2>4
<1>9. ASSUME NEW p \in Processes, Called(p) PROVE DormantType'
    BY <1>9, ProcessNames DEF Called, Goes, Leave
<1>10. ASSUME NEW p \in Processes, AwaitSync(p) PROVE DormantType'
    BY <1>10, ProcessNames DEF AwaitSync, AwakeAt, Goes, FallAsleep
<1>11. ASSUME NEW p \in Processes, Release(p) PROVE DormantType'
    BY <1>11, ProcessNames DEF Release, ReleaseCommands, WakeFiles, Goes
<1>12. ASSUME NEW ret \in {"SUCCESS", "ERROR"}, NotifyArchiveAsyncEnd(ret) PROVE DormantType'
    BY <1>12, ProcessNames DEF NotifyArchiveAsyncEnd, ReleaseCommands, WakeFiles, WakeSync, Goes
<1>13. ASSUME SuspendArchive PROVE DormantType'
    BY <1>13, ProcessNames DEF SuspendArchive, Goes, FallAsleep
<1>14. ASSUME AwaitSuspended PROVE DormantType'
    BY <1>14, ProcessNames DEF AwaitSuspended, AwakeAt, Goes, FallAsleep
<1>15. ASSUME ResumeArchive PROVE DormantType'
    <2>1. PICK gone \in SUBSET Files : /\ Removes(gone)
                                       /\ \/ Rests("manager", arcFlag \ {"SUSPEND"}, gone)
                                          \/ HandsOver("manager", arcFlag \ {"SUSPEND"}, gone)
                                          \/ TakesUp("manager", arcFlag \ {"SUSPEND"}, gone)
                                          \/ Begins("manager", arcFlag \ {"SUSPEND"}, gone)
        BY <1>15, NextOutcomes DEF ResumeArchive, ArchiveType
    <2>2. CASE Rests("manager", arcFlag \ {"SUSPEND"}, gone)
        BY <1>15, <2>1, <2>2, ProcessNames DEF Rests, Removes, IsWithout, ResumeArchive,
            WakeFiles
    <2>3. CASE HandsOver("manager", arcFlag \ {"SUSPEND"}, gone)
        BY <1>15, <2>1, <2>3, ProcessNames DEF HandsOver, GoesOn, Operates, Removes,
            IsWithout, ResumeArchive, WakeFiles
    <2>4. CASE TakesUp("manager", arcFlag \ {"SUSPEND"}, gone)
        BY <1>15, <2>1, <2>4, ProcessNames DEF TakesUp, GoesOn, Operates, Removes,
            IsWithout, ResumeArchive, WakeFiles
    <2>5. CASE Begins("manager", arcFlag \ {"SUSPEND"}, gone)
        BY <1>15, <2>1, <2>5, ProcessNames DEF Begins, GoesOn, Removes, IsWithout,
            ResumeArchive, WakeFiles
    <2> QED
        BY <2>1, <2>2, <2>3, <2>4, <2>5
<1>16. ASSUME UnloadArchive PROVE DormantType'
    BY <1>16, ProcessNames DEF UnloadArchive, ReleaseCommands, WakeFiles, Goes
<1>17. ASSUME LoadArchive PROVE DormantType'
    BY <1>17, ProcessNames DEF LoadArchive, Goes, Leave
<1>18. CASE UNCHANGED archiveVars
    BY <1>18 DEF archiveVars
<1> QED
    BY <1>1, <1>2, <1>3, <1>4, <1>5, <1>6, <1>7, <1>8, <1>9, <1>10, <1>11, <1>12, <1>13,
        <1>14, <1>15, <1>16, <1>17, <1>18
        DEF ArchiveNext, ExecuteCommand, Await, Device

LEMMA FileTypeNext == ASSUME ArchiveType, [ArchiveNext]_archiveVars PROVE FileType'
<1> USE DEF ArchiveType, AtType, FileType
<1>1. ASSUME NEW f \in Files, NEW com \in Commands, NEW async \in BOOLEAN, SendCommand(f, com,
    async) PROVE FileType'
    BY <1>1, ProcessNames DEF SendCommand, Goes, Leave, AtRest
<1>2. ASSUME NEW f \in Files, WaitFileAsync(f) PROVE FileType'
    BY <1>2, ProcessNames DEF WaitFileAsync, Goes, FallAsleep
<1>3. ASSUME NEW f \in Files, CancelFile(f) PROVE FileType'
    BY <1>3, ProcessNames DEF CancelFile
<1>4. ASSUME NEW f \in Files, AwaitOperating(f) PROVE FileType'
    BY <1>4, ProcessNames DEF AwaitOperating, AwakeAt, Goes, FallAsleep
<1>5. ASSUME NEW f \in Files, AwaitEnd(f) PROVE FileType'
    BY <1>5, ProcessNames DEF AwaitEnd, AwakeAt, Goes, Leave, FallAsleep
<1>6. ASSUME NEW p \in Processes, Next1(p) PROVE FileType'
    <2>1. PICK gone \in SUBSET Files : /\ Removes(gone)
                                       /\ \/ Rests(p, arcFlag, gone)
                                          \/ HandsOver(p, arcFlag, gone)
                                          \/ TakesUp(p, arcFlag, gone)
                                          \/ Begins(p, arcFlag, gone)
        BY <1>6, NextOutcomes DEF Next1, ArchiveType
    <2>2. CASE Rests(p, arcFlag, gone)
        BY <1>6, <2>1, <2>2, ProcessNames DEF Rests, Removes, IsWithout, Next1, WakeFiles
    <2>3. CASE HandsOver(p, arcFlag, gone)
        BY <1>6, <2>1, <2>3, ProcessNames DEF HandsOver, GoesOn, Operates, Removes,
            IsWithout, Next1, WakeFiles
    <2>4. CASE TakesUp(p, arcFlag, gone)
        BY <1>6, <2>1, <2>4, ProcessNames DEF TakesUp, GoesOn, Operates, Removes, IsWithout,
            Next1, WakeFiles
    <2>5. CASE Begins(p, arcFlag, gone)
        BY <1>6, <2>1, <2>5, ProcessNames DEF Begins, GoesOn, Removes, IsWithout, Next1,
            WakeFiles
    <2> QED
        BY <2>1, <2>2, <2>3, <2>4, <2>5
<1>7. ASSUME NEW p \in Processes, Activate(p) PROVE FileType'
    BY <1>7, ProcessNames DEF Activate, Goes, Leave, WakeFiles
<1>8. ASSUME NEW p \in Processes, Translate(p) PROVE FileType'
    <2>1. /\ at[p] = "translate" /\ cur[p] \in Files
          /\ UNCHANGED <<command, romLocked, overtaken>>
          /\ \/ Asks(p)
             \/ \E answer \in {"SUCCESS", "UNSUPPORTED"} : Replied(p, answer) \/ Ended(p,
                 answer)
        BY <1>8, TranslateOutcomes DEF ArchiveType
    <2>2. CASE Asks(p)
        BY <2>1, <2>2, ProcessNames DEF Asks
    <2>3. ASSUME NEW answer \in {"SUCCESS", "UNSUPPORTED"}, Replied(p, answer) PROVE FileType'
        BY <2>1, <2>3, ProcessNames DEF Replied
    <2>4. ASSUME NEW answer \in {"SUCCESS", "UNSUPPORTED"}, Ended(p, answer) PROVE FileType'
        BY <2>1, <2>4, ProcessNames DEF Ended, ReleaseCommands, WakeFiles, IsWithout
    <2> QED
        BY <2>1, <2>2, <2>3, <2>4
<1>9. ASSUME NEW p \in Processes, Called(p) PROVE FileType'
    BY <1>9, ProcessNames DEF Called, Goes, Leave
<1>10. ASSUME NEW p \in Processes, AwaitSync(p) PROVE FileType'
    BY <1>10, ProcessNames DEF AwaitSync, AwakeAt, Goes, FallAsleep
<1>11. ASSUME NEW p \in Processes, Release(p) PROVE FileType'
    BY <1>11, ProcessNames DEF Release, ReleaseCommands, WakeFiles, Goes
<1>12. ASSUME NEW ret \in {"SUCCESS", "ERROR"}, NotifyArchiveAsyncEnd(ret) PROVE FileType'
    BY <1>12, ProcessNames DEF NotifyArchiveAsyncEnd, ReleaseCommands, WakeFiles, WakeSync, Goes
<1>13. ASSUME SuspendArchive PROVE FileType'
    BY <1>13, ProcessNames DEF SuspendArchive, Goes, FallAsleep
<1>14. ASSUME AwaitSuspended PROVE FileType'
    BY <1>14, ProcessNames DEF AwaitSuspended, AwakeAt, Goes, FallAsleep
<1>15. ASSUME ResumeArchive PROVE FileType'
    <2>1. PICK gone \in SUBSET Files : /\ Removes(gone)
                                       /\ \/ Rests("manager", arcFlag \ {"SUSPEND"}, gone)
                                          \/ HandsOver("manager", arcFlag \ {"SUSPEND"}, gone)
                                          \/ TakesUp("manager", arcFlag \ {"SUSPEND"}, gone)
                                          \/ Begins("manager", arcFlag \ {"SUSPEND"}, gone)
        BY <1>15, NextOutcomes DEF ResumeArchive, ArchiveType
    <2>2. CASE Rests("manager", arcFlag \ {"SUSPEND"}, gone)
        BY <1>15, <2>1, <2>2, ProcessNames DEF Rests, Removes, IsWithout, ResumeArchive,
            WakeFiles
    <2>3. CASE HandsOver("manager", arcFlag \ {"SUSPEND"}, gone)
        BY <1>15, <2>1, <2>3, ProcessNames DEF HandsOver, GoesOn, Operates, Removes,
            IsWithout, ResumeArchive, WakeFiles
    <2>4. CASE TakesUp("manager", arcFlag \ {"SUSPEND"}, gone)
        BY <1>15, <2>1, <2>4, ProcessNames DEF TakesUp, GoesOn, Operates, Removes,
            IsWithout, ResumeArchive, WakeFiles
    <2>5. CASE Begins("manager", arcFlag \ {"SUSPEND"}, gone)
        BY <1>15, <2>1, <2>5, ProcessNames DEF Begins, GoesOn, Removes, IsWithout,
            ResumeArchive, WakeFiles
    <2> QED
        BY <2>1, <2>2, <2>3, <2>4, <2>5
<1>16. ASSUME UnloadArchive PROVE FileType'
    BY <1>16, ProcessNames DEF UnloadArchive, ReleaseCommands, WakeFiles, Goes
<1>17. ASSUME LoadArchive PROVE FileType'
    BY <1>17, ProcessNames DEF LoadArchive, Goes, Leave
<1>18. CASE UNCHANGED archiveVars
    BY <1>18 DEF archiveVars
<1> QED
    BY <1>1, <1>2, <1>3, <1>4, <1>5, <1>6, <1>7, <1>8, <1>9, <1>10, <1>11, <1>12, <1>13,
        <1>14, <1>15, <1>16, <1>17, <1>18
        DEF ArchiveNext, ExecuteCommand, Await, Device

LEMMA ArchiveTypeNext == ASSUME ArchiveType, [ArchiveNext]_archiveVars PROVE ArchiveType'
    BY FlagTypeNext, ListTypeNext, StatTypeNext, ErrorTypeNext, DeviceTypeNext, AtTypeNext,
       DormantTypeNext, FileTypeNext DEF ArchiveType

-----------------------------------------------------------------------------
(* The steps before a thread has taken another thread's command for its own. *)
Consistent ==
    TokenInv /\ ListInv /\ RestInv /\ HeadInv /\ DeviceInv /\ SyncInv /\ SuspendInv /\ DormantInv

\* Who executes has the archive alone.
LEMMA Alone ==
    ASSUME TokenInv, NEW p \in Processes, Executes(p)
    PROVE  /\ "RUNNING" \in arcFlag /\ ~CardExecutes
           /\ \A q \in Processes : Executes(q) => q = p
    BY DEF TokenInv

\* While the archive does not run nobody executes.
LEMMA Nobody ==
    ASSUME TokenInv, "RUNNING" \notin arcFlag
    PROVE  ~CardExecutes /\ \A q \in Processes : ~Executes(q)
    BY DEF TokenInv

\* Where files are released they leave the list.
LEMMA Released ==
    ASSUME StatType, ListInv, NEW fs, IsWithout(list', list, fs),
           stat' = [f \in Files |-> IF f \in fs THEN {} ELSE stat[f]]
    PROVE  ListInv'
    BY DEF StatType, ListInv, IsWithout

\* Where the executor waits for a file's thread, that thread is there.
LEMMA BeginsAlone ==
    ASSUME ArchiveType, Consistent, NEW p \in Processes, at[p] \in {"activate", "next"}
    PROVE  /\ "RUNNING" \in arcFlag /\ device = NoFile
           /\ \A q \in Processes : Executes(q) => q = p
           /\ \A f \in Files : "OPERATING" \notin stat[f]
           /\ \A f \in Files : IsSync(f) /\ f # p => at[f] = "operating?" /\ cur[f] = f
<1> USE DEF ArchiveType, Consistent, HeadInv, DeviceInv, DeviceType, AtType
<1>1. Executes(p)
    BY DEF Executes
<1>2. /\ "RUNNING" \in arcFlag /\ ~CardExecutes
      /\ \A q \in Processes : Executes(q) => q = p
    BY <1>1, Alone
<1>3. \A f \in Files : "OPERATING" \notin stat[f]
    OBVIOUS
<1>4. device = NoFile
    BY <1>3
<1>5. ASSUME NEW f \in Files, IsSync(f), f # p PROVE at[f] = "operating?" /\ cur[f] = f
    BY <1>2, <1>5, ProcessNames DEF SyncInv, Executes
<1> QED
    BY <1>2, <1>3, <1>4, <1>5

LEMMA BegunIsBusy ==
    ASSUME ArchiveType, Consistent, NEW p \in Processes, at[p] = "activate"
    PROVE  cur[p] \in Files /\ "BUSY" \in stat[cur[p]]
    BY HeadFile DEF ArchiveType, Consistent, HeadInv, ListInv, ListType

\* The device reads for the first of the list.
LEMMA DeviceIsHead ==
    ASSUME ArchiveType, Consistent, device # NoFile
    PROVE  /\ device \in Files /\ Len(list) # 0 /\ device = list[1] /\ Head(list) = device
           /\ "RUNNING" \in arcFlag /\ "OPERATING" \in stat[device] /\ "BUSY" \in stat[device]
           /\ "IS_ASYNC" \in arcFlag <=> ~IsSync(device)
    BY HeadFile DEF ArchiveType, Consistent, HeadInv, DeviceInv, DeviceType, ListInv, ListType

\* A suspended archive rests.
LEMMA SuspendedRests ==
    ASSUME ArchiveType, Consistent, at["manager"] = "suspended"
    PROVE  /\ "RUNNING" \notin arcFlag /\ device = NoFile
           /\ \A q \in Processes : ~Executes(q)
           /\ \A f \in Files : "OPERATING" \notin stat[f]
<1>1. "RUNNING" \notin arcFlag
    BY DEF Consistent, SuspendInv
<1>2. ~CardExecutes /\ \A q \in Processes : ~Executes(q)
    BY <1>1, Nobody DEF Consistent
<1>3. \A f \in Files : "OPERATING" \notin stat[f]
    BY <1>1 DEF Consistent, HeadInv
<1> QED
    BY <1>1, <1>2, <1>3, DeviceIsHead

LEMMA ListNext == ASSUME ArchiveType, Consistent, ~overtaken', [ArchiveNext]_archiveVars PROVE
    ListInv'
<1> USE DEF ArchiveType, Consistent, FlagType, ListType, StatType, AtType, ListInv, HeadInv,
    IsSync
<1>1. ASSUME NEW f \in Files, NEW com \in Commands, NEW async \in BOOLEAN, SendCommand(f, com,
    async) PROVE ListInv'
    BY <1>1, AppendedFile DEF SendCommand
<1>2. ASSUME NEW f \in Files, WaitFileAsync(f) PROVE ListInv'
    BY <1>2 DEF WaitFileAsync, Goes, FallAsleep
<1>3. ASSUME NEW f \in Files, CancelFile(f) PROVE ListInv'
    BY <1>3 DEF CancelFile
<1>4. ASSUME NEW f \in Files, AwaitOperating(f) PROVE ListInv'
    BY <1>4 DEF AwaitOperating, AwakeAt, Goes, FallAsleep
<1>5. ASSUME NEW f \in Files, AwaitEnd(f) PROVE ListInv'
    BY <1>5 DEF AwaitEnd, AwakeAt, Goes, Leave, FallAsleep
<1>6. ASSUME NEW p \in Processes, Next1(p) PROVE ListInv'
    <2>1. PICK gone \in SUBSET Files : /\ Removes(gone)
                                       /\ \/ Rests(p, arcFlag, gone)
                                          \/ HandsOver(p, arcFlag, gone)
                                          \/ TakesUp(p, arcFlag, gone)
                                          \/ Begins(p, arcFlag, gone)
        BY <1>6, NextOutcomes DEF Next1, ArchiveType
    <2>2. CASE Rests(p, arcFlag, gone)
        BY <2>1, <2>2, Released DEF Rests, Removes
    <2>3. CASE HandsOver(p, arcFlag, gone)
        BY <2>1, <2>3 DEF HandsOver, GoesOn, Operates, Removes, IsWithout
    <2>4. CASE TakesUp(p, arcFlag, gone)
        BY <2>1, <2>4 DEF TakesUp, GoesOn, Operates, Removes, IsWithout
    <2>5. CASE Begins(p, arcFlag, gone)
        BY <2>1, <2>5, Released DEF Begins, Removes
    <2> QED
        BY <2>1, <2>2, <2>3, <2>4, <2>5
<1>7. ASSUME NEW p \in Processes, Activate(p) PROVE ListInv'
    BY <1>7, HeadFile DEF Activate
<1>8. ASSUME NEW p \in Processes, Translate(p) PROVE ListInv'
    <2>1. /\ at[p] = "translate" /\ cur[p] \in Files
          /\ UNCHANGED <<command, romLocked, overtaken>>
          /\ \/ Asks(p)
             \/ \E answer \in {"SUCCESS", "UNSUPPORTED"} : Replied(p, answer) \/ Ended(p,
                 answer)
        BY <1>8, TranslateOutcomes DEF ArchiveType
    <2>2. CASE Asks(p)
        BY <2>1, <2>2 DEF Asks
    <2>3. ASSUME NEW answer \in {"SUCCESS", "UNSUPPORTED"}, Replied(p, answer) PROVE ListInv'
        BY <2>1, <2>3 DEF Replied
    <2>4. ASSUME NEW answer \in {"SUCCESS", "UNSUPPORTED"}, Ended(p, answer) PROVE ListInv'
        BY <2>4, WithoutKeeps, Released DEF Ended, ReleaseCommands, ListType
    <2> QED
        BY <2>1, <2>2, <2>3, <2>4
<1>9. ASSUME NEW p \in Processes, Called(p) PROVE ListInv'
    BY <1>9 DEF Called, Goes, Leave
<1>10. ASSUME NEW p \in Processes, AwaitSync(p) PROVE ListInv'
    BY <1>10 DEF AwaitSync, AwakeAt, Goes, FallAsleep
<1>11. ASSUME NEW p \in Processes, Release(p) PROVE ListInv'
    <2>1. IsWithout(list', list, {cur[p]})
        BY <1>11, WithoutKeeps DEF Release, ReleaseCommands, ListType
    <2> QED
        BY <1>11, <2>1, Released DEF Release, ReleaseCommands
<1>12. ASSUME NEW ret \in {"SUCCESS", "ERROR"}, NotifyArchiveAsyncEnd(ret) PROVE ListInv'
    <2>1. CASE "IS_ASYNC" \in arcFlag
        <3>1. IsWithout(list', list, {Head(list)})
            BY <1>12, <2>1, WithoutKeeps DEF NotifyArchiveAsyncEnd, ReleaseCommands, ListType
        <3> QED
            BY <1>12, <2>1, <3>1, Released DEF NotifyArchiveAsyncEnd, ReleaseCommands
    <2>2. CASE "IS_ASYNC" \notin arcFlag
        BY <1>12, <2>2 DEF NotifyArchiveAsyncEnd
    <2> QED
        BY <2>1, <2>2
<1>13. ASSUME SuspendArchive PROVE ListInv'
    BY <1>13 DEF SuspendArchive, Goes, FallAsleep
<1>14. ASSUME AwaitSuspended PROVE ListInv'
    BY <1>14 DEF AwaitSuspended, AwakeAt, Goes, FallAsleep
<1>15. ASSUME ResumeArchive PROVE ListInv'
    <2>1. PICK gone \in SUBSET Files : /\ Removes(gone)
                                       /\ \/ Rests("manager", arcFlag \ {"SUSPEND"}, gone)
                                          \/ HandsOver("manager", arcFlag \ {"SUSPEND"}, gone)
                                          \/ TakesUp("manager", arcFlag \ {"SUSPEND"}, gone)
                                          \/ Begins("manager", arcFlag \ {"SUSPEND"}, gone)
        BY <1>15, NextOutcomes DEF ResumeArchive, ArchiveType
    <2>2. CASE Rests("manager", arcFlag \ {"SUSPEND"}, gone)
        BY <2>1, <2>2, Released DEF Rests, Removes
    <2>3. CASE HandsOver("manager", arcFlag \ {"SUSPEND"}, gone)
        BY <2>1, <2>3 DEF HandsOver, GoesOn, Operates, Removes, IsWithout
    <2>4. CASE TakesUp("manager", arcFlag \ {"SUSPEND"}, gone)
        BY <2>1, <2>4 DEF TakesUp, GoesOn, Operates, Removes, IsWithout
    <2>5. CASE Begins("manager", arcFlag \ {"SUSPEND"}, gone)
        BY <2>1, <2>5, Released DEF Begins, Removes
    <2> QED
        BY <2>1, <2>2, <2>3, <2>4, <2>5
<1>16. ASSUME UnloadArchive PROVE ListInv'
    <2>1. IsWithout(list', list, ToSet(list))
        BY <1>16, WithoutKeeps DEF UnloadArchive, ReleaseCommands, ListType
    <2> QED
        BY <1>16, <2>1, Released DEF UnloadArchive, ReleaseCommands
<1>17. ASSUME LoadArchive PROVE ListInv'
    BY <1>17 DEF LoadArchive, Goes, Leave
<1>18. CASE UNCHANGED archiveVars
    BY <1>18 DEF archiveVars
<1> QED
    BY <1>1, <1>2, <1>3, <1>4, <1>5, <1>6, <1>7, <1>8, <1>9, <1>10, <1>11, <1>12, <1>13,
        <1>14, <1>15, <1>16, <1>17, <1>18
        DEF ArchiveNext, ExecuteCommand, Await, Device

LEMMA RestNext == ASSUME ArchiveType, Consistent, ~overtaken', [ArchiveNext]_archiveVars PROVE
    RestInv'
<1> USE DEF ArchiveType, Consistent, FlagType, RestInv, TokenInv, HeadInv, SuspendInv, SyncInv,
    DeviceInv, Executes, CardExecutes
<1>1. ASSUME NEW f \in Files, NEW com \in Commands, NEW async \in BOOLEAN, SendCommand(f, com,
    async) PROVE RestInv'
    BY <1>1 DEF SendCommand, AtRest
<1>2. ASSUME NEW f \in Files, WaitFileAsync(f) PROVE RestInv'
    BY <1>2, ProcessNames DEF WaitFileAsync, Goes, FallAsleep
<1>3. ASSUME NEW f \in Files, CancelFile(f) PROVE RestInv'
    BY <1>3, ProcessNames DEF CancelFile
<1>4. ASSUME NEW f \in Files, AwaitOperating(f) PROVE RestInv'
    BY <1>4, ProcessNames DEF AwaitOperating, AwakeAt, Goes, FallAsleep
<1>5. ASSUME NEW f \in Files, AwaitEnd(f) PROVE RestInv'
    BY <1>5, ProcessNames DEF AwaitEnd, AwakeAt, Goes, Leave, FallAsleep
<1>6. ASSUME NEW p \in Processes, Next1(p) PROVE RestInv'
    <2>1. PICK gone \in SUBSET Files : /\ Removes(gone)
                                       /\ \/ Rests(p, arcFlag, gone)
                                          \/ HandsOver(p, arcFlag, gone)
                                          \/ TakesUp(p, arcFlag, gone)
                                          \/ Begins(p, arcFlag, gone)
        BY <1>6, NextOutcomes DEF Next1, ArchiveType
    <2>2. CASE Rests(p, arcFlag, gone)
        BY <1>6, <2>1, <2>2, ProcessNames DEF Rests, Removes, IsWithout, Next1, WakeFiles
    <2>3. CASE HandsOver(p, arcFlag, gone)
        BY <1>6, <2>1, <2>3, ProcessNames DEF HandsOver, GoesOn, Operates, Removes,
            IsWithout, Next1, WakeFiles
    <2>4. CASE TakesUp(p, arcFlag, gone)
        BY <1>6, <2>1, <2>4, ProcessNames DEF TakesUp, GoesOn, Operates, Removes, IsWithout,
            Next1, WakeFiles
    <2>5. CASE Begins(p, arcFlag, gone)
        BY <1>6, <2>1, <2>5, ProcessNames DEF Begins, GoesOn, Removes, IsWithout, Next1,
            WakeFiles
    <2> QED
        BY <2>1, <2>2, <2>3, <2>4, <2>5
<1>7. ASSUME NEW p \in Processes, Activate(p) PROVE RestInv'
    BY <1>7, ProcessNames DEF Activate, Goes, Leave, WakeFiles
<1>8. ASSUME NEW p \in Processes, Translate(p) PROVE RestInv'
    <2>1. "RUNNING" \in arcFlag
        BY <1>8, Alone DEF Translate
    <2>2. "RUNNING" \in arcFlag'
        BY <1>8, <2>1 DEF Translate
    <2> QED
        BY <2>2
<1>9. ASSUME NEW p \in Processes, Called(p) PROVE RestInv'
    BY <1>9, ProcessNames DEF Called, Goes, Leave
<1>10. ASSUME NEW p \in Processes, AwaitSync(p) PROVE RestInv'
    BY <1>10, ProcessNames DEF AwaitSync, AwakeAt, Goes, FallAsleep
<1>11. ASSUME NEW p \in Processes, Release(p) PROVE RestInv'
    <2>1. "RUNNING" \in arcFlag /\ "RUNNING" \in arcFlag'
        BY <1>11, Alone DEF Release
    <2> QED
        BY <2>1
<1>12. ASSUME NEW ret \in {"SUCCESS", "ERROR"}, NotifyArchiveAsyncEnd(ret) PROVE RestInv'
    <2>1. "RUNNING" \in arcFlag
        BY <1>12 DEF NotifyArchiveAsyncEnd, DeviceType
    <2> QED
        BY <1>12, <2>1 DEF NotifyArchiveAsyncEnd
<1>13. ASSUME SuspendArchive PROVE RestInv'
    BY <1>13, ProcessNames DEF SuspendArchive, Goes, FallAsleep
<1>14. ASSUME AwaitSuspended PROVE RestInv'
    BY <1>14, ProcessNames DEF AwaitSuspended, AwakeAt, Goes, FallAsleep
<1>15. ASSUME ResumeArchive PROVE RestInv'
    <2>1. PICK gone \in SUBSET Files : /\ Removes(gone)
                                       /\ \/ Rests("manager", arcFlag \ {"SUSPEND"}, gone)
                                          \/ HandsOver("manager", arcFlag \ {"SUSPEND"}, gone)
                                          \/ TakesUp("manager", arcFlag \ {"SUSPEND"}, gone)
                                          \/ Begins("manager", arcFlag \ {"SUSPEND"}, gone)
        BY <1>15, NextOutcomes DEF ResumeArchive, ArchiveType
    <2>2. CASE Rests("manager", arcFlag \ {"SUSPEND"}, gone)
        BY <1>15, <2>1, <2>2, ProcessNames DEF Rests, Removes, IsWithout, ResumeArchive,
            WakeFiles
    <2>3. CASE HandsOver("manager", arcFlag \ {"SUSPEND"}, gone)
        BY <1>15, <2>1, <2>3, ProcessNames DEF HandsOver, GoesOn, Operates, Removes,
            IsWithout, ResumeArchive, WakeFiles
    <2>4. CASE TakesUp("manager", arcFlag \ {"SUSPEND"}, gone)
        BY <1>15, <2>1, <2>4, ProcessNames DEF TakesUp, GoesOn, Operates, Removes,
            IsWithout, ResumeArchive, WakeFiles
    <2>5. CASE Begins("manager", arcFlag \ {"SUSPEND"}, gone)
        BY <1>15, <2>1, <2>5, ProcessNames DEF Begins, GoesOn, Removes, IsWithout,
            ResumeArchive, WakeFiles
    <2> QED
        BY <2>1, <2>2, <2>3, <2>4, <2>5
<1>16. ASSUME UnloadArchive PROVE RestInv'
    <2>1. IsWithout(list', list, ToSet(list))
        BY <1>16, WithoutKeeps DEF UnloadArchive, ReleaseCommands, ListType
    <2>2. \A f \in Files : ~HasFile(list', f)
        BY <2>1, HeadFile DEF IsWithout, ListType
    <2> QED
        BY <2>1, <2>2, HeadFile DEF IsWithout
<1>17. ASSUME LoadArchive PROVE RestInv'
    BY <1>17, ProcessNames DEF LoadArchive, Goes, Leave
<1>18. CASE UNCHANGED archiveVars
    BY <1>18 DEF archiveVars
<1> QED
    BY <1>1, <1>2, <1>3, <1>4, <1>5, <1>6, <1>7, <1>8, <1>9, <1>10, <1>11, <1>12, <1>13,
        <1>14, <1>15, <1>16, <1>17, <1>18
        DEF ArchiveNext, ExecuteCommand, Await, Device

LEMMA SuspendNext == ASSUME ArchiveType, Consistent, ~overtaken', [ArchiveNext]_archiveVars
    PROVE SuspendInv'
<1> USE DEF ArchiveType, Consistent, FlagType, AtType, FileType, DormantType, TokenInv,
    SuspendInv, Executes, CardExecutes
<1>1. ASSUME NEW f \in Files, NEW com \in Commands, NEW async \in BOOLEAN, SendCommand(f, com,
    async) PROVE SuspendInv'
    BY <1>1, ProcessNames DEF SendCommand, Goes, Leave, AtRest
<1>2. ASSUME NEW f \in Files, WaitFileAsync(f) PROVE SuspendInv'
    BY <1>2, ProcessNames DEF WaitFileAsync, Goes, FallAsleep
<1>3. ASSUME NEW f \in Files, CancelFile(f) PROVE SuspendInv'
    BY <1>3, ProcessNames DEF CancelFile
<1>4. ASSUME NEW f \in Files, AwaitOperating(f) PROVE SuspendInv'
    BY <1>4, ProcessNames DEF AwaitOperating, AwakeAt, Goes, FallAsleep
<1>5. ASSUME NEW f \in Files, AwaitEnd(f) PROVE SuspendInv'
    BY <1>5, ProcessNames DEF AwaitEnd, AwakeAt, Goes, Leave, FallAsleep
<1>6. ASSUME NEW p \in Processes, Next1(p) PROVE SuspendInv'
    <2>1. PICK gone \in SUBSET Files : /\ Removes(gone)
                                       /\ \/ Rests(p, arcFlag, gone)
                                          \/ HandsOver(p, arcFlag, gone)
                                          \/ TakesUp(p, arcFlag, gone)
                                          \/ Begins(p, arcFlag, gone)
        BY <1>6, NextOutcomes DEF Next1, ArchiveType
    <2>2. CASE Rests(p, arcFlag, gone)
        BY <1>6, <2>1, <2>2, ProcessNames DEF Rests, Removes, IsWithout, Next1, WakeFiles
    <2>3. CASE HandsOver(p, arcFlag, gone)
        BY <1>6, <2>1, <2>3, ProcessNames DEF HandsOver, GoesOn, Operates, Removes,
            IsWithout, Next1, WakeFiles
    <2>4. CASE TakesUp(p, arcFlag, gone)
        BY <1>6, <2>1, <2>4, ProcessNames DEF TakesUp, GoesOn, Operates, Removes, IsWithout,
            Next1, WakeFiles
    <2>5. CASE Begins(p, arcFlag, gone)
        BY <1>6, <2>1, <2>5, ProcessNames DEF Begins, GoesOn, Removes, IsWithout, Next1,
            WakeFiles
    <2> QED
        BY <2>1, <2>2, <2>3, <2>4, <2>5
<1>7. ASSUME NEW p \in Processes, Activate(p) PROVE SuspendInv'
    BY <1>7, ProcessNames DEF Activate, Goes, Leave, WakeFiles
<1>8. ASSUME NEW p \in Processes, Translate(p) PROVE SuspendInv'
    <2>1. /\ at[p] = "translate" /\ cur[p] \in Files
          /\ UNCHANGED <<command, romLocked, overtaken>>
          /\ \/ Asks(p)
             \/ \E answer \in {"SUCCESS", "UNSUPPORTED"} : Replied(p, answer) \/ Ended(p,
                 answer)
        BY <1>8, TranslateOutcomes DEF ArchiveType
    <2>2. CASE Asks(p)
        BY <2>1, <2>2, ProcessNames DEF Asks
    <2>3. ASSUME NEW answer \in {"SUCCESS", "UNSUPPORTED"}, Replied(p, answer) PROVE SuspendInv'
        BY <2>1, <2>3, ProcessNames DEF Replied
    <2>4. ASSUME NEW answer \in {"SUCCESS", "UNSUPPORTED"}, Ended(p, answer) PROVE SuspendInv'
        BY <2>1, <2>4, ProcessNames DEF Ended, ReleaseCommands, WakeFiles, IsWithout
    <2> QED
        BY <2>1, <2>2, <2>3, <2>4
<1>9. ASSUME NEW p \in Processes, Called(p) PROVE SuspendInv'
    BY <1>9, ProcessNames DEF Called, Goes, Leave
<1>10. ASSUME NEW p \in Processes, AwaitSync(p) PROVE SuspendInv'
    BY <1>10, ProcessNames DEF AwaitSync, AwakeAt, Goes, FallAsleep
<1>11. ASSUME NEW p \in Processes, Release(p) PROVE SuspendInv'
    BY <1>11, ProcessNames DEF Release, ReleaseCommands, WakeFiles, Goes
<1>12. ASSUME NEW ret \in {"SUCCESS", "ERROR"}, NotifyArchiveAsyncEnd(ret) PROVE SuspendInv'
    BY <1>12, ProcessNames DEF NotifyArchiveAsyncEnd, ReleaseCommands, WakeFiles, WakeSync, Goes
<1>13. ASSUME SuspendArchive PROVE SuspendInv'
    BY <1>13, ProcessNames DEF SuspendArchive, Goes, FallAsleep
<1>14. ASSUME AwaitSuspended PROVE SuspendInv'
    BY <1>14, ProcessNames DEF AwaitSuspended, AwakeAt, Goes, FallAsleep
<1>15. ASSUME ResumeArchive PROVE SuspendInv'
    <2>1. PICK gone \in SUBSET Files : /\ Removes(gone)
                                       /\ \/ Rests("manager", arcFlag \ {"SUSPEND"}, gone)
                                          \/ HandsOver("manager", arcFlag \ {"SUSPEND"}, gone)
                                          \/ TakesUp("manager", arcFlag \ {"SUSPEND"}, gone)
                                          \/ Begins("manager", arcFlag \ {"SUSPEND"}, gone)
        BY <1>15, NextOutcomes DEF ResumeArchive, ArchiveType
    <2>2. CASE Rests("manager", arcFlag \ {"SUSPEND"}, gone)
        BY <1>15, <2>1, <2>2, ProcessNames DEF Rests, Removes, IsWithout, ResumeArchive,
            WakeFiles
    <2>3. CASE HandsOver("manager", arcFlag \ {"SUSPEND"}, gone)
        BY <1>15, <2>1, <2>3, ProcessNames DEF HandsOver, GoesOn, Operates, Removes,
            IsWithout, ResumeArchive, WakeFiles
    <2>4. CASE TakesUp("manager", arcFlag \ {"SUSPEND"}, gone)
        BY <1>15, <2>1, <2>4, ProcessNames DEF TakesUp, GoesOn, Operates, Removes,
            IsWithout, ResumeArchive, WakeFiles
    <2>5. CASE Begins("manager", arcFlag \ {"SUSPEND"}, gone)
        BY <1>15, <2>1, <2>5, ProcessNames DEF Begins, GoesOn, Removes, IsWithout,
            ResumeArchive, WakeFiles
    <2> QED
        BY <2>1, <2>2, <2>3, <2>4, <2>5
<1>16. ASSUME UnloadArchive PROVE SuspendInv'
    BY <1>16, ProcessNames DEF UnloadArchive, ReleaseCommands, WakeFiles, Goes
<1>17. ASSUME LoadArchive PROVE SuspendInv'
    BY <1>17, ProcessNames DEF LoadArchive, Goes, Leave
<1>18. CASE UNCHANGED archiveVars
    BY <1>18 DEF archiveVars
<1> QED
    BY <1>1, <1>2, <1>3, <1>4, <1>5, <1>6, <1>7, <1>8, <1>9, <1>10, <1>11, <1>12, <1>13,
        <1>14, <1>15, <1>16, <1>17, <1>18
        DEF ArchiveNext, ExecuteCommand, Await, Device

LEMMA SyncNext == ASSUME ArchiveType, Consistent, ~overtaken', [ArchiveNext]_archiveVars PROVE
    SyncInv'
<1> USE DEF ArchiveType, Consistent, FlagType, ListType, StatType, AtType, FileType, ErrorType,
    ListInv, TokenInv, HeadInv, SyncInv, Executes, IsSync
<1>1. ASSUME NEW f \in Files, NEW com \in Commands, NEW async \in BOOLEAN, SendCommand(f, com,
    async) PROVE SyncInv'
    BY <1>1, ProcessNames DEF SendCommand, Goes, Leave, AtRest
<1>2. ASSUME NEW f \in Files, WaitFileAsync(f) PROVE SyncInv'
    BY <1>2, ProcessNames DEF WaitFileAsync, Goes, FallAsleep
<1>3. ASSUME NEW f \in Files, CancelFile(f) PROVE SyncInv'
    BY <1>3, ProcessNames DEF CancelFile
<1>4. ASSUME NEW f \in Files, AwaitOperating(f) PROVE SyncInv'
    BY <1>4, ProcessNames DEF AwaitOperating, AwakeAt, Goes, FallAsleep
<1>5. ASSUME NEW f \in Files, AwaitEnd(f) PROVE SyncInv'
    BY <1>5, ProcessNames DEF AwaitEnd, AwakeAt, Goes, Leave, FallAsleep
<1>6. ASSUME NEW p \in Processes, Next1(p) PROVE SyncInv'
    <2>1. PICK gone \in SUBSET Files : /\ Removes(gone)
                                       /\ \/ Rests(p, arcFlag, gone)
                                          \/ HandsOver(p, arcFlag, gone)
                                          \/ TakesUp(p, arcFlag, gone)
                                          \/ Begins(p, arcFlag, gone)
        BY <1>6, NextOutcomes DEF Next1
    <2>2. /\ "RUNNING" \in arcFlag /\ device = NoFile
          /\ \A q \in Processes : Executes(q) => q = p
          /\ \A f \in Files : "OPERATING" \notin stat[f]
          /\ \A f \in Files : IsSync(f) /\ f # p => at[f] = "operating?" /\ cur[f] = f
        BY <1>6, BeginsAlone DEF Next1
    <2>6. ASSUME GoesOn(arcFlag) PROVE "BUSY" \in stat[list'[1]] /\ list'[1] \notin gone
        BY <2>1, <2>6 DEF GoesOn, Removes, IsWithout, ListInv
    <2>3. CASE Rests(p, arcFlag, gone)
        BY <1>6, <2>1, <2>2, <2>3, ProcessNames DEF Rests, Removes, IsWithout, Next1
    <2>4. CASE HandsOver(p, arcFlag, gone)
        BY <1>6, <2>1, <2>2, <2>4, <2>6, ProcessNames DEF HandsOver, GoesOn, Operates,
            Removes, IsWithout, Next1, WakeFiles
    <2>5. CASE TakesUp(p, arcFlag, gone)
        BY <1>6, <2>1, <2>2, <2>5, <2>6, ProcessNames DEF TakesUp, GoesOn, Operates,
            Removes, IsWithout, Next1, WakeFiles
    <2> QED
        BY <2>1, <2>2, <2>3, <2>4, <2>5 DEF Begins
<1>7. ASSUME NEW p \in Processes, Activate(p) PROVE SyncInv'
    <2>1. /\ cur[p] \in Files /\ device = NoFile /\ "RUNNING" \in arcFlag
          /\ "BUSY" \in stat[cur[p]]
          /\ \A q \in Processes : Executes(q) => q = p
          /\ \A f \in Files : "OPERATING" \notin stat[f]
          /\ IsSync(cur[p]) /\ cur[p] # p => at[cur[p]] = "operating?" /\ cur[cur[p]] = cur[p]
        BY <1>7, BeginsAlone, BegunIsBusy DEF Activate
    <2>2. CASE IsSync(cur[p]) /\ p # cur[p]
        BY <1>7, <2>1, <2>2, ProcessNames DEF Activate, Goes, Leave, WakeFiles
    <2>3. CASE ~(IsSync(cur[p]) /\ p # cur[p])
        BY <1>7, <2>1, <2>3, ProcessNames DEF Activate, Goes
    <2> QED
        BY <2>2, <2>3
<1>8. ASSUME NEW p \in Processes, Translate(p) PROVE SyncInv'
    <2>1. /\ at[p] = "translate" /\ cur[p] \in Files
          /\ UNCHANGED <<command, romLocked, overtaken>>
          /\ \/ Asks(p)
             \/ \E answer \in {"SUCCESS", "UNSUPPORTED"} : Replied(p, answer) \/ Ended(p,
                 answer)
        BY <1>8, TranslateOutcomes DEF ArchiveType
    <2>2. CASE Asks(p)
        BY <2>1, <2>2, ProcessNames DEF Asks
    <2>3. ASSUME NEW answer \in {"SUCCESS", "UNSUPPORTED"}, Replied(p, answer) PROVE SyncInv'
        BY <2>1, <2>3, ProcessNames DEF Replied
    <2>4. ASSUME NEW answer \in {"SUCCESS", "UNSUPPORTED"}, Ended(p, answer) PROVE SyncInv'
        BY <2>1, <2>4, ProcessNames DEF Ended, ReleaseCommands, WakeFiles, IsWithout
    <2> QED
        BY <2>1, <2>2, <2>3, <2>4
<1>9. ASSUME NEW p \in Processes, Called(p) PROVE SyncInv'
    BY <1>9, ProcessNames DEF Called, Goes, Leave
<1>10. ASSUME NEW p \in Processes, AwaitSync(p) PROVE SyncInv'
    BY <1>10, ProcessNames DEF AwaitSync, AwakeAt, Goes, FallAsleep
<1>11. ASSUME NEW p \in Processes, Release(p) PROVE SyncInv'
    BY <1>11, ProcessNames DEF Release, ReleaseCommands, WakeFiles, Goes
<1>12. ASSUME NEW ret \in {"SUCCESS", "ERROR"}, NotifyArchiveAsyncEnd(ret) PROVE SyncInv'
    <2>1. /\ device # NoFile /\ device \in Files /\ Len(list) # 0 /\ device = list[1]
          /\ Head(list) = device /\ "RUNNING" \in arcFlag
          /\ "OPERATING" \in stat[device] /\ "BUSY" \in stat[device]
          /\ "IS_ASYNC" \in arcFlag <=> ~IsSync(device)
        BY <1>12, DeviceIsHead DEF NotifyArchiveAsyncEnd
    <2>2. CASE "IS_ASYNC" \in arcFlag
        BY <1>12, <2>1, <2>2, ProcessNames DEF NotifyArchiveAsyncEnd, ReleaseCommands,
            WakeFiles, Goes
    <2>3. CASE "IS_ASYNC" \notin arcFlag
        BY <1>12, <2>1, <2>3, ProcessNames DEF NotifyArchiveAsyncEnd, WakeSync
    <2> QED
        BY <2>2, <2>3
<1>13. ASSUME SuspendArchive PROVE SyncInv'
    BY <1>13, ProcessNames DEF SuspendArchive, Goes, FallAsleep
<1>14. ASSUME AwaitSuspended PROVE SyncInv'
    BY <1>14, ProcessNames DEF AwaitSuspended, AwakeAt, Goes, FallAsleep
<1>15. ASSUME ResumeArchive PROVE SyncInv'
    <2>1. PICK gone \in SUBSET Files :
             /\ Removes(gone)
             /\ \/ Rests("manager", arcFlag \ {"SUSPEND"}, gone)
                \/ HandsOver("manager", arcFlag \ {"SUSPEND"}, gone)
                \/ TakesUp("manager", arcFlag \ {"SUSPEND"}, gone)
                \/ Begins("manager", arcFlag \ {"SUSPEND"}, gone)
        BY <1>15, NextOutcomes DEF ResumeArchive
    <2>2. /\ "RUNNING" \notin arcFlag /\ device = NoFile
          /\ \A q \in Processes : ~Executes(q)
          /\ \A f \in Files : "OPERATING" \notin stat[f]
        BY <1>15, SuspendedRests DEF ResumeArchive
    <2>3. CASE Rests("manager", arcFlag \ {"SUSPEND"}, gone)
        BY <1>15, <2>1, <2>2, <2>3, ProcessNames DEF Rests, Removes, IsWithout, ResumeArchive
    <2>4. CASE Begins("manager", arcFlag \ {"SUSPEND"}, gone)
        BY <1>15, <2>1, <2>2, <2>4, ProcessNames DEF Begins, GoesOn, Removes, IsWithout,
            ResumeArchive, WakeFiles
    <2> QED
        BY <2>1, <2>2, <2>3, <2>4 DEF HandsOver, TakesUp
<1>16. ASSUME UnloadArchive PROVE SyncInv'
    <2>1. /\ "RUNNING" \notin arcFlag /\ device = NoFile
          /\ \A q \in Processes : ~Executes(q)
          /\ \A f \in Files : "OPERATING" \notin stat[f]
        BY <1>16, SuspendedRests DEF UnloadArchive
    <2> QED
        BY <1>16, <2>1, ProcessNames DEF UnloadArchive, ReleaseCommands, WakeFiles, Goes
<1>17. ASSUME LoadArchive PROVE SyncInv'
    BY <1>17, ProcessNames DEF LoadArchive, Goes, Leave
<1>18. CASE UNCHANGED archiveVars
    BY <1>18 DEF archiveVars
<1> QED
    BY <1>1, <1>2, <1>3, <1>4, <1>5, <1>6, <1>7, <1>8, <1>9, <1>10, <1>11, <1>12, <1>13,
        <1>14, <1>15, <1>16, <1>17, <1>18
        DEF ArchiveNext, ExecuteCommand, Await, Device

LEMMA DormantNext == ASSUME ArchiveType, Consistent, ~overtaken', [ArchiveNext]_archiveVars
    PROVE DormantInv'
<1> USE DEF ArchiveType, Consistent, ListType, StatType, AtType, FileType, DormantType,
    DormantInv, HeadInv, DeviceInv, SyncInv, TokenInv, Executes, CardExecutes, IsSync
<1>1. ASSUME NEW f \in Files, NEW com \in Commands, NEW async \in BOOLEAN, SendCommand(f, com,
    async) PROVE DormantInv'
    BY <1>1, ProcessNames DEF SendCommand, Goes, Leave, AtRest
<1>2. ASSUME NEW f \in Files, WaitFileAsync(f) PROVE DormantInv'
    BY <1>2, ProcessNames DEF WaitFileAsync, Goes, FallAsleep
<1>3. ASSUME NEW f \in Files, CancelFile(f) PROVE DormantInv'
    BY <1>3, ProcessNames DEF CancelFile
<1>4. ASSUME NEW f \in Files, AwaitOperating(f) PROVE DormantInv'
    BY <1>4, ProcessNames DEF AwaitOperating, AwakeAt, Goes, FallAsleep
<1>5. ASSUME NEW f \in Files, AwaitEnd(f) PROVE DormantInv'
    BY <1>5, ProcessNames DEF AwaitEnd, AwakeAt, Goes, Leave, FallAsleep
<1>6. ASSUME NEW p \in Processes, Next1(p) PROVE DormantInv'
    <2>1. PICK gone \in SUBSET Files : /\ Removes(gone)
                                       /\ \/ Rests(p, arcFlag, gone)
                                          \/ HandsOver(p, arcFlag, gone)
                                          \/ TakesUp(p, arcFlag, gone)
                                          \/ Begins(p, arcFlag, gone)
        BY <1>6, NextOutcomes DEF Next1
    <2>2. /\ "RUNNING" \in arcFlag /\ device = NoFile
          /\ \A q \in Processes : Executes(q) => q = p
          /\ \A f \in Files : "OPERATING" \notin stat[f]
          /\ \A f \in Files : IsSync(f) /\ f # p => at[f] = "operating?" /\ cur[f] = f
        BY <1>6, BeginsAlone DEF Next1
    <2>6. ASSUME GoesOn(arcFlag) PROVE "BUSY" \in stat[list'[1]] /\ list'[1] \notin gone
        BY <2>1, <2>6 DEF GoesOn, Removes, IsWithout, ListInv
    <2>3. CASE Rests(p, arcFlag, gone)
        BY <1>6, <2>1, <2>2, <2>3, ProcessNames DEF Rests, Removes, IsWithout, Next1
    <2>4. CASE HandsOver(p, arcFlag, gone)
        BY <1>6, <2>1, <2>2, <2>4, <2>6, ProcessNames DEF HandsOver, GoesOn, Operates,
            Removes, IsWithout, Next1, WakeFiles
    <2>5. CASE TakesUp(p, arcFlag, gone)
        BY <1>6, <2>1, <2>2, <2>5, <2>6, ProcessNames DEF TakesUp, GoesOn, Operates,
            Removes, IsWithout, Next1, WakeFiles
    <2> QED
        BY <2>1, <2>2, <2>3, <2>4, <2>5 DEF Begins
<1>7. ASSUME NEW p \in Processes, Activate(p) PROVE DormantInv'
    <2>1. /\ cur[p] \in Files /\ device = NoFile /\ "RUNNING" \in arcFlag
          /\ "BUSY" \in stat[cur[p]]
          /\ \A q \in Processes : Executes(q) => q = p
          /\ \A f \in Files : "OPERATING" \notin stat[f]
          /\ IsSync(cur[p]) /\ cur[p] # p => at[cur[p]] = "operating?" /\ cur[cur[p]] = cur[p]
        BY <1>7, BeginsAlone, BegunIsBusy DEF Activate
    <2>2. CASE IsSync(cur[p]) /\ p # cur[p]
        <3>5. /\ at' = [at EXCEPT ![p] = "idle"] /\ device' = device
              /\ stat' = [stat EXCEPT ![cur[p]] = @ \cup {"OPERATING"}]
            BY <1>7, <2>2 DEF Activate, Goes, Leave
        <3>6. WakeFiles({cur[p]})
            BY <1>7, <2>2 DEF Activate
        <3>7. ASSUME NEW q \in Processes
              PROVE  dormant'[q] =
                     (dormant[q] /\ ~(q \in {cur[p]} /\ at[q] \in {"operating?", "busy?"}))
            BY ONLY <3>6 DEF WakeFiles
        <3>1. /\ at' = [at EXCEPT ![p] = "idle"] /\ device' = device
              /\ stat' = [stat EXCEPT ![cur[p]] = @ \cup {"OPERATING"}]
              /\ \A q \in Processes :
                    dormant'[q] => dormant[q] /\ ~(q = cur[p] /\ at[q] \in {"operating?",
                        "busy?"})
            BY <3>5, <3>7
        <3>2. at[p] = "activate" /\ ~dormant[p]
            BY <1>7 DEF Activate
        <3>3. ASSUME NEW q \in Processes, dormant'[q]
              PROVE  dormant[q] /\ q # p /\ q # cur[p] /\ at'[q] = at[q]
            BY <2>1, <2>2, <3>1, <3>2, <3>3, ProcessNames
        <3>4. ASSUME NEW q \in Processes, dormant'[q]
              PROVE  /\ at'[q] \in {"operating?", "busy?", "sync?", "suspending?"}
                     /\ at'[q] = "operating?" => "OPERATING" \notin stat'[q]
                     /\ at'[q] = "busy?" => "BUSY" \in stat'[q]
                     /\ at'[q] = "sync?" => device' = q
            <4>1. dormant[q] /\ q # p /\ q # cur[p] /\ at'[q] = at[q]
                BY <3>3, <3>4
            <4>2. q \in Files => stat'[q] = stat[q]
                BY <3>1, <4>1
            <4> QED
                BY <2>1, <3>1, <4>1, <4>2
        <3> QED
            BY <3>4
    <2>3. CASE ~(IsSync(cur[p]) /\ p # cur[p])
        BY <1>7, <2>1, <2>3, ProcessNames DEF Activate, Goes
    <2> QED
        BY <2>2, <2>3
<1>8. ASSUME NEW p \in Processes, Translate(p) PROVE DormantInv'
    <2>1. /\ at[p] = "translate" /\ cur[p] \in Files
          /\ UNCHANGED <<command, romLocked, overtaken>>
          /\ \/ Asks(p)
             \/ \E answer \in {"SUCCESS", "UNSUPPORTED"} : Replied(p, answer) \/ Ended(p,
                 answer)
        BY <1>8, TranslateOutcomes DEF ArchiveType
    <2>2. CASE Asks(p)
        BY <2>1, <2>2, ProcessNames DEF Asks
    <2>3. ASSUME NEW answer \in {"SUCCESS", "UNSUPPORTED"}, Replied(p, answer) PROVE DormantInv'
        BY <2>1, <2>3, ProcessNames DEF Replied
    <2>4. ASSUME NEW answer \in {"SUCCESS", "UNSUPPORTED"}, Ended(p, answer) PROVE DormantInv'
        BY <2>1, <2>4, ProcessNames DEF Ended, ReleaseCommands, WakeFiles, IsWithout
    <2> QED
        BY <2>1, <2>2, <2>3, <2>4
<1>9. ASSUME NEW p \in Processes, Called(p) PROVE DormantInv'
    BY <1>9, ProcessNames DEF Called, Goes, Leave
<1>10. ASSUME NEW p \in Processes, AwaitSync(p) PROVE DormantInv'
    <2>1. ASSUME "IS_SYNC" \in arcFlag PROVE device = p
        <3>1. device \in Files /\ Executes(device)
            BY <2>1 DEF DeviceType
        <3>2. Executes(p)
            BY <1>10 DEF AwaitSync, AwakeAt
        <3> QED
            BY <3>1, <3>2, Alone, ProcessNames
    <2>2. CASE "IS_SYNC" \in arcFlag
        BY <1>10, <2>1, <2>2 DEF AwaitSync, AwakeAt, FallAsleep
    <2>3. CASE "IS_SYNC" \notin arcFlag
        BY <1>10, <2>3 DEF AwaitSync, AwakeAt, Goes
    <2> QED
        BY <2>2, <2>3
<1>11. ASSUME NEW p \in Processes, Release(p) PROVE DormantInv'
    BY <1>11, ProcessNames DEF Release, ReleaseCommands, WakeFiles, Goes
<1>12. ASSUME NEW ret \in {"SUCCESS", "ERROR"}, NotifyArchiveAsyncEnd(ret) PROVE DormantInv'
    <2>1. /\ device # NoFile /\ device \in Files /\ Len(list) # 0 /\ device = list[1]
          /\ Head(list) = device /\ "RUNNING" \in arcFlag
          /\ "OPERATING" \in stat[device] /\ "BUSY" \in stat[device]
          /\ "IS_ASYNC" \in arcFlag <=> ~IsSync(device)
        BY <1>12, DeviceIsHead DEF NotifyArchiveAsyncEnd
    <2>2. CASE "IS_ASYNC" \in arcFlag
        BY <1>12, <2>1, <2>2, ProcessNames DEF NotifyArchiveAsyncEnd, ReleaseCommands,
            WakeFiles, Goes
    <2>3. CASE "IS_ASYNC" \notin arcFlag
        BY <1>12, <2>1, <2>3, ProcessNames DEF NotifyArchiveAsyncEnd, WakeSync
    <2> QED
        BY <2>2, <2>3
<1>13. ASSUME SuspendArchive PROVE DormantInv'
    BY <1>13, ProcessNames DEF SuspendArchive, Goes, FallAsleep
<1>14. ASSUME AwaitSuspended PROVE DormantInv'
    BY <1>14, ProcessNames DEF AwaitSuspended, AwakeAt, Goes, FallAsleep
<1>15. ASSUME ResumeArchive PROVE DormantInv'
    <2>1. PICK gone \in SUBSET Files :
             /\ Removes(gone)
             /\ \/ Rests("manager", arcFlag \ {"SUSPEND"}, gone)
                \/ HandsOver("manager", arcFlag \ {"SUSPEND"}, gone)
                \/ TakesUp("manager", arcFlag \ {"SUSPEND"}, gone)
                \/ Begins("manager", arcFlag \ {"SUSPEND"}, gone)
        BY <1>15, NextOutcomes DEF ResumeArchive
    <2>2. /\ "RUNNING" \notin arcFlag /\ device = NoFile
          /\ \A q \in Processes : ~Executes(q)
          /\ \A f \in Files : "OPERATING" \notin stat[f]
        BY <1>15, SuspendedRests DEF ResumeArchive
    <2>3. CASE Rests("manager", arcFlag \ {"SUSPEND"}, gone)
        BY <1>15, <2>1, <2>2, <2>3, ProcessNames DEF Rests, Removes, IsWithout, ResumeArchive
    <2>4. CASE Begins("manager", arcFlag \ {"SUSPEND"}, gone)
        BY <1>15, <2>1, <2>2, <2>4, ProcessNames DEF Begins, GoesOn, Removes, IsWithout,
            ResumeArchive, WakeFiles
    <2> QED
        BY <2>1, <2>2, <2>3, <2>4 DEF HandsOver, TakesUp
<1>16. ASSUME UnloadArchive PROVE DormantInv'
    <2>1. /\ "RUNNING" \notin arcFlag /\ device = NoFile
          /\ \A q \in Processes : ~Executes(q)
          /\ \A f \in Files : "OPERATING" \notin stat[f]
        BY <1>16, SuspendedRests DEF UnloadArchive
    <2> QED
        BY <1>16, <2>1, ProcessNames DEF UnloadArchive, ReleaseCommands, WakeFiles, Goes
<1>17. ASSUME LoadArchive PROVE DormantInv'
    BY <1>17, ProcessNames DEF LoadArchive, Goes, Leave
<1>18. CASE UNCHANGED archiveVars
    BY <1>18 DEF archiveVars
<1> QED
    BY <1>1, <1>2, <1>3, <1>4, <1>5, <1>6, <1>7, <1>8, <1>9, <1>10, <1>11, <1>12, <1>13,
        <1>14, <1>15, <1>16, <1>17, <1>18
        DEF ArchiveNext, ExecuteCommand, Await, Device

LEMMA HeadNext == ASSUME ArchiveType, Consistent, ~overtaken', [ArchiveNext]_archiveVars PROVE
    HeadInv'
<1> USE DEF ArchiveType, Consistent, FlagType, ListType, StatType, AtType, FileType, ListInv,
    RestInv, HeadInv, DeviceInv, SyncInv, TokenInv, Executes, CardExecutes, IsSync
<1>1. ASSUME NEW f \in Files, NEW com \in Commands, NEW async \in BOOLEAN, SendCommand(f, com,
    async) PROVE HeadInv'
    BY <1>1, ProcessNames, AppendedFile DEF SendCommand, Goes, Leave, AtRest
<1>2. ASSUME NEW f \in Files, WaitFileAsync(f) PROVE HeadInv'
    BY <1>2, ProcessNames, AppendedFile DEF WaitFileAsync, Goes, FallAsleep
<1>3. ASSUME NEW f \in Files, CancelFile(f) PROVE HeadInv'
    BY <1>3, ProcessNames, AppendedFile DEF CancelFile
<1>4. ASSUME NEW f \in Files, AwaitOperating(f) PROVE HeadInv'
    BY <1>4, ProcessNames, AppendedFile DEF AwaitOperating, AwakeAt, Goes, FallAsleep
<1>5. ASSUME NEW f \in Files, AwaitEnd(f) PROVE HeadInv'
    BY <1>5, ProcessNames, AppendedFile DEF AwaitEnd, AwakeAt, Goes, Leave, FallAsleep
<1>6. ASSUME NEW p \in Processes, Next1(p) PROVE HeadInv'
    <2>1. PICK gone \in SUBSET Files : /\ Removes(gone)
                                       /\ \/ Rests(p, arcFlag, gone)
                                          \/ HandsOver(p, arcFlag, gone)
                                          \/ TakesUp(p, arcFlag, gone)
                                          \/ Begins(p, arcFlag, gone)
        BY <1>6, NextOutcomes DEF Next1
    <2>2. /\ "RUNNING" \in arcFlag /\ device = NoFile
          /\ \A q \in Processes : Executes(q) => q = p
          /\ \A f \in Files : "OPERATING" \notin stat[f]
          /\ \A f \in Files : IsSync(f) /\ f # p => at[f] = "operating?" /\ cur[f] = f
        BY <1>6, BeginsAlone DEF Next1
    <2>6. ASSUME GoesOn(arcFlag) PROVE "BUSY" \in stat[list'[1]] /\ list'[1] \notin gone
        BY <2>1, <2>6 DEF GoesOn, Removes, IsWithout, ListInv
    <2>3. CASE Rests(p, arcFlag, gone)
        BY <1>6, <2>1, <2>2, <2>3, ProcessNames DEF Rests, Removes, IsWithout, Next1
    <2>4. CASE HandsOver(p, arcFlag, gone)
        BY <1>6, <2>1, <2>2, <2>4, <2>6, ProcessNames DEF HandsOver, GoesOn, Operates,
            Removes, IsWithout, Next1, WakeFiles
    <2>5. CASE TakesUp(p, arcFlag, gone)
        BY <1>6, <2>1, <2>2, <2>5, <2>6, ProcessNames DEF TakesUp, GoesOn, Operates,
            Removes, IsWithout, Next1, WakeFiles
    <2> QED
        BY <2>1, <2>2, <2>3, <2>4, <2>5 DEF Begins
<1>7. ASSUME NEW p \in Processes, Activate(p) PROVE HeadInv'
    <2>1. /\ cur[p] \in Files /\ device = NoFile /\ "RUNNING" \in arcFlag
          /\ "BUSY" \in stat[cur[p]]
          /\ \A q \in Processes : Executes(q) => q = p
          /\ \A f \in Files : "OPERATING" \notin stat[f]
          /\ IsSync(cur[p]) /\ cur[p] # p => at[cur[p]] = "operating?" /\ cur[cur[p]] = cur[p]
        BY <1>7, BeginsAlone, BegunIsBusy DEF Activate
    <2>2. CASE IsSync(cur[p]) /\ p # cur[p]
        BY <1>7, <2>1, <2>2, ProcessNames DEF Activate, Goes, Leave, WakeFiles
    <2>3. CASE ~(IsSync(cur[p]) /\ p # cur[p])
        BY <1>7, <2>1, <2>3, ProcessNames DEF Activate, Goes
    <2> QED
        BY <2>2, <2>3
<1>8. ASSUME NEW p \in Processes, Translate(p) PROVE HeadInv'
    <2>1. /\ at[p] = "translate" /\ cur[p] \in Files
          /\ UNCHANGED <<command, romLocked, overtaken>>
          /\ \/ Asks(p)
             \/ \E answer \in {"SUCCESS", "UNSUPPORTED"} : Replied(p, answer) \/ Ended(p,
                 answer)
        BY <1>8, TranslateOutcomes DEF ArchiveType
    <2>2. CASE Asks(p)
        BY <2>1, <2>2, ProcessNames, AppendedFile DEF Asks
    <2>3. ASSUME NEW answer \in {"SUCCESS", "UNSUPPORTED"}, Replied(p, answer) PROVE HeadInv'
        BY <2>1, <2>3, ProcessNames, AppendedFile DEF Replied
    <2>4. ASSUME NEW answer \in {"SUCCESS", "UNSUPPORTED"}, Ended(p, answer) PROVE HeadInv'
        BY <2>1, <2>4, ProcessNames, AppendedFile DEF Ended, ReleaseCommands, WakeFiles,
            IsWithout
    <2> QED
        BY <2>1, <2>2, <2>3, <2>4
<1>9. ASSUME NEW p \in Processes, Called(p) PROVE HeadInv'
    <2>1. CASE IsSync(cur[p])
        <3>0. at[p] = "called" /\ cur[p] \in Files
            BY <1>9 DEF Called
        <3>5. p = cur[p]
            BY <1>9, <2>1 DEF Called
        <3>1. p = cur[p] /\ p \in Files /\ Executes(p) /\ "OPERATING" \in stat[p]
            BY <2>1, <3>0, <3>5
        <3>2. /\ at' = [at EXCEPT ![p] = "sync?"] /\ cur' = cur
              /\ stat' = stat /\ list' = list /\ arcFlag' = arcFlag
            BY <1>9, <2>1 DEF Called, Goes
        <3>3. \A f \in Files :
                 "OPERATING" \in stat'[f] =>
                     Len(list') # 0 /\ f = list'[1] /\ "RUNNING" \in arcFlag'
            BY <3>2
        <3>4. ASSUME NEW q \in Processes
              PROVE  /\ at'[q] \in {"activate", "next"} =>
                           \A f \in Files : "OPERATING" \notin stat'[f]
                     /\ at'[q] = "activate" => Len(list') # 0 /\ cur'[q] = list'[1]
                     /\ at'[q] \in {"translate", "release"} => "OPERATING" \in stat'[cur'[q]]
                     /\ at'[q] = "release" => q = cur'[q] /\ IsSync(q)'
                     /\ at'[q] \in {"called", "sync?"} /\ q = cur'[q] /\ IsSync(q)' =>
                           "OPERATING" \in stat'[q]
                     /\ at'[q] = "sync?" => q = cur'[q] /\ IsSync(q)'
            <4>1. CASE q = p
                BY <2>1, <3>1, <3>2, <4>1
            <4>2. CASE q # p
                <5>1. at'[q] = at[q]
                    BY <3>2, <4>2
                <5> QED
                    BY <3>2, <5>1
            <4> QED
                BY <4>1, <4>2
        <3> QED
            BY <3>3, <3>4
    <2>2. CASE ~IsSync(cur[p])
        BY <1>9, <2>2 DEF Called, Goes, Leave
    <2> QED
        BY <2>1, <2>2
<1>10. ASSUME NEW p \in Processes, AwaitSync(p) PROVE HeadInv'
    BY <1>10, ProcessNames, AppendedFile DEF AwaitSync, AwakeAt, Goes, FallAsleep
<1>11. ASSUME NEW p \in Processes, Release(p) PROVE HeadInv'
    BY <1>11, ProcessNames, AppendedFile DEF Release, ReleaseCommands, WakeFiles, Goes
<1>12. ASSUME NEW ret \in {"SUCCESS", "ERROR"}, NotifyArchiveAsyncEnd(ret) PROVE HeadInv'
    <2>1. /\ device # NoFile /\ device \in Files /\ Len(list) # 0 /\ device = list[1]
          /\ Head(list) = device /\ "RUNNING" \in arcFlag
          /\ "OPERATING" \in stat[device] /\ "BUSY" \in stat[device]
          /\ "IS_ASYNC" \in arcFlag <=> ~IsSync(device)
        BY <1>12, DeviceIsHead DEF NotifyArchiveAsyncEnd
    <2>2. CASE "IS_ASYNC" \in arcFlag
        BY <1>12, <2>1, <2>2, ProcessNames DEF NotifyArchiveAsyncEnd, ReleaseCommands,
            WakeFiles, Goes
    <2>3. CASE "IS_ASYNC" \notin arcFlag
        BY <1>12, <2>1, <2>3, ProcessNames DEF NotifyArchiveAsyncEnd, WakeSync
    <2> QED
        BY <2>2, <2>3
<1>13. ASSUME SuspendArchive PROVE HeadInv'
    BY <1>13, ProcessNames, AppendedFile DEF SuspendArchive, Goes, FallAsleep
<1>14. ASSUME AwaitSuspended PROVE HeadInv'
    BY <1>14, ProcessNames, AppendedFile DEF AwaitSuspended, AwakeAt, Goes, FallAsleep
<1>15. ASSUME ResumeArchive PROVE HeadInv'
    <2>1. PICK gone \in SUBSET Files :
             /\ Removes(gone)
             /\ \/ Rests("manager", arcFlag \ {"SUSPEND"}, gone)
                \/ HandsOver("manager", arcFlag \ {"SUSPEND"}, gone)
                \/ TakesUp("manager", arcFlag \ {"SUSPEND"}, gone)
                \/ Begins("manager", arcFlag \ {"SUSPEND"}, gone)
        BY <1>15, NextOutcomes DEF ResumeArchive
    <2>2. /\ "RUNNING" \notin arcFlag /\ device = NoFile
          /\ \A q \in Processes : ~Executes(q)
          /\ \A f \in Files : "OPERATING" \notin stat[f]
        BY <1>15, SuspendedRests DEF ResumeArchive
    <2>3. CASE Rests("manager", arcFlag \ {"SUSPEND"}, gone)
        BY <1>15, <2>1, <2>2, <2>3, ProcessNames DEF Rests, Removes, IsWithout, ResumeArchive
    <2>4. CASE Begins("manager", arcFlag \ {"SUSPEND"}, gone)
        BY <1>15, <2>1, <2>2, <2>4, ProcessNames DEF Begins, GoesOn, Removes, IsWithout,
            ResumeArchive, WakeFiles
    <2> QED
        BY <2>1, <2>2, <2>3, <2>4 DEF HandsOver, TakesUp
<1>16. ASSUME UnloadArchive PROVE HeadInv'
    <2>1. /\ "RUNNING" \notin arcFlag /\ device = NoFile
          /\ \A q \in Processes : ~Executes(q)
          /\ \A f \in Files : "OPERATING" \notin stat[f]
        BY <1>16, SuspendedRests DEF UnloadArchive
    <2> QED
        BY <1>16, <2>1, ProcessNames DEF UnloadArchive, ReleaseCommands, WakeFiles, Goes
<1>17. ASSUME LoadArchive PROVE HeadInv'
    BY <1>17, ProcessNames, AppendedFile DEF LoadArchive, Goes, Leave
<1>18. CASE UNCHANGED archiveVars
    BY <1>18 DEF archiveVars
<1> QED
    BY <1>1, <1>2, <1>3, <1>4, <1>5, <1>6, <1>7, <1>8, <1>9, <1>10, <1>11, <1>12, <1>13,
        <1>14, <1>15, <1>16, <1>17, <1>18
        DEF ArchiveNext, ExecuteCommand, Await, Device

LEMMA DeviceNext == ASSUME ArchiveType, Consistent, ~overtaken', [ArchiveNext]_archiveVars PROVE
    DeviceInv'
<1> USE DEF ArchiveType, Consistent, FlagType, ListType, StatType, DeviceType, AtType, FileType,
    HeadInv, DeviceInv, SyncInv, TokenInv, Executes, CardExecutes, IsSync
<1>1. ASSUME NEW f \in Files, NEW com \in Commands, NEW async \in BOOLEAN, SendCommand(f, com,
    async) PROVE DeviceInv'
    BY <1>1, ProcessNames DEF SendCommand, Goes, Leave, AtRest
<1>2. ASSUME NEW f \in Files, WaitFileAsync(f) PROVE DeviceInv'
    BY <1>2, ProcessNames DEF WaitFileAsync, Goes, FallAsleep
<1>3. ASSUME NEW f \in Files, CancelFile(f) PROVE DeviceInv'
    BY <1>3, ProcessNames DEF CancelFile
<1>4. ASSUME NEW f \in Files, AwaitOperating(f) PROVE DeviceInv'
    BY <1>4, ProcessNames DEF AwaitOperating, AwakeAt, Goes, FallAsleep
<1>5. ASSUME NEW f \in Files, AwaitEnd(f) PROVE DeviceInv'
    BY <1>5, ProcessNames DEF AwaitEnd, AwakeAt, Goes, Leave, FallAsleep
<1>6. ASSUME NEW p \in Processes, Next1(p) PROVE DeviceInv'
    <2>1. PICK gone \in SUBSET Files : /\ Removes(gone)
                                       /\ \/ Rests(p, arcFlag, gone)
                                          \/ HandsOver(p, arcFlag, gone)
                                          \/ TakesUp(p, arcFlag, gone)
                                          \/ Begins(p, arcFlag, gone)
        BY <1>6, NextOutcomes DEF Next1
    <2>2. /\ "RUNNING" \in arcFlag /\ device = NoFile
          /\ \A q \in Processes : Executes(q) => q = p
          /\ \A f \in Files : "OPERATING" \notin stat[f]
          /\ \A f \in Files : IsSync(f) /\ f # p => at[f] = "operating?" /\ cur[f] = f
        BY <1>6, BeginsAlone DEF Next1
    <2>6. ASSUME GoesOn(arcFlag) PROVE "BUSY" \in stat[list'[1]] /\ list'[1] \notin gone
        BY <2>1, <2>6 DEF GoesOn, Removes, IsWithout, ListInv
    <2>3. CASE Rests(p, arcFlag, gone)
        BY <1>6, <2>1, <2>2, <2>3, ProcessNames DEF Rests, Removes, IsWithout, Next1
    <2>4. CASE HandsOver(p, arcFlag, gone)
        BY <1>6, <2>1, <2>2, <2>4, <2>6, ProcessNames DEF HandsOver, GoesOn, Operates,
            Removes, IsWithout, Next1, WakeFiles
    <2>5. CASE TakesUp(p, arcFlag, gone)
        BY <1>6, <2>1, <2>2, <2>5, <2>6, ProcessNames DEF TakesUp, GoesOn, Operates,
            Removes, IsWithout, Next1, WakeFiles
    <2> QED
        BY <2>1, <2>2, <2>3, <2>4, <2>5 DEF Begins
<1>7. ASSUME NEW p \in Processes, Activate(p) PROVE DeviceInv'
    <2>1. /\ cur[p] \in Files /\ device = NoFile /\ "RUNNING" \in arcFlag
          /\ "BUSY" \in stat[cur[p]]
          /\ \A q \in Processes : Executes(q) => q = p
          /\ \A f \in Files : "OPERATING" \notin stat[f]
          /\ IsSync(cur[p]) /\ cur[p] # p => at[cur[p]] = "operating?" /\ cur[cur[p]] = cur[p]
        BY <1>7, BeginsAlone, BegunIsBusy DEF Activate
    <2>2. CASE IsSync(cur[p]) /\ p # cur[p]
        BY <1>7, <2>1, <2>2, ProcessNames DEF Activate, Goes, Leave, WakeFiles
    <2>3. CASE ~(IsSync(cur[p]) /\ p # cur[p])
        BY <1>7, <2>1, <2>3, ProcessNames DEF Activate, Goes
    <2> QED
        BY <2>2, <2>3
<1>8. ASSUME NEW p \in Processes, Translate(p) PROVE DeviceInv'
    <2>1. /\ at[p] = "translate" /\ cur[p] \in Files
          /\ UNCHANGED <<command, romLocked, overtaken>>
          /\ \/ Asks(p)
             \/ \E answer \in {"SUCCESS", "UNSUPPORTED"} : Replied(p, answer) \/ Ended(p,
                 answer)
        BY <1>8, TranslateOutcomes DEF ArchiveType
    <2>2. CASE Asks(p)
        BY <2>1, <2>2, ProcessNames DEF Asks
    <2>3. ASSUME NEW answer \in {"SUCCESS", "UNSUPPORTED"}, Replied(p, answer) PROVE DeviceInv'
        BY <2>1, <2>3, ProcessNames DEF Replied
    <2>4. ASSUME NEW answer \in {"SUCCESS", "UNSUPPORTED"}, Ended(p, answer) PROVE DeviceInv'
        BY <2>1, <2>4, ProcessNames DEF Ended, ReleaseCommands, WakeFiles, IsWithout
    <2> QED
        BY <2>1, <2>2, <2>3, <2>4
<1>9. ASSUME NEW p \in Processes, Called(p) PROVE DeviceInv'
    BY <1>9, ProcessNames DEF Called, Goes, Leave
<1>10. ASSUME NEW p \in Processes, AwaitSync(p) PROVE DeviceInv'
    BY <1>10, ProcessNames DEF AwaitSync, AwakeAt, Goes, FallAsleep
<1>11. ASSUME NEW p \in Processes, Release(p) PROVE DeviceInv'
    BY <1>11, ProcessNames DEF Release, ReleaseCommands, WakeFiles, Goes
<1>12. ASSUME NEW ret \in {"SUCCESS", "ERROR"}, NotifyArchiveAsyncEnd(ret) PROVE DeviceInv'
    <2>1. /\ device # NoFile /\ device \in Files /\ Len(list) # 0 /\ device = list[1]
          /\ Head(list) = device /\ "RUNNING" \in arcFlag
          /\ "OPERATING" \in stat[device] /\ "BUSY" \in stat[device]
          /\ "IS_ASYNC" \in arcFlag <=> ~IsSync(device)
        BY <1>12, DeviceIsHead DEF NotifyArchiveAsyncEnd
    <2>2. CASE "IS_ASYNC" \in arcFlag
        BY <1>12, <2>1, <2>2, ProcessNames DEF NotifyArchiveAsyncEnd, ReleaseCommands,
            WakeFiles, Goes
    <2>3. CASE "IS_ASYNC" \notin arcFlag
        BY <1>12, <2>1, <2>3, ProcessNames DEF NotifyArchiveAsyncEnd, WakeSync
    <2> QED
        BY <2>2, <2>3
<1>13. ASSUME SuspendArchive PROVE DeviceInv'
    BY <1>13, ProcessNames DEF SuspendArchive, Goes, FallAsleep
<1>14. ASSUME AwaitSuspended PROVE DeviceInv'
    BY <1>14, ProcessNames DEF AwaitSuspended, AwakeAt, Goes, FallAsleep
<1>15. ASSUME ResumeArchive PROVE DeviceInv'
    <2>1. PICK gone \in SUBSET Files :
             /\ Removes(gone)
             /\ \/ Rests("manager", arcFlag \ {"SUSPEND"}, gone)
                \/ HandsOver("manager", arcFlag \ {"SUSPEND"}, gone)
                \/ TakesUp("manager", arcFlag \ {"SUSPEND"}, gone)
                \/ Begins("manager", arcFlag \ {"SUSPEND"}, gone)
        BY <1>15, NextOutcomes DEF ResumeArchive
    <2>2. /\ "RUNNING" \notin arcFlag /\ device = NoFile
          /\ \A q \in Processes : ~Executes(q)
          /\ \A f \in Files : "OPERATING" \notin stat[f]
        BY <1>15, SuspendedRests DEF ResumeArchive
    <2>3. CASE Rests("manager", arcFlag \ {"SUSPEND"}, gone)
        BY <1>15, <2>1, <2>2, <2>3, ProcessNames DEF Rests, Removes, IsWithout, ResumeArchive
    <2>4. CASE Begins("manager", arcFlag \ {"SUSPEND"}, gone)
        BY <1>15, <2>1, <2>2, <2>4, ProcessNames DEF Begins, GoesOn, Removes, IsWithout,
            ResumeArchive, WakeFiles
    <2> QED
        BY <2>1, <2>2, <2>3, <2>4 DEF HandsOver, TakesUp
<1>16. ASSUME UnloadArchive PROVE DeviceInv'
    <2>1. /\ "RUNNING" \notin arcFlag /\ device = NoFile
          /\ \A q \in Processes : ~Executes(q)
          /\ \A f \in Files : "OPERATING" \notin stat[f]
        BY <1>16, SuspendedRests DEF UnloadArchive
    <2> QED
        BY <1>16, <2>1, ProcessNames DEF UnloadArchive, ReleaseCommands, WakeFiles, Goes
<1>17. ASSUME LoadArchive PROVE DeviceInv'
    BY <1>17, ProcessNames DEF LoadArchive, Goes, Leave
<1>18. CASE UNCHANGED archiveVars
    BY <1>18 DEF archiveVars
<1> QED
    BY <1>1, <1>2, <1>3, <1>4, <1>5, <1>6, <1>7, <1>8, <1>9, <1>10, <1>11, <1>12, <1>13,
        <1>14, <1>15, <1>16, <1>17, <1>18
        DEF ArchiveNext, ExecuteCommand, Await, Device

LEMMA TokenNext == ASSUME ArchiveType, Consistent, ~overtaken', [ArchiveNext]_archiveVars PROVE
    TokenInv'
<1> USE DEF ArchiveType, Consistent, FlagType, ListType, StatType, DeviceType, AtType, FileType,
    HeadInv, DeviceInv, SyncInv, TokenInv, Executes, CardExecutes, IsSync
<1>1. ASSUME NEW f \in Files, NEW com \in Commands, NEW async \in BOOLEAN, SendCommand(f, com,
    async) PROVE TokenInv'
    BY <1>1, ProcessNames DEF SendCommand, Goes, Leave, AtRest
<1>2. ASSUME NEW f \in Files, WaitFileAsync(f) PROVE TokenInv'
    BY <1>2, ProcessNames DEF WaitFileAsync, Goes, FallAsleep
<1>3. ASSUME NEW f \in Files, CancelFile(f) PROVE TokenInv'
    BY <1>3, ProcessNames DEF CancelFile
<1>4. ASSUME NEW f \in Files, AwaitOperating(f) PROVE TokenInv'
    BY <1>4, ProcessNames DEF AwaitOperating, AwakeAt, Goes, FallAsleep
<1>5. ASSUME NEW f \in Files, AwaitEnd(f) PROVE TokenInv'
    BY <1>5, ProcessNames DEF AwaitEnd, AwakeAt, Goes, Leave, FallAsleep
<1>6. ASSUME NEW p \in Processes, Next1(p) PROVE TokenInv'
    <2>1. PICK gone \in SUBSET Files : /\ Removes(gone)
                                       /\ \/ Rests(p, arcFlag, gone)
                                          \/ HandsOver(p, arcFlag, gone)
                                          \/ TakesUp(p, arcFlag, gone)
                                          \/ Begins(p, arcFlag, gone)
        BY <1>6, NextOutcomes DEF Next1
    <2>2. /\ "RUNNING" \in arcFlag /\ device = NoFile
          /\ \A q \in Processes : Executes(q) => q = p
          /\ \A f \in Files : "OPERATING" \notin stat[f]
          /\ \A f \in Files : IsSync(f) /\ f # p => at[f] = "operating?" /\ cur[f] = f
        BY <1>6, BeginsAlone DEF Next1
    <2>6. ASSUME GoesOn(arcFlag) PROVE "BUSY" \in stat[list'[1]] /\ list'[1] \notin gone
        BY <2>1, <2>6 DEF GoesOn, Removes, IsWithout, ListInv
    <2>3. CASE Rests(p, arcFlag, gone)
        BY <1>6, <2>1, <2>2, <2>3, ProcessNames DEF Rests, Removes, IsWithout, Next1
    <2>4. CASE HandsOver(p, arcFlag, gone)
        BY <1>6, <2>1, <2>2, <2>4, <2>6, ProcessNames DEF HandsOver, GoesOn, Operates,
            Removes, IsWithout, Next1, WakeFiles
    <2>5. CASE TakesUp(p, arcFlag, gone)
        BY <1>6, <2>1, <2>2, <2>5, <2>6, ProcessNames DEF TakesUp, GoesOn, Operates,
            Removes, IsWithout, Next1, WakeFiles
    <2> QED
        BY <2>1, <2>2, <2>3, <2>4, <2>5 DEF Begins
<1>7. ASSUME NEW p \in Processes, Activate(p) PROVE TokenInv'
    <2>1. /\ cur[p] \in Files /\ device = NoFile /\ "RUNNING" \in arcFlag
          /\ "BUSY" \in stat[cur[p]]
          /\ \A q \in Processes : Executes(q) => q = p
          /\ \A f \in Files : "OPERATING" \notin stat[f]
          /\ IsSync(cur[p]) /\ cur[p] # p => at[cur[p]] = "operating?" /\ cur[cur[p]] = cur[p]
        BY <1>7, BeginsAlone, BegunIsBusy DEF Activate
    <2>2. CASE IsSync(cur[p]) /\ p # cur[p]
        BY <1>7, <2>1, <2>2, ProcessNames DEF Activate, Goes, Leave, WakeFiles
    <2>3. CASE ~(IsSync(cur[p]) /\ p # cur[p])
        BY <1>7, <2>1, <2>3, ProcessNames DEF Activate, Goes
    <2> QED
        BY <2>2, <2>3
<1>8. ASSUME NEW p \in Processes, Translate(p) PROVE TokenInv'
    <2>1. /\ at[p] = "translate" /\ cur[p] \in Files
          /\ UNCHANGED <<command, romLocked, overtaken>>
          /\ \/ Asks(p)
             \/ \E answer \in {"SUCCESS", "UNSUPPORTED"} : Replied(p, answer) \/ Ended(p,
                 answer)
        BY <1>8, TranslateOutcomes DEF ArchiveType
    <2>2. CASE Asks(p)
        BY <2>1, <2>2, ProcessNames DEF Asks
    <2>3. ASSUME NEW answer \in {"SUCCESS", "UNSUPPORTED"}, Replied(p, answer) PROVE TokenInv'
        BY <2>1, <2>3, ProcessNames DEF Replied
    <2>4. ASSUME NEW answer \in {"SUCCESS", "UNSUPPORTED"}, Ended(p, answer) PROVE TokenInv'
        BY <2>1, <2>4, ProcessNames DEF Ended, ReleaseCommands, WakeFiles, IsWithout
    <2> QED
        BY <2>1, <2>2, <2>3, <2>4
<1>9. ASSUME NEW p \in Processes, Called(p) PROVE TokenInv'
    BY <1>9, ProcessNames DEF Called, Goes, Leave
<1>10. ASSUME NEW p \in Processes, AwaitSync(p) PROVE TokenInv'
    BY <1>10, ProcessNames DEF AwaitSync, AwakeAt, Goes, FallAsleep
<1>11. ASSUME NEW p \in Processes, Release(p) PROVE TokenInv'
    BY <1>11, ProcessNames DEF Release, ReleaseCommands, WakeFiles, Goes
<1>12. ASSUME NEW ret \in {"SUCCESS", "ERROR"}, NotifyArchiveAsyncEnd(ret) PROVE TokenInv'
    <2>1. /\ device # NoFile /\ device \in Files /\ Len(list) # 0 /\ device = list[1]
          /\ Head(list) = device /\ "RUNNING" \in arcFlag
          /\ "OPERATING" \in stat[device] /\ "BUSY" \in stat[device]
          /\ "IS_ASYNC" \in arcFlag <=> ~IsSync(device)
        BY <1>12, DeviceIsHead DEF NotifyArchiveAsyncEnd
    <2>2. CASE "IS_ASYNC" \in arcFlag
        BY <1>12, <2>1, <2>2, ProcessNames DEF NotifyArchiveAsyncEnd, ReleaseCommands,
            WakeFiles, Goes
    <2>3. CASE "IS_ASYNC" \notin arcFlag
        BY <1>12, <2>1, <2>3, ProcessNames DEF NotifyArchiveAsyncEnd, WakeSync
    <2> QED
        BY <2>2, <2>3
<1>13. ASSUME SuspendArchive PROVE TokenInv'
    BY <1>13, ProcessNames DEF SuspendArchive, Goes, FallAsleep
<1>14. ASSUME AwaitSuspended PROVE TokenInv'
    BY <1>14, ProcessNames DEF AwaitSuspended, AwakeAt, Goes, FallAsleep
<1>15. ASSUME ResumeArchive PROVE TokenInv'
    <2>1. PICK gone \in SUBSET Files :
             /\ Removes(gone)
             /\ \/ Rests("manager", arcFlag \ {"SUSPEND"}, gone)
                \/ HandsOver("manager", arcFlag \ {"SUSPEND"}, gone)
                \/ TakesUp("manager", arcFlag \ {"SUSPEND"}, gone)
                \/ Begins("manager", arcFlag \ {"SUSPEND"}, gone)
        BY <1>15, NextOutcomes DEF ResumeArchive
    <2>2. /\ "RUNNING" \notin arcFlag /\ device = NoFile
          /\ \A q \in Processes : ~Executes(q)
          /\ \A f \in Files : "OPERATING" \notin stat[f]
        BY <1>15, SuspendedRests DEF ResumeArchive
    <2>3. CASE Rests("manager", arcFlag \ {"SUSPEND"}, gone)
        <3>1. /\ "RUNNING" \notin arcFlag' /\ device' = NoFile
              /\ at' = [at EXCEPT !["manager"] = "idle"] /\ cur' = [cur EXCEPT !["manager"]
                  = NoFile]
              /\ \A f \in Files : stat'[f] = stat[f] \/ stat'[f] = {}
            BY <2>1, <2>2, <2>3 DEF Rests, Removes
        <3>2. ASSUME NEW q \in Processes PROVE ~Executes(q)'
            BY <2>2, <3>1, ProcessNames
        <3> QED
            BY <3>1, <3>2
    <2>4. CASE Begins("manager", arcFlag \ {"SUSPEND"}, gone)
        BY <1>15, <2>1, <2>2, <2>4, ProcessNames DEF Begins, GoesOn, Removes, IsWithout,
            ResumeArchive, WakeFiles
    <2> QED
        BY <2>1, <2>2, <2>3, <2>4 DEF HandsOver, TakesUp
<1>16. ASSUME UnloadArchive PROVE TokenInv'
    <2>1. /\ "RUNNING" \notin arcFlag /\ device = NoFile
          /\ \A q \in Processes : ~Executes(q)
          /\ \A f \in Files : "OPERATING" \notin stat[f]
        BY <1>16, SuspendedRests DEF UnloadArchive
    <2> QED
        BY <1>16, <2>1, ProcessNames DEF UnloadArchive, ReleaseCommands, WakeFiles, Goes
<1>17. ASSUME LoadArchive PROVE TokenInv'
    BY <1>17, ProcessNames DEF LoadArchive, Goes, Leave
<1>18. CASE UNCHANGED archiveVars
    BY <1>18 DEF archiveVars
<1> QED
    BY <1>1, <1>2, <1>3, <1>4, <1>5, <1>6, <1>7, <1>8, <1>9, <1>10, <1>11, <1>12, <1>13,
        <1>14, <1>15, <1>16, <1>17, <1>18
        DEF ArchiveNext, ExecuteCommand, Await, Device


\* A thread that has taken another thread's command for its own stays so.
LEMMA OvertakenNext == ASSUME [ArchiveNext]_archiveVars, ~overtaken' PROVE ~overtaken
<1>1. CASE ArchiveNext
    BY <1>1 DEF ArchiveNext, SendCommand, WaitFileAsync, CancelFile, Await, AwaitOperating,
       AwaitEnd, ExecuteCommand, Next1, Activate, Translate, Called, AwaitSync, Release, Device,
       NotifyArchiveAsyncEnd, SuspendArchive, AwaitSuspended, ResumeArchive, UnloadArchive,
       LoadArchive
<1>2. CASE UNCHANGED archiveVars
    BY <1>2 DEF archiveVars
<1> QED
    BY <1>1, <1>2

LEMMA ArchiveStarts == ArchiveInit => ArchiveInv
<1> SUFFICES ASSUME ArchiveInit PROVE ArchiveInv
    OBVIOUS
<1>1. ArchiveType
    <2>1. FlagType
        BY DEF ArchiveInit, FlagType, Flags
    <2>5. ListType /\ StatType
        BY DEF ArchiveInit, ListType, StatType
    <2>6. DormantType
        BY DEF ArchiveInit, DormantType
    <2>2. ErrorType
        BY DEF ArchiveInit, ErrorType, Codes, Commands
    <2>3. AtType /\ DeviceType
        BY PlaceNames DEF ArchiveInit, AtType, DeviceType
    <2>4. FileType
        BY DEF ArchiveInit, FileType
    <2> QED
        BY <2>1, <2>2, <2>3, <2>4, <2>5, <2>6 DEF ArchiveType
<1>2. Len(list) = 0
    BY DEF ArchiveInit
<1>3. TokenInv
    BY DEF ArchiveInit, TokenInv, Executes, CardExecutes
<1>4. ListInv /\ RestInv
    BY <1>2 DEF ArchiveInit, ListInv, RestInv, Once, HasFile
<1>5. HeadInv
    BY DEF ArchiveInit, HeadInv
<1>6. DeviceInv
    BY ProcessNames DEF ArchiveInit, DeviceInv
<1>7. SyncInv
    BY ProcessNames DEF ArchiveInit, SyncInv, IsSync
<1>8. SuspendInv /\ DormantInv
    BY ProcessNames DEF ArchiveInit, SuspendInv, DormantInv
<1> QED
    BY <1>1, <1>3, <1>4, <1>5, <1>6, <1>7, <1>8 DEF ArchiveInv

LEMMA ArchiveSteps == ArchiveInv /\ [ArchiveNext]_archiveVars => ArchiveInv'
<1> SUFFICES ASSUME ArchiveInv, [ArchiveNext]_archiveVars PROVE ArchiveInv'
    OBVIOUS
<1>1. ArchiveType'
    BY ArchiveTypeNext DEF ArchiveInv
<1>2. ASSUME ~overtaken'
      PROVE  /\ TokenInv' /\ ListInv' /\ RestInv' /\ HeadInv'
             /\ DeviceInv' /\ SyncInv' /\ SuspendInv' /\ DormantInv'
    <2>1. ArchiveType /\ Consistent
        BY <1>2, OvertakenNext DEF ArchiveInv, Consistent
    <2> QED
        BY <1>2, <2>1, TokenNext, ListNext, RestNext, HeadNext, DeviceNext, SyncNext, SuspendNext,
           DormantNext
<1> QED
    BY <1>1, <1>2 DEF ArchiveInv

LEMMA ArchiveHolds == ArchiveInit /\ [][ArchiveNext]_archiveVars => []ArchiveInv
<1>1. ArchiveInit => ArchiveInv
    BY ArchiveStarts
<1>2. ArchiveInv /\ [ArchiveNext]_archiveVars => ArchiveInv'
    BY ArchiveSteps
<1> QED
    BY <1>1, <1>2, PTL

-----------------------------------------------------------------------------
\* The inductive invariant.
THEOREM ArchiveInvariant == ArchiveSpec => []ArchiveInv
    BY ArchiveHolds, PTL DEF ArchiveSpec

LEMMA OneExecutes == ArchiveInv => OneExecutor
<1> SUFFICES ASSUME ArchiveInv, ~overtaken PROVE OneExecutor
    BY DEF OneExecutor
<1>1. ArchiveType /\ Consistent
    BY DEF ArchiveInv, Consistent
<1>2. \A p : p \in Executors <=> p \in Processes /\ Executes(p)
    BY <1>1, ProcessNames DEF Executors, Executes, ArchiveType, FileType
<1>3. InCard = IF CardExecutes THEN {device} ELSE {}
    BY DEF InCard, CardExecutes
<1>4. Cardinality(Executors) + Cardinality(InCard) = IF "RUNNING" \in arcFlag THEN 1 ELSE 0
    <2>1. CASE CardExecutes
        <3>1. Executors = {} /\ "RUNNING" \in arcFlag
            BY <1>1, <1>2, <2>1 DEF Consistent, TokenInv
        <3>2. Cardinality(Executors) = 0
            BY <3>1, FS_EmptySet
        <3>3. Cardinality(InCard) = 1
            BY <1>3, <2>1, FS_Singleton
        <3> QED
            BY <3>1, <3>2, <3>3
    <2>2. CASE ~CardExecutes /\ \E p \in Processes : Executes(p)
        <3>1. PICK p \in Processes : Executes(p)
            BY <2>2
        <3>2. "RUNNING" \in arcFlag /\ \A q \in Processes : Executes(q) => q = p
            BY <1>1, <3>1, Alone DEF Consistent
        <3>3. Executors = {p}
            BY <1>2, <3>1, <3>2
        <3>4. Cardinality(Executors) = 1
            BY <3>3, FS_Singleton
        <3>5. Cardinality(InCard) = 0
            BY <1>3, <2>2, FS_EmptySet
        <3> QED
            BY <3>2, <3>4, <3>5
    <2>3. CASE ~CardExecutes /\ \A p \in Processes : ~Executes(p)
        <3>1. "RUNNING" \notin arcFlag
            BY <1>1, <2>3 DEF Consistent, TokenInv
        <3>2. Executors = {} /\ InCard = {}
            BY <1>2, <1>3, <2>3
        <3> QED
            BY <3>1, <3>2, FS_EmptySet
    <2> QED
        BY <2>1, <2>2, <2>3
<1>5. romLocked = ("RUNNING" \in arcFlag /\ ~\E p \in Processes : at[p] = "activate")
    BY <1>1 DEF ArchiveType, DeviceType, Consistent, DeviceInv
<1>6. device # NoFile => device = Head(list)
    BY <1>1, DeviceIsHead
<1> QED
    BY <1>4, <1>5, <1>6 DEF OneExecutor

\* While the archive runs one thread, callback or device has it, and otherwise nobody;
\* the list holds the busy files, each once, and its first alone operates; a suspended
\* archive is at rest.
THEOREM OneCommand == ArchiveSpec => []OneCommandAtATime
<1>1. ArchiveInv => OneCommandAtATime
    <2> SUFFICES ASSUME ArchiveInv PROVE OneCommandAtATime
        OBVIOUS
    <2>1. ArchiveType
        BY DEF ArchiveInv
    <2>2. ArchiveTypeOK
        BY <2>1 DEF ArchiveType, ArchiveTypeOK, FlagType, Flags, StatType, Bits, ErrorType, Codes,
           DeviceType, AtType, DormantType
    <2>3. ListIsBusy
        <3> SUFFICES ASSUME ~overtaken
                     PROVE  /\ ToSet(list) = {f \in Files : "BUSY" \in stat[f]}
                            /\ IsInjective(list)
                            /\ \A f \in Files : "OPERATING" \in stat[f] => f = Head(list)
            BY DEF ListIsBusy
        <3>1. ListInv /\ HeadInv /\ list \in Seq(Files)
            BY <2>1 DEF ArchiveInv, ArchiveType, ListType
        <3>2. ToSet(list) = {f \in Files : "BUSY" \in stat[f]}
            <4>1. \A f : HasFile(list, f) => f \in Files
                BY <3>1 DEF HasFile
            <4>2. \A f : f \in ToSet(list) <=> HasFile(list, f)
                BY <3>1, HeadFile
            <4> QED
                BY <3>1, <4>1, <4>2 DEF ListInv
        <3>3. IsInjective(list)
            BY <3>1 DEF ListInv, Once, IsInjective
        <3>4. Len(list) # 0 => Head(list) = list[1]
            BY <3>1
        <3> QED
            BY <3>1, <3>2, <3>3, <3>4 DEF HeadInv
    <2>4. SuspendedAtRest
        <3> SUFFICES ASSUME at["manager"] = "suspended", ~overtaken
                     PROVE  device = NoFile /\ ~romLocked /\ Executors = {}
            BY DEF SuspendedAtRest
        <3>1. ArchiveType /\ Consistent
            BY DEF ArchiveInv, Consistent
        <3>2. /\ "RUNNING" \notin arcFlag /\ device = NoFile
              /\ \A q \in Processes : ~Executes(q)
            BY <3>1, SuspendedRests
        <3>3. Executors = {}
            BY <3>1, <3>2, ProcessNames DEF Executors, Executes, ArchiveType, FileType
        <3>4. ~romLocked
            BY <3>1, <3>2 DEF Consistent, DeviceInv
        <3> QED
            BY <3>2, <3>3, <3>4
    <2> QED
        BY <2>2, <2>3, <2>4, OneExecutes DEF OneCommandAtATime
<1> QED
    BY <1>1, ArchiveInvariant, PTL

LEMMA FilesSleep == ArchiveInv => FilesSleepWithReason
<1> SUFFICES ASSUME ArchiveInv, ~overtaken PROVE FilesSleepWithReason
    BY DEF FilesSleepWithReason
<1> USE DEF ArchiveInv
<1>1. ASSUME NEW f \in Files, dormant[f], at[f] = "operating?"
      PROVE  "OPERATING" \notin stat[f] /\ ("BUSY" \in stat[f] \/ error[f] = "CANCELED")
    BY <1>1, ProcessNames DEF DormantInv, SyncInv, ListInv, IsSync
<1>2. ASSUME NEW f \in Files, dormant[f], at[f] = "busy?" PROVE "BUSY" \in stat[f]
    BY <1>2, ProcessNames DEF DormantInv
<1>3. ASSUME NEW p \in Processes, dormant[p], at[p] = "sync?"
      PROVE  "IS_SYNC" \in arcFlag /\ device # NoFile
    <2>1. device = p /\ p = cur[p] /\ IsSync(p)
        BY <1>3 DEF DormantInv, HeadInv
    <2>2. p \in Files
        BY <1>3, <2>1 DEF ArchiveType, FileType
    <2> QED
        BY <2>1, <2>2, FilesAssumption DEF DeviceInv
<1> QED
    BY <1>1, <1>2, <1>3 DEF FilesSleepWithReason

\* Nobody sleeps for what has come: neither the clients of the card library and its
\* task, nor the threads of an archive's files, whether they wait for their command to
\* operate, for its end or for the device; but for a command that is cancelled.
THEOREM CartridgeWakes == CardConstants => (CartridgeSpec => []CartridgeSleepers)
<1> SUFFICES ASSUME CardConstants PROVE CartridgeSpec => []CartridgeSleepers
    OBVIOUS
<1>1. Init => CardInv
    BY CardInit
<1>2. CardInv /\ [Next]_vars => CardInv'
    BY CardNext
<1>3. CartridgeInit => Init /\ ArchiveInit
    BY DEF CartridgeInit
<1>4. [CartridgeNext]_<<part, vars, archiveVars>> => [Next]_vars /\ [ArchiveNext]_archiveVars
    BY DEF CartridgeNext
<1>5. CardInv => SleepersHaveReason
    BY CardSleeps
<1>6. ArchiveInv => FilesSleepWithReason
    BY FilesSleep
<1> QED
    BY <1>1, <1>2, <1>3, <1>4, <1>5, <1>6, ArchiveHolds, PTL DEF CartridgeSpec, CartridgeSleepers
=============================================================================
