------------------------------ MODULE CardTask ------------------------------
(***************************************************************************)
(* The card library: the resource lock, the one task that uses the card,   *)
(* its requests to the ARM7 and their retries, the cancel flag, and the    *)
(* ARM7's side of a request (card_common, card_request, card_backup,       *)
(* card_rom, card_spi).                                                    *)
(*                                                                         *)
(* A section with interrupts disabled is a step.  The words between the    *)
(* processors arrive in order and once, which PXIFifo shows.  What an      *)
(* operation transfers is counted in pages.                                *)
(***************************************************************************)
EXTENDS Integers, Sequences, FiniteSets

CONSTANTS
    Clients,        \* threads of the ARM9, each with a lock ID of its own
    NoOwner,        \* OS_LOCK_ID_ERROR
    Target,         \* what each uses: "ROM" or "BACKUP"
    Operations,     \* the calls each makes: records [kind, async, verify, len]
    MaxRef,         \* bound: how deep a client nests its lock
    SectorPages,    \* pages of 256 bytes in a sector
    ChipPages,      \* pages of the backup device
    RetryMax        \* CARD_RETRY_COUNT_MAX

ASSUME CardAssumption ==
    /\ NoOwner \notin Clients /\ "task" \notin Clients
    /\ SectorPages \in Nat \ {0} /\ ChipPages \in Nat /\ RetryMax \in Nat \ {0}

Kinds == {"identify", "status", "stream", "sector", "rom", "dma"}
Threads == Clients \cup {"task"}
Results == {"SUCCESS", "TIMEOUT", "NO_RESPONSE", "FAILURE", "CANCELED", "UNSUPPORTED",
            "INVALID_PARAM"}
NoCall == [kind |-> "none", async |-> FALSE, verify |-> FALSE, len |-> 0]
JobOf(c, op) == [client |-> c, kind |-> op.kind, verify |-> op.verify, len |-> op.len]

VARIABLES
    lock,       \* lock_owner, lock_ref, lock_target
    flag,       \* the bits of cardi_common.flag
    curTh,      \* cur_th: the thread an answer wakes
    job,        \* the operation of the task, with the pages left in len
    dst,        \* p->dst, as the page it stands for (p->src moves with it)
    result,     \* cmd->result, in the memory both processors share
    capable,    \* cmd->spec.caps: the backup device has been identified
    pc,         \* where each thread is
    call,       \* the operation a client is in
    request,    \* CARDi_Request: its type and the tries left
    left,       \* pages left of the sector being written
    asleep,     \* the queue a thread sleeps in: "lock", "busy", "direct", or "no"
    toARM7, toARM9, \* the words on their way
    arm7,       \* the ARM7: its flags, recv_step, command, thread and poll
    page,       \* history: which page of the source each page of the chip holds
    own,        \* history: the result with which a client's operation ended
    excused     \* history: the result was lost, or a failed sector passed over

vars == <<lock, flag, curTh, job, dst, result, capable, pc, call, request, left, asleep,
          toARM7, toARM9, arm7, page, own, excused>>

Pages == 0 .. ChipPages - 1

TypeOK ==
    /\ lock \in [owner : Clients \cup {NoOwner}, ref : Nat, target : {"NONE", "ROM", "BACKUP"}]
    /\ flag \subseteq {"INIT_CMD", "BUSY", "TASK", "REQ", "CANCEL"}
    /\ curTh \in Threads
    /\ job.kind \in Kinds \cup {"none"} /\ job.len \in Nat
    /\ dst \in Nat
    /\ result \in Results
    /\ request \in [type : {"none", "INIT", "IDENTIFY", "READ", "STATUS", "PROGRAM", "VERIFY", "ERASE"},
                    tries : 0 .. RetryMax]
    /\ asleep \in [Threads -> {"no", "lock", "busy", "direct"}]
    /\ DOMAIN pc = Threads

(* The task threads are more urgent than the thread that creates them.     *)
Init ==
    /\ lock = [owner |-> NoOwner, ref |-> 0, target |-> "NONE"]
    /\ flag = {}
    /\ curTh = "task"
    /\ job = JobOf(NoOwner, NoCall) /\ dst = 0 /\ left = 0
    /\ result = "SUCCESS" /\ capable = FALSE
    /\ pc = [t \in Threads |-> IF t = "task" THEN "wait" ELSE "idle"]
    /\ call = [c \in Clients |-> NoCall]
    /\ request = [type |-> "none", tries |-> 0]
    /\ asleep = [t \in Threads |-> IF t = "task" THEN "direct" ELSE "no"]
    /\ toARM7 = <<>> /\ toARM9 = <<>>
    /\ arm7 = [flag |-> {}, step |-> 0, command |-> "none", pc |-> "wait", asleep |-> TRUE,
               reading |-> FALSE, hasCmd |-> FALSE]
    /\ page = [p \in Pages |-> -1]
    /\ own = [c \in Clients |-> "SUCCESS"]
    /\ excused = FALSE

Go(t, where) == pc' = [pc EXCEPT ![t] = where]
Awake(t, where) == pc[t] = where /\ asleep[t] = "no"
Sleep(t, queue) == asleep' = [asleep EXCEPT ![t] = queue]
Wakeup(queue) == asleep' = [t \in Threads |-> IF asleep[t] = queue THEN "no" ELSE asleep[t]]
(* Mutation: nobody is woken.                                              *)
WakeupDirect_None(t) == UNCHANGED asleep

WakeupDirect(t) == asleep' = [asleep EXCEPT ![t] = "no"]
-----------------------------------------------------------------------------
(* The resource lock *)

(* CARDi_LockResource, from its call or from its sleep. An owner nests.    *)
LockResource(c) ==
    /\ \/ Awake(c, "idle")
       \/ Awake(c, "locked") /\ lock.ref < MaxRef
       \/ Awake(c, "lock")
    /\ IF lock.owner \in {c, NoOwner}
       THEN /\ lock' = [owner |-> c, ref |-> lock.ref + 1, target |-> Target[c]]
            /\ result' = "SUCCESS"
            /\ Go(c, "locked")
            /\ UNCHANGED asleep
       ELSE /\ Sleep(c, "lock")
            /\ Go(c, "lock")
            /\ UNCHANGED <<lock, result>>
    /\ UNCHANGED <<flag, curTh, job, dst, capable, call, request, left, toARM7, toARM9, arm7,
                   page, own, excused>>

(* CARD_UnlockRom, CARD_UnlockBackup with CARDi_UnlockResource. The latter *)
(* waits for an operation that still runs; a client that has started a     *)
(* read of the ROM waits for it itself.                                    *)
UnlockResource(c) ==
    /\ \/ Awake(c, "locked")
       \/ Awake(c, "async") /\ lock.target = "BACKUP"
       \/ Awake(c, "unlock")
    /\ IF lock.target = "BACKUP" /\ "BUSY" \in flag
       THEN /\ Sleep(c, "busy")
            /\ Go(c, "unlock")
            /\ UNCHANGED <<lock, result, own>>
       ELSE /\ lock' = IF lock.ref > 1 THEN [lock EXCEPT !.ref = @ - 1]
                       ELSE [owner |-> NoOwner, ref |-> 0, target |-> "NONE"]
            /\ IF lock.ref > 1 THEN UNCHANGED asleep ELSE Wakeup("lock")
            /\ Go(c, IF lock.ref > 1 THEN "locked" ELSE "idle")
            /\ result' = "SUCCESS"
            /\ own' = [own EXCEPT ![c] = "SUCCESS"]
    /\ UNCHANGED <<flag, curTh, job, dst, capable, call, request, left, toARM7, toARM9, arm7,
                   page, excused>>
-----------------------------------------------------------------------------
(* Starting and ending an operation *)

(* A client may go on to its next call while the task has its last one.    *)
Call(c, op) ==
    /\ Awake(c, "locked") \/ Awake(c, "async")
    /\ op.kind \in {"status", "stream", "sector"} => capable
    /\ call' = [call EXCEPT ![c] = op]
    /\ Go(c, "waittask")
    /\ UNCHANGED <<lock, flag, curTh, job, dst, result, capable, request, left, asleep, toARM7,
                   toARM9, arm7, page, own, excused>>

(* Where an operation begins once the task is its own.                     *)
Entry(op) == IF op.kind \in {"identify", "status"} THEN "first" ELSE op.kind

(* Mutation: the task's own client does not wait for it.                   *)
TaskInUse_ByOthers == "BUSY" \in flag /\ job.client # lock.owner

TaskInUse == "BUSY" \in flag

(* CARDi_WaitTask and the fields that are set after it.                    *)
WaitTask(c) ==
    /\ Awake(c, "waittask")
    /\ IF TaskInUse
       THEN /\ Sleep(c, "busy")
            /\ UNCHANGED <<flag, curTh, job, dst, capable, pc, page, own, excused>>
       ELSE LET op == call[c] IN
            /\ flag' = flag \cup {"BUSY"}
            /\ job' = JobOf(c, op) /\ dst' = 0
            /\ capable' = (capable \/ op.kind = "identify")
            /\ curTh' = IF op.async \/ op.kind = "dma" THEN curTh ELSE c
            /\ Go(c, CASE op.kind = "dma" -> IF op.async THEN "async" ELSE "waitasync"
                       [] op.kind # "dma" /\ op.async -> "settask"
                       [] OTHER -> Entry(op))
            /\ page' = IF op.kind \in {"stream", "sector"} THEN [p \in Pages |-> -1] ELSE page
            /\ excused' = FALSE
            /\ own' = [own EXCEPT ![c] = "SUCCESS"]
            /\ UNCHANGED asleep
    /\ UNCHANGED <<lock, result, call, request, left, toARM7, toARM9, arm7>>

(* CARDi_SetTask *)
SetTask(c) ==
    /\ Awake(c, "settask")
    /\ curTh' = "task"
    /\ flag' = flag \cup {"TASK"}
    /\ WakeupDirect("task")
    /\ Go(c, "async")
    /\ UNCHANGED <<lock, job, dst, result, capable, call, request, left, toARM7, toARM9, arm7,
                   page, own, excused>>

(* CARDi_TaskThread of the ARM9 *)
TaskThread ==
    /\ Awake("task", "wait")
    /\ IF "TASK" \in flag
       THEN Go("task", Entry(job)) /\ UNCHANGED asleep
       ELSE Sleep("task", "direct") /\ UNCHANGED pc
    /\ UNCHANGED <<lock, flag, curTh, job, dst, result, capable, call, request, left, toARM7,
                   toARM9, arm7, page, own, excused>>

(* CARDi_EndTask. The fields of the operation are not read until the next  *)
(* one sets them.                                                          *)
EndTask(res) ==
    /\ job' = JobOf(NoOwner, NoCall) /\ dst' = 0 /\ left' = 0
    /\ request' = [type |-> "none", tries |-> 0]
    /\ flag' = flag \ {"BUSY", "TASK", "CANCEL"}
    /\ Wakeup("busy")
    /\ own' = [c \in Clients |-> IF c = lock.owner THEN res ELSE own[c]]

End(t) ==
    /\ Awake(t, "end")
    /\ EndTask(result)
    /\ Go(t, IF t = "task" THEN "wait" ELSE "return")
    /\ page' = IF result = "SUCCESS" THEN page ELSE [p \in Pages |-> -1]
    /\ UNCHANGED <<lock, curTh, result, capable, call, toARM7, toARM9, arm7, excused>>

(* The caller of a synchronous operation reads the result after the task is *)
(* free again.                                                             *)
Return(c) ==
    /\ Awake(c, "return")
    /\ Go(c, "locked")
    /\ call' = [call EXCEPT ![c] = NoCall]
    /\ page' = [p \in Pages |-> -1]
    /\ excused' = FALSE
    /\ own' = [own EXCEPT ![c] = "SUCCESS"]
    /\ UNCHANGED <<lock, flag, curTh, job, dst, result, capable, request, left, asleep, toARM7,
                   toARM9, arm7>>

(* CARDi_WaitAsync; CARD_WaitRomAsync after a read by DMA.                 *)
WaitAsync(c) ==
    /\ Awake(c, "async") \/ Awake(c, "waitasync")
    /\ IF "BUSY" \in flag
       THEN Sleep(c, "busy") /\ Go(c, "waitasync")
       ELSE Go(c, "return") /\ UNCHANGED asleep
    /\ UNCHANGED <<lock, flag, curTh, job, dst, result, capable, call, request, left, toARM7,
                   toARM9, arm7, page, own, excused>>

(* CARD_CancelBackupAsync, at any time. The bits REQ and TASK are set with *)
(* interrupts enabled: a cancel between their read and their write is lost. *)
CancelBackupAsync ==
    /\ \/ flag' = flag \cup {"CANCEL"}
       \/ (\E t \in Threads : pc[t] \in {"request", "settask"}) /\ UNCHANGED flag
    /\ UNCHANGED <<lock, curTh, job, dst, result, capable, pc, call, request, left, asleep,
                   toARM7, toARM9, arm7, page, own, excused>>
-----------------------------------------------------------------------------
(* CARDi_Request *)

Ask(t, type, tries) ==
    /\ request' = [type |-> type, tries |-> tries]
    /\ Go(t, "request")

(* The first request is preceded by CARD_REQ_INIT, two words with which the *)
(* ARM7 learns where the arguments are.                                    *)
SendRequest(t) ==
    /\ Awake(t, "request")
    /\ flag' = flag \cup {"INIT_CMD", "REQ"}
    /\ IF "INIT_CMD" \notin flag
       THEN toARM7' = toARM7 \o <<"INIT", "cmd">> /\ Go(t, "initack")
       ELSE toARM7' = Append(toARM7, request.type) /\ Go(t, "ack")
    /\ UNCHANGED <<lock, curTh, job, dst, result, capable, call, request, left, asleep, toARM9,
                   arm7, page, own, excused>>

(* CARDi_OnFifoRecv of the ARM9 *)
OnFifoRecvARM9 ==
    /\ toARM9 # <<>>
    /\ toARM9' = Tail(toARM9)
    /\ flag' = flag \ {"REQ"}
    /\ WakeupDirect(curTh)
    /\ UNCHANGED <<lock, curTh, job, dst, result, capable, pc, call, request, left, toARM7, arm7,
                   page, own, excused>>

AwaitAck(t) ==
    /\ Awake(t, "ack") \/ Awake(t, "initack")
    /\ IF "REQ" \in flag
       THEN Sleep(t, "direct") /\ UNCHANGED <<pc, request>>
       ELSE /\ UNCHANGED asleep
            /\ IF pc[t] = "initack"
               THEN Go(t, "request") /\ UNCHANGED request
               ELSE IF result = "TIMEOUT" /\ request.tries > 1
                    THEN Ask(t, request.type, request.tries - 1)
                    ELSE Go(t, "answered") /\ UNCHANGED request
    /\ UNCHANGED <<lock, flag, curTh, job, dst, result, capable, call, left, toARM7, toARM9, arm7,
                   page, own, excused>>
-----------------------------------------------------------------------------
(* The operations *)

IsCancelled == "CANCEL" \in flag
TakeCancel == flag' = flag \ {"CANCEL"} /\ result' = "CANCELED"

(* The loop of CARDi_RequestStreamCommandCore, at its head.                *)
StreamPage(t) ==
    /\ Awake(t, "stream")
    /\ IF IsCancelled
       THEN TakeCancel /\ Go(t, "end") /\ UNCHANGED request
       ELSE Ask(t, "PROGRAM", RetryMax) /\ UNCHANGED <<flag, result>>
    /\ UNCHANGED <<lock, curTh, job, dst, capable, call, left, asleep, toARM7, toARM9, arm7, page,
                   own, excused>>

(* Mutation: every page is written to the place of the first.              *)
Advance_Not == UNCHANGED dst

Advance == dst' = dst + 1

StreamAnswered(t) ==
    /\ Awake(t, "answered") /\ job.kind = "stream"
    /\ IF result # "SUCCESS"
       THEN Go(t, "end") /\ UNCHANGED <<request, job, dst>>
       ELSE IF job.verify /\ request.type = "PROGRAM"
            THEN Ask(t, "VERIFY", 1) /\ UNCHANGED <<job, dst>>
            ELSE /\ Advance /\ job' = [job EXCEPT !.len = @ - 1]
                 /\ Go(t, IF job.len = 1 THEN "end" ELSE "stream")
                 /\ UNCHANGED request
    /\ UNCHANGED <<lock, flag, curTh, result, capable, call, left, asleep, toARM7, toARM9, arm7,
                   page, own, excused>>

(* CARDi_RequestWriteSectorCommandCore, at the head of its outer loop.     *)
Sector(t) ==
    /\ Awake(t, "sector")
    /\ IF job.len % SectorPages # 0
       THEN /\ flag' = flag \ {"CANCEL"} /\ result' = "INVALID_PARAM"
            /\ Go(t, "end") /\ UNCHANGED request
       ELSE IF IsCancelled
            THEN TakeCancel /\ Go(t, "end") /\ UNCHANGED request
            ELSE Ask(t, "ERASE", 1) /\ UNCHANGED <<flag, result>>
    /\ UNCHANGED <<lock, curTh, job, dst, capable, call, left, asleep, toARM7, toARM9, arm7, page,
                   own, excused>>

(* Leaving the inner loop, at its end or by a break: the outer loop goes on *)
(* to the next sector in both cases.                                       *)
NextSector(t, broken) ==
    /\ job' = [job EXCEPT !.len = @ - SectorPages]
    /\ Go(t, IF job.len > SectorPages THEN "sector" ELSE "end")
    /\ excused' = (excused \/ (broken /\ job.len > SectorPages))

SectorPage(t) ==
    /\ Awake(t, "sectorpage")
    /\ IF IsCancelled
       THEN TakeCancel /\ NextSector(t, TRUE) /\ UNCHANGED request
       ELSE Ask(t, "PROGRAM", RetryMax) /\ UNCHANGED <<flag, result, job, excused>>
    /\ UNCHANGED <<lock, curTh, dst, capable, call, left, asleep, toARM7, toARM9, arm7, page, own>>

SectorAnswered(t) ==
    /\ Awake(t, "answered") /\ job.kind = "sector"
    /\ CASE request.type = "ERASE" ->
              /\ Go(t, IF result = "SUCCESS" THEN "sectorpage" ELSE "end")
              /\ left' = SectorPages
              /\ UNCHANGED <<request, job, dst, excused>>
         [] request.type # "ERASE" /\ result # "SUCCESS" ->
              NextSector(t, TRUE) /\ UNCHANGED <<request, dst, left>>
         [] request.type = "PROGRAM" /\ result = "SUCCESS" /\ job.verify ->
              Ask(t, "VERIFY", 1) /\ UNCHANGED <<job, dst, left, excused>>
         [] OTHER ->
              /\ Advance /\ left' = left - 1
              /\ IF left = 1 THEN NextSector(t, FALSE)
                 ELSE Go(t, "sectorpage") /\ UNCHANGED <<job, excused>>
              /\ UNCHANGED request
    /\ UNCHANGED <<lock, flag, curTh, result, capable, call, asleep, toARM7, toARM9, arm7, page, own>>

(* CARD_IdentifyBackup: CARD_REQ_IDENTIFY, then a read of one byte whatever *)
(* the answer. CARDi_AccessStatus: one request.                            *)
FirstRequest(t) ==
    /\ Awake(t, "first")
    /\ Ask(t, IF job.kind = "identify" THEN "IDENTIFY" ELSE "STATUS", 1)
    /\ UNCHANGED <<lock, flag, curTh, job, dst, result, capable, call, left, asleep, toARM7,
                   toARM9, arm7, page, own, excused>>

OtherAnswered(t) ==
    /\ Awake(t, "answered") /\ job.kind \in {"identify", "status"}
    /\ IF request.type = "IDENTIFY" THEN Ask(t, "READ", 1)
       ELSE Go(t, "end") /\ UNCHANGED request
    /\ UNCHANGED <<lock, flag, curTh, job, dst, result, capable, call, left, asleep, toARM7,
                   toARM9, arm7, page, own, excused>>

(* CARDi_ReadRomSyncCore with CARDi_ReadEnd                                *)
ReadRomSync(t) ==
    /\ Awake(t, "rom")
    /\ job' = [job EXCEPT !.len = 0]
    /\ result' = "SUCCESS"
    /\ Go(t, "end")
    /\ UNCHANGED <<lock, flag, curTh, dst, capable, call, request, left, asleep, toARM7, toARM9,
                   arm7, page, own, excused>>

(* CARDi_OnReadCard: the interrupt at the end of a page read by DMA.       *)
OnReadCard ==
    /\ "BUSY" \in flag /\ job.kind = "dma"
    /\ IF job.len = 1
       THEN result' = "SUCCESS" /\ EndTask("SUCCESS")
       ELSE /\ job' = [job EXCEPT !.len = @ - 1]
            /\ UNCHANGED <<result, flag, dst, left, request, asleep, own>>
    /\ UNCHANGED <<lock, curTh, capable, pc, call, toARM7, toARM9, arm7, page, excused>>
-----------------------------------------------------------------------------
(* The ARM7 *)

(* CARDi_OnFifoRecv of the ARM7. Its cur_th is its own thread.             *)
OnFifoRecvARM7 ==
    /\ toARM7 # <<>>
    /\ toARM7' = Tail(toARM7)
    /\ LET command == IF arm7.step = 0 THEN Head(toARM7) ELSE arm7.command
           complete == ~(command = "INIT" /\ arm7.step = 0)
       IN  arm7' = [arm7 EXCEPT !.command = command,
                                !.step = IF complete THEN 0 ELSE 1,
                                !.hasCmd = @ \/ (command = "INIT" /\ complete),
                                !.flag = IF complete THEN @ \cup {"RECV"} ELSE @,
                                !.asleep = @ /\ ~complete]
    /\ UNCHANGED <<lock, flag, curTh, job, dst, result, capable, pc, call, request, left, asleep,
                   toARM9, page, own, excused>>

(* CARDi_TaskThread of the ARM7, up to the request it takes or its sleep.  *)
TakeRequest ==
    /\ arm7.pc = "wait" /\ ~arm7.asleep
    /\ IF "BUSY" \notin arm7.flag /\ "RECV" \in arm7.flag
       THEN arm7' = [arm7 EXCEPT !.flag = {"BUSY"}, !.pc = "execute"]
       ELSE arm7' = [arm7 EXCEPT !.asleep = TRUE]
    /\ UNCHANGED <<lock, flag, curTh, job, dst, result, capable, pc, call, request, left, asleep,
                   toARM7, toARM9, page, own, excused>>

Holds(p) == page' = [page EXCEPT ![dst] = p]

(* The core functions of card_spi.c: every one waits for the chip first.   *)
(* What is programmed may come out wrong; a verify compares. The answer is *)
(* sent before the task is given up.                                       *)
Execute ==
    /\ arm7.pc = "execute"
    /\ \/ /\ arm7.command = "INIT"
          /\ result' = IF capable THEN "SUCCESS" ELSE "UNSUPPORTED"
          /\ UNCHANGED page
       \/ arm7.command \in {"IDENTIFY", "READ", "STATUS"}
          /\ result' \in {"SUCCESS", "NO_RESPONSE"} /\ UNCHANGED page
       \/ /\ arm7.command \in {"PROGRAM", "VERIFY", "ERASE"}
          /\ result' = "NO_RESPONSE" /\ UNCHANGED page
       \/ /\ arm7.command = "PROGRAM"
          /\ result' \in {"SUCCESS", "TIMEOUT"}
          /\ Holds(dst) \/ Holds(-1)
       \/ /\ arm7.command = "VERIFY"
          /\ result' = IF page[dst] = dst THEN "SUCCESS" ELSE "FAILURE"
          /\ UNCHANGED page
       \/ /\ arm7.command = "ERASE"
          /\ IF dst % SectorPages # 0
             THEN result' = "INVALID_PARAM" /\ UNCHANGED page
             ELSE /\ result' \in {"SUCCESS", "TIMEOUT"}
                  /\ page' = [p \in Pages |-> IF p \in dst .. dst + SectorPages - 1 THEN -1 ELSE page[p]]
    /\ toARM9' = Append(toARM9, "ACK")
    /\ arm7' = [arm7 EXCEPT !.pc = "endtask"]
    /\ UNCHANGED <<lock, flag, curTh, job, dst, capable, pc, call, request, left, asleep, toARM7,
                   own, excused>>

(* Mutation: the thread is not woken by the end of the poll's task.        *)
EndTaskARM7_NoWakeup(where, reading) ==
    arm7' = [arm7 EXCEPT !.flag = @ \ {"BUSY"}, !.pc = where, !.reading = reading]

(* CARDi_EndTask on the ARM7: a request that came meanwhile wakes the thread. *)
EndTaskARM7(where, reading) ==
    arm7' = [arm7 EXCEPT !.flag = @ \ {"BUSY"}, !.pc = where, !.reading = reading,
                         !.asleep = @ /\ "RECV" \notin arm7.flag]

EndRequest ==
    /\ arm7.pc = "endtask"
    /\ EndTaskARM7("wait", arm7.reading)
    /\ UNCHANGED <<lock, flag, curTh, job, dst, result, capable, pc, call, request, left, asleep,
                   toARM7, toARM9, page, own, excused>>

(* CARD_CompareCardID of the ARM7's poll, when OS_TryLockCard gets the card, *)
(* which the ARM9 holds while the ROM is locked. It takes the same task, and *)
(* CARDi_ReadEnd writes SUCCESS over the result of the request before it.  *)
CompareCardID ==
    /\ ~arm7.reading /\ "BUSY" \notin arm7.flag /\ lock.target # "ROM"
    /\ arm7' = [arm7 EXCEPT !.flag = @ \cup {"BUSY"}, !.reading = TRUE]
    /\ UNCHANGED <<lock, flag, curTh, job, dst, result, capable, pc, call, request, left, asleep,
                   toARM7, toARM9, page, own, excused>>

EndCompare ==
    /\ arm7.reading
    /\ result' = IF arm7.hasCmd THEN "SUCCESS" ELSE result
    /\ excused' = (excused \/ result' # result)
    /\ EndTaskARM7(arm7.pc, FALSE)
    /\ UNCHANGED <<lock, flag, curTh, job, dst, capable, pc, call, request, left, asleep, toARM7,
                   toARM9, page, own>>

ARM7 == OnFifoRecvARM7 \/ TakeRequest \/ Execute \/ EndRequest \/ EndCompare

Run(t) ==
    \/ End(t) \/ SendRequest(t) \/ AwaitAck(t) \/ StreamPage(t) \/ StreamAnswered(t)
    \/ Sector(t) \/ SectorPage(t) \/ SectorAnswered(t) \/ FirstRequest(t) \/ OtherAnswered(t)
    \/ ReadRomSync(t)

Next ==
    \/ \E c \in Clients : \E op \in Operations[c] : Call(c, op)
    \/ \E c \in Clients :
          LockResource(c) \/ UnlockResource(c) \/ WaitTask(c) \/ SetTask(c) \/ Return(c) \/ WaitAsync(c)
    \/ \E t \in Threads : Run(t)
    \/ TaskThread \/ CancelBackupAsync \/ OnFifoRecvARM9 \/ OnReadCard
    \/ ARM7 \/ CompareCardID

(* Ready threads get to run and interrupts are taken, on both processors. *)
(* The poll of the ARM7 comes once in ten frames: it does not keep the task *)
(* from its thread for ever.                                               *)
Fairness ==
    /\ \A c \in Clients : WF_vars(Run(c) \/ WaitTask(c) \/ SetTask(c) \/ Return(c))
    /\ WF_vars(Run("task") \/ TaskThread)
    /\ WF_vars(OnFifoRecvARM9) /\ WF_vars(OnReadCard)
    /\ WF_vars(OnFifoRecvARM7) /\ WF_vars(TakeRequest \/ Execute \/ EndRequest)
    /\ WF_vars(EndCompare) /\ SF_vars(TakeRequest /\ arm7'.pc = "execute")

Spec == Init /\ [][Next]_vars /\ Fairness
-----------------------------------------------------------------------------
Operating(t) == pc[t] \in {"settask", "first", "stream", "sector", "sectorpage", "rom", "request",
                           "ack", "initack", "answered", "end"}

(* One operation has the card at a time, the task is busy while it does,   *)
(* and the lock's owner is the client it runs for.                         *)
OneOperation ==
    /\ Cardinality({t \in Threads : Operating(t)}) <= 1
    /\ (\E t \in Threads : Operating(t)) => "BUSY" \in flag
    /\ "BUSY" \in flag => lock.owner = job.client
    /\ \A c \in Clients : pc[c] \in {"locked", "async", "unlock", "waittask", "waitasync", "return"}
                             => lock.owner = c

(* The operations of the card, with the types of the state.                *)
CardIsOrdered == TypeOK /\ OneOperation

(* Nobody sleeps when what it waits for has come: the answer that arrives  *)
(* before the sleep, the task that is set while its thread tests the flag. *)
SleepersHaveReason ==
    /\ \A t \in Threads :
          /\ asleep[t] = "lock" => lock.owner # NoOwner
          /\ asleep[t] = "busy" => "BUSY" \in flag
          /\ asleep[t] = "direct" => IF pc[t] = "wait" THEN "TASK" \notin flag ELSE "REQ" \in flag
    /\ arm7.asleep => "RECV" \notin arm7.flag \/ "BUSY" \in arm7.flag
    /\ "REQ" \in flag => toARM7 # <<>> \/ toARM9 # <<>> \/ "RECV" \in arm7.flag \/ arm7.pc = "execute"

(* The result a client reads after its operation is the one it ended with, *)
(* and a verified write that ends with SUCCESS has put every page there,   *)
(* through retries, cancels and wrong pages - but for the two ways the code *)
(* has to lose a failure.                                                  *)
SuccessMeansDone ==
    \A c \in Clients :
        pc[c] = "return" /\ ~excused =>
            /\ result = own[c]
            /\ result = "SUCCESS" /\ call[c].kind \in {"stream", "sector"} /\ call[c].verify =>
                  \A p \in 0 .. call[c].len - 1 : page[p] = p

(* An operation ends, and what waits for it goes on.                       *)
OperationEnds == "BUSY" \in flag ~> "BUSY" \notin flag
=============================================================================
