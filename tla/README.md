# Verification of the NitroSDK libraries

NitroSDK is the system library of a handheld console with two processors: the
ARM9 runs the application, the ARM7 runs the drivers, and they share a piece of
memory, two hardware FIFOs and some buses. The libraries under `src/libraries`
are C code of cooperating threads and interrupt handlers with no protection but
"interrupts off". This project models the parts of them where an order of events
nobody tested can go wrong, checks the models with TLC on small instances, and
proves the most important facts with TLAPS for instances of every size.

Contents: [inventory](#inventory), [plan](#plan), [modules](#modules),
[runs](#runs), [fairness](#fairness), [proofs](#proofs),
[findings](#findings), [what is not modelled](#what-is-not-modelled).

Every TLA+ definition that models code has its file and lines in the `map` of
`PROJECT.json`; paths below are relative to `src/libraries`.

## Inventory

### The kernel (os)

| Part | State | Operations | What is hard | What makes it correct |
|---|---|---|---|---|
| Threads (`os_thread.c`, `os_irqHandler.c`) | the thread list sorted by priority, each thread's state, priority, queue links, destructor and sleep alarm, the scheduler lock, the IRQ check flags | create, exit, destroy, kill, join, sleep, wake, yield, priorities, `OS_Sleep`, `OS_WaitIrq`, `OS_DisableScheduler`, the thread switch at the end of an interrupt | interrupts taken at every unmasked point; threads killed and destroyed while they sleep in a queue; reschedules that are refused or put off; reads made before interrupts are disabled | list and links agree with the states; the most urgent ready thread runs; no sleeper is forgotten; a join returns when it should |
| Mutexes (`os_mutex.c`) | owner, count, waiters; each thread's list of mutexes | lock, try, unlock, release of everything at the owner's end | an owner that is killed or ends; woken waiters that find the mutex taken again | owner, count and list agree; nobody waits for a free mutex; nobody loses a mutex it holds |
| Message queues (`os_message.c`) | ring buffer, two queues of waiters | send, jam, receive, read, blocking or not, from threads and handlers | lost wake-ups; a waiter killed in the queue; index arithmetic at both ends | first in first out (last in first out for jam), none lost or doubled; senders and receivers never asleep together |
| Alarms (`os_alarm.c`) | a doubly linked queue by time, hardware timer 1 | set, set periodically, cancel one, by tag, all; the timer's handler | handlers that set and cancel alarms while the queue is being worked on; late interrupts; equal times; the 16-bit timer | the queue is one chain; no alarm early, out of order or forgotten; periodic alarms keep their phase |
| Inter-processor locks (`os_spinLock.c`) | lock words in shared memory, the owner of the card and cartridge buses | `OS_InitLock` of both processors, lock, try, unlock, lock IDs | two processors with no common mask; lock words that nothing clears at power-up; a failed try that overwrites the lock word | one holder; the holder has the bus; the start-up handshake ends |
| Ticks and timers (`os_tick.c`, `os_timer.c`) | a 16-bit counter and a count of its overflows | `OS_GetTick`, `OS_SetTick`, the overflow handler | reading two counters that belong together | the tick never runs backwards |
| V-count alarms (`os_valarm.c`) | a queue sorted by frame and line | set, cancel, the v-count handler | lines that wrap at 263, late handlers | as for alarms |
| Heaps, arenas (`os_alloc.c`, `os_arena.c`) | two lists of cells per heap, linked through the memory they manage | create, destroy, add, allocate, free, fixed ranges, clear | long sequences of calls that split, join and cut cells | the lists stay well formed; no memory has two uses |
| VRAM exclusion (`os_vramExclusive.c`) | owner of each bank's lock | lock a set, unlock | two libraries that share banks | one owner |
| Reset (`os_reset.c`, `os_terminate_proc.c`) | flags of both processors | the handshake before a reset | one processor waits for the other | both arrive |
| The rest | registers | interrupt masks, cache, protection unit, printing | no interleaving state | |

Threads call everything; handlers call the non-blocking half of everything.
Mutexes and message queues are built from `OS_SleepThread` and `OS_WakeupThread`;
`OS_Sleep` from an alarm whose handler calls `OS_WakeupThreadDirect`; the end of a
thread (`OSi_ExitThread_Destroy`, `OS_DestroyThread`) calls into mutexes and alarms.

### Between the processors

| Part | State | Operations | What is hard | What makes it correct |
|---|---|---|---|---|
| PXI FIFO (`pxi`) | two FIFOs of 16 words, error flag, callback table | start-up handshake, send, receive handler | full and empty FIFOs, a message nobody listens to, both ends starting at once | words arrive once, in order, at the right callback |
| Sound commands (`snd/src/snd_command.c`, `snd_alarm.c`) | free, reserve and waiting lists of commands, tags of finished lists, alarm messages | reserve, flush, wait for a tag, wait for a free command; the ARM7's command thread | at most eight lists under way, tags that wrap, both processors waiting for each other's FIFO | commands run in order, each once, and return to the free list |
| Card (`card`) | the resource lock, the task in progress, the command word in shared memory | lock by target, ROM and backup requests, cancel, retries | requests whose answers come by interrupt, two processors on one bus | one request at a time, each answered or failed |
| File system (`fs`) | the command list of each archive, its flags | asynchronous and synchronous commands, cancel, suspend, resume, unload | callbacks that finish or start commands; waits from threads and handlers | every command ends once |
| Serial peripherals, clock (`spi`, `rtc`) | exclusive use of a bus, multi-step requests | touch panel, microphone, power, clock | requests refused while busy, answers by FIFO | one user at a time |
| Wireless manager (`wm`) | its state, the ARM9's command buffers, the ARM7's request queue and the one buffer of answers | start, stop, scan, connect, disconnect, multi-player start and end, reset | two threads of the ARM7 answer through one buffer; driver's reports between the steps of a request; a full FIFO | each command answered once, in order; buffers not reused early; states agree with flags |
| Graphics (`gx`), VRAM switch (`wvr`) | which bank has which use, their registers and locks; the banks lent to the ARM7 | set, reset, disable for eleven uses; start and end of the wireless driver | records, registers, enable bits and locks of one bank are written apart; the ARM7 answers before its thread has ended | they agree; the driver has its memory while it runs |
| Multiboot (`mb`) | the parent's state, request and place of each child, the block it is at; the child's state and the blocks it has | association, request, accept, kick, blocks, completion, boot | lost and repeated frames, children at different places, children that leave | only a complete file boots; nobody is starved |
| Block transfer, wireless file system (`wbt`, `wfs`), the driver of the radio (`wl_arm7`) | blocks sent and acknowledged | transfer of blocks | as for multiboot | |
| Cartridge (`ctrdg`), memory interface (`mi`), sound synthesis, pattern recognition, mathematics | registers and data | | mostly sequential | |

`PROJECT.json` lists all of them under `components` with the reason for each that
is not modelled, and under `hazards` the places where the code is exposed, each
with the properties that watch it or a note on why none does.

## Plan

In the order of importance: everything rests on the kernel, so it comes first.

1. **Kernel** (done): `OSThread`, then `OSMutex` and `OSMessage` composed with it by
   EXTENDS; `OSAlarm`; `OSSpinLock`; `OSHeap`. Abstract specifications: `MessageChannel` for
   the ring buffer, `AlarmClock` for the alarm queue. Theorems: the invariants of
   threads, mutexes, message queues and locks, and the refinement of `MessageChannel`.
2. **Between the processors** (done): `SNDCommand` with the abstract specification
   `CommandPipe`; `PXIFifo`; `CardTask`, `GXVram` and `WVR`; the invariants and the refinement are proved.
   Left: the sound alarms, whose handler on the ARM7 spins for room while the ARM9 may
   spin in `SND_FlushCommand` with interrupts off, `RTCRequest` and `SPIDevice`.
3. **Upper layers** (done): `FSArchive` (command list with cancel, suspend, unload), `WM`
   (states, refused requests, two threads that answer through one buffer), `MBDownload`
   (blocks over a lossy medium, a complete file in the end); the invariants of the last two
   are proved. Left: the port queues of
   `wmsp_port.c` (retries and the sequence numbers that drop repeated packets), on which
   `wbt` and `wfs` build.
4. **Rest of the kernel**: `OSTick` (the read of a counter and its overflow),
   `OSVAlarm` (refines an alarm clock that counts lines), `OSLockID`.
5. **Pure algorithms**: the non-recursive quicksort of `math/src/qsort.c` against
   a sorted permutation, `checksum.c` with its 16-bit carries, `mi_uncompress`
   against its compressor, over bounded inputs.
6. **Proofs**: every component that is modelled has its main invariants proved, except the
   heaps: `HeapsAreSound` needs the two lists of cells as ghost sequences, as the alarm queue and the
   sound commands have theirs ([proofs](#proofs)), and that cells keep the arena divided.

## Modules

### OSThread — `os/src/os_thread.c`, `os/src/os_irqHandler.c`

One processor runs one thread. An API function runs with interrupts disabled, so
it is one action, including the reschedule at its end. Two kinds of function are
more than one action:

- A function that puts its caller to sleep is cut at the context switch. `op[t]`
  says which call thread `t` is inside and `arg[t]` has the call's locals: `OS_Sleep`
  is `Sleep` up to the switch and `SleepLoop` after each wake-up; `OS_WaitIrq` is
  `WaitIrq`, `WaitIrqCheck`, `WaitIrqSleep`.
- A function that touches shared state with interrupts enabled is cut there, and
  `IrqEnter` may come in between: `OS_SetThreadPriority` reads the head of the list
  (`SetThreadPriority`) before it disables interrupts (`SetThreadPriorityMasked`);
  `OS_WaitIrq` tests its flag with interrupts enabled; `OS_DestroyThread` restores
  interrupts before its last reschedule (`DestroyReschedule`).

State: `list` is `OSi_ThreadInfo.list`; `state`, `priority`, `queue`, `destructor` are
the fields of `OSThread`; `waiters[q]` are the threads linked in queue `q`, where a
thread's own name stands for its `joinQueue` (a queue is linked by priority, but
everything the code does with one wakes or removes members, so a set is enough);
`rescheduleCount` is `OSi_RescheduleCount`; `irqMode` is true between the entry of
`OS_IrqHandler` and the end of `OS_IrqHandler_ThreadSwitch`. `missed` is a history
variable: a reschedule was refused because of the scheduler lock.

`list` is a sequence, while the code has `next` pointers. The two agree as long as the list is
walked from its own head. `OS_SetThreadPriority` may walk from a thread that was the head
before the window (`Walks`): one that has moved, or one that has ended, whose `next` nothing clears
(`OSi_RemoveThreadFromList`, lines 240-257). The variable `next` has the link such a thread kept; it is
recorded only in instances whose `Windows` has `"setprio"`, for nothing else reads it. In the
masked part (`ChangePriority`) the thread before the target may then be one that has left the list: the code
writes that one's `next`, and the target, which is linked still, may be linked to itself or be inserted a
second time. From there on the code's list has a cycle, and a walk of it need not end; the model ends
there (`ListIntact`, a guard of `Next`), with the step that broke the list taken, so that a property sees the state.

`Calls` selects the API calls an instance uses, `Windows` the unmasked windows of
`OS_SetThreadPriority` an interrupt may fall into, `MaxDisable` bounds nested
`OS_DisableScheduler` calls. What the clients may not do is what the code asserts or
what the SDK never does: they block only with the scheduler enabled and while they
are in no queue (`MayBlock`), and they wake directly only threads that sleep in no
queue (as `OSi_SleepAlarmCallback` does). `sleepAlarm` stands for the `OSAlarm` in the
stack of `OS_Sleep`; when it goes off is left open (`SleepAlarmCallback`), which
covers every time `OSAlarm` allows.

### OSMutex — `os/src/os_mutex.c`

EXTENDS `OSThread` with `owner`, `count`, `held` (the thread's list of mutexes) and
`mutex` (`thread->mutex`). `OS_LockMutex` is `LockMutex` up to its first sleep and
`LockMutexLoop` for each turn of its loop. The creation and the ends of a thread
are the actions of `OSThread` conjoined with `OSi_UnlockAllMutex`, whose wake-ups are
those of `Terminate(t, held[t])`. `MaxCount` bounds recursion.

### OSMessage, MessageChannel — `os/src/os_message.c`

`OSMessage` EXTENDS `OSThread` with the ring (`msgArray`, `firstIndex`, `usedCount`), the
request a caller sleeps in and what each caller received last. `CallNow` is a call
that finds room or a message, `CallAndWait` one that sleeps, `CallLoop` the test
after each wake-up, `IrqCall` a handler's call without `OS_MESSAGE_BLOCK`.
`MessageChannel` is the promise: a bounded sequence. The refinement maps the ring
to the sequence of its used elements.

### OSAlarm, AlarmClock — `os/src/os_alarm.c`

The queue is kept by its links (`q.head`, `q.tail`, `q.next`, `q.prev`), because what
can go wrong is that links and members disagree; timer 1 is the count it still has
to make. An API function is one action, of a thread or of the alarm handler that
runs (`firing`). `OSi_ArrangeTimer` calls that handler with the alarm already
unlinked, so it is two actions with the handler's calls between. Times are
relative to now: `left[a]` is `fire - OS_GetTick()`, with -1 for everything that has
passed, which keeps the state space finite without bounding time. `AlarmClock` is
the promise, with neither queue nor timer.

### OSSpinLock — `os/src/os_spinLock.c`

Every access to shared memory is a step. `pc[g]` is the place of agent `g` (a thread or
handler of either processor) in `OS_LockCard`, `OS_TryLockCard` and `OS_UnlockCard`;
`masked[p]` is the agent that has disabled the interrupts of processor `p`, which
stops the other agents of `p` only. `init[p]` is the place of processor `p` in
`OS_InitLock`. The words of the lock start with any contents. `FirstOwner` is what the owner
word of `HW_INIT_LOCK_BUF` may hold at power-up. The ARM9 clears the flag of that word and not the owner
(line 57), and the ARM7 waits for an owner `OS_MAINP_SYSTEM_LOCK_ID` (line 83): a word that holds this ID
already lets the ARM7 go on before the ARM9 has cleared the lock words. The run and the theorems leave
this value out ([observations](#observations)).

### SNDCommand, CommandPipe — `snd/src/snd_command.c`

Commands are reserved (`Alloc`, `AllocWait`), pushed to the reserve list (`PushCommand`)
and sent as one list by a flush; the ARM7's callback queues the list, its sound
thread executes it and counts it in `finishCommandTag`; the ARM9 sees the count and
takes the list back (`RecvReply`). Free list, reserve list and waiting lists are kept
by the links of the commands, twice: `next` is what the ARM9 sees through its cache,
`mem` what the ARM7 reads. `DC_FlushRange` copies one to the other, and `Evict` may do so
for any command at any time.

A section of the ARM9 with interrupts disabled is one action. `pc[t]` says where in a
call that waits client `t` is: `count`, `decide`, `drain`, `check`, `request`, `recv`, `test` are the
steps `SND_AllocCommand`, `SND_WaitForFreeCommand` and `SND_WaitForCommandProc` share
(`call[t]` has which of them it is and its counts), `flush`, `spin`, `send`, `retry`, `retest`
those of `SND_FlushCommand`. In `spin` and `send` interrupts are disabled, so no other
client moves. A loop that polls is a guard: the step waits until the poll succeeds.
`PxiFifoCallback` and the three steps of `SND_CommandProc` are the ARM7's. The wake-up
message of the sound thread is left out, since the thread's periodic alarm wakes it
anyway. `Waiter` are the clients that use `SND_COMMAND_BLOCK`; `user` is the set of
clients this program has.

What clients do is what the SDK's own code does: a client pushes the command it
reserved before it makes another call, and flushes and waits for a tag once it took
one. `due[t]` is a history variable: the commands the tag stands for that are not
executed yet. `CommandPipe` is the promise, the sequence of pushed commands that
are not executed; the refinement maps to it what the ARM7 will read through `mem`, in
its order, followed by the reserve list.

### PXIFifo — `pxi/src/pxi_fifo.c`

The start-up handshake over the four bits each processor shows the other: the ARM7 counts
down from 8 (`SpinWait`, `CountDown`), the ARM9 shows again what it sees until it has
followed long enough (`Echo`, `EchoTimeout`); then words with a tag.
`SendWordByFifo` is the call, `HandlerRecvFifoNotEmpty` the interrupt: a word goes to the
callback of its tag or back to its sender with the error bit, or is lost when the way
back is full. `sent` and `received` count the words of each tag; `trusted` is a history
variable: the tags whose callback this processor has seen ready, after which it relies
on them.

### CardTask — `card/src` and `card/src/ARM7`

One task uses the card at a time. `pc[t]` is the place of a client, or of the task's own
thread, between two sections with interrupts disabled; `flag` the bits BUSY, TASK, REQ,
RECV and CANCEL; `result` the word in shared memory. `SendRequest` and `AwaitAck` are
`CARDi_Request` with its retries; `StreamPage` and `Sector` the two ways to write, with
verification; `ReadRomSync`, `OnReadCard` and the task the ways to read the ROM. The
ARM7's side is `OnFifoRecvARM7`, `TakeRequest`, `Execute`, `EndRequest`, and its poll for a
pulled-out cartridge (`CompareCardID`, `EndCompare`). The device writes a right page, a
wrong one, or fails. `page` is what the backup memory has, `own` the result the
operation itself ended with, and `excused` marks the two ways in which the code loses a
failure, a sector passed over and a result written over (below, *Observations*), which the property about success leaves out.

### FSArchive — `fs/src/fs_archive.c`, `fs_command.c`, `fs_file.c`, `fs_rom.c`

Each file is used by one thread; `at[p]` is where a process is in the command loop:
the thread that finds the archive idle (`activate`), the thread that waits for a
synchronous command, the manager that suspends, resumes and unloads, or the callback
of the card, each of which may come to execute the next command (`cur[p]`). Flags and
lists are read and written in the sections the code masks. `overtaken` is a history
variable: a file has been released and used again before its executor tested its
mode. No command is issued, cancelled or suspended any more once that has happened, and the
properties say nothing of what follows; the `fs_release` run is about that case.

### OSHeap — `os/src/os_alloc.c`

An address counts units of 32 bytes. `cell[a]` is the header at `a`; the lists are followed
through the headers, as the code does. Every call is one step. The guard `NotInside` of
`Next` keeps callers from `OS_AllocFixed` strictly inside an allocated block, which
`RangeOverlap` does not notice.

### GXVram, WVR — `gx/src/gx_vramcnt.c`, `gxstate.c`, `os/src/os_vramExclusive.c`, `wvr/src`

`vramCnt[u]` is GX's record of the banks of use `u`, `reg[b]` the register of bank `b` as what it
maps the bank to and where, `enabled` the enable bits, `lockId[b]` the lock's owner. The
eleven `GX_SetBankFor...` are one action with the tables of settings and offsets, and the
exceptions of some uses in it. `WVR` EXTENDS it with the ARM9's call that lends banks C and
D, the command, the ARM7's handler and thread and the answer, which is sent before the
thread's status changes. `refused` is a history variable: a start has been answered
ILLEGAL_STATUS for that reason.

### WM — `wm/src`, `wm/src/ARM7`

The ARM9 checks the state it sees, takes a buffer and sends a command (`Command(api)`); the
ARM7's callback queues it (`WMi_SendCommand` has both sides of the FIFO), the request thread
executes it in stages with the driver's answers between them (`RequestStep`), the indicate
thread handles what the driver reports (`IndicateMlmeAssociate`, `IndicateMlmeDeAuthenticate`,
`IndicateLinkFailure`), and both answer through one buffer guarded by a mutex and a word the
ARM9 clears (`WmReceiveFifo`). `status` is the
shared `WMStatus`; `outstanding` is a history variable: the commands without an answer.
The driver is external: any request may fail, and a station that is up may report a
child, the loss of its peer, or a failing link at any time.

### MBDownload — `mb/src/mb_parent.c`, `mb_child.c`, `mb_block.c`, `mb_wm_base.c`

A callback is one action, of the parent (`ParentRecv`, `ParentSend`, `ChildConnected`,
`ChildDisconnected`) or of a child (`ChildRecv`, `ChildSend`, `ConnectedToParent`,
`DisconnectedFromParent`, `CommEnd`), and so is a call of the application
(`CommResponseRequest`, `DisconnectChild`, `StartDownload`), which the SDK's programs make
from the state callbacks. `toChildren` is the frame the parent has out, with the children it
is for, and `toParent[c]` what child `c` says. A frame stays until its sender sets another
one; a receiver may take it never (lost), once or again (repeated), and `ParentRecv(cs)`
takes the frames of any set `cs` of linked children, as one MP exchange does. `entry` stands
for `child_entry_bmp`, `gameinfo_child_bmp` and `fileid_of_child`, which are always written
together; `link` is the association as the radio has it. `MaxJoins` bounds the
associations of a behaviour.

### MC modules

They name model values and symmetry sets, and compose the instances that share a
run, by EXTENDS or INSTANCE of the modules. In `MCLocks`, `MCMemory`, `MCProcessors`, `MCProgress` and `MCCartridge` the variable `part`
says which instance a behaviour belongs to: it never changes, the instance's actions
are those of its module, and what only other parts use stays as it started. The
instances do not interact there; where components do interact, the modules are
composed (`OSMutex` and `OSMessage` on `OSThread`, `WVR` on `GXVram`, both processors inside
`SNDCommand`, `CardTask`, `WM`). `MCProgress` builds closed systems for liveness: threads that wait
for interrupts (an INSTANCE of `OSThread`), threads that contend for one mutex (one of `OSMutex`),
and two children that are served (`MBDownload`, which it EXTENDS). In `MCWM` `pairs` chooses between
every command, one at a time, and a parent's commands two at a time.

Definitions introduced by `Mutation:` are faulty variants of the definition that
follows; replacing one by the other breaks the property `PROJECT.json` names for it
under `mutants`. No specification uses them.

## Runs

| Run | Question | Instance |
|---|---|---|
| `thread_life` | Do list, links and running thread stay right (`KernelConsistent`, `MostUrgentRuns`) through every order of creating, ending, killing, destroying, joining, sleeping, yielding, waking, changing priorities and waiting for interrupts, when no interrupt falls into the window of `OS_SetThreadPriority`? | launcher, idle and two threads, two priorities (above and below the one the launcher starts with), one queue, one interrupt |
| `progress` | Does the most urgent thread return from `OS_WaitIrq`, and get the mutex? In multiboot, do the parent's records agree and does only a complete file boot, through every way to come, be refused, leave and be lost? Does every download end? | waiters: two threads, two interrupts; contenders: three threads, one mutex; game: two children of which one is too many, two associations; service: two children that have been accepted; files of two blocks |
| `thread_stalehead` | Is every live thread in the list when the window of `OS_SetThreadPriority` is open? A counterexample | two threads, three priorities |
| `locks` | Are owner, count, list and waiters of mutexes right whatever ends a thread? Is the message ring a bounded channel, and is no wake-up lost when senders and receivers are killed? Does the alarm of `OS_Sleep` never outlive the call, and does nobody run while the scheduler is disabled? | mutexes: three threads, two mutexes, recursion to 2; messages: two threads and a handler, two slots, two messages; sleepers: three threads, scheduler locks nested to 2 |
| `memory` | Does the alarm queue stay one chain, timed for its head, and do periodic alarms keep their phase? Do heaps pass `OS_CheckHeap` and has no memory two uses after any sequence of calls? | three alarms, times past, now, beyond the timer's span; two heaps in six units, requests of one and two units |
| `alarm_latecancel` | Is an alarm that is in use always in the queue, or running, when a handler cancels its own periodic alarm after another call? A counterexample | two alarms |
| `sound_pipe` | Do links, cache, FIFO and tags carry the sound commands over in order, each once; is none lost or reused early; do the calls of a lone thread return? | three commands, at most two lists out, one word in the FIFO, 12 tags; a thread that waits, alone or beside one that does not |
| `processors` | Does `OS_InitLock` end, and is the lock exclusive from power-up on, whatever the lock words hold and with any owner but the system's in `HW_INIT_LOCK_BUF`; has its holder the bus; is it freed? Does the FIFO handshake end, and do words that are relied on arrive once and in order? Do records, registers and locks of the banks agree, and has the wireless driver its memory while it runs? Does the alarm queue implement `AlarmClock`, and does every alarm go off? | lock: two agents per processor, two of them with one ID; fifo: one tag, two words, FIFOs of two; banks C and D, then C and F, eleven uses; two alarms |
| `cartridge` | Has one operation the card at a time, does every one end, is success reported only of what has been written? Does the archive execute one command at a time, and does every command end? | a client of the backup memory and one of the ROM, two pages, two retries; an archive with two files and a manager |
| `fs_release` | Is a file that is released always one that was busy? A counterexample | two files, a manager |
| `wm` | Is every command answered once, in order, from a buffer nobody overwrites? Is MP's flag up only in the states that say so? Is every command served? | one child, two buffers, one command of every kind or two of a parent's on their way |
| `wm_staleaids` | Is the ARM9's bitmap of children clear when a connection is started? A counterexample | one child |

Why the bounds are enough to be of use:

- Threads. The functions distinguish the caller, the thread acted on and a third
  that is woken, preempts or waits behind; the launcher and two threads give each
  of these roles to different threads, with the idle thread at the end of the
  list. Two priorities, one on each side of the launcher's, put a thread before and behind the
  launcher, and beside it or the other thread where both have the same one. The
  theorems below hold for any number.
- Queues. One client queue besides the join queues and the interrupt queue; two
  mutexes, so that a thread owns several or waits for one while it owns another.
- Ring. Two slots make the indices wrap at both ends, and full differs from empty
  by more than one call. Two threads and a handler are a woken waiter, another
  waiter beside it, and a third that overtakes both.
- Alarms. Three alarms give a head, a middle and a tail to unlink. `Span` = 2 stands
  for 0x10000: delays and periods up to it, and starts on both sides of now, are
  every branch of `OSi_SetTimer` and of the computation of the next time.
- Heaps. Six units hold three smallest cells, so that one has a neighbour on both
  sides to join with; two heaps share the arena and may be extended into each
  other's holes.
- Agents. Two on a processor are needed for a shared ID and for the mask, one on
  each for the rest.
- FIFOs. Two words are a word behind another and a full FIFO; the tags do not interact
  but through the FIFO's room.
- Banks. Every use of a pair of banks that can conflict: C and D are the ones the ARM7
  may have, C and F may be joined for backgrounds. What GX does to banks nobody lends
  (A, B, E, G, H, I) differs in its tables only; the theorems hold for all of them.
- Card and archive. One operation of each kind; two pages in different sectors give
  the loop over sectors a first and a last turn, and one retry is left after one that fails. The
  device has three pages (`ChipPages`), one more than any operation writes. Two files
  are the command executed and the one behind it, with the manager a third process.
- Wireless. Two commands are one that is served and one that waits while the driver
  reports; more wait in the same queue. One child is associated, leaves and comes back.
- Multiboot. Two children are one that receives and one at another place, or one that
  is accepted and one too many; a request of two pieces may arrive in either order and
  twice. With two blocks the last one received may be before or behind the one that is
  missing, and the parent runs past the end of the file, as its window is two. The second
  association is either another child or the same one again. The second child leaves by
  itself only, which by symmetry leaves out the loss of both links.
- Sound commands. With three commands and `BufSize` = 2 two lists are out while a
  third waits, a list has up to three commands, and the ring of three slots wraps;
  with one word of room the FIFO is often full. Twelve tags wrap, and half of them is
  more than `BufSize + 1`, as half of 2^32 is. A client that is alone runs without
  bound; beside another, `MaxShared` = 3 lists are sent, enough for the ring to be
  overrun if the count were not looked at again.

Symmetry is used only in runs that check no liveness. Deadlock is checked in the
runs of the kernel, where an interrupt can always come. It is not checked where the
system really may stop: clients of alarms, heaps, locks, banks, the card, archives
and the wireless manager may make no further call; words and lists are bounded
(`MaxWords`, `MaxShared`); and a sound client that waits for a reply another client has
taken spins for ever. That a lone sound client, an operation of the card, a command
of an archive and one of the wireless manager are never stuck are liveness
properties of those runs.

## Fairness

- `progress`, waiters: strong fairness of each interrupt's entry, since an
  interrupt that is raised stays pending in the request register until it is taken,
  and of the waiting threads' steps and calls, which others can only interrupt;
  weak fairness of the handlers' return. Only the most urgent thread is said to
  return: every interrupt, of any cause, wakes the threads of the interrupt queue in
  order of priority, and a less urgent one may miss its flag for ever.
- `progress`, contenders: strong fairness of the rest between two rounds, of the lock's loop
  and of the unlock, each of them by some thread, since a more urgent thread may preempt
  the others again and again but does rest; that owners unlock is an assumption on clients.
  Nothing is assumed of interrupts but that their handlers return.
- `progress`, service: weak fairness of the sends, which follow one another as long as
  somebody is associated (the callback of a sent frame sends the next one), of the reports
  of a lost link, and of the end of a child that is told to boot; strong fairness of a frame's
  arrival: what is sent again and again does not get lost for ever, for each child's frames to the
  parent and for some child's receiving a frame of the parent; and strong fairness of the
  parent's sending with a CONTINUE heard, as an exchange is followed by a send. That no child
  is starved of the blocks it misses is up to the blocks the parent chooses, and is what the
  property is about.
  The fairness conditions of the three parts are joined pairwise in `MCProgress`: a behaviour
  belongs to one part, where the others' actions are never enabled.
- `processors`: weak fairness of time and of `OSi_ArrangeTimer` (the interrupt is
  not masked for ever, and handlers return) and of `OS_InitLock`; strong fairness of
  each agent's steps once it is in a call and of the unlock by who has the lock, since
  another agent of the processor disables interrupts again and again but for a few
  steps only. That presumes that a spinning thread does not keep the holder from
  running, which on one processor is up to the priorities the application gives (a
  hazard with a note). Weak fairness of the handshake's loops and of the FIFO interrupt.
- `sound_pipe`: weak fairness of a client inside a call, of the ARM7's FIFO interrupt and
  of its sound thread, which `SndAlarmCallback` wakes every period. It presumes that
  no handler of the ARM7 keeps the others out (the spin of `AlarmHandler` is a hazard
  with a note). Nothing is assumed of calls: a client may stop between two.
- `cartridge`: weak fairness of each thread inside a call, of the interrupts of the FIFO
  and of the card, and of the ARM7's thread; strong fairness of its taking a request to
  execute, since the poll that takes the same task comes once in ten frames and is over
  long before the next. The archive: weak fairness of each process inside a
  command and of the device. Nothing is assumed of calls.
- `wm`: weak fairness of the ARM9's FIFO interrupt and of the indicate thread, strong
  fairness of the request thread, which the more urgent indicate thread keeps
  waiting only while it has callbacks to send.

## Proofs

Eight modules, checked by TLAPS with SMT, Zenon and PTL, hold for instances of every size:

| Module | For any | Assumptions |
|---|---|---|
| `OSThread_proofs` | threads, queues, priorities, interrupts | `ThreadAssumption`: the launcher and the idle thread are different threads, the interrupt queue is not one clients use; of the theorems on the thread to run, `"setprio" \notin Windows` |
| `Locks_proofs`: `OSMutex`, `OSMessage` | mutexes, recursion; messages, places of the ring | `MutexAssumption`: mutexes have queues of their own; `MessageAssumption`: the two queues are different ones and nobody else's, the ring has a place |
| `OSAlarm_proofs` | alarms, delays, starts, periods, timer span | `AlarmAssumption`: finitely many alarms, a span of at least one tick, periods that are not zero (`os_alarm.c:184`); of the theorems on the queue, `~LateCancel` |
| `Processors_proofs`: `OSSpinLock`, `PXIFifo`, `WVR` | agents, contents of the lock's words; tags, words, size of the FIFOs; banks that are lent | `AgentAssumption`: lock IDs are not zero and the processors' IDs are disjoint (`os_spinLock.c` takes them from two ranges); of the theorems on the card lock, `"system" \notin FirstOwner`; `GXVramAssumption`: GX and the wireless library have lock IDs of their own |
| `Cartridge_proofs`: `CardTask`, `FSArchive` | clients, operations, pages, retries, nesting; files | `CardAssumption`; `CardConstants`: each client uses the ROM or the backup device, a write has at least one page and ends within the device, a DMA read is not empty (`card_rom.c:109`); `FilesAssumption`: the card and the manager are not files |
| `SNDCommand_proofs` | commands, clients, lists under way, FIFO words, tags | `CommandAssumption`: the commands are finitely many, the number of tags is even and its half exceeds the lists under way by more than one (2^31 and 8 in the code) |
| `WM_proofs` | buffers, commands and internal requests under way | `WMAssumption`: association IDs are among 1 to 15, there is a buffer |
| `MBDownload_proofs` | blocks, pieces, associations | `DownloadConstants`: the children's IDs are among 1 to 15 (`WM_NUM_MAX_CHILD`), a request has a piece, a game has one player at least |

The `...Assumption`s are ASSUMEs of the modules they are about, which TLC evaluates in the
runs; the two `...Constants` are hypotheses of the theorems, which the runs' instances
satisfy. Finiteness is assumed of nothing but IDs, alarms and commands.

**Threads.** The inductive invariant is `Inv`, the conjunction of

- `TypeOK`, `LinkConsistent`, `NoJoinerLeft`, `SleepAlarmMatchesSleeper`: the properties;
- `OpLive`: a thread that is inside a call is alive. Without it the end of a thread
  could leave a call that later touches its fields;
- `LinkPlace`: the kind of call a waiting thread is in fixes the queue it may be in: a
  thread inside `OS_Sleep` is in none, so that no `OS_WakeupThread` readies it before its
  alarm, and an interrupt waiter is in the interrupt queue;
- `IdleInv`: the idle thread is ready, calls nothing, and everyone else is more urgent.

`TypeCorrect`, `LinksConsistent`, `NoJoinerIsLeft` and `SleepAlarmNeverDangles` follow from `Inv`, and the
action property `JoinIsRight` from `Inv` and each action; they hold of every kernel, also where an interrupt
lets the head of the list grow stale (there up to the step that makes the list a cycle, with which
the model ends). There is one lemma for each action or family of
actions that the same argument covers (`Block`, `Wakeup`, `Terminate`), so that the modules
built on the kernel use them too.

Other properties hold of some kernels only, and their theorems say of which.
`AlwaysAThreadToRun`, with it `KernelIsConsistent`, and `MostUrgent` have the hypothesis
`"setprio" \notin Windows`: no interrupt falls between the read of the list in
`OS_SetThreadPriority` and the mask. It is needed: in the window a thread can be lost from the list, which is the finding
`thread_stalehead`, and also the idle thread, where the head that was read ends
([findings](#findings)). Their invariant `UrgentInv` adds to `Inv` that the list is sorted and complete
(`ThreadListSorted`), that the running thread is the first that can run, or a reschedule is due
or has been refused (`Urgent`), and that whoever has read the head of the list has the head
that is still there (`HeadIsFresh`). A list that is complete has the idle thread, which is ready
(`IdleInv`), so that `OS_SelectThread` finds a thread. `LockHeld`, that the running thread does not change while the
scheduler is disabled, has the hypothesis `"waitirq" \notin Calls`: nobody uses `OS_WaitIrq`. The
end of an interrupt (`OS_IrqHandler_ThreadSwitch`) switches to a thread it has woken from the
interrupt queue without a look at the scheduler lock, so that the property is false of
kernels in which somebody waits there; `locks` checks it in one where nobody does.

**Alarms.** The queue exists as links only, so the inductive invariant `AlarmInv` says of what sequence
they are the links: there is a sequence `s` of alarms with

- `Linked`: `q.head` and `q.tail` are its ends, and `next` and `prev` of each of its alarms the neighbours;
- `Once`, `Sorted`: no alarm is in it twice, and they stand by time;
- `WaitingAreSet`, `SetAreWaiting`: who is in it has a handler, and who has a handler is in it,
  or is the periodic alarm whose own handler runs;
- `OwnLinks`: while that handler has made no call yet, the links its alarm kept still fit its old
  place, so that a cancel by them does no harm;
- `Timed`: the timer's interrupt comes in time for the head; `InPhase`: `PeriodKept`.

Walking the links from the head visits `s` and nothing else (`ChainIs`), wherefore the places the
code finds by walking are places of `s`: an insertion puts an alarm behind those due earlier or at the
same time, a cancel takes one out of any place, and what a walk with a cancel at each alarm it meets
(`UnlinkAll`) leaves are those it did not meet. That is induction over the length of the
walk, made from the least element of a set of naturals (`Least`, `Stepwise`); that the functions
that define the walks exist follows the same way. Theorems: `QueueTimed`, `PhaseKept`, and
`ImplementsClock`, each step a step of `AlarmClock` or a stutter. All have the hypothesis
`~LateCancel`: a handler that cancels its own periodic alarm does so before its other calls. Without
it they are false, which is the finding `alarm_latecancel`.

**Mutexes.** `MutexInv` is `Inv` and `OwnerInv`: the properties `MutexTypeOK`,
`OwnershipConsistent`, `WaitersHaveOwner`, `LockerWaitsForItsMutex`, and `LockPlace`: only
threads inside `OS_LockMutex` wait in the queue of a mutex, in that of the mutex they
asked for. The kernel's steps leave mutexes alone but may end, wake or kill a
locker, so the lemmas on them carry `LockPlace`; that an owner's end wakes the queues
of everything it held keeps `WaitersHaveOwner`. Theorems: `MutexTypeCorrect`,
`OwnershipIsConsistent`, `NobodyIsStranded` and the action property `OwnersKeepTheirMutexes`.

**Message queues.** `MessageInv` is `Inv` with `NobodyMissesMessages` and `CallPlace`: a thread inside a
call is linked in the queue of that call or in none. Without it a receiver could be among
the senders that a receive wakes. A call wakes the whole queue of the other side, so that queue is empty
after it, and a thread sleeps only after a test that failed in the same masked section:
`NoMessageIsMissed`. For the refinement, `QueueIsChannel`, the ring is the function from the
first `usedCount` places behind `firstIndex` to the messages there; the lemmas on `%` say that a
send writes the place behind the last, a jam the place before the first, and no two places of
one ring are the same, and each step then is one operation of `MessageChannel` or a stutter.

**Card lock.** `LockInv` adds to the type invariant what the order of the start-up
gives (`Started`: no agent is in the lock before its processor's `OS_InitLock` is over;
`Phases`: the ARM7 is past its wait only when the ARM9 has cleared the words) and what
the order of the stores gives (`FlagSet`: while somebody holds the lock its word is not
zero; `Masks`: who is between the stores has the interrupts of its processor off;
`OwnerKnown` and `BusKnown`: the owner word and the bus follow the holder's place).
Theorems: `LockTypeCorrect`, `LockIsExclusive`, `HolderIsAlwaysReady`. `Phases` needs that
the ARM7 finds the system's ID in `HW_INIT_LOCK_BUF` only where the ARM9 has put it: all but the first
theorem have the hypothesis `"system" \notin FirstOwner`, and are false without it.

**Word FIFOs.** `FifoInv` has `HandshakeInv`: a processor is up only when the other one is no longer off,
with what each start-up shows the other until then, also what was in the register before; `TableInv`: the bits
a processor shows are those of its callbacks, and what the other one relies on is registered; and `WordInv`:
of the words with a tag that is relied on, the FIFO carries exactly those after the last one received
up to the last one sent, in order and none with the error bit. Theorem: `WordsArrive`.

**Video memory lent.** The inductive invariant joins GX's side with the two sides of
the switch: `GXHolds` (every bank has at most one use, and what GX records it holds the lock of
and has mapped there), `Lent` (what is locked for the wireless library is what the ARM9
recorded as lent, and mapped to the ARM7), `ThreadStatus` (the ARM7's status and its
thread's progress fit), `OneCall` (one command or answer is under way exactly while the
ARM9 waits for one) and `LentWhen` (which banks are lent in which phase of a call).
The point is that GX may run between any two steps: its actions leave every bank alone
whose lock it does not get. Theorem: `DriverAlwaysHasItsMemory`, for every subset of the
nine banks. `BanksAlwaysAgree` needs one thing more, `Layout`: the banks a use has are one of the settings
of that use's table (or of the two tables `GX_SetBankForBGEx` joins), each mapped where the
table says, and so is what the call in progress asks for. Then no two banks of a
use answer one address, by the sizes of the banks and every setting of the tables; and the
enable bits follow the settings (`EnabledHasBanks`).

**Card.** `CardInv` says of the task what the code leaves to the order of its steps:

- `OwnerInv`, `JobInv`, `PhaseInv`: who is inside holds the lock, the task is that client's, one of
  client, thread and DMA executes it, and where the executor is fits the operation;
- `ChannelInv`: while REQ is set the request is in exactly one place (`Sent`): on its way, read in
  part, noted by the ARM7, in execution, or answered; and nothing is anywhere while it is not set.
  With `Arm7Inv`, `ReadingInv`, `WakeInv` and `SleepInv` nobody sleeps for what has come;
- `KindInv`, `LenInv`, `CountInv`: the pages written and the pages left are what was asked for, the sector
  in progress included; `PagesInv`: what has been verified, and what the ARM7 answers for, is
  in the memory. `ResultInv` is what is left of that when the task has ended.

Theorems: `CardAlwaysOrdered`, `SuccessIsDone`, `SleepersWait`. The liveness of an operation is TLC's.

**Archive.** `ArchiveInv` says, until `overtaken` (the race of the finding `fs_release`):

- `TokenInv`: one process or the card executes exactly while RUNNING is set, and no second one does. Which places
  of the command loop count as executing is `Executes`; a thread whose call has returned does not, as the card may
  have ended the command and begun the next one;
- `ListInv`, `HeadInv`: the list holds the busy files, each once, and only the first one's command operates;
  `RestInv`: nobody at work, not suspended, means that there is nothing to do;
- `DeviceInv`, `SyncInv`: the device works for the command that operates, in the mode the archive's flags tell,
  and a synchronous command has its thread there;
- `SuspendInv`: SUSPENDING and SUSPEND are there for the manager that waits; `DormantInv`: who sleeps has not been given
  what it sleeps for.

What `FSi_ReleaseCommand` and the removal of cancelled commands leave of the list is a lemma on the recursive `Without`. Theorems:
`OneCommand` and, with the sleepers of the card, `CartridgeWakes`.

**Wireless manager.** `Inv` has `Numbered` and `OneEach` (which requests have a buffer, no two the same),
`BuffersInUse`, `InOrder` (the commands without an answer are, in order, the one whose answer is in
the ARM9's FIFO, the one in execution and those in the queue), `AnswerLast` (the callback that
ends a command is the last the request sends), `OneBuffer` (the indicate thread never
sends such a callback, and a FIFO word is on its way only while its buffer is marked full) and `MpStopped`: where
each way to end MP is with the flag, stage by stage, and that the state is
MP_PARENT or MP_CHILD while it is up. Theorems: `EveryCommandIsAnswered`, `MpIsStopped`.

**Multiboot.** `DownloadInv` has the parent's side, child by child (`ParentInv`: a child is in `entry` exactly in the
states of a member, in `pollbmp` exactly while it receives, and the members and the parent are
not more than the players), the types of frames (`TypeInv`: a CONTINUE asks for a block of
the file or the one behind it) and the file (`FileInv`): a child whose frame says STOPREQ has all
blocks, also while that frame is out and may be lost or repeated, and only a child
that has accepted to boot, which follows on the complete file, is about to end. Theorems: `ParentRecordsAgree`, `FileArrives`.

**Sound commands.** The lists exist as links only, seen by the two processors in two ways. The invariant
`IInv` says (`Standing`) that there is one line `T` of all commands that were ever pushed, behind those that were
free at the start: clients take from its front, `lo`, and push at its end, `hi`. A command that comes back stays
where it is and is then the last free one. The lists are cuts `b[n]` of the line, numbered as
they were sent. `r` of them are back, the ARM7 has finished `f` and `s` were sent, so that the free list ends
at `b[r]` and the reserved one begins behind `b[s]`. Then

- `Parted`: a command is once in the line or with one client; `Linked`, `Ends`: the links of the ARM9 are those of the line but
  for the cuts, and heads and ends are those of its parts;
- `Written`: what was sent and is not back is in memory as the ARM9 has it, whatever its cache holds
  of the rest. This is what the flush in `SND_FlushCommand` is for, and why a list must not be touched until its reply;
- `Ringed`, `Counted`: the ring has the lists `r + 1 .. s`, and the tags are `r`, `f` and `s + 1`, each modulo their number;
- `Executing`, `Travelling`: the ARM7 is at place `e` of the line, in the list after the finished ones; the next lists
  are in its message queue and the last ones in the FIFO, with words of other kinds between them;
- `Owing`: what a tag was taken for is not yet executed only while that tag is one of `f + 1 .. s + 1`.

`Callers` says what a client has tested with interrupts disabled, and that only one client is there. To take a command is to move
`lo`, to push one `hi`; a list that is sent adds a cut and a reply removes one. The pipe is the line from
`e` to `hi`, which only a push and an executed command change. A tag of `Owing` is at most `BufSize + 1`
ahead of the finished one, less than half the tags, so that `SND_IsFinishedCommandTag` compares it rightly
wherever the tags wrap. No proof needs the bound `MaxShared`. Theorems: `CommandsOrderly`,
`CommandsReadFirst`, `TagsAreWaitedFor`, `ImplementsPipe`.

**Model-checked only.** Liveness and ENABLED are out of the prover's reach. One part has no proof
and stays with TLC: the cells of `OSHeap` (`HeapsAreSound`). Its lists are followed by a recursive
function, as those of the alarms are, so a proof is within reach; it is what is left.

## Findings

- `thread_stalehead` (`os_thread.c:1071`): `OS_SetThreadPriority` reads the head of the
  thread list before it disables interrupts at line 1079. If an interrupt in between
  lets a more urgent thread move itself, the function relinks the list from a head
  that is not the head any more, and live threads drop out of the list. The assertion
  of `OSi_RemoveThreadFromList` (line 250) states that this does not happen. The
  same instance with threads that end shows more: when the head that was read ends in the
  window, `pre->next` is written in a thread that is not in the list, the target, which still is, can be linked
  to itself, and the idle thread is lost (`ThreadToRun` fails, hence `KernelConsistent`).
- `alarm_latecancel` (`os_alarm.c:213`): a periodic alarm's handler that sets another
  alarm and then cancels its own makes `OS_CancelAlarm` unlink an alarm that is not
  in the queue by the links it kept; the other alarm is lost, and setting it again
  panics (line 153).
- `fs_release` (`fs/src/fs_command.c:55`): the thread that starts an asynchronous command
  on behalf of another reads the file's mode again after the call. When the command is
  over by then and its thread has made a synchronous call, the executor acts on the new
  command, and when that is cancelled it is released by both. The assertion at line 10
  states that a file that is released is busy.
- `wm_staleaids` (`wm/src/ARM7/req_Reset.c:47`): `WMSP_Reset` copies and clears the bitmap of
  children, and closes the entry later. A child the indicate thread reports in between is
  in no list of disconnections, and stays in the ARM9's `connectedAidBitmap`, which
  `wm_standard.c:234` warns should be 0 when a station starts.

In each case the runs beside them show that the rest of the component is right
when the case is left out (`Windows = {}`, `LateCancel = FALSE`, `~overtaken`; no property of `wm`
reads the bitmap).

### Observations

Met while modelling. They are modelled as the code has them, or excluded by a named
guard or history variable; no run of their own is made of them.

- Card. The inner `break` of `card_backup.c:104`, `116` and `121` ends the loop over pages of a
  failed sector, and the outer loop goes on with the next one. The ARM7's poll writes its
  own result over that of the request before it (`ARM7/card_pullOut.c:59`). `CANCEL` is lost
  when it is set between the read and the write of an unmasked update of the flag
  (`card_request.c:52`, `card_common.c:23`); a cancel while nothing is under way cancels the next
  operation.
- Locks. With `FirstOwner = {"system"}` TLC finds `MutualExclusion` violated (the ARM7 locks, then the
  ARM9 clears the words) and `LockIsUp` not reached (the ARM7 has set `extension` to its ID before the ARM9 waits for
  zero, line 61). `OSi_DoBoot` (`os_reset.c`) clears the 0x64 bytes behind `HW_COMPONENT_PARAM`,
  `HW_INIT_LOCK_BUF` among them, before a program is started again, so only what starts the first
  program decides on it, which is not in this repository.
- File system. A thread that waits for OPERATING of a command that is cancelled or
  unloaded before it is started does not wake (`fs_archive.c:206`, `fs_file.c:334`). SUSPENDING and
  CANCELING can be lost by unmasked updates of the flags.
- Heaps. `RangeOverlap` does not see a cell that strictly surrounds the range, so that
  `OS_AllocFixed` succeeds inside an allocated block. `OS_DestroyHeap` keeps `currentHeap`.
- Graphics. The reset and disable functions of textures and clear images leave the enable
  bits. The SDK_FINALROM build of `GX_SetBankFor...` skips the lock. A full FIFO in
  `WVR_StartUpAsync` undoes the locks but leaves the registers.
- VRAM switch. The ARM7's threads answer before they change the status and exit: a start
  that follows at once is refused with ILLEGAL_STATUS, and its banks stay locked.
- Wireless. Of two queued `WM_StartMP` the second leaves MP_PARENT with the MP flag down,
  from where neither `WM_EndMP` nor `WM_StartMP` leads on. A command that a full FIFO drops
  leaves its buffer unmarked. `WM_Finish` has a return without `OS_RestoreInterrupts`
  (`wm_system.c:144`). `WMSP_Reset` reads `fparent` unset when the station is neither parent nor
  child. `WmspPxiCallback` spins while the request queue is full.
- Multiboot. `MB_DisconnectChild` clears the parent's records with interrupts enabled
  (`mb_wm_base.c:1054`): a callback between the lines 1069 and 1080 finds a child in a state of the
  download with `fileid_of_child` -1 and indexes `file_req_num[-1]` (`mb_parent.c:523`), and its
  unmasked update of `pollbmp` can lose one made by a callback. Pieces of a request that
  arrive after the parent has disconnected a child count for the next child with that ID. A child that
  is refused and stays connected keeps its message ahead of all blocks. BOOT_STARTABLE is
  reported of a child that leaves in BOOT_REQUEST for whatever reason. SEND_QUEUE_FULL ends the
  parent's chain of sends (`mb_wm_base.c:280`).
- V-count alarms. `OSi_GetVFrame` called with the match line of an alarm that was set
  between the match and the handler counts a frame too many; the next line passed while it
  is set loses a frame.
- Ticks. `OS_SetTick` restarts the counter, so that `OS_GetTick` goes back until the next
  overflow.

## What is not modelled

- Data: stacks and their checks, contexts, profiles and call traces; messages and
  names are model values. The 64-bit tick does not wrap.
- `OS_SetPeriodicAlarm` of the own alarm from its handler: it inserts the alarm twice
  and the next walk of the queue does not end; the guard of `SetPeriodicAlarm` leaves
  the call out, and `hazards` lists it.
- The lock IDs (`OS_GetLockID`, `OS_ReleaseLockID`), the cartridge lock (the same code
  with FIQs off too) and the debug variants of the locks.
- The table walk of `OS_IrqHandler`: an interrupt is one cause, its handler any
  sequence of the calls handlers may make; interrupts do not nest, as the handler
  runs with interrupts disabled.
- Sound: what a command does on the ARM7, the sound alarms, and two threads that
  both wait. For the last, TLC with `Waiter` = {a, b} finds states from which nothing
  moves: one thread's reply is taken by the other, and the reserved commands both
  need are never flushed (`hazards`).
- FIFO: the hardware's error flag, and clients that loop on a full FIFO.
- Card: the read cache and the cutting of reads into pages, the bits on the SPI bus.
- File system: directories and names, overlays, archives in memory, archive procedures of
  the user's own.
- Wireless manager: `WM_Init`, `WM_Initialize` and `WM_End`, the data of MP and its ports, key
  and data sharing, WEP, DCF, test mode, channel measurement and lifetimes.
- Multiboot: beacons and the game's information, several files at once, the cache of
  blocks, errors of wm, the limit of 1000 steps in `get_next_blockno`.
- The driver of the radio, most of the drivers of serial devices, sound synthesis,
  mathematics and start-up code are register programming and data transformation, the
  larger part of the repository's lines with its headers, tables and generated constants.
- The components the inventory lists without a module, for the reasons in
  `PROJECT.json`; those of the plan come first.
