---------------------------- MODULE MCProcessors ----------------------------
(***************************************************************************)
(* What the two processors share and what must happen there, as instances  *)
(* for TLC that share one run: a behaviour belongs to the part it starts   *)
(* in, and the state of the other parts stays at rest.  "lock" is the card *)
(* lock with two agents on the ARM9 that share an ID, as the threads of    *)
(* one library do, and two on the ARM7; "fifo" the word FIFOs; "lend" and  *)
(* "extend" the wireless VRAM switch and GX on banks C and D, of which the *)
(* ARM7 may have both, and on C and F, which GX_SetBankForBGEx may join;   *)
(* "alarms" the alarm queue of one processor against AlarmClock.           *)
(***************************************************************************)
EXTENDS OSSpinLock, WVR, PXIFifo, OSAlarm

CONSTANTS a1, a2, b1, b2, t1, x1, x2

VARIABLE part

IDs == [g \in Agent |-> IF g \in {a1, a2} THEN 64 ELSE IF g = b1 THEN 128 ELSE 129]

\* Starts that have passed and starts to come.
PastAndFuture == {-1, 1}

\* The lock and the FIFOs at rest: after OS_InitLock and PXI_InitFifo, unused.
LockRests ==
    /\ lockFlag = 0 /\ ownerID = 0 /\ bus = "ARM7" /\ initOwner = "system" /\ extension = "zero"
    /\ pc = [g \in Agent |-> "idle"] /\ masked = [p \in Proc |-> Nobody]
    /\ init = [p \in Proc |-> "done"]

FifosRest ==
    LET all(v) == [c \in {"ARM9", "ARM7"} |-> v]
        none == all([t \in Tags |-> 0])
    IN  /\ phase = all("up") /\ intf = all(0) /\ count = all(0) /\ settled = all(TRUE)
        /\ handleChecker = all({}) /\ callbacks = all({}) /\ trusted = all({})
        /\ fifo = all(<<>>) /\ sent = none /\ received = none

ProcessorsInit ==
    /\ part \in {"lock", "fifo", "lend", "extend", "alarms"}
    /\ IF part = "lock" THEN Init ELSE LockRests
    /\ IF part = "fifo" THEN FifoInit ELSE FifosRest
    /\ VramInit
    /\ AlarmInit

\* The steps of the video memory that deal with no other banks.
Within(banks) ==
    /\ gx'.banks \cup gx'.large \cup wvrVRam' \subseteq banks
    /\ \A b \in Banks \ banks : reg'[b] = reg[b]

ProcessorsNext ==
    \/ part = "lock" /\ Next /\ UNCHANGED <<part, fifoVars, vramVars, alarmVars>>
    \/ part = "fifo" /\ FifoNext /\ UNCHANGED <<part, vars, vramVars, alarmVars>>
    \/ part = "lend" /\ VramNext /\ Within({"C", "D"})
       /\ UNCHANGED <<part, vars, fifoVars, alarmVars>>
    \/ part = "extend" /\ VramNext /\ Within({"C", "F"})
       /\ UNCHANGED <<part, vars, fifoVars, alarmVars>>
    \/ part = "alarms" /\ AlarmNext /\ UNCHANGED <<part, vars, fifoVars, vramVars>>

\* The fairness of the parts; at rest none of these actions is enabled.
ProcessorsSpec ==
    /\ ProcessorsInit /\ [][ProcessorsNext]_<<part, vars, fifoVars, vramVars, alarmVars>>
    /\ WF_vars(InitLock) /\ \A g \in Agent : SF_vars(Proceed(g) \/ UnlockTest(g))
    /\ FifoFairness
    /\ WF_alarmVars(Tick) /\ WF_alarmVars(ArrangeTimer)

-----------------------------------------------------------------------------
(* A property of two of the instances.  *)

\* OS_InitLock and the handshake of PXI_InitFifo end on both processors.
StartUpEnds == <>(LockIsUp /\ BothAreUp)
=============================================================================
