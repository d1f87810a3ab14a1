----------------------------- MODULE OSSpinLock -----------------------------
(***************************************************************************)
(* The lock the two processors share (libraries/os/src/os_spinLock.c):     *)
(* OS_InitLock, by which the ARM9 prepares the shared lock words and lets  *)
(* the ARM7 go on, and OS_LockCard, OS_TryLockCard and OS_UnlockCard on    *)
(* one of those words, with the switch of the card bus they make.          *)
(*                                                                         *)
(* Every access to shared memory is a step.  A function that has disabled  *)
(* interrupts keeps the other threads and handlers of its processor, but   *)
(* not those of the other processor, from making steps.                    *)
(***************************************************************************)
EXTENDS Integers

CONSTANTS
    Agent,      \* the threads and interrupt handlers that use the lock
    Agent9,     \* those of the ARM9; the others are the ARM7's
    lockID,     \* the lock ID each of them uses (several may share one)
    FirstOwner, \* what the owner word of HW_INIT_LOCK_BUF may hold at power-up
    Nobody

Proc == {"ARM9", "ARM7"}

\* What the words of HW_INIT_LOCK_BUF may hold: 0, any other value (nothing clears
\* them at power-up), and the ID each processor leaves there in the end.
InitWord == {"zero", "other", "system"}

ASSUME AgentAssumption ==
    /\ Agent9 \subseteq Agent
    /\ Nobody \notin Agent
    /\ lockID \in [Agent -> Nat \ {0}]                       \* OS_UNLOCK_ID is 0
    /\ \A g \in Agent9, h \in Agent \ Agent9 : lockID[g] # lockID[h]
    /\ FirstOwner \subseteq InitWord

proc(g) == IF g \in Agent9 THEN "ARM9" ELSE "ARM7"

VARIABLES
    lockFlag,   \* of HW_CARD_LOCK_BUF
    ownerID,
    bus,        \* the processor MIi_SetCardProcessor has given the card bus
    pc,         \* where each agent is
    masked,     \* the agent that has disabled interrupts on each processor
    initOwner,  \* ownerID of HW_INIT_LOCK_BUF
    extension,  \* its extension
    init        \* where each processor is in OS_InitLock

lockVars == <<lockFlag, ownerID, bus, pc, masked>>
initVars == <<initOwner, extension, init>>
vars == <<lockVars, initVars>>

\* OS_InitLock clears lockFlag of HW_INIT_LOCK_BUF, not its owner: if the word already
\* holds OS_MAINP_SYSTEM_LOCK_ID, the ARM7 passes its wait at once.
Init ==
    /\ lockFlag \in {0} \cup {lockID[g] : g \in Agent}
    /\ ownerID \in {0} \cup {lockID[g] : g \in Agent}
    /\ bus \in Proc
    /\ pc = [g \in Agent |-> "idle"]
    /\ masked = [p \in Proc |-> Nobody]
    /\ initOwner \in FirstOwner
    /\ extension \in InitWord
    /\ init = [p \in Proc |-> "start"]

-----------------------------------------------------------------------------
(* OS_InitLock *)

Goto(p, from, to) == init[p] = from /\ init' = [init EXCEPT ![p] = to]

\* The ARM9 takes the lock of HW_INIT_LOCK_BUF with an ID of its own.
InitLockARM9Start ==
    /\ Goto("ARM9", "start", "wait")
    /\ initOwner' = "other"
    /\ UNCHANGED <<lockVars, extension>>

\* It waits until the extension is zero.
InitLockARM9Wait ==
    /\ Goto("ARM9", "wait", "clear") /\ extension = "zero"
    /\ UNCHANGED <<lockVars, initOwner, extension>>

\* It clears the shared lock words and gives the card bus to the ARM7.
InitLockARM9Clear ==
    /\ Goto("ARM9", "clear", "unlock")
    /\ lockFlag' = 0 /\ ownerID' = 0 /\ bus' = "ARM7"
    /\ UNCHANGED <<pc, masked, initOwner, extension>>

\* It unlocks HW_INIT_LOCK_BUF,
InitLockARM9Unlock ==
    /\ Goto("ARM9", "unlock", "lock")
    /\ initOwner' = "zero"
    /\ UNCHANGED <<lockVars, extension>>

\* and locks it with OS_MAINP_SYSTEM_LOCK_ID.
InitLockARM9Lock ==
    /\ Goto("ARM9", "lock", "done")
    /\ initOwner' = "system"
    /\ UNCHANGED <<lockVars, extension>>

InitLockARM7Start ==
    /\ Goto("ARM7", "start", "wait")
    /\ extension' = "zero"
    /\ UNCHANGED <<lockVars, initOwner>>

\* Mutation: the ARM7 waits for any owner.
SystemOwns_AnyOwner == initOwner # "zero"

SystemOwns == initOwner = "system"

\* The ARM7 waits until the owner is OS_MAINP_SYSTEM_LOCK_ID.
InitLockARM7Wait ==
    /\ Goto("ARM7", "wait", "finish") /\ SystemOwns
    /\ UNCHANGED <<lockVars, initOwner, extension>>

InitLockARM7Finish ==
    /\ Goto("ARM7", "finish", "done")
    /\ extension' = "system"
    /\ UNCHANGED <<lockVars, initOwner>>

InitLock ==
    \/ InitLockARM9Start \/ InitLockARM9Wait \/ InitLockARM9Clear
    \/ InitLockARM9Unlock \/ InitLockARM9Lock
    \/ InitLockARM7Start \/ InitLockARM7Wait \/ InitLockARM7Finish

-----------------------------------------------------------------------------
(* The lock *)

\* g makes its next step, which is at from: no other agent of its processor has
\* disabled interrupts, and OS_InitLock is over there.
At(g, from) ==
    /\ pc[g] = from
    /\ init[proc(g)] = "done"
    /\ masked[proc(g)] \in {Nobody, g}

To(g, to) == pc' = [pc EXCEPT ![g] = to]

Disable(g) == masked' = [masked EXCEPT ![proc(g)] = g]

Restore(g) == masked' = [masked EXCEPT ![proc(g)] = Nobody]

\* A call of OS_LockCard or of OS_TryLockCard.
Call(g, call) ==
    /\ At(g, "idle")
    /\ To(g, call)
    /\ UNCHANGED <<lockFlag, ownerID, bus, masked, initVars>>

Failed(call) == IF call = "lock" THEN "lockfailed" ELSE "tryfailed"

Written(g) == lockID[g]

\* OSi_DoTryLockByWord with interrupts off: lockFlag is swapped with the ID, also
\* when the lock is another's.  The tries of OS_LockCard go on until one succeeds.
Swap(g) ==
    \E call \in {"lock", "try"} :
       /\ At(g, call)
       /\ Disable(g)
       /\ lockFlag' = Written(g)
       /\ To(g, IF lockFlag = 0 THEN "allocate" ELSE Failed(call))
       /\ UNCHANGED <<ownerID, bus, initVars>>

SwapFailed(g) ==
    \E call \in {"lock", "try"} :
       /\ At(g, Failed(call))
       /\ Restore(g)
       /\ To(g, IF call = "lock" THEN "lock" ELSE "idle")
       /\ UNCHANGED <<lockFlag, ownerID, bus, initVars>>

\* OSi_AllocateCardBus, which does nothing on the ARM7.
AllocateCardBus(g) ==
    /\ At(g, "allocate")
    /\ bus' = IF g \in Agent9 THEN "ARM9" ELSE bus
    /\ To(g, "own")
    /\ UNCHANGED <<lockFlag, ownerID, masked, initVars>>

SetOwner(g) ==
    /\ At(g, "own")
    /\ ownerID' = lockID[g]
    /\ Restore(g)
    /\ To(g, "held")
    /\ UNCHANGED <<lockFlag, bus, initVars>>

\* OSi_DoUnlockByWord tests the owner before it disables interrupts.
UnlockTest(g) ==
    /\ At(g, "held")
    /\ To(g, IF lockID[g] = ownerID THEN "unlock" ELSE "idle")
    /\ UNCHANGED <<lockFlag, ownerID, bus, masked, initVars>>

ClearOwner(g) ==
    /\ At(g, "unlock")
    /\ Disable(g)
    /\ ownerID' = 0
    /\ To(g, "free")
    /\ UNCHANGED <<lockFlag, bus, initVars>>

\* Mutation: the bus stays with the ARM9.
FreeCardBus_Keeps(g) ==
    /\ At(g, "free")
    /\ To(g, "clear")
    /\ UNCHANGED <<lockFlag, ownerID, bus, masked, initVars>>

\* OSi_FreeCardBus, which does nothing on the ARM7.
FreeCardBus(g) ==
    /\ At(g, "free")
    /\ bus' = IF g \in Agent9 THEN "ARM7" ELSE bus
    /\ To(g, "clear")
    /\ UNCHANGED <<lockFlag, ownerID, masked, initVars>>

\* Mutation: lockFlag is not cleared.
ClearFlag_Keeps(g) ==
    /\ At(g, "clear")
    /\ Restore(g)
    /\ To(g, "idle")
    /\ UNCHANGED <<lockFlag, ownerID, bus, initVars>>

ClearFlag(g) ==
    /\ At(g, "clear")
    /\ lockFlag' = 0
    /\ Restore(g)
    /\ To(g, "idle")
    /\ UNCHANGED <<ownerID, bus, initVars>>

\* The steps that an agent, once it is in a call, goes on to make.
Proceed(g) ==
    \/ Swap(g) \/ SwapFailed(g) \/ AllocateCardBus(g) \/ SetOwner(g)
    \/ ClearOwner(g) \/ FreeCardBus(g) \/ ClearFlag(g)

Next ==
    \/ InitLock
    \/ \E g \in Agent : Proceed(g) \/ UnlockTest(g) \/ \E call \in {"lock", "try"} : Call(g, call)

Spec == Init /\ [][Next]_vars

\* The processors run, and each lets an agent go on that can again and again, as the
\* others' calls enable interrupts; who has the lock unlocks it.
FairSpec == /\ Spec
            /\ WF_vars(InitLock)
            /\ \A g \in Agent : SF_vars(Proceed(g) \/ UnlockTest(g))

-----------------------------------------------------------------------------
(* Properties *)

PC == {"idle", "lock", "try", "lockfailed", "tryfailed", "allocate", "own", "held",
       "unlock", "free", "clear"}

\* Every variable has its type.
TypeOK ==
    /\ lockFlag \in {0} \cup {lockID[g] : g \in Agent}
    /\ ownerID \in {0} \cup {lockID[g] : g \in Agent}
    /\ bus \in Proc
    /\ pc \in [Agent -> PC]
    /\ masked \in [Proc -> Agent \cup {Nobody}]
    /\ initOwner \in InitWord
    /\ extension \in InitWord
    /\ init \in [Proc -> {"start", "wait", "clear", "unlock", "lock", "finish", "done"}]

\* From the swap that found lockFlag clear to the store that clears it again.
Holding(g) == pc[g] \in {"allocate", "own", "held", "unlock", "free", "clear"}

\* No two agents have the lock, on whichever processors they are and whichever IDs
\* they use, from power-up on, when the words of the lock itself hold anything.
MutualExclusion == \A g, h \in Agent : Holding(g) /\ Holding(h) => g = h

\* Who has the lock has the card bus: no processor reads the card through a bus
\* that the other one is switching or has been given.
HolderHasBus == \A g \in Agent : pc[g] \in {"own", "held", "unlock"} => bus = proc(g)

\* The owner of the lock is known: an agent that unlocks is not refused with
\* OS_UNLOCK_ERROR because of tries that failed and wrote lockFlag meanwhile, and
\* on the holder's processor nobody sees a lock without its owner or an owner
\* without the lock, as interrupts are off while they differ.
OwnerIsHolder ==
    /\ \A g \in Agent : pc[g] \in {"held", "unlock"} => ownerID = lockID[g]
    /\ \A p \in Proc : init[p] = "done" /\ masked[p] = Nobody =>
          \A g \in Agent : proc(g) = p =>
             (ownerID = lockID[g] => lockFlag # 0) /\ (Holding(g) => ownerID = lockID[g])

\* A holder can use what it has locked and give it back: the bus is with its
\* processor and the owner field names it.
HolderIsReady == HolderHasBus /\ OwnerIsHolder

\* The lock is free again, though every failed try writes lockFlag: no try leaves
\* a lock locked that its owner has cleared.
LockIsFreed == lockFlag # 0 ~> lockFlag = 0

\* Both processors have come out of OS_InitLock.
LockIsUp == \A p \in Proc : init[p] = "done"
=============================================================================
