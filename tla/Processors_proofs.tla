-------------------------- MODULE Processors_proofs --------------------------
(***************************************************************************)
(* Proofs about what the two processors share: the inter-processor locks   *)
(* of OSSpinLock, the word FIFOs of PXIFifo, and the VRAM banks of WVR.    *)
(* They are stated for any agents and lock IDs, any tags and sizes of the  *)
(* FIFOs, and any banks.                                                   *)
(***************************************************************************)
EXTENDS OSSpinLock, PXIFifo, WVR, SequenceTheorems, TLAPS

-----------------------------------------------------------------------------
(***************************************************************************)
(* The lock.  Mutual exclusion is not inductive.  It rests on lockFlag     *)
(* being set as long as somebody holds the lock, which the clearing of the *)
(* lock words in OS_InitLock would break: so no agent may be in a call     *)
(* before that (Started), and the ARM7 must not be past its own            *)
(* OS_InitLock (Phases).  The last needs that the owner word of            *)
(* HW_INIT_LOCK_BUF does not hold OS_MAINP_SYSTEM_LOCK_ID at power-up, for *)
(* then the ARM7 does not wait for the ARM9: it is a hypothesis of the     *)
(* theorems.                                                               *)
(***************************************************************************)

Cleared == init["ARM9"] \in {"unlock", "lock", "done"}

Started == \A g \in Agent : pc[g] # "idle" => init[proc(g)] = "done"

Phases ==
    /\ initOwner = "system" => init["ARM9"] = "done"
    /\ init["ARM7"] \in {"finish", "done"} => init["ARM9"] = "done"

FlagSet == \A g \in Agent : Holding(g) => lockFlag # 0

Masks ==
    \A g \in Agent :
       pc[g] \in {"allocate", "own", "free", "clear", "lockfailed", "tryfailed"} =>
          masked[proc(g)] = g

OwnerKnown ==
    /\ \A g \in Agent : pc[g] \in {"held", "unlock"} => ownerID = lockID[g]
    /\ Cleared /\ (\A g \in Agent : pc[g] \notin {"held", "unlock"}) => ownerID = 0

HasBus(g) == g \in Agent9 /\ pc[g] \in {"own", "held", "unlock", "free"}

BusKnown ==
    /\ \A g \in Agent : HasBus(g) => bus = "ARM9"
    /\ Cleared /\ (\A g \in Agent : ~HasBus(g)) => bus = "ARM7"

\* The inductive invariant.
LockInv == TypeOK /\ Started /\ Phases /\ FlagSet /\ MutualExclusion /\ Masks
           /\ OwnerKnown /\ BusKnown

-----------------------------------------------------------------------------
\* Initially no agent is in a call and neither processor has left OS_InitLock.
LEMMA InitHolds == "system" \notin FirstOwner /\ Init => LockInv
<1> SUFFICES ASSUME "system" \notin FirstOwner, Init PROVE LockInv
  OBVIOUS
<1> USE DEF Init
<1>1. TypeOK
  BY AgentAssumption DEF TypeOK, Proc, InitWord, PC
<1>2. init["ARM9"] = "start" /\ init["ARM7"] = "start"
  BY DEF Proc
<1>3. Started /\ Phases /\ ~Cleared
  BY <1>2 DEF Started, Phases, Cleared
<1>4. \A g \in Agent : ~Holding(g) /\ ~HasBus(g) /\ pc[g] = "idle"
  BY DEF Holding, HasBus
<1>5. FlagSet /\ MutualExclusion /\ Masks /\ OwnerKnown /\ BusKnown
  BY <1>3, <1>4 DEF FlagSet, MutualExclusion, Masks, OwnerKnown, BusKnown
<1> QED
  BY <1>1, <1>3, <1>5 DEF LockInv

\* The steps of OS_InitLock.  Until the ARM9 has cleared the lock words no agent is
\* in a call, on either processor.
LEMMA InitLockStep == LockInv /\ InitLock => LockInv'
<1> SUFFICES ASSUME LockInv, InitLock PROVE LockInv'
  OBVIOUS
<1> USE DEF LockInv
<1>0. /\ TypeOK
      /\ pc' = pc /\ masked' = masked
      /\ \A g \in Agent : proc(g) \in Proc
  BY DEF InitLock, InitLockARM9Start, InitLockARM9Wait, InitLockARM9Clear,
         InitLockARM9Unlock, InitLockARM9Lock, InitLockARM7Start, InitLockARM7Wait,
         InitLockARM7Finish, lockVars, proc, Proc
<1>1. TypeOK'
  BY <1>0 DEF InitLock, InitLockARM9Start, InitLockARM9Wait, InitLockARM9Clear,
         InitLockARM9Unlock, InitLockARM9Lock, InitLockARM7Start, InitLockARM7Wait,
         InitLockARM7Finish, lockVars, TypeOK, Goto, InitWord, Proc
<1>2. \A p \in Proc : init[p] = "done" => init'[p] = "done"
  BY <1>0 DEF InitLock, InitLockARM9Start, InitLockARM9Wait, InitLockARM9Clear,
         InitLockARM9Unlock, InitLockARM9Lock, InitLockARM7Start, InitLockARM7Wait,
         InitLockARM7Finish, TypeOK, Goto, Proc
<1>3. Started'
  BY <1>0, <1>2 DEF Started
<1>4. Phases'
  BY <1>0 DEF InitLock, InitLockARM9Start, InitLockARM9Wait, InitLockARM9Clear,
         InitLockARM9Unlock, InitLockARM9Lock, InitLockARM7Start, InitLockARM7Wait,
         InitLockARM7Finish, TypeOK, Goto, Proc, Phases, SystemOwns, lockVars
<1>5. CASE InitLockARM9Clear
  <2>1. init["ARM9"] = "clear" /\ init["ARM7"] # "done"
    BY <1>5 DEF InitLockARM9Clear, Goto, Phases
  <2>2. \A g \in Agent : pc[g] = "idle"
    BY <2>1 DEF Started, proc
  <2>3. \A g \in Agent : ~Holding(g)' /\ ~HasBus(g)' /\ pc'[g] = "idle"
    BY <1>0, <2>2 DEF Holding, HasBus
  <2>4. ownerID' = 0 /\ bus' = "ARM7"
    BY <1>5 DEF InitLockARM9Clear
  <2>5. FlagSet' /\ MutualExclusion' /\ Masks' /\ OwnerKnown' /\ BusKnown'
    BY <2>3, <2>4 DEF FlagSet, MutualExclusion, Masks, OwnerKnown, BusKnown
  <2> QED
    BY <1>1, <1>3, <1>4, <2>5
<1>6. CASE ~InitLockARM9Clear
  <2>1. UNCHANGED lockVars
    BY <1>6 DEF InitLock, InitLockARM9Start, InitLockARM9Wait, InitLockARM9Unlock,
           InitLockARM9Lock, InitLockARM7Start, InitLockARM7Wait, InitLockARM7Finish
  <2>2. Cleared' => Cleared
    BY <1>0, <1>6 DEF InitLock, InitLockARM9Start, InitLockARM9Wait, InitLockARM9Unlock,
           InitLockARM9Lock, InitLockARM7Start, InitLockARM7Wait, InitLockARM7Finish,
           Goto, Cleared, TypeOK, Proc
  <2>3. \A g \in Agent : (Holding(g)' <=> Holding(g)) /\ (HasBus(g)' <=> HasBus(g))
    BY <2>1 DEF Holding, HasBus, lockVars
  <2>4. FlagSet' /\ MutualExclusion' /\ Masks'
    BY <2>1, <2>3 DEF FlagSet, MutualExclusion, Masks, lockVars
  <2>5. OwnerKnown' /\ BusKnown'
    BY <2>1, <2>2, <2>3 DEF OwnerKnown, BusKnown, lockVars
  <2> QED
    BY <1>1, <1>3, <1>4, <2>4, <2>5
<1> QED
  BY <1>5, <1>6

-----------------------------------------------------------------------------
\* What every step of an agent leaves alone, and what its guard says.
LEMMA AgentStep ==
    ASSUME LockInv, NEW g \in Agent, NEW from, NEW to \in PC, At(g, from), To(g, to),
           UNCHANGED initVars
    PROVE  /\ pc' \in [Agent -> PC]
           /\ pc[g] = from /\ pc'[g] = to
           /\ \A h \in Agent : h # g => pc'[h] = pc[h]
           /\ init' = init /\ Cleared /\ Cleared'
           /\ Started' /\ Phases'
           /\ proc(g) \in Proc
           /\ \A h \in Agent : h # g /\ masked[proc(h)] = h => proc(h) # proc(g)
<1>1. pc \in [Agent -> PC]
  BY DEF LockInv, TypeOK
<1>2. /\ pc' \in [Agent -> PC]
      /\ pc[g] = from /\ pc'[g] = to
      /\ \A h \in Agent : h # g => pc'[h] = pc[h]
  BY <1>1 DEF At, To
<1>3. init' = init /\ initOwner' = initOwner
  BY DEF initVars
<1>4. init[proc(g)] = "done"
  BY DEF At
<1>5. init["ARM9"] = "done"
  BY <1>4 DEF proc, LockInv, Phases
<1>6. Cleared /\ Cleared'
  BY <1>3, <1>5 DEF Cleared
<1>7. Started'
  BY <1>2, <1>3, <1>4 DEF Started, LockInv
<1>8. Phases'
  BY <1>3 DEF Phases, LockInv
<1>9. proc(g) \in Proc
  BY DEF proc, Proc
<1>10. \A h \in Agent : h # g /\ masked[proc(h)] = h => proc(h) # proc(g)
  BY AgentAssumption DEF At
<1> QED
  BY <1>2, <1>3, <1>6, <1>7, <1>8, <1>9, <1>10

\* Every agent's step at g keeps the invariant.
LEMMA CallHolds == \A g \in Agent, call \in {"lock", "try"} : LockInv /\ Call(g, call) => LockInv'
<1> SUFFICES ASSUME LockInv, NEW g \in Agent, NEW call \in {"lock", "try"}, Call(g, call)
             PROVE  LockInv'
  OBVIOUS
<1> USE DEF LockInv
<1>1. At(g, "idle") /\ To(g, call) /\ UNCHANGED <<lockFlag, ownerID, bus, masked, initVars>>
  BY DEF Call
<1>2. call \in PC
  BY DEF PC
<1>3. /\ pc' \in [Agent -> PC]
      /\ pc[g] = "idle" /\ pc'[g] = call
      /\ \A h \in Agent : h # g => pc'[h] = pc[h]
      /\ Cleared /\ Started' /\ Phases'
  BY <1>1, <1>2, AgentStep
<1>4. \A h \in Agent : /\ Holding(h)' <=> Holding(h)
                       /\ HasBus(h)' <=> HasBus(h)
                       /\ pc'[h] \in {"held", "unlock"} <=> pc[h] \in {"held", "unlock"}
  BY <1>3 DEF Holding, HasBus
<1>5. TypeOK'
  BY <1>1, <1>3 DEF TypeOK, initVars
<1>6. FlagSet' /\ MutualExclusion'
  BY <1>1, <1>4 DEF FlagSet, MutualExclusion
<1>7. Masks'
  BY <1>1, <1>3 DEF Masks
<1>8. OwnerKnown' /\ BusKnown'
  BY <1>1, <1>3, <1>4 DEF OwnerKnown, BusKnown
<1> QED
  BY <1>3, <1>5, <1>6, <1>7, <1>8

LEMMA SwapHolds == \A g \in Agent : LockInv /\ Swap(g) => LockInv'
<1> SUFFICES ASSUME LockInv, NEW g \in Agent, Swap(g) PROVE LockInv'
  OBVIOUS
<1> USE DEF LockInv
<1>1. PICK call \in {"lock", "try"} :
         /\ At(g, call)
         /\ Disable(g)
         /\ lockFlag' = Written(g)
         /\ To(g, IF lockFlag = 0 THEN "allocate" ELSE Failed(call))
         /\ UNCHANGED <<ownerID, bus, initVars>>
  BY DEF Swap
<1> DEFINE to == IF lockFlag = 0 THEN "allocate" ELSE Failed(call)
<1>2. to \in PC
  BY DEF PC, Failed
<1>3. /\ pc' \in [Agent -> PC]
      /\ pc[g] = call /\ pc'[g] = to
      /\ \A h \in Agent : h # g => pc'[h] = pc[h]
      /\ Cleared /\ Started' /\ Phases' /\ proc(g) \in Proc
      /\ \A h \in Agent : h # g /\ masked[proc(h)] = h => proc(h) # proc(g)
  <2> HIDE DEF to
  <2> QED  BY <1>1, <1>2, AgentStep DEF to
<1>4. lockFlag' \in {lockID[h] : h \in Agent} /\ lockFlag' # 0
  BY <1>1, AgentAssumption DEF Written
<1>5. TypeOK'
  BY <1>1, <1>3, <1>4 DEF TypeOK, initVars, Disable
<1>6. FlagSet'
  BY <1>4 DEF FlagSet
<1>7. MutualExclusion'
  <2>1. CASE lockFlag = 0
    <3>1. \A h \in Agent : ~Holding(h)
      BY <2>1 DEF FlagSet
    <3>2. \A h \in Agent : Holding(h)' => h = g
      BY <3>1, <1>3 DEF Holding
    <3> QED  BY <3>2 DEF MutualExclusion
  <2>2. CASE lockFlag # 0
    <3>1. \A h \in Agent : Holding(h)' => Holding(h)
      BY <2>2, <1>3 DEF Holding, Failed
    <3> QED  BY <3>1 DEF MutualExclusion
  <2> QED  BY <2>1, <2>2
<1>8. Masks'
  <2>1. masked \in [Proc -> Agent \cup {Nobody}] /\ \A h \in Agent : proc(h) \in Proc
    BY DEF TypeOK, proc, Proc
  <2> QED  BY <1>1, <1>3, <2>1 DEF Masks, Disable
<1>9. \A h \in Agent : /\ HasBus(h)' <=> HasBus(h)
                       /\ pc'[h] \in {"held", "unlock"} <=> pc[h] \in {"held", "unlock"}
  BY <1>3 DEF HasBus, Failed
<1>10. OwnerKnown' /\ BusKnown'
  BY <1>1, <1>3, <1>9 DEF OwnerKnown, BusKnown
<1> QED
  BY <1>3, <1>5, <1>6, <1>7, <1>8, <1>10

LEMMA SwapFailedHolds == \A g \in Agent : LockInv /\ SwapFailed(g) => LockInv'
<1> SUFFICES ASSUME LockInv, NEW g \in Agent, SwapFailed(g) PROVE LockInv'
  OBVIOUS
<1> USE DEF LockInv
<1>1. PICK call \in {"lock", "try"} :
         /\ At(g, Failed(call))
         /\ Restore(g)
         /\ To(g, IF call = "lock" THEN "lock" ELSE "idle")
         /\ UNCHANGED <<lockFlag, ownerID, bus, initVars>>
  BY DEF SwapFailed
<1> DEFINE to == IF call = "lock" THEN "lock" ELSE "idle"
<1>2. to \in PC
  BY DEF PC
<1>3. /\ pc' \in [Agent -> PC]
      /\ pc[g] = Failed(call) /\ pc'[g] = to
      /\ \A h \in Agent : h # g => pc'[h] = pc[h]
      /\ Cleared /\ Started' /\ Phases' /\ proc(g) \in Proc
      /\ \A h \in Agent : h # g /\ masked[proc(h)] = h => proc(h) # proc(g)
  <2> HIDE DEF to
  <2> QED  BY <1>1, <1>2, AgentStep DEF to
<1>4. \A h \in Agent : /\ Holding(h)' <=> Holding(h)
                       /\ HasBus(h)' <=> HasBus(h)
                       /\ pc'[h] \in {"held", "unlock"} <=> pc[h] \in {"held", "unlock"}
  BY <1>3 DEF Holding, HasBus, Failed
<1>5. TypeOK'
  BY <1>1, <1>3 DEF TypeOK, initVars, Restore
<1>6. FlagSet' /\ MutualExclusion'
  BY <1>1, <1>4 DEF FlagSet, MutualExclusion
<1>7. Masks'
  <2>1. masked \in [Proc -> Agent \cup {Nobody}] /\ \A h \in Agent : proc(h) \in Proc
    BY DEF TypeOK, proc, Proc
  <2> QED  BY <1>1, <1>3, <2>1 DEF Masks, Restore
<1>8. OwnerKnown' /\ BusKnown'
  BY <1>1, <1>3, <1>4 DEF OwnerKnown, BusKnown
<1> QED
  BY <1>3, <1>5, <1>6, <1>7, <1>8

LEMMA AllocateCardBusHolds == \A g \in Agent : LockInv /\ AllocateCardBus(g) => LockInv'
<1> SUFFICES ASSUME LockInv, NEW g \in Agent, AllocateCardBus(g) PROVE LockInv'
  OBVIOUS
<1> USE DEF LockInv
<1>1. At(g, "allocate") /\ To(g, "own") /\ UNCHANGED initVars
  BY DEF AllocateCardBus
<1>2. "own" \in PC
  BY DEF PC
<1>3. /\ pc' \in [Agent -> PC]
      /\ pc[g] = "allocate" /\ pc'[g] = "own"
      /\ \A h \in Agent : h # g => pc'[h] = pc[h]
      /\ Cleared /\ Started' /\ Phases' /\ proc(g) \in Proc
      /\ \A h \in Agent : h # g /\ masked[proc(h)] = h => proc(h) # proc(g)
  BY <1>1, <1>2, AgentStep
<1>4. \A h \in Agent : h # g => ~Holding(h)
  BY <1>3 DEF Holding, MutualExclusion
<1>5. TypeOK'
  BY <1>1, <1>3 DEF AllocateCardBus, TypeOK, initVars, Proc
<1>6. FlagSet' /\ MutualExclusion'
  <2>1. \A h \in Agent : Holding(h)' => h = g
    BY <1>3, <1>4 DEF Holding
  <2>2. Holding(g)
    BY <1>3 DEF Holding
  <2> QED  BY <2>1, <2>2 DEF AllocateCardBus, FlagSet, MutualExclusion
<1>7. Masks'
  BY <1>3 DEF AllocateCardBus, Masks
<1>8. OwnerKnown' /\ BusKnown'
  <2>1. \A h \in Agent : h # g => /\ pc'[h] \notin {"held", "unlock", "own", "free"}
                                 /\ pc[h] \notin {"held", "unlock", "own", "free"}
    BY <1>3, <1>4 DEF Holding
  <2>2. \A h \in Agent : h # g => ~HasBus(h) /\ ~HasBus(h)'
    BY <2>1 DEF HasBus
  <2>3. OwnerKnown'
    BY <1>3, <2>1 DEF AllocateCardBus, OwnerKnown
  <2>4. BusKnown'
    BY <1>3, <2>2 DEF AllocateCardBus, BusKnown, HasBus
  <2> QED  BY <2>3, <2>4
<1> QED
  BY <1>3, <1>5, <1>6, <1>7, <1>8

LEMMA SetOwnerHolds == \A g \in Agent : LockInv /\ SetOwner(g) => LockInv'
<1> SUFFICES ASSUME LockInv, NEW g \in Agent, SetOwner(g) PROVE LockInv'
  OBVIOUS
<1> USE DEF LockInv
<1>1. At(g, "own") /\ To(g, "held") /\ UNCHANGED initVars
  BY DEF SetOwner
<1>2. "held" \in PC
  BY DEF PC
<1>3. /\ pc' \in [Agent -> PC]
      /\ pc[g] = "own" /\ pc'[g] = "held"
      /\ \A h \in Agent : h # g => pc'[h] = pc[h]
      /\ Cleared /\ Started' /\ Phases' /\ proc(g) \in Proc
      /\ \A h \in Agent : h # g /\ masked[proc(h)] = h => proc(h) # proc(g)
  BY <1>1, <1>2, AgentStep
<1>4. \A h \in Agent : h # g => ~Holding(h)
  BY <1>3 DEF Holding, MutualExclusion
<1>5. TypeOK'
  BY <1>1, <1>3 DEF SetOwner, TypeOK, initVars, Restore
<1>6. FlagSet' /\ MutualExclusion'
  <2>1. \A h \in Agent : Holding(h)' => h = g
    BY <1>3, <1>4 DEF Holding
  <2>2. Holding(g)
    BY <1>3 DEF Holding
  <2> QED  BY <2>1, <2>2 DEF SetOwner, FlagSet, MutualExclusion
<1>7. Masks'
  <2>1. masked \in [Proc -> Agent \cup {Nobody}] /\ \A h \in Agent : proc(h) \in Proc
    BY DEF TypeOK, proc, Proc
  <2> QED  BY <1>3, <2>1 DEF SetOwner, Masks, Restore
<1>8. OwnerKnown' /\ BusKnown'
  <2>1. \A h \in Agent : h # g => /\ pc'[h] \notin {"held", "unlock", "own", "free"}
                                 /\ pc[h] \notin {"held", "unlock", "own", "free"}
    BY <1>3, <1>4 DEF Holding
  <2>2. \A h \in Agent : h # g => ~HasBus(h) /\ ~HasBus(h)'
    BY <2>1 DEF HasBus
  <2>3. OwnerKnown'
    BY <1>3, <2>1 DEF SetOwner, OwnerKnown
  <2>4. BusKnown'
    BY <1>3, <2>2 DEF SetOwner, BusKnown, HasBus
  <2> QED  BY <2>3, <2>4
<1> QED
  BY <1>3, <1>5, <1>6, <1>7, <1>8

\* The holder's test of ownerID succeeds: it is never refused with OS_UNLOCK_ERROR.
LEMMA UnlockTestHolds == \A g \in Agent : LockInv /\ UnlockTest(g) => LockInv'
<1> SUFFICES ASSUME LockInv, NEW g \in Agent, UnlockTest(g) PROVE LockInv'
  OBVIOUS
<1> USE DEF LockInv
<1>1. At(g, "held") /\ To(g, "unlock") /\ UNCHANGED initVars
  BY DEF UnlockTest, OwnerKnown, At
<1>2. "unlock" \in PC
  BY DEF PC
<1>3. /\ pc' \in [Agent -> PC]
      /\ pc[g] = "held" /\ pc'[g] = "unlock"
      /\ \A h \in Agent : h # g => pc'[h] = pc[h]
      /\ Cleared /\ Started' /\ Phases' /\ proc(g) \in Proc
      /\ \A h \in Agent : h # g /\ masked[proc(h)] = h => proc(h) # proc(g)
  BY <1>1, <1>2, AgentStep
<1>4. \A h \in Agent : h # g => ~Holding(h)
  BY <1>3 DEF Holding, MutualExclusion
<1>5. TypeOK'
  BY <1>1, <1>3 DEF UnlockTest, TypeOK, initVars
<1>6. FlagSet' /\ MutualExclusion'
  <2>1. \A h \in Agent : Holding(h)' => h = g
    BY <1>3, <1>4 DEF Holding
  <2>2. Holding(g)
    BY <1>3 DEF Holding
  <2> QED  BY <2>1, <2>2 DEF UnlockTest, FlagSet, MutualExclusion
<1>7. Masks'
  BY <1>3 DEF UnlockTest, Masks
<1>8. OwnerKnown' /\ BusKnown'
  <2>1. \A h \in Agent : h # g => /\ pc'[h] \notin {"held", "unlock", "own", "free"}
                                 /\ pc[h] \notin {"held", "unlock", "own", "free"}
    BY <1>3, <1>4 DEF Holding
  <2>2. \A h \in Agent : h # g => ~HasBus(h) /\ ~HasBus(h)'
    BY <2>1 DEF HasBus
  <2>3. OwnerKnown'
    BY <1>3, <2>1 DEF UnlockTest, OwnerKnown
  <2>4. BusKnown'
    BY <1>3, <2>2 DEF UnlockTest, BusKnown, HasBus
  <2> QED  BY <2>3, <2>4
<1> QED
  BY <1>3, <1>5, <1>6, <1>7, <1>8

LEMMA ClearOwnerHolds == \A g \in Agent : LockInv /\ ClearOwner(g) => LockInv'
<1> SUFFICES ASSUME LockInv, NEW g \in Agent, ClearOwner(g) PROVE LockInv'
  OBVIOUS
<1> USE DEF LockInv
<1>1. At(g, "unlock") /\ To(g, "free") /\ UNCHANGED initVars
  BY DEF ClearOwner
<1>2. "free" \in PC
  BY DEF PC
<1>3. /\ pc' \in [Agent -> PC]
      /\ pc[g] = "unlock" /\ pc'[g] = "free"
      /\ \A h \in Agent : h # g => pc'[h] = pc[h]
      /\ Cleared /\ Started' /\ Phases' /\ proc(g) \in Proc
      /\ \A h \in Agent : h # g /\ masked[proc(h)] = h => proc(h) # proc(g)
  BY <1>1, <1>2, AgentStep
<1>4. \A h \in Agent : h # g => ~Holding(h)
  BY <1>3 DEF Holding, MutualExclusion
<1>5. TypeOK'
  BY <1>1, <1>3 DEF ClearOwner, TypeOK, initVars, Disable
<1>6. FlagSet' /\ MutualExclusion'
  <2>1. \A h \in Agent : Holding(h)' => h = g
    BY <1>3, <1>4 DEF Holding
  <2>2. Holding(g)
    BY <1>3 DEF Holding
  <2> QED  BY <2>1, <2>2 DEF ClearOwner, FlagSet, MutualExclusion
<1>7. Masks'
  <2>1. masked \in [Proc -> Agent \cup {Nobody}] /\ \A h \in Agent : proc(h) \in Proc
    BY DEF TypeOK, proc, Proc
  <2> QED  BY <1>3, <2>1 DEF ClearOwner, Masks, Disable
<1>8. OwnerKnown' /\ BusKnown'
  <2>1. \A h \in Agent : h # g => /\ pc'[h] \notin {"held", "unlock", "own", "free"}
                                 /\ pc[h] \notin {"held", "unlock", "own", "free"}
    BY <1>3, <1>4 DEF Holding
  <2>2. \A h \in Agent : h # g => ~HasBus(h) /\ ~HasBus(h)'
    BY <2>1 DEF HasBus
  <2>3. OwnerKnown'
    BY <1>3, <2>1 DEF ClearOwner, OwnerKnown
  <2>4. BusKnown'
    BY <1>3, <2>2 DEF ClearOwner, BusKnown, HasBus
  <2> QED  BY <2>3, <2>4
<1> QED
  BY <1>3, <1>5, <1>6, <1>7, <1>8

LEMMA FreeCardBusHolds == \A g \in Agent : LockInv /\ FreeCardBus(g) => LockInv'
<1> SUFFICES ASSUME LockInv, NEW g \in Agent, FreeCardBus(g) PROVE LockInv'
  OBVIOUS
<1> USE DEF LockInv
<1>1. At(g, "free") /\ To(g, "clear") /\ UNCHANGED initVars
  BY DEF FreeCardBus
<1>2. "clear" \in PC
  BY DEF PC
<1>3. /\ pc' \in [Agent -> PC]
      /\ pc[g] = "free" /\ pc'[g] = "clear"
      /\ \A h \in Agent : h # g => pc'[h] = pc[h]
      /\ Cleared /\ Started' /\ Phases' /\ proc(g) \in Proc
      /\ \A h \in Agent : h # g /\ masked[proc(h)] = h => proc(h) # proc(g)
  BY <1>1, <1>2, AgentStep
<1>4. \A h \in Agent : h # g => ~Holding(h)
  BY <1>3 DEF Holding, MutualExclusion
<1>5. TypeOK'
  BY <1>1, <1>3 DEF FreeCardBus, TypeOK, initVars, Proc
<1>6. FlagSet' /\ MutualExclusion'
  <2>1. \A h \in Agent : Holding(h)' => h = g
    BY <1>3, <1>4 DEF Holding
  <2>2. Holding(g)
    BY <1>3 DEF Holding
  <2> QED  BY <2>1, <2>2 DEF FreeCardBus, FlagSet, MutualExclusion
<1>7. Masks'
  BY <1>3 DEF FreeCardBus, Masks
<1>8. OwnerKnown' /\ BusKnown'
  <2>1. \A h \in Agent : h # g => /\ pc'[h] \notin {"held", "unlock", "own", "free"}
                                 /\ pc[h] \notin {"held", "unlock", "own", "free"}
    BY <1>3, <1>4 DEF Holding
  <2>2. \A h \in Agent : h # g => ~HasBus(h) /\ ~HasBus(h)'
    BY <2>1 DEF HasBus
  <2>3. OwnerKnown'
    BY <1>3, <2>1 DEF FreeCardBus, OwnerKnown
  <2>4. BusKnown'
    BY <1>3, <2>2 DEF FreeCardBus, BusKnown, HasBus
  <2> QED  BY <2>3, <2>4
<1> QED
  BY <1>3, <1>5, <1>6, <1>7, <1>8

LEMMA ClearFlagHolds == \A g \in Agent : LockInv /\ ClearFlag(g) => LockInv'
<1> SUFFICES ASSUME LockInv, NEW g \in Agent, ClearFlag(g) PROVE LockInv'
  OBVIOUS
<1> USE DEF LockInv
<1>1. At(g, "clear") /\ To(g, "idle") /\ UNCHANGED initVars
  BY DEF ClearFlag
<1>2. "idle" \in PC
  BY DEF PC
<1>3. /\ pc' \in [Agent -> PC]
      /\ pc[g] = "clear" /\ pc'[g] = "idle"
      /\ \A h \in Agent : h # g => pc'[h] = pc[h]
      /\ Cleared /\ Started' /\ Phases' /\ proc(g) \in Proc
      /\ \A h \in Agent : h # g /\ masked[proc(h)] = h => proc(h) # proc(g)
  BY <1>1, <1>2, AgentStep
<1>4. \A h \in Agent : h # g => ~Holding(h)
  BY <1>3 DEF Holding, MutualExclusion
<1>5. TypeOK'
  BY <1>1, <1>3 DEF ClearFlag, TypeOK, initVars, Restore
<1>6. FlagSet' /\ MutualExclusion'
  <2>1. \A h \in Agent : ~Holding(h)'
    BY <1>3, <1>4 DEF Holding
  <2> QED  BY <2>1 DEF FlagSet, MutualExclusion
<1>7. Masks'
  <2>1. masked \in [Proc -> Agent \cup {Nobody}] /\ \A h \in Agent : proc(h) \in Proc
    BY DEF TypeOK, proc, Proc
  <2> QED  BY <1>3, <2>1 DEF ClearFlag, Masks, Restore
<1>8. OwnerKnown' /\ BusKnown'
  <2>1. \A h \in Agent : h # g => /\ pc'[h] \notin {"held", "unlock", "own", "free"}
                                 /\ pc[h] \notin {"held", "unlock", "own", "free"}
    BY <1>3, <1>4 DEF Holding
  <2>2. \A h \in Agent : h # g => ~HasBus(h) /\ ~HasBus(h)'
    BY <2>1 DEF HasBus
  <2>3. OwnerKnown'
    BY <1>3, <2>1 DEF ClearFlag, OwnerKnown
  <2>4. BusKnown'
    BY <1>3, <2>2 DEF ClearFlag, BusKnown, HasBus
  <2> QED  BY <2>3, <2>4
<1> QED
  BY <1>3, <1>5, <1>6, <1>7, <1>8

-----------------------------------------------------------------------------
LEMMA NextHolds == LockInv /\ [Next]_vars => LockInv'
<1> SUFFICES ASSUME LockInv, [Next]_vars PROVE LockInv'
  OBVIOUS
<1>1. CASE InitLock
  BY <1>1, InitLockStep
<1>2. ASSUME NEW g \in Agent, Proceed(g) PROVE LockInv'
  BY <1>2, SwapHolds, SwapFailedHolds, AllocateCardBusHolds, SetOwnerHolds,
     ClearOwnerHolds, FreeCardBusHolds, ClearFlagHolds DEF Proceed
<1>3. ASSUME NEW g \in Agent, UnlockTest(g) PROVE LockInv'
  BY <1>3, UnlockTestHolds
<1>4. ASSUME NEW g \in Agent, NEW call \in {"lock", "try"}, Call(g, call) PROVE LockInv'
  BY <1>4, CallHolds
<1>5. CASE UNCHANGED vars
  BY <1>5 DEF vars, lockVars, initVars, LockInv, TypeOK, Started, Phases, FlagSet,
     MutualExclusion, Masks, OwnerKnown, BusKnown, Holding, HasBus, Cleared
<1> QED
  BY <1>1, <1>2, <1>3, <1>4, <1>5 DEF Next

\* The inductive invariant holds in every reachable state.
THEOREM LockInvariant == "system" \notin FirstOwner => (Spec => []LockInv)
<1> SUFFICES ASSUME "system" \notin FirstOwner PROVE Spec => []LockInv
  OBVIOUS
<1>1. LockInv /\ [Next]_vars => LockInv'
  BY NextHolds
<1>2. Init => LockInv
  BY InitHolds
<1> QED
  BY <1>1, <1>2, PTL DEF Spec

\* Every variable keeps its type, whatever memory holds at power-up.
THEOREM LockTypeCorrect == Spec => []TypeOK
<1>1. Init => TypeOK
  BY AgentAssumption DEF Init, TypeOK, Proc, InitWord, PC
<1>2. TypeOK /\ [Next]_vars => TypeOK'
  <2> SUFFICES ASSUME TypeOK, [Next]_vars PROVE TypeOK'
    OBVIOUS
  <2> USE AgentAssumption DEF TypeOK, PC, Proc, proc, At, To
  <2>1. CASE InitLock
    BY <2>1 DEF InitLock, InitLockARM9Start, InitLockARM9Wait, InitLockARM9Clear,
       InitLockARM9Unlock, InitLockARM9Lock, InitLockARM7Start, InitLockARM7Wait,
       InitLockARM7Finish, lockVars, Goto, InitWord
  <2>2. ASSUME NEW g \in Agent, Proceed(g) PROVE TypeOK'
    <3>1. CASE Swap(g)
      BY <3>1 DEF Swap, Disable, Failed, Written, initVars
    <3>2. CASE SwapFailed(g)
      BY <3>2 DEF SwapFailed, Restore, initVars
    <3>3. CASE AllocateCardBus(g) \/ SetOwner(g)
      BY <3>3 DEF AllocateCardBus, SetOwner, Restore, initVars
    <3>4. CASE ClearOwner(g) \/ FreeCardBus(g) \/ ClearFlag(g)
      BY <3>4 DEF ClearOwner, FreeCardBus, ClearFlag, Disable, Restore, initVars
    <3> QED
      BY <2>2, <3>1, <3>2, <3>3, <3>4 DEF Proceed
  <2>3. ASSUME NEW g \in Agent, NEW call \in {"lock", "try"},
               UnlockTest(g) \/ Call(g, call)
        PROVE  TypeOK'
    BY <2>3 DEF UnlockTest, Call, initVars
  <2>4. CASE UNCHANGED vars
    BY <2>4 DEF vars, lockVars, initVars
  <2> QED
    BY <2>1, <2>2, <2>3, <2>4 DEF Next
<1> QED
  BY <1>1, <1>2, PTL DEF Spec

\* OS_LockCard and OS_TryLockCard give the lock to one agent at a time, on both
\* processors together, whatever the words of the lock hold at power-up, provided
\* that the owner word of HW_INIT_LOCK_BUF does not hold OS_MAINP_SYSTEM_LOCK_ID then:
\* with that ID the ARM7 is in use of the lock when the ARM9 clears it.
THEOREM LockIsExclusive == "system" \notin FirstOwner => (Spec => []MutualExclusion)
<1> SUFFICES ASSUME "system" \notin FirstOwner PROVE Spec => []MutualExclusion
  OBVIOUS
<1>1. LockInv => MutualExclusion
  BY DEF LockInv
<1> QED
  BY <1>1, LockInvariant, PTL

\* The card bus is with the processor whose agent has the lock, from the end of
\* OSi_AllocateCardBus to the beginning of OSi_FreeCardBus.
THEOREM HolderIsOnBus == "system" \notin FirstOwner => (Spec => []HolderHasBus)
<1> SUFFICES ASSUME "system" \notin FirstOwner PROVE Spec => []HolderHasBus
  OBVIOUS
<1>1. LockInv => HolderHasBus
  <2> SUFFICES ASSUME LockInv, NEW g \in Agent, pc[g] \in {"own", "held", "unlock"}
               PROVE  bus = proc(g)
    BY DEF HolderHasBus
  <2>1. CASE g \in Agent9
    BY <2>1 DEF LockInv, BusKnown, HasBus, proc
  <2>2. CASE g \notin Agent9
    <3>1. Holding(g)
      BY DEF Holding
    <3>2. \A h \in Agent : ~HasBus(h)
      BY <2>2, <3>1 DEF LockInv, MutualExclusion, HasBus, Holding
    <3>3. Cleared
      BY DEF LockInv, Started, Phases, Cleared, proc
    <3> QED
      BY <2>2, <3>2, <3>3 DEF LockInv, BusKnown, proc
  <2> QED
    BY <2>1, <2>2
<1> QED
  BY <1>1, LockInvariant, PTL

\* While interrupts are enabled on a processor, ownerID names the agent of that
\* processor that has the lock, and the unlocking agent passes its test.
THEOREM HolderIsOwner == "system" \notin FirstOwner => (Spec => []OwnerIsHolder)
<1> SUFFICES ASSUME "system" \notin FirstOwner PROVE Spec => []OwnerIsHolder
  OBVIOUS
<1>1. LockInv => OwnerIsHolder
  <2> SUFFICES ASSUME LockInv PROVE OwnerIsHolder
    OBVIOUS
  <2> USE DEF LockInv
  <2>1. \A g \in Agent : pc[g] \in {"held", "unlock"} => ownerID = lockID[g]
    BY DEF OwnerKnown
  <2>2. ASSUME NEW p \in Proc, init[p] = "done", masked[p] = Nobody,
               NEW g \in Agent, proc(g) = p
        PROVE  /\ ownerID = lockID[g] => lockFlag # 0
               /\ Holding(g) => ownerID = lockID[g]
    <3>1. Cleared
      BY <2>2 DEF Phases, Cleared, Proc
    <3>2. Holding(g) => ownerID = lockID[g]
      BY <2>1, <2>2, AgentAssumption DEF Holding, Masks
    <3>3. ASSUME ownerID = lockID[g] PROVE lockFlag # 0
      <4>1. ownerID # 0
        BY <3>3, AgentAssumption
      <4>2. PICK h \in Agent : pc[h] \in {"held", "unlock"}
        BY <3>1, <4>1 DEF OwnerKnown
      <4> QED
        BY <4>2 DEF FlagSet, Holding
    <3> QED
      BY <3>2, <3>3
  <2> QED
    BY <2>1, <2>2 DEF OwnerIsHolder
<1> QED
  BY <1>1, LockInvariant, PTL

\* The holder has the bus and its OS_UnlockCard is not refused, for any number of agents.
THEOREM HolderIsAlwaysReady == "system" \notin FirstOwner => (Spec => []HolderIsReady)
<1> SUFFICES ASSUME "system" \notin FirstOwner PROVE Spec => []HolderIsReady
  OBVIOUS
<1>1. HolderHasBus /\ OwnerIsHolder => HolderIsReady
  BY DEF HolderIsReady
<1> QED
  BY <1>1, HolderIsOnBus, HolderIsOwner, PTL

-----------------------------------------------------------------------------
(***************************************************************************)
(* The word FIFOs.  A tag relied on has its callback because neither       *)
(* processor leaves the handshake before the other one has cleared its     *)
(* table; its words are then never sent back, and those in a FIFO are the  *)
(* ones not yet received.                                                  *)
(***************************************************************************)
USE FifoAssumption

-----------------------------------------------------------------------------
(* The word FIFOs. A FIFO carries the words lo + 1 to hi of a tag when     *)
(* they are in it once each, in their order, without error.                *)
Numbers(s, t, i) == s[i].tag = t /\ s[i].data # 0
Carries(s, t, lo, hi) ==
    /\ lo <= hi
    /\ \A i \in 1 .. Len(s) : Numbers(s, t, i) => ~s[i].err /\ lo < s[i].data /\ s[i].data <= hi
    /\ \A n \in Nat : lo < n /\ n <= hi => \E i \in 1 .. Len(s) : Numbers(s, t, i) /\ s[i].data = n
    /\ \A i, j \in 1 .. Len(s) :
          Numbers(s, t, i) /\ Numbers(s, t, j) /\ i < j => s[i].data < s[j].data

LEMMA WordFields ==
    \A w \in Words : w.data \in 0 .. MaxWords /\ w.data \in Nat /\ w.tag \in Tags /\ w.err \in BOOLEAN
    BY DEF Words

\* A word sent under the next number, or without one or under another tag.
LEMMA SendsNext ==
    ASSUME NEW s \in Seq(Words), NEW t \in Tags, NEW lo \in Nat, NEW hi \in Nat, NEW w \in Words,
           Carries(s, t, lo, hi), w = [tag |-> t, err |-> FALSE, data |-> hi + 1]
    PROVE  Carries(Append(s, w), t, lo, hi + 1)
<1> DEFINE u == Append(s, w)
<1>1. /\ Len(u) = Len(s) + 1 /\ Len(s) \in Nat /\ u[Len(s) + 1] = w
      /\ \A i \in 1 .. Len(s) : u[i] = s[i]
    OBVIOUS
<1>2. \A i \in 1 .. Len(s) : s[i] \in Words /\ s[i].data \in Nat
    BY WordFields
<1> HIDE DEF u
<1>3. \A i \in 1 .. Len(u) : i = Len(s) + 1 \/ i \in 1 .. Len(s)
    BY <1>1
<1>4. Len(s) + 1 \in 1 .. Len(u) /\ Numbers(u, t, Len(s) + 1)
    BY <1>1 DEF Numbers
<1>5. \A n \in Nat : lo < n /\ n <= hi + 1 => \E i \in 1 .. Len(u) : Numbers(u, t, i) /\ u[i].data = n
    <2> SUFFICES ASSUME NEW n \in Nat, lo < n, n <= hi + 1
                 PROVE  \E i \in 1 .. Len(u) : Numbers(u, t, i) /\ u[i].data = n
        OBVIOUS
    <2>1. CASE n = hi + 1
        BY <1>1, <1>4, <2>1
    <2>2. CASE n # hi + 1
        <3>1. n <= hi
            BY <2>2
        <3>2. PICK i \in 1 .. Len(s) : Numbers(s, t, i) /\ s[i].data = n
            BY <3>1 DEF Carries
        <3>3. i \in 1 .. Len(u) /\ u[i] = s[i]
            BY <1>1
        <3> QED
            BY <3>2, <3>3 DEF Numbers
    <2> QED
        BY <2>1, <2>2
<1>6. \A i \in 1 .. Len(u) : Numbers(u, t, i) => ~u[i].err /\ lo < u[i].data /\ u[i].data <= hi + 1
    BY <1>1, <1>2, <1>3 DEF Carries, Numbers
<1>7. \A i, j \in 1 .. Len(u) :
         Numbers(u, t, i) /\ Numbers(u, t, j) /\ i < j => u[i].data < u[j].data
    <2> SUFFICES ASSUME NEW i \in 1 .. Len(u), NEW j \in 1 .. Len(u),
                        Numbers(u, t, i), Numbers(u, t, j), i < j
                 PROVE  u[i].data < u[j].data
        OBVIOUS
    <2>1. i \in 1 .. Len(s)
        BY <1>1, <1>3
    <2>2. CASE j = Len(s) + 1
        BY <1>1, <1>2, <2>1, <2>2 DEF Carries, Numbers
    <2>3. CASE j \in 1 .. Len(s)
        BY <1>1, <2>1, <2>3 DEF Carries, Numbers
    <2> QED
        BY <1>3, <2>2, <2>3
<1>8. lo <= hi + 1
    BY DEF Carries
<1> QED
    BY <1>5, <1>6, <1>7, <1>8 DEF Carries, u

LEMMA SendsOther ==
    ASSUME NEW s \in Seq(Words), NEW t \in Tags, NEW lo \in Nat, NEW hi \in Nat, NEW w \in Words,
           Carries(s, t, lo, hi), w.tag # t \/ w.data = 0
    PROVE  Carries(Append(s, w), t, lo, hi)
<1> DEFINE u == Append(s, w)
<1>1. /\ Len(u) = Len(s) + 1 /\ Len(s) \in Nat /\ u[Len(s) + 1] = w
      /\ \A i \in 1 .. Len(s) : u[i] = s[i]
    OBVIOUS
<1> HIDE DEF u
<1>2. \A i \in 1 .. Len(s) : i \in 1 .. Len(u)
    BY <1>1
<1>3. \A i \in 1 .. Len(u) : Numbers(u, t, i) => i \in 1 .. Len(s) /\ Numbers(s, t, i) /\ u[i] = s[i]
    BY <1>1 DEF Numbers
<1> QED
    BY <1>1, <1>2, <1>3 DEF Carries, Numbers, u

\* The word taken from a FIFO: the next of its tag, or one of no number.
LEMMA TakesNext ==
    ASSUME NEW s \in Seq(Words), NEW t \in Tags, NEW lo \in Nat, NEW hi \in Nat,
           Carries(s, t, lo, hi), s # <<>>, Numbers(s, t, 1)
    PROVE  s[1].data = lo + 1 /\ ~s[1].err /\ Carries(Tail(s), t, lo + 1, hi)
<1> DEFINE u == Tail(s)
<1>1. /\ Len(s) \in Nat /\ Len(s) > 0 /\ Len(u) = Len(s) - 1 /\ u \in Seq(Words)
      /\ \A i \in 1 .. Len(u) : u[i] = s[i + 1]
    OBVIOUS
<1>2. \A i \in 1 .. Len(s) : s[i] \in Words /\ s[i].data \in Nat
    BY WordFields
<1> HIDE DEF u
<1>3. \A i \in 1 .. Len(u) : i + 1 \in 1 .. Len(s) /\ (Numbers(u, t, i) <=> Numbers(s, t, i + 1))
    BY <1>1 DEF Numbers
<1>4. 1 \in 1 .. Len(s) /\ lo < s[1].data /\ s[1].data <= hi /\ ~s[1].err
    BY <1>1 DEF Carries
<1>5. s[1].data = lo + 1
    <2>1. PICK i \in 1 .. Len(s) : Numbers(s, t, i) /\ s[i].data = lo + 1
        BY <1>2, <1>4 DEF Carries
    <2>2. i = 1 \/ s[1].data < s[i].data
        BY <1>1, <1>4, <2>1 DEF Carries
    <2> QED
        BY <1>2, <1>4, <2>1, <2>2
<1>6. \A i \in 2 .. Len(s) : Numbers(s, t, i) => lo + 1 < s[i].data
    BY <1>4, <1>5 DEF Carries
<1>7. \A n \in Nat : lo + 1 < n /\ n <= hi => \E i \in 1 .. Len(u) : Numbers(u, t, i) /\ u[i].data = n
    <2> SUFFICES ASSUME NEW n \in Nat, lo + 1 < n, n <= hi
                 PROVE  \E i \in 1 .. Len(u) : Numbers(u, t, i) /\ u[i].data = n
        OBVIOUS
    <2>1. PICK k \in 1 .. Len(s) : Numbers(s, t, k) /\ s[k].data = n
        BY DEF Carries
    <2>2. k # 1
        BY <1>5, <2>1
    <2>3. k - 1 \in 1 .. Len(u) /\ (k - 1) + 1 = k
        BY <1>1, <2>1, <2>2
    <2>4. Numbers(u, t, k - 1) /\ u[k - 1].data = n
        BY <1>1, <1>3, <2>1, <2>3
    <2> QED
        BY <2>3, <2>4
<1>8. \A i \in 1 .. Len(u) : Numbers(u, t, i) => ~u[i].err /\ lo + 1 < u[i].data /\ u[i].data <= hi
    BY <1>1, <1>3, <1>6 DEF Carries
<1>9. \A i, j \in 1 .. Len(u) :
         Numbers(u, t, i) /\ Numbers(u, t, j) /\ i < j => u[i].data < u[j].data
    <2> SUFFICES ASSUME NEW i \in 1 .. Len(u), NEW j \in 1 .. Len(u),
                        Numbers(u, t, i), Numbers(u, t, j), i < j
                 PROVE  u[i].data < u[j].data
        OBVIOUS
    <2>1. /\ i + 1 \in 1 .. Len(s) /\ j + 1 \in 1 .. Len(s) /\ i + 1 < j + 1
          /\ Numbers(s, t, i + 1) /\ Numbers(s, t, j + 1)
        BY <1>3
    <2>2. s[i + 1].data < s[j + 1].data
        BY <2>1 DEF Carries
    <2> QED
        BY <1>1, <2>2
<1>10. lo + 1 <= hi
    BY <1>2, <1>4
<1> QED
    BY <1>4, <1>5, <1>7, <1>8, <1>9, <1>10 DEF Carries, u

LEMMA TakesOther ==
    ASSUME NEW s \in Seq(Words), NEW t \in Tags, NEW lo \in Nat, NEW hi \in Nat,
           Carries(s, t, lo, hi), s # <<>>, ~Numbers(s, t, 1)
    PROVE  Carries(Tail(s), t, lo, hi)
<1> DEFINE u == Tail(s)
<1>1. /\ Len(s) \in Nat /\ Len(s) > 0 /\ Len(u) = Len(s) - 1
      /\ \A i \in 1 .. Len(u) : u[i] = s[i + 1]
    OBVIOUS
<1> HIDE DEF u
<1>2. \A i \in 1 .. Len(u) : i + 1 \in 1 .. Len(s) /\ (Numbers(u, t, i) <=> Numbers(s, t, i + 1))
    BY <1>1 DEF Numbers
<1>3. \A n \in Nat : lo < n /\ n <= hi => \E i \in 1 .. Len(u) : Numbers(u, t, i) /\ u[i].data = n
    <2> SUFFICES ASSUME NEW n \in Nat, lo < n, n <= hi
                 PROVE  \E i \in 1 .. Len(u) : Numbers(u, t, i) /\ u[i].data = n
        OBVIOUS
    <2>1. PICK k \in 1 .. Len(s) : Numbers(s, t, k) /\ s[k].data = n
        BY DEF Carries
    <2>2. k - 1 \in 1 .. Len(u) /\ (k - 1) + 1 = k
        BY <1>1, <2>1
    <2>3. Numbers(u, t, k - 1) /\ u[k - 1].data = n
        BY <1>1, <1>2, <2>1, <2>2
    <2> QED
        BY <2>2, <2>3
<1>4. \A i \in 1 .. Len(u) : Numbers(u, t, i) => ~u[i].err /\ lo < u[i].data /\ u[i].data <= hi
    BY <1>1, <1>2 DEF Carries
<1>5. \A i, j \in 1 .. Len(u) :
         Numbers(u, t, i) /\ Numbers(u, t, j) /\ i < j => u[i].data < u[j].data
    BY <1>1, <1>2 DEF Carries
<1> QED
    BY <1>3, <1>4, <1>5 DEF Carries, u

-----------------------------------------------------------------------------
(* The inductive invariant.                                                *)
HandshakeType ==
    /\ phase \in [Cpus -> {"off", "handshake", "up"}]
    /\ intf \in [Cpus -> 0 .. 15] /\ count \in [Cpus -> 0 .. 8] /\ settled \in [Cpus -> BOOLEAN]
TableType ==
    /\ handleChecker \in [Cpus -> SUBSET Tags] /\ callbacks \in [Cpus -> SUBSET Tags]
    /\ trusted \in [Cpus -> SUBSET Tags]
WordType ==
    /\ fifo \in [Cpus -> Seq(Words)] /\ \A c \in Cpus : Len(fifo[c]) <= FifoSize
    /\ sent \in [Cpus -> [Tags -> 0 .. MaxWords]] /\ received \in [Cpus -> [Tags -> 0 .. MaxWords]]
FifoType == HandshakeType /\ TableType /\ WordType

\* A processor that is up has seen the other one: what the register of a processor that
\* has not started shows never ends the handshake.
HandshakeInv ==
    /\ \A c \in Cpus : phase[c] = "up" => phase[Other(c)] # "off"
    /\ phase["ARM9"] = "off" =>
          /\ intf["ARM9"] \in {0, 7}
          /\ phase["ARM7"] = "handshake" => count["ARM7"] \in {6, 7, 8}
    /\ phase["ARM7"] = "off" /\ phase["ARM9"] = "handshake" =>
          count["ARM9"] <= 1 /\ intf["ARM9"] = intf["ARM7"]

\* The bits shown are those of the table, and only a processor that is up relies on them.
TableInv ==
    \A c \in Cpus :
        /\ phase[c] # "off" => handleChecker[c] = callbacks[c]
        /\ trusted[c] # {} => phase[c] = "up"
        /\ trusted[c] \subseteq callbacks[Other(c)]

\* The words under a number are those of tags relied on.
WordInv ==
    \A c \in Cpus, t \in Tags :
        /\ sent[c][t] # 0 => t \in trusted[c]
        /\ Carries(fifo[Other(c)], t, received[c][t], sent[c][t])

FifoInv == FifoType /\ HandshakeInv /\ TableInv /\ WordInv

LEMMA CpuNames ==
    /\ Cpus = {"ARM9", "ARM7"} /\ Other("ARM9") = "ARM7" /\ Other("ARM7") = "ARM9"
    /\ \A c \in Cpus : Other(c) \in Cpus /\ Other(Other(c)) = c /\ Other(c) # c
    BY DEF Cpus, Other

LEMMA HandshakeTypeNext == ASSUME HandshakeType, [FifoNext]_fifoVars PROVE HandshakeType'
<1> USE DEF HandshakeType
<1>1. ASSUME NEW c \in Cpus, InitFifo(c) PROVE HandshakeType'
    BY <1>1, CpuNames DEF InitFifo
<1>2. ASSUME NEW c \in Cpus, HandlerRecvFifoNotEmpty(c) PROVE HandshakeType'
    BY <1>2, CpuNames DEF HandlerRecvFifoNotEmpty
<1>3. ASSUME NEW c \in Cpus, NEW t \in Tags, SetFifoRecvCallback(c, t) PROVE HandshakeType'
    BY <1>3, CpuNames DEF SetFifoRecvCallback
<1>4. ASSUME NEW c \in Cpus, NEW t \in Tags, IsCallbackReady(c, t) PROVE HandshakeType'
    BY <1>4, CpuNames DEF IsCallbackReady
<1>5. ASSUME NEW c \in Cpus, NEW t \in Tags, SendWordByFifo(c, t) PROVE HandshakeType'
    BY <1>5, CpuNames DEF SendWordByFifo
<1>6. ASSUME SpinWait PROVE HandshakeType'
    BY <1>6, CpuNames DEF SpinWait
<1>7. ASSUME CountDown PROVE HandshakeType'
    <2>1. CASE intf["ARM9"] = count["ARM7"] /\ count["ARM7"] = 0
        BY <1>7, <2>1 DEF CountDown
    <2>2. CASE ~(intf["ARM9"] = count["ARM7"] /\ count["ARM7"] = 0)
        <3> DEFINE next == IF intf["ARM9"] = count["ARM7"] THEN count["ARM7"] - 1 ELSE 7
        <3>1. next \in 0 .. 8
            BY <2>2, CpuNames
        <3>2. /\ count' = [count EXCEPT !["ARM7"] = next] /\ intf' = [intf EXCEPT !["ARM7"] = next]
              /\ settled' = [settled EXCEPT !["ARM7"] = FALSE] /\ phase' = phase
            BY <1>7, <2>2 DEF CountDown
        <3> HIDE DEF next
        <3>3. next \in 0 .. 15
            BY <3>1
        <3>4. intf' \in [Cpus -> 0 .. 15]
            BY <3>2, <3>3
        <3>5. count' \in [Cpus -> 0 .. 8]
            BY <3>1, <3>2
        <3>6. settled' \in [Cpus -> BOOLEAN]
            BY <3>2
        <3> QED
            BY <3>2, <3>4, <3>5, <3>6
    <2> QED
        BY <2>1, <2>2
<1>8. ASSUME Echo PROVE HandshakeType'
    BY <1>8, CpuNames DEF Echo, EchoTurn
<1>9. ASSUME EchoTimeout PROVE HandshakeType'
    BY <1>9, CpuNames DEF EchoTimeout, EchoTurn
<1>10. CASE UNCHANGED fifoVars
    BY <1>10 DEF fifoVars
<1> QED
    BY <1>1, <1>2, <1>3, <1>4, <1>5, <1>6, <1>7, <1>8, <1>9, <1>10 DEF FifoNext, Handshake

LEMMA TableTypeNext == ASSUME TableType, [FifoNext]_fifoVars PROVE TableType'
<1> USE DEF TableType
<1>1. ASSUME NEW c \in Cpus, InitFifo(c) PROVE TableType'
    BY <1>1, CpuNames DEF InitFifo
<1>2. ASSUME NEW c \in Cpus, HandlerRecvFifoNotEmpty(c) PROVE TableType'
    BY <1>2, CpuNames DEF HandlerRecvFifoNotEmpty
<1>3. ASSUME NEW c \in Cpus, NEW t \in Tags, SetFifoRecvCallback(c, t) PROVE TableType'
    BY <1>3, CpuNames DEF SetFifoRecvCallback
<1>4. ASSUME NEW c \in Cpus, NEW t \in Tags, IsCallbackReady(c, t) PROVE TableType'
    BY <1>4, CpuNames DEF IsCallbackReady
<1>5. ASSUME NEW c \in Cpus, NEW t \in Tags, SendWordByFifo(c, t) PROVE TableType'
    BY <1>5, CpuNames DEF SendWordByFifo
<1>6. ASSUME SpinWait PROVE TableType'
    BY <1>6, CpuNames DEF SpinWait
<1>7. ASSUME CountDown PROVE TableType'
    BY <1>7, CpuNames DEF CountDown
<1>8. ASSUME Echo PROVE TableType'
    BY <1>8, CpuNames DEF Echo, EchoTurn
<1>9. ASSUME EchoTimeout PROVE TableType'
    BY <1>9, CpuNames DEF EchoTimeout, EchoTurn
<1>10. CASE UNCHANGED fifoVars
    BY <1>10 DEF fifoVars
<1> QED
    BY <1>1, <1>2, <1>3, <1>4, <1>5, <1>6, <1>7, <1>8, <1>9, <1>10 DEF FifoNext, Handshake

LEMMA WordTypeNext == ASSUME WordType, [FifoNext]_fifoVars PROVE WordType'
<1> USE DEF WordType
<1>1. ASSUME NEW c \in Cpus, InitFifo(c) PROVE WordType'
    BY <1>1, CpuNames DEF InitFifo
<1>2. ASSUME NEW c \in Cpus, HandlerRecvFifoNotEmpty(c) PROVE WordType'
    <2> DEFINE word == Head(fifo[c])
    <2>1. fifo[c] \in Seq(Words) /\ fifo[c] # <<>> /\ Other(c) \in Cpus
        BY <1>2, CpuNames DEF HandlerRecvFifoNotEmpty
    <2>2. word \in Words /\ Tail(fifo[c]) \in Seq(Words) /\ Len(Tail(fifo[c])) = Len(fifo[c]) - 1
        BY <2>1
    <2>3. [word EXCEPT !.err = TRUE] \in Words
        BY <2>2 DEF Words
    <2> HIDE DEF word
    <2>4. received' \in [Cpus -> [Tags -> 0 .. MaxWords]]
        <3>1. \/ received' = received
              \/ received' = [received EXCEPT ![Other(c)][word.tag] = word.data]
            BY <1>2 DEF HandlerRecvFifoNotEmpty, word
        <3>2. word.tag \in Tags /\ word.data \in 0 .. MaxWords
            BY <2>2, WordFields
        <3>3. CASE received' = [received EXCEPT ![Other(c)][word.tag] = word.data]
            <4>1. [received[Other(c)] EXCEPT ![word.tag] = word.data] \in [Tags -> 0 .. MaxWords]
                BY <2>1, <3>2
            <4>2. received' =
                     [received EXCEPT ![Other(c)] = [received[Other(c)] EXCEPT ![word.tag] = word.data]]
                BY <3>3
            <4> QED
                BY <4>1, <4>2
        <3> QED
            BY <3>1, <3>3
    <2>5. CASE fifo' = [fifo EXCEPT ![c] = Tail(@)]
        BY <1>2, <2>1, <2>2, <2>4, <2>5 DEF HandlerRecvFifoNotEmpty
    <2>6. CASE /\ fifo' = [[fifo EXCEPT ![c] = Tail(@)] EXCEPT ![Other(c)] =
                             Append(@, [word EXCEPT !.err = TRUE])]
               /\ ~IsFull(Other(c))
        <3>1. fifo' = [fifo EXCEPT ![c] = Tail(fifo[c]),
                                   ![Other(c)] = Append(fifo[Other(c)], [word EXCEPT !.err = TRUE])]
            BY <2>1, <2>6, CpuNames
        <3>2. /\ Append(fifo[Other(c)], [word EXCEPT !.err = TRUE]) \in Seq(Words)
              /\ Len(Append(fifo[Other(c)], [word EXCEPT !.err = TRUE])) <= FifoSize
            BY <2>1, <2>3, <2>6 DEF IsFull
        <3>3. /\ fifo' \in [Cpus -> Seq(Words)]
              /\ \A d \in Cpus : Len(fifo'[d]) <= FifoSize
            <4> DEFINE back == Append(fifo[Other(c)], [word EXCEPT !.err = TRUE])
                       rest == Tail(fifo[c])
            <4>1. fifo' = [fifo EXCEPT ![c] = rest, ![Other(c)] = back]
                BY <3>1
            <4>2. /\ back \in Seq(Words) /\ Len(back) <= FifoSize
                  /\ rest \in Seq(Words) /\ Len(rest) <= FifoSize
                BY <2>1, <2>2, <3>2
            <4> HIDE DEF back, rest
            <4>3. \A d \in Cpus : fifo'[d] = back \/ fifo'[d] = rest \/ fifo'[d] = fifo[d]
                BY <2>1, <4>1
            <4> QED
                BY <2>1, <4>1, <4>2, <4>3
        <3>4. sent' = sent
            BY <1>2 DEF HandlerRecvFifoNotEmpty
        <3> QED
            BY <2>4, <3>3, <3>4
    <2> QED
        BY <1>2, <2>5, <2>6 DEF HandlerRecvFifoNotEmpty, word
<1>3. ASSUME NEW c \in Cpus, NEW t \in Tags, SetFifoRecvCallback(c, t) PROVE WordType'
    BY <1>3, CpuNames DEF SetFifoRecvCallback
<1>4. ASSUME NEW c \in Cpus, NEW t \in Tags, IsCallbackReady(c, t) PROVE WordType'
    BY <1>4, CpuNames DEF IsCallbackReady
<1>5. ASSUME NEW c \in Cpus, NEW t \in Tags, SendWordByFifo(c, t) PROVE WordType'
    <2>1. Other(c) \in Cpus /\ fifo[Other(c)] \in Seq(Words) /\ Len(fifo[Other(c)]) < FifoSize
        BY <1>5, CpuNames DEF SendWordByFifo, IsFull
    <2>2. ASSUME NEW w \in Words, Push(Other(c), w)
          PROVE  fifo' \in [Cpus -> Seq(Words)] /\ \A d \in Cpus : Len(fifo'[d]) <= FifoSize
        BY <2>1, <2>2 DEF Push
    <2>3. CASE /\ t \in trusted[c] /\ sent[c][t] < MaxWords
               /\ sent' = [sent EXCEPT ![c][t] = @ + 1]
               /\ Push(Other(c), [tag |-> t, err |-> FALSE, data |-> sent[c][t] + 1])
        <3>1. [tag |-> t, err |-> FALSE, data |-> sent[c][t] + 1] \in Words
            BY <2>3 DEF Words
        <3> QED
            BY <1>5, <2>2, <2>3, <3>1 DEF SendWordByFifo
    <2>4. CASE /\ Push(Other(c), [tag |-> t, err |-> FALSE, data |-> 0])
               /\ UNCHANGED sent
        <3>1. [tag |-> t, err |-> FALSE, data |-> 0] \in Words
            BY DEF Words
        <3> QED
            BY <1>5, <2>2, <2>4, <3>1 DEF SendWordByFifo
    <2> QED
        BY <1>5, <2>3, <2>4 DEF SendWordByFifo
<1>6. ASSUME SpinWait PROVE WordType'
    BY <1>6, CpuNames DEF SpinWait
<1>7. ASSUME CountDown PROVE WordType'
    BY <1>7, CpuNames DEF CountDown
<1>8. ASSUME Echo PROVE WordType'
    BY <1>8, CpuNames DEF Echo, EchoTurn
<1>9. ASSUME EchoTimeout PROVE WordType'
    BY <1>9, CpuNames DEF EchoTimeout, EchoTurn
<1>10. CASE UNCHANGED fifoVars
    BY <1>10 DEF fifoVars
<1> QED
    BY <1>1, <1>2, <1>3, <1>4, <1>5, <1>6, <1>7, <1>8, <1>9, <1>10 DEF FifoNext, Handshake

LEMMA HandshakeNext == ASSUME HandshakeType, HandshakeInv, [FifoNext]_fifoVars PROVE HandshakeInv'
<1> USE DEF HandshakeType, HandshakeInv
<1>1. ASSUME NEW c \in Cpus, InitFifo(c) PROVE HandshakeInv'
    BY <1>1, CpuNames DEF InitFifo
<1>2. ASSUME NEW c \in Cpus, HandlerRecvFifoNotEmpty(c) PROVE HandshakeInv'
    BY <1>2, CpuNames DEF HandlerRecvFifoNotEmpty
<1>3. ASSUME NEW c \in Cpus, NEW t \in Tags, SetFifoRecvCallback(c, t) PROVE HandshakeInv'
    BY <1>3, CpuNames DEF SetFifoRecvCallback
<1>4. ASSUME NEW c \in Cpus, NEW t \in Tags, IsCallbackReady(c, t) PROVE HandshakeInv'
    BY <1>4, CpuNames DEF IsCallbackReady
<1>5. ASSUME NEW c \in Cpus, NEW t \in Tags, SendWordByFifo(c, t) PROVE HandshakeInv'
    BY <1>5, CpuNames DEF SendWordByFifo
<1>6. ASSUME SpinWait PROVE HandshakeInv'
    BY <1>6, CpuNames DEF SpinWait
<1>7. ASSUME CountDown PROVE HandshakeInv'
    BY <1>7, CpuNames DEF CountDown
<1>8. ASSUME Echo PROVE HandshakeInv'
    BY <1>8, CpuNames DEF Echo, EchoTurn
<1>9. ASSUME EchoTimeout PROVE HandshakeInv'
    BY <1>9, CpuNames DEF EchoTimeout, EchoTurn
<1>10. CASE UNCHANGED fifoVars
    BY <1>10 DEF fifoVars
<1> QED
    BY <1>1, <1>2, <1>3, <1>4, <1>5, <1>6, <1>7, <1>8, <1>9, <1>10 DEF FifoNext, Handshake

LEMMA TableNext == ASSUME FifoType, HandshakeInv, TableInv, [FifoNext]_fifoVars PROVE TableInv'
<1> USE DEF FifoType, HandshakeType, TableType, HandshakeInv, TableInv
<1>1. ASSUME NEW c \in Cpus, InitFifo(c) PROVE TableInv'
    BY <1>1, CpuNames DEF InitFifo
<1>2. ASSUME NEW c \in Cpus, HandlerRecvFifoNotEmpty(c) PROVE TableInv'
    BY <1>2, CpuNames DEF HandlerRecvFifoNotEmpty
<1>3. ASSUME NEW c \in Cpus, NEW t \in Tags, SetFifoRecvCallback(c, t) PROVE TableInv'
    BY <1>3, CpuNames DEF SetFifoRecvCallback
<1>4. ASSUME NEW c \in Cpus, NEW t \in Tags, IsCallbackReady(c, t) PROVE TableInv'
    BY <1>4, CpuNames DEF IsCallbackReady
<1>5. ASSUME NEW c \in Cpus, NEW t \in Tags, SendWordByFifo(c, t) PROVE TableInv'
    BY <1>5, CpuNames DEF SendWordByFifo
<1>6. ASSUME SpinWait PROVE TableInv'
    BY <1>6, CpuNames DEF SpinWait
<1>7. ASSUME CountDown PROVE TableInv'
    BY <1>7, CpuNames DEF CountDown
<1>8. ASSUME Echo PROVE TableInv'
    BY <1>8, CpuNames DEF Echo, EchoTurn
<1>9. ASSUME EchoTimeout PROVE TableInv'
    BY <1>9, CpuNames DEF EchoTimeout, EchoTurn
<1>10. CASE UNCHANGED fifoVars
    BY <1>10 DEF fifoVars
<1> QED
    BY <1>1, <1>2, <1>3, <1>4, <1>5, <1>6, <1>7, <1>8, <1>9, <1>10 DEF FifoNext, Handshake


LEMMA WordNext ==
    ASSUME FifoType, HandshakeInv, TableInv, WordInv, [FifoNext]_fifoVars
    PROVE  WordInv'
<1> USE DEF FifoType, TableType, WordType
<1>1. ASSUME NEW c \in Cpus, NEW t \in Tags
      PROVE  /\ fifo[Other(c)] \in Seq(Words) /\ fifo[c] \in Seq(Words) /\ Other(c) \in Cpus
             /\ received[c][t] \in Nat /\ sent[c][t] \in Nat
             /\ Carries(fifo[Other(c)], t, received[c][t], sent[c][t])
             /\ sent[c][t] # 0 => t \in trusted[c]
    BY CpuNames DEF WordInv
<1>2. ASSUME UNCHANGED <<fifo, sent, received>>, \A c \in Cpus : trusted[c] \subseteq trusted'[c]
      PROVE  WordInv'
    BY <1>2 DEF WordInv
<1>3. ASSUME NEW c \in Cpus, InitFifo(c) PROVE WordInv'
    <2>1. /\ fifo' = [fifo EXCEPT ![Other(c)] = <<>>]
          /\ sent' = sent /\ received' = received /\ trusted' = trusted
        BY <1>3 DEF InitFifo
    <2>2. trusted[c] = {}
        BY <1>3 DEF InitFifo, TableInv
    <2>3. ASSUME NEW t \in Tags PROVE Carries(<<>>, t, received[c][t], sent[c][t])
        <3>1. sent[c][t] = 0
            BY <1>1, <2>2
        <3>2. received[c][t] = 0
            BY <1>1, <3>1 DEF Carries
        <3> QED
            BY <3>1, <3>2 DEF Carries
    <2>4. \A d \in Cpus : d # c => fifo'[Other(d)] = fifo[Other(d)]
        BY <2>1, CpuNames
    <2>5. fifo'[Other(c)] = <<>>
        BY <2>1, CpuNames
    <2> QED
        BY <1>1, <2>1, <2>3, <2>4, <2>5 DEF WordInv
<1>4. ASSUME NEW c \in Cpus, HandlerRecvFifoNotEmpty(c) PROVE WordInv'
    <2> DEFINE s == fifo[c]
               o == Other(c)
               word == Head(s)
               back == [word EXCEPT !.err = TRUE]
    <2>1. /\ s \in Seq(Words) /\ s # <<>> /\ o \in Cpus /\ Other(o) = c /\ o # c
          /\ fifo[o] \in Seq(Words) /\ \A d \in Cpus : d = c \/ d = o
        BY <1>4, CpuNames DEF HandlerRecvFifoNotEmpty
    <2>2. word = s[1] /\ word \in Words
        BY <2>1
    <2>3. \A t \in Tags : Carries(s, t, received[o][t], sent[o][t])
        BY <1>1, <2>1
    <2>4. 1 \in 1 .. Len(s)
        BY <2>1
    <2>5. back \in Words /\ back.tag = word.tag /\ back.data = word.data
        BY <2>2 DEF Words
    <2>6. sent' = sent /\ trusted' = trusted
        BY <1>4 DEF HandlerRecvFifoNotEmpty
    <2>7. word.tag \in Tags /\ word.data \in Nat
        BY <2>2, WordFields
    <2>8. word.data # 0 => word.tag \in callbacks[c] /\ ~word.err
        <3> SUFFICES ASSUME word.data # 0 PROVE word.tag \in callbacks[c] /\ ~word.err
            OBVIOUS
        <3>1. Numbers(s, word.tag, 1)
            BY <2>2 DEF Numbers
        <3>2. received[o][word.tag] < s[1].data /\ s[1].data <= sent[o][word.tag] /\ ~s[1].err
            BY <2>3, <2>4, <2>7, <3>1 DEF Carries
        <3>3. sent[o][word.tag] # 0
            BY <1>1, <2>1, <2>7, <3>2, <2>2
        <3> QED
            BY <1>1, <2>1, <2>2, <2>7, <3>2, <3>3 DEF TableInv
    <2>9. CASE word.data # 0
        <3>1. /\ fifo' = [fifo EXCEPT ![c] = Tail(s)]
              /\ received' = [received EXCEPT ![o][word.tag] = word.data]
            BY <1>4, <2>8, <2>9 DEF HandlerRecvFifoNotEmpty
        <3>2. ASSUME NEW t \in Tags PROVE Carries(fifo'[c], t, received'[o][t], sent[o][t])
            <4>1. fifo'[c] = Tail(s)
                BY <2>1, <3>1
            <4>2. CASE t = word.tag
                <5>1. received'[o][t] = word.data
                    BY <2>1, <3>1, <4>2
                <5>2. Numbers(s, t, 1)
                    BY <2>2, <2>9, <4>2 DEF Numbers
                <5>3. s[1].data = received[o][t] + 1 /\ Carries(Tail(s), t, received[o][t] + 1, sent[o][t])
                    <6>1. received[o][t] \in Nat /\ sent[o][t] \in Nat
                        BY <1>1, <2>1
                    <6> HIDE DEF s, o
                    <6> QED
                        BY <2>1, <2>3, <5>2, <6>1, TakesNext
                <5> QED
                    BY <2>2, <4>1, <5>1, <5>3
            <4>3. CASE t # word.tag
                <5>1. received'[o][t] = received[o][t]
                    BY <2>1, <3>1, <4>3
                <5>2. ~Numbers(s, t, 1)
                    BY <2>2, <4>3 DEF Numbers
                <5>3. Carries(Tail(s), t, received[o][t], sent[o][t])
                    <6>1. received[o][t] \in Nat /\ sent[o][t] \in Nat
                        BY <1>1, <2>1
                    <6> HIDE DEF s, o
                    <6> QED
                        BY <2>1, <2>3, <5>2, <6>1, TakesOther
                <5> QED
                    BY <4>1, <5>1, <5>3
            <4> QED
                BY <4>2, <4>3
        <3>3. fifo'[o] = fifo[o] /\ received'[c] = received[c]
            BY <2>1, <3>1
        <3> HIDE DEF s, o, word, back
        <3>4. \A d \in Cpus, t \in Tags :
                 /\ sent[d][t] # 0 => t \in trusted[d]
                 /\ Carries(fifo'[Other(d)], t, received'[d][t], sent[d][t])
            BY <1>1, <2>1, <3>2, <3>3 DEF o
        <3> QED
            BY <2>6, <3>4 DEF WordInv
    <2>10. CASE word.data = 0
        <3>1. /\ received' = received
              /\ \/ fifo' = [fifo EXCEPT ![c] = Tail(s)]
                 \/ fifo' = [[fifo EXCEPT ![c] = Tail(@)] EXCEPT ![o] = Append(@, back)]
            BY <1>4, <2>10 DEF HandlerRecvFifoNotEmpty
        <3>2. fifo'[c] = Tail(s) /\ (fifo'[o] = fifo[o] \/ fifo'[o] = Append(fifo[o], back))
            BY <2>1, <3>1
        <3>3. ASSUME NEW t \in Tags PROVE Carries(fifo'[c], t, received[o][t], sent[o][t])
            <4>1. received[o][t] \in Nat /\ sent[o][t] \in Nat
                BY <1>1, <2>1
            <4>2. ~Numbers(s, t, 1)
                BY <2>2, <2>10 DEF Numbers
            <4> HIDE DEF s, o
            <4> QED
                BY <2>1, <2>3, <3>2, <4>1, <4>2, TakesOther
        <3>4. ASSUME NEW t \in Tags PROVE Carries(fifo'[o], t, received[c][t], sent[c][t])
            <4>1. /\ received[c][t] \in Nat /\ sent[c][t] \in Nat
                  /\ Carries(fifo[o], t, received[c][t], sent[c][t])
                BY <1>1
            <4>2. back.data = 0
                BY <2>5, <2>10
            <4> HIDE DEF s, o, word, back
            <4>3. Carries(Append(fifo[o], back), t, received[c][t], sent[c][t])
                BY <2>1, <2>5, <4>1, <4>2, SendsOther
            <4> QED
                BY <3>2, <4>1, <4>3
        <3> HIDE DEF s, o, word, back
        <3>5. \A d \in Cpus, t \in Tags :
                 /\ sent[d][t] # 0 => t \in trusted[d]
                 /\ Carries(fifo'[Other(d)], t, received[d][t], sent[d][t])
            BY <1>1, <2>1, <3>3, <3>4 DEF o
        <3> QED
            BY <2>6, <3>1, <3>5 DEF WordInv
    <2> QED
        BY <2>9, <2>10
<1>5. ASSUME NEW c \in Cpus, NEW t \in Tags, SetFifoRecvCallback(c, t) PROVE WordInv'
    BY <1>2, <1>5 DEF SetFifoRecvCallback
<1>6. ASSUME NEW c \in Cpus, NEW t \in Tags, IsCallbackReady(c, t) PROVE WordInv'
    BY <1>2, <1>6 DEF IsCallbackReady
<1>7. ASSUME NEW c \in Cpus, NEW t \in Tags, SendWordByFifo(c, t) PROVE WordInv'
    <2> DEFINE o == Other(c)
               number == IF sent' = sent THEN 0 ELSE sent[c][t] + 1
               word == [tag |-> t, err |-> FALSE, data |-> number]
    <2>1. /\ fifo[o] \in Seq(Words) /\ o \in Cpus /\ Other(o) = c /\ o # c
          /\ \A d \in Cpus : d = c \/ d = o
        BY CpuNames
    <2>2. received' = received /\ trusted' = trusted
        BY <1>7 DEF SendWordByFifo
    <2>3. \/ /\ t \in trusted[c] /\ sent[c][t] < MaxWords
             /\ sent' = [sent EXCEPT ![c][t] = @ + 1]
             /\ fifo' = [fifo EXCEPT ![o] =
                            Append(@, [tag |-> t, err |-> FALSE, data |-> sent[c][t] + 1])]
          \/ /\ sent' = sent
             /\ fifo' = [fifo EXCEPT ![o] = Append(@, [tag |-> t, err |-> FALSE, data |-> 0])]
        BY <1>7 DEF SendWordByFifo, Push
    <2>4. CASE /\ t \in trusted[c] /\ sent[c][t] < MaxWords
               /\ sent' = [sent EXCEPT ![c][t] = @ + 1]
               /\ fifo' = [fifo EXCEPT ![o] =
                              Append(@, [tag |-> t, err |-> FALSE, data |-> sent[c][t] + 1])]
        <3> DEFINE w == [tag |-> t, err |-> FALSE, data |-> sent[c][t] + 1]
        <3>1. w \in Words /\ w.tag = t
            BY <2>4 DEF Words
        <3>2. fifo'[o] = Append(fifo[o], w) /\ fifo'[c] = fifo[c]
            BY <2>1, <2>4
        <3>3. ASSUME NEW u \in Tags
              PROVE  /\ sent'[c][u] # 0 => u \in trusted[c]
                     /\ Carries(fifo'[o], u, received[c][u], sent'[c][u])
            <4>1. /\ received[c][u] \in Nat /\ sent[c][u] \in Nat
                  /\ Carries(fifo[o], u, received[c][u], sent[c][u])
                  /\ sent[c][u] # 0 => u \in trusted[c]
                BY <1>1
            <4>2. CASE u = t
                <5>1. sent'[c][u] = sent[c][u] + 1
                    BY <2>4, <4>2
                <5>2. w = [tag |-> u, err |-> FALSE, data |-> sent[c][u] + 1]
                    BY <4>2
                <5> HIDE DEF o, w
                <5>3. Carries(Append(fifo[o], w), u, received[c][u], sent[c][u] + 1)
                    BY <2>1, <3>1, <4>1, <5>2, SendsNext
                <5> QED
                    BY <2>4, <3>2, <4>2, <5>1, <5>3
            <4>3. CASE u # t
                <5>1. sent'[c][u] = sent[c][u]
                    BY <2>4, <4>3
                <5> HIDE DEF o, w
                <5>2. Carries(Append(fifo[o], w), u, received[c][u], sent[c][u])
                    BY <2>1, <3>1, <4>1, <4>3, SendsOther
                <5> QED
                    BY <3>2, <4>1, <5>1, <5>2
            <4> QED
                BY <4>2, <4>3
        <3>4. sent'[o] = sent[o]
            BY <2>1, <2>4
        <3> HIDE DEF o, w, word, number
        <3>5. \A d \in Cpus, u \in Tags :
                 /\ sent'[d][u] # 0 => u \in trusted[d]
                 /\ Carries(fifo'[Other(d)], u, received[d][u], sent'[d][u])
            BY <1>1, <2>1, <3>2, <3>3, <3>4 DEF o
        <3> QED
            BY <2>2, <3>5 DEF WordInv
    <2>5. CASE /\ sent' = sent
               /\ fifo' = [fifo EXCEPT ![o] = Append(@, [tag |-> t, err |-> FALSE, data |-> 0])]
        <3> DEFINE w == [tag |-> t, err |-> FALSE, data |-> 0]
        <3>1. w \in Words /\ w.data = 0
            BY DEF Words
        <3>2. fifo'[o] = Append(fifo[o], w) /\ fifo'[c] = fifo[c]
            BY <2>1, <2>5
        <3> HIDE DEF o, w, word, number
        <3>3. ASSUME NEW u \in Tags PROVE Carries(fifo'[o], u, received[c][u], sent[c][u])
            <4>1. /\ received[c][u] \in Nat /\ sent[c][u] \in Nat
                  /\ Carries(fifo[o], u, received[c][u], sent[c][u])
                BY <1>1 DEF o
            <4> QED
                BY <2>1, <3>1, <3>2, <4>1, SendsOther
        <3>4. \A d \in Cpus, u \in Tags :
                 /\ sent[d][u] # 0 => u \in trusted[d]
                 /\ Carries(fifo'[Other(d)], u, received[d][u], sent[d][u])
            BY <1>1, <2>1, <3>2, <3>3 DEF o
        <3> QED
            BY <2>2, <2>5, <3>4 DEF WordInv
    <2> QED
        BY <2>3, <2>4, <2>5
<1>8. ASSUME Handshake PROVE WordInv'
    BY <1>2, <1>8 DEF Handshake, SpinWait, CountDown, Echo, EchoTimeout, EchoTurn
<1>9. CASE UNCHANGED fifoVars
    BY <1>2, <1>9 DEF fifoVars
<1> QED
    BY <1>3, <1>4, <1>5, <1>6, <1>7, <1>8, <1>9 DEF FifoNext

LEMMA FifoStarts == FifoInit => FifoInv
<1> SUFFICES ASSUME FifoInit PROVE FifoInv
    OBVIOUS
<1>1. HandshakeType
    BY DEF FifoInit, HandshakeType
<1>2. TableType
    BY DEF FifoInit, TableType
<1>3. WordType
    BY DEF FifoInit, WordType
<1>4. HandshakeInv
    BY CpuNames DEF FifoInit, HandshakeInv
<1>5. TableInv
    BY CpuNames DEF FifoInit, TableInv
<1>6. WordInv
    BY CpuNames DEF FifoInit, WordInv, Carries
<1> QED
    BY <1>1, <1>2, <1>3, <1>4, <1>5, <1>6 DEF FifoInv, FifoType

\* The inductive invariant of the word FIFOs.
THEOREM FifoInvariant == FifoSpec => []FifoInv
<1>1. FifoInit => FifoInv
    BY FifoStarts
<1>2. FifoInv /\ [FifoNext]_fifoVars => FifoInv'
    BY HandshakeTypeNext, TableTypeNext, WordTypeNext, HandshakeNext, TableNext, WordNext
       DEF FifoInv, FifoType
<1> QED
    BY <1>1, <1>2, PTL DEF FifoSpec

\* A tag that a processor has seen ready has its callback, however the two processors
\* start and whatever the memory and the register held before; and the words sent
\* under it from then on arrive once each, in their order and without error, whatever
\* else fills the FIFOs or comes back.
THEOREM WordsArrive == FifoSpec => []WordsArriveInOrder
<1>1. FifoInv => WordsArriveInOrder
    <2> SUFFICES ASSUME FifoInv PROVE WordsArriveInOrder
        OBVIOUS
    <2>1. FifoTypeOK
        <3>1. \A s \in Seq(Words) : Len(s) <= FifoSize => s \in BoundedSeq(Words, FifoSize)
            <4> SUFFICES ASSUME NEW s \in Seq(Words), Len(s) <= FifoSize
                         PROVE  s \in BoundedSeq(Words, FifoSize)
                OBVIOUS
            <4>1. Len(s) \in 0 .. FifoSize /\ s \in [1 .. Len(s) -> Words]
                OBVIOUS
            <4> QED
                BY <4>1 DEF BoundedSeq, SeqOf
        <3>2. fifo \in [Cpus -> BoundedSeq(Words, FifoSize)]
            BY <3>1 DEF FifoInv, FifoType, WordType
        <3> QED
            BY <3>2 DEF FifoInv, FifoType, HandshakeType, TableType, WordType, FifoTypeOK
    <2>2. ReadyMeansRegistered
        BY DEF FifoInv, HandshakeInv, TableInv, ReadyMeansRegistered
    <2>3. InOrderOnce
        <3> SUFFICES ASSUME NEW c \in Cpus, NEW t \in Tags
                     PROVE  /\ received[c][t] <= sent[c][t]
                            /\ {fifo[Other(c)][i].data : i \in Numbered(c, t)} =
                                  received[c][t] + 1 .. sent[c][t]
                            /\ \A i, j \in Numbered(c, t) :
                                  /\ ~fifo[Other(c)][i].err
                                  /\ i < j => fifo[Other(c)][i].data < fifo[Other(c)][j].data
            BY DEF InOrderOnce
        <3> DEFINE s == fifo[Other(c)]
        <3>1. s \in Seq(Words) /\ received[c][t] \in Nat /\ sent[c][t] \in Nat
            BY CpuNames DEF FifoInv, FifoType, WordType
        <3>2. Carries(s, t, received[c][t], sent[c][t])
            BY DEF FifoInv, WordInv
        <3>3. \A i : i \in Numbered(c, t) <=> i \in 1 .. Len(s) /\ Numbers(s, t, i)
            BY <3>1 DEF Numbered, Numbers
        <3>4. \A i \in 1 .. Len(s) : s[i].data \in Nat
            BY <3>1, WordFields
        <3> HIDE DEF s
        <3>5. {s[i].data : i \in Numbered(c, t)} = received[c][t] + 1 .. sent[c][t]
            <4>1. ASSUME NEW n \in {s[i].data : i \in Numbered(c, t)}
                  PROVE  n \in received[c][t] + 1 .. sent[c][t]
                BY <3>1, <3>2, <3>3, <3>4 DEF Carries
            <4>2. ASSUME NEW n \in received[c][t] + 1 .. sent[c][t]
                  PROVE  n \in {s[i].data : i \in Numbered(c, t)}
                <5>1. n \in Nat /\ received[c][t] < n /\ n <= sent[c][t]
                    BY <3>1
                <5>2. PICK i \in 1 .. Len(s) : Numbers(s, t, i) /\ s[i].data = n
                    BY <3>2, <5>1 DEF Carries
                <5> QED
                    BY <3>3, <5>2
            <4> QED
                BY <4>1, <4>2
        <3> QED
            BY <3>2, <3>3, <3>5 DEF Carries, s
    <2> QED
        BY <2>1, <2>2, <2>3 DEF WordsArriveInOrder
<1> QED
    BY <1>1, FifoInvariant, PTL

-----------------------------------------------------------------------------
(***************************************************************************)
(* The wireless VRAM switch.  The driver on the ARM7 has the memory it runs *)
(* in, and what GX records as its own is locked for it and mapped there.   *)
(***************************************************************************)
USE GXVramAssumption

(***************************************************************************)
(* The inductive invariant.                                                *)
(***************************************************************************)
TypeInv ==
    /\ lockId \in [Banks -> {GX, WVR, Unlocked}]
    /\ vramCnt \in [Uses -> SUBSET Banks]
    /\ DOMAIN reg = Banks
    /\ gx.use \in Uses
    /\ wvrVRam \subseteq Banks

\* What GX deals with, in a call or in its record, is locked for it; the call
\* in progress names no bank of another use.
GXHolds ==
    /\ \A u \in Uses : \A b \in vramCnt[u] : lockId[b] = GX
    /\ gx.call = "set" =>
        /\ gx.banks \cup gx.large \subseteq Banks
        /\ \A b \in gx.banks \cup gx.large : lockId[b] = GX
        /\ NoConflict(gx.use, gx.banks \cup gx.large)
    /\ gx.call = "disable" =>
        /\ gx.banks \subseteq Banks
        /\ \A u \in Uses : vramCnt[u] \cap gx.banks = {}
    /\ OneUseEach

\* The banks lent are locked for WVR and mapped to the ARM7 at all times.
Lent ==
    /\ \A b \in Banks : lockId[b] = WVR <=> b \in wvrVRam
    /\ \A b \in wvrVRam : reg[b] = Mapped("arm7", wvrVRam, b)

\* The progress of the ARM7's thread and its status.
ThreadStatus ==
    /\ wvrThread \in {"dead", "work", "answered"}
    /\ wvrThread = "dead" => wvrStatus \in {"READY", "DRIVING"}
    /\ wvrThread # "dead" => wvrStatus \in {"LOADING", "UNLOADING"}

Loaded == wvrStatus \in {"LOADING", "DRIVING"}

\* One call is under way, as a command, as the thread's work or as an answer.
OneCall ==
    /\ wvrCallback \in {"none", "STARTUP", "TERMINATE"}
    /\ \/ toARM7 = "none" /\ toARM9 = NoAnswer /\ wvrThread # "work" /\ wvrCallback = "none"
       \/ /\ toARM7 = wvrCallback /\ wvrCallback # "none" /\ toARM9 = NoAnswer
          /\ wvrThread # "work"
          /\ wvrCallback = "STARTUP" => ~Loaded
       \/ /\ toARM7 = "none" /\ toARM9 = NoAnswer /\ wvrThread = "work"
          /\ wvrCallback = IF wvrStatus = "LOADING" THEN "STARTUP" ELSE "TERMINATE"
       \/ /\ toARM7 = "none" /\ wvrThread # "work" /\ wvrCallback # "none"
          /\ toARM9 = [command |-> wvrCallback, result |-> "SUCCESS"]
          /\ Loaded <=> wvrCallback = "STARTUP"
       \/ /\ toARM7 = "none" /\ wvrThread # "work" /\ wvrCallback # "none"
          /\ toARM9 = [command |-> wvrCallback, result |-> "ILLEGAL_STATUS"]
          /\ wvrCallback = "STARTUP" => ~Loaded

Terminated == [command |-> "TERMINATE", result |-> "SUCCESS"]

\* When the banks are lent.
LentWhen ==
    /\ Loaded \/ wvrThread = "work" => wvrVRam # {}
    /\ wvrCallback = "STARTUP" => wvrVRam # {}
    /\ ~refused /\ wvrThread # "work" /\ wvrCallback = "TERMINATE" /\ toARM9 # Terminated
        => (wvrVRam # {} <=> Loaded)
    /\ ~refused /\ wvrCallback = "none" => (wvrVRam # {} <=> Loaded)

Inv == TypeInv /\ GXHolds /\ Lent /\ ThreadStatus /\ OneCall /\ LentWhen

(***************************************************************************)
(* Facts about the constants.                                              *)
(***************************************************************************)
LEMMA NamesOfUses == "lcdc" \in Uses /\ "bg" \in Uses
  BY DEF Uses, AllSettings

LEMMA SettingsAreBanks == ASSUME NEW u, NEW s \in Settings(u) PROVE s \subseteq Banks
  BY DEF Settings

LEMMA AnswersDiffer ==
    \A c, r : r # "SUCCESS" \/ c # "none" => [command |-> c, result |-> r] # NoAnswer
  BY DEF NoAnswer

(***************************************************************************)
(* GX.                                                                     *)
(***************************************************************************)
LEMMA GXNextInv == ASSUME Inv, GXNext, UNCHANGED wvrVars PROVE Inv'
<1> USE DEF Inv
<1>1. ThreadStatus' /\ OneCall' /\ LentWhen'
  BY DEF ThreadStatus, OneCall, LentWhen, Loaded, Terminated, wvrVars
<1>2. ASSUME NEW u \in Uses, NEW s, NEW large, s \cup large \subseteq Banks,
             TryLock(u, s, large)
      PROVE  TypeInv' /\ GXHolds' /\ Lent'
  <2>1. TypeInv'
    BY <1>2 DEF TryLock, Locked, TypeInv, wvrVars
  <2>2. GXHolds'
    BY <1>2 DEF TryLock, Locked, TypeInv, GXHolds, OneUseEach, NoConflict
  <2>3. Lent'
    BY <1>2 DEF TryLock, Locked, CanLock, TypeInv, Lent, wvrVars
  <2> QED BY <2>1, <2>2, <2>3
<1>3. CASE \E u \in Uses : \E s \in Settings(u) : GX_SetBankFor(u, s)
  BY <1>1, <1>2, <1>3, SettingsAreBanks DEF GX_SetBankFor
<1>4. CASE \E s1 \in BGEx1, s2 \in BGEx2 : GX_SetBankForBGEx(s1, s2)
  BY <1>1, <1>2, <1>4, NamesOfUses DEF GX_SetBankForBGEx
<1>5. CASE SetBank
  <2> DEFINE u == gx.use
             s == gx.banks \cup gx.large
  <2>0. gx.call = "set" /\ u \in Uses /\ s \subseteq Banks
    BY <1>5 DEF SetBank, TypeInv, GXHolds
  <2>1. /\ \A v \in Uses : vramCnt'[v] = IF v = "lcdc" THEN NewLCDC(u, s)
                                         ELSE IF v = u THEN s ELSE vramCnt[v]
        /\ DOMAIN vramCnt' = Uses
    BY <1>5, <2>0, NamesOfUses DEF SetBank, TypeInv, NewLCDC
  <2>2. NewLCDC(u, s) \subseteq vramCnt["lcdc"] \cup vramCnt[u] \cup s
    BY DEF NewLCDC
  <2>3. \A b \in NewLCDC(u, s) \cup s : b \in Banks /\ lockId[b] = GX
    BY <2>0, <2>2, NamesOfUses DEF GXHolds, TypeInv
  <2>4. TypeInv'
    <3>1. gx'.use \in Uses
      BY <1>5, NamesOfUses DEF SetBank, NoGxCall
    <3>2. \A v \in Uses : vramCnt'[v] \subseteq Banks
      BY ZenonT(30), <2>0, <2>1, <2>3 DEF TypeInv
    <3> QED BY ZenonT(30), <1>5, <2>1, <3>1, <3>2 DEF SetBank, TypeInv, wvrVars
  <2>5. OneUseEach'
    <3>1. \A v \in Uses \ {u, "lcdc"} : vramCnt[v] \cap s = {}
      BY <2>0 DEF GXHolds, NoConflict
    <3>2. \A v, w \in Uses : v # w => vramCnt[v] \cap vramCnt[w] = {}
      BY DEF GXHolds, OneUseEach
    <3>3. \A v \in Uses \ {"lcdc"} : v # u => vramCnt[v] \cap NewLCDC(u, s) = {}
      BY <2>0, <2>2, <3>1, <3>2, NamesOfUses
    <3>4. u # "lcdc" => s \cap NewLCDC(u, s) = {}
      BY DEF NewLCDC
    <3>5. ASSUME NEW v \in Uses, NEW w \in Uses, v # w, v # "lcdc"
          PROVE  vramCnt'[v] \cap vramCnt'[w] = {}
      <4>1. CASE w = "lcdc"
        BY <2>1, <3>3, <3>4, <3>5, <4>1
      <4>2. CASE w # "lcdc"
        BY <2>1, <3>1, <3>2, <3>5, <4>2
      <4> QED BY <4>1, <4>2
    <3> QED BY <3>5 DEF OneUseEach
  <2>6. GXHolds'
    <3>1. gx'.call = "none"
      BY <1>5 DEF SetBank, NoGxCall
    <3>2. \A v \in Uses : \A b \in vramCnt'[v] : lockId'[b] = GX
      BY SMTT(30), <1>5, <2>0, <2>1, <2>3 DEF SetBank, GXHolds
    <3> QED BY <2>5, <3>1, <3>2 DEF GXHolds
  <2>7. Lent'
    <3>1. \A b \in wvrVRam : reg'[b] = reg[b]
      BY <1>5, <2>3 DEF SetBank, Lent, TypeInv
    <3> QED BY <1>5, <3>1 DEF SetBank, Lent, wvrVars
  <2> QED BY <1>1, <2>4, <2>6, <2>7
<1>6. CASE \E u \in Uses : GX_ResetBankFor(u)
  <2>1. PICK u \in Uses : GX_ResetBankFor(u)
    BY <1>6
  <2>2. /\ u # "lcdc" /\ DOMAIN vramCnt' = Uses
        /\ vramCnt'[u] = {} /\ vramCnt'["lcdc"] = vramCnt["lcdc"] \cup vramCnt[u]
        /\ \A v \in Uses \ {u, "lcdc"} : vramCnt'[v] = vramCnt[v]
    BY <2>1, NamesOfUses DEF GX_ResetBankFor, TypeInv
  <2>3. lockId' = lockId
    BY <2>1 DEF GX_ResetBankFor, Locked, TypeInv, GXHolds
  <2>4. gx.call = "none" /\ gx' = gx
    BY <2>1 DEF GX_ResetBankFor, NoGxCall
  <2>5. TypeInv'
    BY ZenonT(30), <2>1, <2>2, <2>3, <2>4, NamesOfUses DEF GX_ResetBankFor, TypeInv, wvrVars
  <2>6. GXHolds'
    BY <2>2, <2>3, <2>4, NamesOfUses DEF GXHolds, OneUseEach
  <2>7. Lent'
    BY <2>1, <2>3 DEF GX_ResetBankFor, Lent, GXHolds, TypeInv, wvrVars
  <2> QED BY <1>1, <2>5, <2>6, <2>7
<1>7. CASE \E u \in Uses : GX_DisableBankFor(u)
  <2>1. PICK u \in Uses : GX_DisableBankFor(u)
    BY <1>7
  <2>2. /\ DOMAIN vramCnt' = Uses /\ vramCnt'[u] = {}
        /\ \A v \in Uses \ {u} : vramCnt'[v] = vramCnt[v]
    BY <2>1 DEF GX_DisableBankFor, TypeInv
  <2>3. lockId' = lockId
    BY <2>1 DEF GX_DisableBankFor, Locked, TypeInv, GXHolds
  <2>4. gx'.call = "disable" /\ gx'.banks = vramCnt[u] /\ gx'.use = "lcdc"
    BY <2>1 DEF GX_DisableBankFor, NoGxCall
  <2>5. TypeInv'
    BY <2>1, <2>2, <2>3, <2>4, NamesOfUses DEF GX_DisableBankFor, TypeInv, wvrVars
  <2>6. GXHolds'
    BY ZenonT(30), <2>2, <2>3, <2>4 DEF GXHolds, OneUseEach, TypeInv
  <2>7. Lent'
    BY <2>1, <2>3 DEF GX_DisableBankFor, Lent, GXHolds, TypeInv, wvrVars
  <2> QED BY <1>1, <2>5, <2>6, <2>7
<1>8. CASE UnlockDisabled
  <2>1. /\ gx.call = "disable" /\ gx' = NoGxCall /\ UNCHANGED <<vramCnt, reg>>
        /\ lockId' = Released(gx.banks, GX)
    BY <1>8 DEF UnlockDisabled
  <2>2. TypeInv'
    BY <2>1, NamesOfUses DEF TypeInv, Released, NoGxCall, wvrVars
  <2>3. GXHolds'
    BY <2>1 DEF GXHolds, OneUseEach, Released, NoGxCall, TypeInv
  <2>4. Lent'
    BY <2>1 DEF Lent, Released, TypeInv, wvrVars
  <2> QED BY <1>1, <2>2, <2>3, <2>4
<1> QED BY <1>3, <1>4, <1>5, <1>6, <1>7, <1>8 DEF GXNext

(***************************************************************************)
(* WVR.                                                                    *)
(***************************************************************************)
LEMMA StartUpInv ==
    ASSUME Inv, NEW s, NEW full \in BOOLEAN, WVR_StartUpAsync(s, full) PROVE Inv'
<1> USE DEF Inv
<1>1. /\ s \subseteq Banks /\ s # {} /\ wvrCallback = "none" /\ wvrVRam = {}
      /\ UNCHANGED <<vramCnt, enabled, gx, toARM9, wvrStatus, wvrThread, refused>>
  BY SettingsAreBanks DEF WVR_StartUpAsync
<1>2. \A b \in s : lockId[b] = Unlocked
  BY <1>1 DEF WVR_StartUpAsync, CanLock, Lent
<1>3. TypeInv'
  BY <1>1 DEF WVR_StartUpAsync, TypeInv, Locked
<1>4. GXHolds'
  BY ZenonT(30), <1>1, <1>2 DEF WVR_StartUpAsync, GXHolds, OneUseEach, NoConflict, TypeInv, Locked
<1>5. Lent'
  BY <1>1, <1>2 DEF WVR_StartUpAsync, Lent, TypeInv, Locked
<1>6. toARM7 = "none" /\ toARM9 = NoAnswer /\ wvrThread # "work" /\ ~Loaded
  BY <1>1, AnswersDiffer DEF OneCall, LentWhen, ThreadStatus
<1>7. CASE full
  BY <1>1, <1>3, <1>4, <1>5, <1>7
     DEF WVR_StartUpAsync, ThreadStatus, OneCall, LentWhen, Loaded, Terminated
<1>8. CASE ~full
  <2>1. wvrVRam' = s /\ wvrCallback' = "STARTUP" /\ toARM7' = "STARTUP"
    BY <1>8 DEF WVR_StartUpAsync
  <2> QED BY <1>1, <1>3, <1>4, <1>5, <1>6, <2>1
             DEF ThreadStatus, OneCall, LentWhen, Loaded, Terminated
<1> QED BY <1>7, <1>8

LEMMA TerminateInv == ASSUME Inv, WVR_TerminateAsync PROVE Inv'
<1> USE DEF Inv
<1>1. /\ wvrCallback = "none" /\ wvrCallback' = "TERMINATE" /\ toARM7' = "TERMINATE"
      /\ UNCHANGED <<lockId, vramCnt, reg, enabled, gx>>
      /\ UNCHANGED <<wvrVRam, toARM9, wvrStatus, wvrThread, refused>>
  BY DEF WVR_TerminateAsync, gxVars
<1>2. toARM7 = "none" /\ toARM9 = NoAnswer /\ wvrThread # "work"
  BY <1>1, AnswersDiffer DEF OneCall, ThreadStatus
<1>3. TypeInv' /\ GXHolds' /\ Lent'
  BY <1>1 DEF TypeInv, GXHolds, Lent, OneUseEach, NoConflict
<1> QED BY <1>1, <1>2, <1>3 DEF ThreadStatus, OneCall, LentWhen, Loaded, Terminated

LEMMA ReceiveInv == ASSUME Inv, WvrReceiveCallback PROVE Inv'
<1> USE DEF Inv
<1>1. /\ toARM9 # NoAnswer /\ toARM9' = NoAnswer /\ wvrCallback' = "none"
      /\ refused' = (refused \/ toARM9 = [command |-> "STARTUP", result |-> "ILLEGAL_STATUS"])
      /\ UNCHANGED <<vramCnt, reg, enabled, gx, toARM7, wvrStatus, wvrThread>>
  BY DEF WvrReceiveCallback
<1>2. /\ toARM7 = "none" /\ wvrThread # "work" /\ wvrCallback \in {"STARTUP", "TERMINATE"}
      /\ \/ toARM9 = [command |-> wvrCallback, result |-> "SUCCESS"]
            /\ (Loaded <=> wvrCallback = "STARTUP")
         \/ toARM9 = [command |-> wvrCallback, result |-> "ILLEGAL_STATUS"]
            /\ (wvrCallback = "STARTUP" => ~Loaded)
  BY <1>1 DEF OneCall
<1>3. ReturnsBanks(toARM9) <=> wvrCallback = "TERMINATE" /\ toARM9.result = "SUCCESS"
  BY <1>2 DEF ReturnsBanks
<1>4. CASE ReturnsBanks(toARM9)
  <2>1. lockId' = Released(wvrVRam, WVR) /\ wvrVRam' = {}
    BY <1>4 DEF WvrReceiveCallback
  <2>2. TypeInv' /\ Lent'
    BY <1>1, <2>1 DEF TypeInv, Lent, Released
  <2>3. GXHolds'
    BY <1>1, <2>1 DEF GXHolds, OneUseEach, NoConflict, TypeInv, Released
  <2>4. ~Loaded
    BY <1>2, <1>3, <1>4
  <2>5. ThreadStatus' /\ OneCall' /\ LentWhen'
    BY <1>1, <1>2, <2>1, <2>4 DEF ThreadStatus, OneCall, LentWhen, Loaded, Terminated
  <2> QED BY <2>2, <2>3, <2>5
<1>5. CASE ~ReturnsBanks(toARM9)
  <2>1. UNCHANGED <<lockId, wvrVRam>>
    BY <1>5 DEF WvrReceiveCallback
  <2>2. TypeInv' /\ Lent' /\ GXHolds'
    BY <1>1, <2>1 DEF TypeInv, Lent, GXHolds, OneUseEach, NoConflict
  <2>3. ThreadStatus' /\ OneCall'
    BY <1>1, <1>2 DEF ThreadStatus, OneCall
  <2>4. toARM9 # Terminated
    BY <1>2, <1>3, <1>5 DEF Terminated
  <2>5. ~refused' => (wvrVRam # {} <=> Loaded)
    <3>1. CASE wvrCallback = "TERMINATE"
      BY <1>1, <1>2, <2>4, <3>1 DEF LentWhen
    <3>2. CASE wvrCallback = "STARTUP"
      BY <1>1, <1>2, <3>2 DEF LentWhen
    <3> QED BY <1>2, <3>1, <3>2
  <2>6. LentWhen'
    BY <1>1, <1>2, <2>1, <2>5 DEF LentWhen, Loaded
  <2> QED BY <2>2, <2>3, <2>6
<1> QED BY <1>4, <1>5

LEMMA ARM7Inv ==
    ASSUME Inv, WvrPxiReceiveCallback \/ WvrThreadAnswers \/ WvrThreadExits PROVE Inv'
<1> USE DEF Inv
<1>1. UNCHANGED <<lockId, vramCnt, reg, enabled, gx, wvrVRam, wvrCallback, refused>>
  BY DEF WvrPxiReceiveCallback, WvrThreadAnswers, WvrThreadExits, gxVars
<1>2. TypeInv' /\ GXHolds' /\ Lent'
  BY <1>1 DEF TypeInv, GXHolds, Lent, OneUseEach, NoConflict
<1>3. CASE WvrPxiReceiveCallback
  <2>1. /\ toARM7 = wvrCallback /\ wvrCallback \in {"STARTUP", "TERMINATE"}
        /\ toARM9 = NoAnswer /\ wvrThread # "work" /\ toARM7' = "none"
        /\ wvrCallback = "STARTUP" => ~Loaded
    BY <1>3 DEF WvrPxiReceiveCallback, OneCall
  <2>2. CASE wvrThread = "dead" /\ wvrStatus = IF toARM7 = "STARTUP" THEN "READY" ELSE "DRIVING"
    BY <1>1, <1>2, <1>3, <2>1, <2>2
       DEF WvrPxiReceiveCallback, ThreadStatus, OneCall, LentWhen, Loaded, Terminated, NoAnswer
  <2>3. CASE ~(wvrThread = "dead" /\ wvrStatus = IF toARM7 = "STARTUP" THEN "READY" ELSE "DRIVING")
    <3>1. /\ toARM9' = [command |-> toARM7, result |-> "ILLEGAL_STATUS"]
          /\ UNCHANGED <<wvrStatus, wvrThread>>
      BY <1>3, <2>3 DEF WvrPxiReceiveCallback
    <3>2. ThreadStatus' /\ OneCall'
      BY <1>1, <2>1, <3>1 DEF ThreadStatus, OneCall, Loaded
    <3>3. toARM9 # Terminated
      BY <2>1 DEF NoAnswer, Terminated
    <3>4. LentWhen'
      BY <1>1, <2>1, <3>1, <3>3 DEF LentWhen, Loaded, Terminated
    <3> QED BY <1>2, <3>2, <3>4
  <2> QED BY <2>2, <2>3
<1>4. CASE WvrThreadAnswers
  BY <1>1, <1>2, <1>4 DEF WvrThreadAnswers, ThreadStatus, OneCall, LentWhen, Loaded, Terminated
<1>5. CASE WvrThreadExits
  BY <1>1, <1>2, <1>5 DEF WvrThreadExits, ThreadStatus, OneCall, LentWhen, Loaded, Terminated
<1> QED BY <1>3, <1>4, <1>5

(***************************************************************************)
(* Sizes and offsets.                                                      *)
(***************************************************************************)
Names == {"A", "B", "C", "D", "E", "F", "G", "H", "I"}

\* What a bank contributes to the size of a set.
PartOf(s, b) == IF b \in s THEN Size(b) ELSE 0

LEMMA Sizes == \A b \in Names : Size(b) \in Nat \ {0} /\ Order(b) \in Nat
  BY DEF Names, Size, Order

LEMMA OrdersDiffer ==
    \A b, c \in Names : b # c => Order(b) < Order(c) \/ Order(c) < Order(b)
<1>1. /\ Order("A") = 1 /\ Order("B") = 2 /\ Order("C") = 3 /\ Order("D") = 4 /\ Order("E") = 5
      /\ Order("F") = 6 /\ Order("G") = 7 /\ Order("H") = 8 /\ Order("I") = 9
  BY DEF Order
<1> QED BY <1>1 DEF Names

LEMMA SizeIsSum ==
    ASSUME NEW s
    PROVE  SizeOf(s) = PartOf(s, "A") + PartOf(s, "B") + PartOf(s, "C") + PartOf(s, "D")
                         + PartOf(s, "E") + PartOf(s, "F") + PartOf(s, "G") + PartOf(s, "H")
                         + PartOf(s, "I")
  BY DEF SizeOf, PartOf

LEMMA PartsAreNumbers == ASSUME NEW s PROVE \A b \in Names : PartOf(s, b) \in Nat
  BY Sizes DEF PartOf

LEMMA SizeIsNumber == ASSUME NEW s PROVE SizeOf(s) \in Nat
<1>1. /\ PartOf(s, "A") \in Nat /\ PartOf(s, "B") \in Nat /\ PartOf(s, "C") \in Nat
      /\ PartOf(s, "D") \in Nat /\ PartOf(s, "E") \in Nat /\ PartOf(s, "F") \in Nat
      /\ PartOf(s, "G") \in Nat /\ PartOf(s, "H") \in Nat /\ PartOf(s, "I") \in Nat
  BY PartsAreNumbers DEF Names
<1> QED BY <1>1, SizeIsSum

\* A set is larger than a part of it by a bank the part lacks.
LEMMA SizeGrows ==
    ASSUME NEW s, NEW t, s \subseteq t, NEW b \in Names, b \in t, b \notin s
    PROVE  SizeOf(s) + Size(b) <= SizeOf(t)
<1>1. \A c \in Names : PartOf(s, c) \in Nat /\ PartOf(t, c) \in Nat /\ PartOf(s, c) <= PartOf(t, c)
  BY Sizes DEF PartOf
<1>2. PartOf(s, b) + Size(b) <= PartOf(t, b) /\ Size(b) \in Nat
  BY Sizes DEF PartOf
<1> DEFINE ps(c) == PartOf(s, c)
           pt(c) == PartOf(t, c)
<1>3. /\ ps("A") \in Nat /\ pt("A") \in Nat /\ ps("A") <= pt("A")
      /\ ps("B") \in Nat /\ pt("B") \in Nat /\ ps("B") <= pt("B")
      /\ ps("C") \in Nat /\ pt("C") \in Nat /\ ps("C") <= pt("C")
      /\ ps("D") \in Nat /\ pt("D") \in Nat /\ ps("D") <= pt("D")
      /\ ps("E") \in Nat /\ pt("E") \in Nat /\ ps("E") <= pt("E")
      /\ ps("F") \in Nat /\ pt("F") \in Nat /\ ps("F") <= pt("F")
      /\ ps("G") \in Nat /\ pt("G") \in Nat /\ ps("G") <= pt("G")
      /\ ps("H") \in Nat /\ pt("H") \in Nat /\ ps("H") <= pt("H")
      /\ ps("I") \in Nat /\ pt("I") \in Nat /\ ps("I") <= pt("I")
  BY <1>1 DEF Names
<1>4. ps(b) + Size(b) <= pt(b)
  BY <1>2
<1>5. /\ SizeOf(s) = ps("A") + ps("B") + ps("C") + ps("D") + ps("E") + ps("F") + ps("G") + ps("H")
                       + ps("I")
      /\ SizeOf(t) = pt("A") + pt("B") + pt("C") + pt("D") + pt("E") + pt("F") + pt("G") + pt("H")
                       + pt("I")
  BY SizeIsSum
<1> HIDE DEF ps, pt
<1>6. CASE b = "A"
  BY <1>2, <1>3, <1>4, <1>5, <1>6
<1>7. CASE b = "B"
  BY <1>2, <1>3, <1>4, <1>5, <1>7
<1>8. CASE b = "C"
  BY <1>2, <1>3, <1>4, <1>5, <1>8
<1>9. CASE b = "D"
  BY <1>2, <1>3, <1>4, <1>5, <1>9
<1>10. CASE b = "E"
  BY <1>2, <1>3, <1>4, <1>5, <1>10
<1>11. CASE b = "F"
  BY <1>2, <1>3, <1>4, <1>5, <1>11
<1>12. CASE b = "G"
  BY <1>2, <1>3, <1>4, <1>5, <1>12
<1>13. CASE b = "H"
  BY <1>2, <1>3, <1>4, <1>5, <1>13
<1>14. CASE b = "I"
  BY <1>2, <1>3, <1>4, <1>5, <1>14
<1> QED BY <1>6, <1>7, <1>8, <1>9, <1>10, <1>11, <1>12, <1>13, <1>14 DEF Names

\* The banks of a set stand behind each other in the order of their names,
LEMMA NextBegins ==
    ASSUME NEW s, s \subseteq Names, NEW b \in s, NEW c \in s, Order(b) < Order(c)
    PROVE  SizeOf(Before(s, b)) + Size(b) <= SizeOf(Before(s, c))
<1>1. Before(s, b) \subseteq Before(s, c) /\ b \in Before(s, c) /\ b \notin Before(s, b)
  BY Sizes DEF Before
<1> QED BY <1>1, SizeGrows

\* within its size,
LEMMA LastEnds ==
    ASSUME NEW s, s \subseteq Names, NEW b \in s
    PROVE  SizeOf(Before(s, b)) + Size(b) <= SizeOf(s)
<1>1. Before(s, b) \subseteq s /\ b \notin Before(s, b)
  BY Sizes DEF Before
<1> QED BY <1>1, SizeGrows

\* and so they do when they are counted from the end.
LEMMA NextBeginsFromEnd ==
    ASSUME NEW s, s \subseteq Names, NEW b \in s, NEW c \in s, Order(b) < Order(c)
    PROVE  SizeOf(s \ Before(s, c)) + Size(b) <= SizeOf(s \ Before(s, b))
<1>1. /\ s \ Before(s, c) \subseteq s \ Before(s, b)
      /\ b \in s \ Before(s, b) /\ b \notin s \ Before(s, c)
  BY Sizes DEF Before
<1> QED BY <1>1, SizeGrows

\* Textures and clear images share four slots of a bank each.
LEMMA SlotsSuffice ==
    ASSUME NEW s, NEW t, NEW r, s \cup t \subseteq ABCD, s \cap t = {}, r \subseteq t
    PROVE  SizeOf(s) + SizeOf(r) <= 32
<1>1. \A c \in ABCD : PartOf(s, c) \in Nat /\ PartOf(r, c) \in Nat /\ PartOf(s, c) + PartOf(r, c) <= 8
  BY DEF PartOf, Size, ABCD
<1>2. \A c \in {"E", "F", "G", "H", "I"} : PartOf(s, c) = 0 /\ PartOf(r, c) = 0
  BY DEF PartOf, ABCD
<1>3. /\ PartOf(s, "A") \in Nat /\ PartOf(r, "A") \in Nat /\ PartOf(s, "A") + PartOf(r, "A") <= 8
      /\ PartOf(s, "B") \in Nat /\ PartOf(r, "B") \in Nat /\ PartOf(s, "B") + PartOf(r, "B") <= 8
      /\ PartOf(s, "C") \in Nat /\ PartOf(r, "C") \in Nat /\ PartOf(s, "C") + PartOf(r, "C") <= 8
      /\ PartOf(s, "D") \in Nat /\ PartOf(r, "D") \in Nat /\ PartOf(s, "D") + PartOf(r, "D") <= 8
  BY <1>1 DEF ABCD
<1>4. /\ PartOf(s, "E") = 0 /\ PartOf(r, "E") = 0 /\ PartOf(s, "F") = 0 /\ PartOf(r, "F") = 0
      /\ PartOf(s, "G") = 0 /\ PartOf(r, "G") = 0 /\ PartOf(s, "H") = 0 /\ PartOf(r, "H") = 0
      /\ PartOf(s, "I") = 0 /\ PartOf(r, "I") = 0
  BY <1>2
<1> QED BY <1>3, <1>4, SizeIsSum

\* The small banks of an extended BG fit below the large ones.
LEMMA SmallFit == ASSUME NEW s, s \subseteq EFG PROVE SizeOf(s) <= 8
<1>1. /\ PartOf(s, "A") = 0 /\ PartOf(s, "B") = 0 /\ PartOf(s, "C") = 0 /\ PartOf(s, "D") = 0
      /\ PartOf(s, "H") = 0 /\ PartOf(s, "I") = 0
  BY DEF PartOf, EFG
<1>2. /\ PartOf(s, "E") \in Nat /\ PartOf(s, "E") <= 4
      /\ PartOf(s, "F") \in Nat /\ PartOf(s, "F") <= 1
      /\ PartOf(s, "G") \in Nat /\ PartOf(s, "G") <= 1
  BY DEF PartOf, Size
<1> QED BY <1>1, <1>2, SizeIsSum

(***************************************************************************)
(* What GX records and what the registers say.                             *)
(***************************************************************************)
\* The registers r lay out the setting s of use u.
LaidOut(u, s, r) ==
    \/ s \in AllSettings[u] /\ \A b \in s : r[b] = Mapped(u, s, b)
    \/ /\ u = "bg"
       /\ \E s1 \in BGEx1, s2 \in BGEx2 :
            s = s1 \cup s2 /\ \A b \in s : r[b] = MappedEx(s1, s2, b)

\* The setting that the call in progress makes.
Asked ==
    gx.call = "set" =>
        \/ gx.large = {} /\ gx.banks \in AllSettings[gx.use]
        \/ gx.use = "bg" /\ gx.banks \in BGEx1 /\ gx.large \in BGEx2 \ {{}}

Layout ==
    /\ \A b \in vramCnt["lcdc"] : reg[b] = LCDC
    /\ \A u \in Uses \ {"lcdc"} : LaidOut(u, vramCnt[u], reg)
    /\ Asked
    /\ EnabledHasBanks

LEMMA NothingIsLaidOut == \A u \in Uses : \A r : LaidOut(u, {}, r)
<1>1. \A u \in Uses : {} \in AllSettings[u]
  BY DEF Uses, AllSettings
<1> QED BY <1>1 DEF LaidOut

LEMMA StaysLaidOut ==
    ASSUME NEW u, NEW s, NEW r, NEW q, LaidOut(u, s, r), \A b \in s : q[b] = r[b]
    PROVE  LaidOut(u, s, q)
  BY DEF LaidOut

LEMMA NamesOfDisplayed ==
    ExtPltts \subseteq Displayed /\ ExtPltts \subseteq Uses /\ "lcdc" \notin ExtPltts
  BY DEF ExtPltts, Displayed, Uses, AllSettings

LEMMA LayoutStep == ASSUME Inv, Layout, [VramNext]_vramVars PROVE Layout'
<1> USE DEF Inv
<1>1. CASE \E u \in Uses : \E s \in Settings(u) : GX_SetBankFor(u, s)
  <2>1. PICK u \in Uses : \E s \in Settings(u) : GX_SetBankFor(u, s)
    BY <1>1
  <2>2. PICK s \in Settings(u) : TryLock(u, s, {})
    BY <2>1 DEF GX_SetBankFor
  <2>3. Asked'
    BY <2>2 DEF TryLock, Asked, Settings
  <2> QED BY <2>2, <2>3 DEF TryLock, Layout, EnabledHasBanks
<1>2. CASE \E s1 \in BGEx1, s2 \in BGEx2 : GX_SetBankForBGEx(s1, s2)
  <2>1. PICK s1 \in BGEx1, s2 \in BGEx2 : s2 # {} /\ TryLock("bg", s1, s2)
    BY <1>2 DEF GX_SetBankForBGEx
  <2>2. Asked'
    BY <2>1 DEF TryLock, Asked
  <2> QED BY <2>1, <2>2 DEF TryLock, Layout, EnabledHasBanks
<1>3. CASE SetBank
  <2> DEFINE u == gx.use
             s == gx.banks \cup gx.large
             lcdc == NewLCDC(u, s)
  <2>1. /\ u \in Uses /\ s \subseteq Banks /\ gx' = NoGxCall
        /\ \A v \in Uses : vramCnt'[v] = IF v = "lcdc" THEN lcdc
                                         ELSE IF v = u THEN s ELSE vramCnt[v]
    BY <1>3, NamesOfUses DEF SetBank, TypeInv, GXHolds, NewLCDC
  <2>2. reg' = [b \in Banks |->
                 IF b \in lcdc THEN LCDC
                 ELSE IF b \notin s THEN reg[b]
                 ELSE IF gx.large # {} THEN MappedEx(gx.banks, gx.large, b)
                 ELSE Mapped(u, s, b)]
    BY <1>3 DEF SetBank
  <2>3. lcdc \subseteq Banks /\ (u # "lcdc" => s \cap lcdc = {}) /\ (u = "lcdc" => s \subseteq lcdc)
    BY <2>1, NamesOfUses DEF NewLCDC, TypeInv
  <2>4. \A b \in vramCnt'["lcdc"] : reg'[b] = LCDC
    BY <2>1, <2>2, <2>3, NamesOfUses
  <2>5. ASSUME NEW v \in Uses \ {"lcdc"} PROVE LaidOut(v, vramCnt'[v], reg')
    <3>1. CASE v = u
      <4>1. vramCnt'[v] = s /\ \A b \in s : b \in Banks /\ b \notin lcdc
        BY <2>1, <2>3, <3>1
      <4>2. \A b \in s : reg'[b] = IF gx.large # {} THEN MappedEx(gx.banks, gx.large, b)
                                   ELSE Mapped(u, s, b)
        BY <2>2, <4>1
      <4>3. CASE gx.large = {} /\ gx.banks \in AllSettings[u]
        BY <3>1, <4>1, <4>2, <4>3 DEF LaidOut
      <4>4. CASE u = "bg" /\ gx.banks \in BGEx1 /\ gx.large \in BGEx2 \ {{}}
        BY <3>1, <4>1, <4>2, <4>4 DEF LaidOut
      <4> QED BY <1>3, <4>3, <4>4 DEF SetBank, Layout, Asked
    <3>2. CASE v # u
      <4>1. vramCnt'[v] = vramCnt[v] /\ vramCnt[v] \subseteq Banks
        BY <2>1, <3>2 DEF TypeInv
      <4>2. vramCnt[v] \cap s = {}
        BY <1>3, <3>2 DEF SetBank, GXHolds, NoConflict
      <4>3. vramCnt[v] \cap vramCnt["lcdc"] = {} /\ vramCnt[v] \cap vramCnt[u] = {}
        BY <2>1, <3>2, NamesOfUses DEF GXHolds, OneUseEach
      <4>4. vramCnt[v] \cap lcdc = {}
        BY <4>2, <4>3 DEF NewLCDC
      <4>5. \A b \in vramCnt[v] : reg'[b] = reg[b]
        BY <2>2, <4>1, <4>2, <4>4
      <4>6. LaidOut(v, vramCnt[v], reg)
        BY DEF Layout
      <4> QED BY <4>1, <4>5, <4>6, StaysLaidOut
    <3> QED BY <3>1, <3>2
  <2>6. Asked'
    BY <2>1 DEF Asked, NoGxCall
  <2>7. EnabledHasBanks'
    <3>1. \A v \in ExtPltts : v \in enabled' <=> IF v = u THEN s # {} ELSE v \in enabled
      BY <1>3, NamesOfDisplayed DEF SetBank
    <3>2. \A v \in ExtPltts : vramCnt'[v] = IF v = u THEN s ELSE vramCnt[v]
      BY <2>1, NamesOfDisplayed
    <3> QED BY <3>1, <3>2 DEF Layout, EnabledHasBanks
  <2> QED BY <2>4, <2>5, <2>6, <2>7 DEF Layout
<1>4. CASE \E u \in Uses : GX_ResetBankFor(u)
  <2>1. PICK u \in Uses : GX_ResetBankFor(u)
    BY <1>4
  <2>2. /\ u # "lcdc" /\ gx' = gx
        /\ vramCnt'[u] = {} /\ vramCnt'["lcdc"] = vramCnt["lcdc"] \cup vramCnt[u]
        /\ \A v \in Uses \ {u, "lcdc"} : vramCnt'[v] = vramCnt[v]
        /\ \A b \in Banks : reg'[b] = IF b \in vramCnt[u] THEN LCDC ELSE reg[b]
    BY <2>1, NamesOfUses DEF GX_ResetBankFor, TypeInv
  <2>3. \A b \in vramCnt'["lcdc"] : reg'[b] = LCDC
    BY <2>2, NamesOfUses DEF Layout, TypeInv
  <2>4. ASSUME NEW v \in Uses \ {"lcdc"} PROVE LaidOut(v, vramCnt'[v], reg')
    <3>1. CASE v = u
      BY <2>2, <3>1, NothingIsLaidOut
    <3>2. CASE v # u
      <4>1. vramCnt'[v] = vramCnt[v] /\ vramCnt[v] \subseteq Banks
        BY <2>2, <3>2 DEF TypeInv
      <4>2. vramCnt[v] \cap vramCnt[u] = {}
        BY <3>2 DEF GXHolds, OneUseEach
      <4>3. \A b \in vramCnt[v] : reg'[b] = reg[b]
        BY <2>2, <4>1, <4>2
      <4>4. LaidOut(v, vramCnt[v], reg)
        BY DEF Layout
      <4> QED BY <4>1, <4>3, <4>4, StaysLaidOut
    <3> QED BY <3>1, <3>2
  <2>5. Asked'
    BY <2>2 DEF Asked, Layout
  <2>6. EnabledHasBanks'
    <3>1. enabled' = enabled \ ({u} \cap ExtPltts)
      BY <2>1 DEF GX_ResetBankFor
    <3> QED BY <2>2, <3>1, NamesOfDisplayed DEF Layout, EnabledHasBanks
  <2> QED BY <2>3, <2>4, <2>5, <2>6 DEF Layout
<1>5. CASE \E u \in Uses : GX_DisableBankFor(u)
  <2>1. PICK u \in Uses : GX_DisableBankFor(u)
    BY <1>5
  <2>2. /\ gx'.call = "disable" /\ vramCnt'[u] = {}
        /\ \A v \in Uses \ {u} : vramCnt'[v] = vramCnt[v]
        /\ \A b \in Banks : b \notin vramCnt[u] => reg'[b] = reg[b]
    BY <2>1 DEF GX_DisableBankFor, TypeInv, NoGxCall
  <2>3. ASSUME NEW v \in Uses, v # u
        PROVE  vramCnt'[v] = vramCnt[v] /\ \A b \in vramCnt[v] : reg'[b] = reg[b]
    <3>1. vramCnt'[v] = vramCnt[v] /\ vramCnt[v] \subseteq Banks
      BY <2>2, <2>3 DEF TypeInv
    <3>2. vramCnt[v] \cap vramCnt[u] = {}
      BY <2>3 DEF GXHolds, OneUseEach
    <3> QED BY <2>2, <3>1, <3>2
  <2>4. \A b \in vramCnt'["lcdc"] : reg'[b] = LCDC
    BY <2>2, <2>3, NamesOfUses DEF Layout
  <2>5. ASSUME NEW v \in Uses \ {"lcdc"} PROVE LaidOut(v, vramCnt'[v], reg')
    <3>1. CASE v = u
      BY <2>2, <3>1, NothingIsLaidOut
    <3>2. CASE v # u
      <4>1. LaidOut(v, vramCnt[v], reg)
        BY DEF Layout
      <4> QED BY <2>3, <3>2, <4>1, StaysLaidOut
    <3> QED BY <3>1, <3>2
  <2>6. Asked'
    BY <2>2 DEF Asked
  <2>7. EnabledHasBanks'
    <3>1. enabled' = enabled \ ({u} \cap ExtPltts)
      BY <2>1 DEF GX_DisableBankFor
    <3> QED BY <2>2, <3>1, NamesOfDisplayed DEF Layout, EnabledHasBanks
  <2> QED BY <2>4, <2>5, <2>6, <2>7 DEF Layout
<1>6. CASE UnlockDisabled
  BY <1>6 DEF UnlockDisabled, Layout, Asked, EnabledHasBanks, NoGxCall
<1>7. CASE \E s \in SUBSET {"C", "D"}, full \in BOOLEAN : WVR_StartUpAsync(s, full)
  <2>1. PICK s \in SUBSET {"C", "D"}, full \in BOOLEAN : WVR_StartUpAsync(s, full)
    BY <1>7
  <2>2. UNCHANGED <<vramCnt, enabled, gx>> /\ \A b \in s : lockId[b] \in {Unlocked, WVR}
    BY <2>1 DEF WVR_StartUpAsync, CanLock
  <2>3. \A u \in Uses : \A b \in vramCnt[u] : b \in Banks /\ b \notin s
    BY <2>2 DEF GXHolds, TypeInv
  <2>4. \A b \in Banks : b \notin s => reg'[b] = reg[b]
    BY <2>1 DEF WVR_StartUpAsync
  <2>5. \A u \in Uses : \A b \in vramCnt[u] : reg'[b] = reg[b]
    BY <2>3, <2>4
  <2>6. ASSUME NEW v \in Uses \ {"lcdc"} PROVE LaidOut(v, vramCnt[v], reg')
    <3>1. LaidOut(v, vramCnt[v], reg)
      BY DEF Layout
    <3> QED BY <2>5, <3>1, StaysLaidOut
  <2> QED BY <2>2, <2>5, <2>6, NamesOfUses DEF Layout, Asked, EnabledHasBanks
<1>8. CASE UNCHANGED <<vramCnt, reg, enabled, gx>>
  BY <1>8 DEF Layout, Asked, EnabledHasBanks
<1>9. WVR_TerminateAsync \/ WvrReceiveCallback \/ WvrPxiReceiveCallback \/ WvrThreadAnswers
        \/ WvrThreadExits \/ UNCHANGED vramVars => UNCHANGED <<vramCnt, reg, enabled, gx>>
  BY DEF WVR_TerminateAsync, WvrReceiveCallback, WvrPxiReceiveCallback, WvrThreadAnswers,
         WvrThreadExits, vramVars, gxVars
<1> QED BY <1>1, <1>2, <1>3, <1>4, <1>5, <1>6, <1>7, <1>8, <1>9 DEF VramNext, GXNext

(***************************************************************************)
(* The layout of a use, and of two uses of one space.                      *)
(***************************************************************************)
Apart(r, b, c) == r[b].at + Size(b) <= r[c].at \/ r[c].at + Size(c) <= r[b].at

LEMMA SpacesOfMaps ==
    /\ LCDC.space = Space("lcdc")
    /\ \A u, s, b : Mapped(u, s, b).space = Space(u)
    /\ \A s1, s2, b : MappedEx(s1, s2, b).space = Space("bg")
  BY DEF LCDC, Space, Mapped, MappedEx

LEMMA OffsetsOfMaps ==
    ASSUME NEW s, NEW b
    PROVE  /\ Mapped("clrImg", s, b).at = 32 - SizeOf(s \ Before(s, b))
           /\ Mapped("bgExtPltt", s, b).at = IF b = "G" THEN 1 ELSE 0
<1>1. Offset("clrImg", s, b) = 32 - SizeOf(s \ Before(s, b))
  BY DEF Offset
<1>2. Offset("bgExtPltt", s, b) = IF b = "G" THEN 1 ELSE 0
  BY DEF Offset
<1>3. \A u : Mapped(u, s, b).at = Offset(u, s, b)
  BY DEF Mapped
<1> QED BY <1>1, <1>2, <1>3

LEMMA OffsetInRow ==
    ASSUME NEW u, u \notin {"lcdc", "bgExtPltt", "clrImg"}, NEW s, NEW b
    PROVE  Mapped(u, s, b).at = SizeOf(Before(s, b))
<1>1. Offset(u, s, b) = SizeOf(Before(s, b))
  BY DEF Offset
<1> QED BY <1>1 DEF Mapped

LEMMA OffsetsOfMapsEx ==
    ASSUME NEW s1, NEW s2, NEW b
    PROVE  /\ b \in s1 => MappedEx(s1, s2, b).at = SizeOf(Before(s1, b))
           /\ b \notin s1 => MappedEx(s1, s2, b).at = 8 + SizeOf(Before(s2, b))
  BY DEF MappedEx

\* The banks of a setting that has no exceptions.
LEMMA RowApart ==
    ASSUME NEW u \in Uses \ {"lcdc", "bgExtPltt", "clrImg"}, NEW s, s \subseteq Names, NEW r,
           \A b \in s : r[b] = Mapped(u, s, b),
           NEW b \in s, NEW c \in s, b # c
    PROVE  Apart(r, b, c)
<1>1. ASSUME NEW d \in s PROVE r[d].at = SizeOf(Before(s, d))
  <2>1. r[d] = Mapped(u, s, d) /\ u \notin {"lcdc", "bgExtPltt", "clrImg"}
    OBVIOUS
  <2> QED BY <2>1, OffsetInRow
<1>2. CASE Order(b) < Order(c)
  BY <1>1, <1>2, NextBegins DEF Apart
<1>3. CASE Order(c) < Order(b)
  BY <1>1, <1>3, NextBegins DEF Apart
<1> QED BY <1>2, <1>3, OrdersDiffer

LEMMA ClearImagesApart ==
    ASSUME NEW s, s \subseteq Names, NEW r, \A b \in s : r[b] = Mapped("clrImg", s, b),
           NEW b \in s, NEW c \in s, b # c
    PROVE  Apart(r, b, c)
<1>1. \A d \in s : r[d].at = 32 - SizeOf(s \ Before(s, d)) /\ Size(d) \in Nat
  BY OffsetsOfMaps, Sizes
<1>2. SizeOf(s \ Before(s, b)) \in Nat /\ SizeOf(s \ Before(s, c)) \in Nat
  BY SizeIsNumber
<1>3. CASE Order(b) < Order(c)
  <2>1. SizeOf(s \ Before(s, c)) + Size(b) <= SizeOf(s \ Before(s, b))
    BY <1>3, NextBeginsFromEnd
  <2> QED BY <1>1, <1>2, <2>1 DEF Apart
<1>4. CASE Order(c) < Order(b)
  <2>1. SizeOf(s \ Before(s, b)) + Size(c) <= SizeOf(s \ Before(s, c))
    BY <1>4, NextBeginsFromEnd
  <2> QED BY <1>1, <1>2, <2>1 DEF Apart
<1> QED BY <1>3, <1>4, OrdersDiffer

LEMMA BGPalettesApart ==
    ASSUME NEW s \in AllSettings["bgExtPltt"], NEW r, \A b \in s : r[b] = Mapped("bgExtPltt", s, b),
           NEW b \in s, NEW c \in s, b # c
    PROVE  Apart(r, b, c)
<1>1. s \in {{}, {"F"}, {"G"}, {"E"}, {"F", "G"}}
  BY DEF AllSettings
<1>2. \/ b = "F" /\ c = "G"
      \/ b = "G" /\ c = "F"
  BY <1>1
<1>3. \A d \in s : r[d].at = Mapped("bgExtPltt", s, d).at
  OBVIOUS
<1>4. Mapped("bgExtPltt", s, "F").at = 0 /\ Mapped("bgExtPltt", s, "G").at = 1
  BY OffsetsOfMaps
<1>5. Size("F") = 1 /\ Size("G") = 1
  BY DEF Size
<1>6. r["F"].at = 0 /\ r["G"].at = 1
  BY <1>2, <1>3, <1>4
<1> QED BY <1>2, <1>5, <1>6 DEF Apart

LEMMA ExtendedBGApart ==
    ASSUME NEW s1 \in BGEx1, NEW s2 \in BGEx2, NEW r,
           \A b \in s1 \cup s2 : r[b] = MappedEx(s1, s2, b),
           NEW b \in s1 \cup s2, NEW c \in s1 \cup s2, b # c
    PROVE  Apart(r, b, c)
<1>1. s1 \subseteq EFG /\ s1 \subseteq Names /\ s2 \subseteq Names /\ s1 \cap s2 = {}
  BY DEF BGEx1, BGEx2, EFG, ABCD, Names
<1>2. /\ \A d \in s1 : r[d].at = SizeOf(Before(s1, d))
      /\ \A d \in s2 : r[d].at = 8 + SizeOf(Before(s2, d))
      /\ \A d \in s1 \cup s2 : Size(d) \in Nat
      /\ \A d : SizeOf(Before(s1, d)) \in Nat /\ SizeOf(Before(s2, d)) \in Nat
  <2>1. \A d \in s1 \cup s2 : d \in Names
    BY <1>1
  <2>2. \A d \in s1 : r[d] = MappedEx(s1, s2, d)
    OBVIOUS
  <2>3. \A d \in s2 : d \notin s1 /\ r[d] = MappedEx(s1, s2, d)
    BY <1>1
  <2> QED BY <2>1, <2>2, <2>3, Sizes, SizeIsNumber, OffsetsOfMapsEx
<1>3. ASSUME NEW d \in s1, NEW e \in s2 PROVE r[d].at + Size(d) <= r[e].at
  <2>1. SizeOf(Before(s1, d)) + Size(d) <= SizeOf(s1)
    BY <1>1, LastEnds
  <2>2. SizeOf(s1) <= 8 /\ SizeOf(s1) \in Nat
    BY <1>1, SmallFit, SizeIsNumber
  <2> QED BY <1>2, <2>1, <2>2
<1>4. ASSUME NEW t, t = s1 \/ t = s2, NEW d \in t, NEW e \in t, Order(d) < Order(e)
      PROVE  r[d].at + Size(d) <= r[e].at
  <2>1. SizeOf(Before(t, d)) + Size(d) <= SizeOf(Before(t, e))
    BY <1>1, <1>4, NextBegins
  <2> QED BY <1>2, <1>4, <2>1
<1>5. CASE b \in s1 /\ c \in s1
  BY <1>1, <1>4, <1>5, OrdersDiffer DEF Apart
<1>6. CASE b \in s2 /\ c \in s2
  BY <1>1, <1>4, <1>6, OrdersDiffer DEF Apart
<1>7. CASE b \in s1 /\ c \in s2
  BY <1>3, <1>7 DEF Apart
<1>8. CASE b \in s2 /\ c \in s1
  BY <1>3, <1>8 DEF Apart
<1> QED BY <1>5, <1>6, <1>7, <1>8

LEMMA UseApart ==
    ASSUME NEW u \in Uses \ {"lcdc"}, NEW s, s \subseteq Names, NEW r, LaidOut(u, s, r),
           NEW b \in s, NEW c \in s, b # c
    PROVE  Apart(r, b, c)
<1>1. CASE s \in AllSettings[u] /\ \A d \in s : r[d] = Mapped(u, s, d)
  <2>1. CASE u = "clrImg"
    BY <1>1, <2>1, ClearImagesApart
  <2>2. CASE u = "bgExtPltt"
    BY <1>1, <2>2, BGPalettesApart
  <2>3. CASE u \notin {"clrImg", "bgExtPltt"}
    BY <1>1, <2>3, RowApart
  <2> QED BY <2>1, <2>2, <2>3
<1>2. CASE \E s1 \in BGEx1, s2 \in BGEx2 :
             s = s1 \cup s2 /\ \A d \in s : r[d] = MappedEx(s1, s2, d)
  <2>1. PICK s1 \in BGEx1, s2 \in BGEx2 :
               s = s1 \cup s2 /\ \A d \in s : r[d] = MappedEx(s1, s2, d)
    BY <1>2
  <2>2. b \in s1 \cup s2 /\ c \in s1 \cup s2 /\ \A d \in s1 \cup s2 : r[d] = MappedEx(s1, s2, d)
    BY <2>1
  <2> QED BY <2>2, ExtendedBGApart
<1> QED BY <1>1, <1>2 DEF LaidOut

\* Textures end where clear images begin.
LEMMA TexturesBelow ==
    ASSUME NEW s, NEW t, NEW r, s \cap t = {}, LaidOut("tex", s, r), LaidOut("clrImg", t, r),
           NEW b \in s, NEW c \in t
    PROVE  r[b].at + Size(b) <= r[c].at
<1>1. /\ s \subseteq ABCD /\ t \subseteq ABCD
      /\ \A d \in s : r[d] = Mapped("tex", s, d)
      /\ \A d \in t : r[d] = Mapped("clrImg", t, d)
  BY DEF LaidOut, AllSettings, ABCD
<1>2. r[b].at = SizeOf(Before(s, b)) /\ r[c].at = 32 - SizeOf(t \ Before(t, c))
  <2>1. r[b] = Mapped("tex", s, b) /\ r[c] = Mapped("clrImg", t, c)
    BY <1>1
  <2>2. Mapped("tex", s, b).at = SizeOf(Before(s, b))
    BY OffsetInRow
  <2>3. Mapped("clrImg", t, c).at = 32 - SizeOf(t \ Before(t, c))
    BY OffsetsOfMaps
  <2> QED BY <2>1, <2>2, <2>3
<1>3. s \subseteq Names
  BY <1>1 DEF ABCD, Names
<1>4. SizeOf(Before(s, b)) + Size(b) <= SizeOf(s) /\ Size(b) \in Nat
  BY <1>3, LastEnds, Sizes
<1>5. SizeOf(s) + SizeOf(t \ Before(t, c)) <= 32
  BY <1>1, SlotsSuffice
<1>6. SizeOf(s) \in Nat /\ SizeOf(t \ Before(t, c)) \in Nat /\ SizeOf(Before(s, b)) \in Nat
  BY SizeIsNumber
<1> QED BY <1>2, <1>4, <1>5, <1>6

LEMMA LayoutApart == ASSUME Inv, Layout PROVE NoAddressTwice
<1> SUFFICES ASSUME NEW u \in Uses \ {"lcdc"}, NEW v \in Uses \ {"lcdc"}, Space(u) = Space(v),
                    NEW b \in vramCnt[u], NEW c \in vramCnt[v], b # c
             PROVE  Apart(reg, b, c)
  BY DEF NoAddressTwice, Apart
<1>1. /\ LaidOut(u, vramCnt[u], reg) /\ LaidOut(v, vramCnt[v], reg)
      /\ vramCnt[u] \subseteq Names /\ vramCnt[v] \subseteq Names
  BY DEF Layout, Inv, TypeInv, Names
<1>2. CASE u = v
  BY <1>1, <1>2, UseApart
<1>3. CASE u # v
  <2>1. vramCnt[u] \cap vramCnt[v] = {}
    BY <1>3 DEF Inv, GXHolds, OneUseEach
  <2>2. \/ u = "tex" /\ v = "clrImg"
        \/ u = "clrImg" /\ v = "tex"
    BY <1>3 DEF Space
  <2>3. CASE u = "tex" /\ v = "clrImg"
    BY <1>1, <2>1, <2>3, TexturesBelow DEF Apart
  <2>4. CASE u = "clrImg" /\ v = "tex"
    BY <1>1, <2>1, <2>4, TexturesBelow DEF Apart
  <2> QED BY <2>2, <2>3, <2>4
<1> QED BY <1>2, <1>3

LEMMA LayoutMapped == ASSUME Inv, Layout PROVE UseIsMapped
<1> SUFFICES ASSUME NEW u \in Uses, NEW b \in vramCnt[u] PROVE lockId[b] = GX /\ reg[b].space = Space(u)
  BY DEF UseIsMapped
<1>1. lockId[b] = GX
  BY DEF Inv, GXHolds
<1>2. CASE u = "lcdc"
  BY <1>1, <1>2, SpacesOfMaps DEF Layout
<1>3. CASE u # "lcdc"
  <2>1. LaidOut(u, vramCnt[u], reg)
    BY <1>3 DEF Layout
  <2> QED BY <1>1, <2>1, SpacesOfMaps DEF LaidOut
<1> QED BY <1>2, <1>3

(***************************************************************************)
(* The theorems.                                                           *)
(***************************************************************************)
\* The invariant holds in every state.
LEMMA Invariance == VramSpec => []Inv
<1>1. VramInit => Inv
  <2> SUFFICES ASSUME VramInit PROVE Inv
    OBVIOUS
  <2>1. TypeInv /\ GXHolds /\ Lent
    BY NamesOfUses DEF VramInit, GXInit, NoGxCall, TypeInv, GXHolds, Lent, OneUseEach
  <2>2. ThreadStatus /\ OneCall /\ LentWhen
    BY DEF VramInit, ThreadStatus, OneCall, LentWhen, Loaded, Terminated
  <2> QED BY <2>1, <2>2 DEF Inv
<1>2. Inv /\ [VramNext]_vramVars => Inv'
  <2> SUFFICES ASSUME Inv, [VramNext]_vramVars PROVE Inv'
    OBVIOUS
  <2>1. CASE GXNext /\ UNCHANGED wvrVars
    BY <2>1, GXNextInv
  <2>2. CASE \E s \in SUBSET {"C", "D"}, full \in BOOLEAN : WVR_StartUpAsync(s, full)
    BY <2>2, StartUpInv
  <2>3. CASE WVR_TerminateAsync
    BY <2>3, TerminateInv
  <2>4. CASE WvrReceiveCallback
    BY <2>4, ReceiveInv
  <2>5. CASE WvrPxiReceiveCallback \/ WvrThreadAnswers \/ WvrThreadExits
    BY <2>5, ARM7Inv
  <2>6. CASE UNCHANGED vramVars
    BY <2>6 DEF vramVars, gxVars, wvrVars, Inv, TypeInv, GXHolds, OneUseEach, NoConflict,
                Lent, ThreadStatus, OneCall, LentWhen, Loaded, Terminated
  <2> QED BY <2>1, <2>2, <2>3, <2>4, <2>5, <2>6 DEF VramNext
<1> QED BY <1>1, <1>2, PTL DEF VramSpec

\* The wireless driver has the banks lent to it, locked and mapped to the
\* ARM7, as long as it runs and no longer, for every set of banks.
THEOREM DriverAlwaysHasItsMemory == VramSpec => []DriverHasItsMemory
<1>1. Inv => DriverHasItsMemory
  <2> SUFFICES ASSUME Inv PROVE DriverHasItsMemory
    OBVIOUS
  <2>1. DriverKeepsItsMemory
    BY DEF Inv, DriverKeepsItsMemory, LentWhen, Loaded, Terminated, Lent, TypeInv
  <2>2. LentWhileDriving
    BY DEF Inv, LentWhileDriving, LentWhen, Loaded, Terminated, Lent
  <2> QED BY <2>1, <2>2 DEF DriverHasItsMemory
<1> QED BY <1>1, Invariance, PTL

\* Between any two calls of GX and WVR the records, locks, registers and enable
\* bits of the banks agree: no bank has two uses, each is locked and mapped for its
\* use, no two banks answer one address, and an enabled palette has its banks.
THEOREM BanksAlwaysAgree == VramSpec => []BanksAgree
<1>1. VramInit => Layout
  <2> SUFFICES ASSUME VramInit PROVE Layout
    OBVIOUS
  <2>1. \A u \in Uses : vramCnt[u] = {}
    BY DEF VramInit, GXInit
  <2>2. Asked /\ EnabledHasBanks
    BY <2>1, NamesOfDisplayed DEF VramInit, GXInit, Asked, NoGxCall, EnabledHasBanks
  <2> QED BY <2>1, <2>2, NamesOfUses, NothingIsLaidOut DEF Layout
<1>2. Inv /\ Layout => BanksAgree
  BY LayoutApart, LayoutMapped DEF BanksAgree, Inv, GXHolds, Layout
<1> QED BY <1>1, <1>2, Invariance, LayoutStep, PTL DEF VramSpec
=============================================================================
