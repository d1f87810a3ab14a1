----------------------------- MODULE MCOSThread -----------------------------
(***************************************************************************)
(* Instances of OSThread for TLC.                                          *)
(***************************************************************************)
EXTENDS OSThread

CONSTANTS a, b, q1, vblank, timer

UserSymmetry == Permutations(User)

\* The life of threads, but for OS_Sleep and the scheduler lock: the sleepers of
\* MCLocks call them.
LifeNext == Next /\ UNCHANGED <<rescheduleCount, sleepAlarm>>

LifeSpec == Init /\ [][LifeNext]_vars
=============================================================================
