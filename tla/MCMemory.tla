------------------------------ MODULE MCMemory ------------------------------
(***************************************************************************)
(* The OS library's structures that are linked through their own objects,  *)
(* the alarm queue and the heaps, as two instances for TLC that share one  *)
(* run: a behaviour is one of the alarms or one of the heaps, and the      *)
(* other's state stays as it started.                                      *)
(***************************************************************************)
EXTENDS OSAlarm, TLC

CONSTANTS a1, a2, a3, ArenaSize, NumHeaps, Requests

VARIABLES part, cell, heap, currentHeap, fixed

heapsVars == <<cell, heap, currentHeap, fixed>>

\* OSAlarm itself is the instance of the alarms.
Heaps == INSTANCE OSHeap

AlarmSymmetry == Permutations(Alarm)

\* Starts that have passed and starts to come.
PastAndFuture == {-1, 1}

MemoryInit == part \in {"alarms", "heaps"} /\ AlarmInit /\ Heaps!Init

MemoryNext ==
    \/ part = "alarms" /\ AlarmNext /\ UNCHANGED <<part, heapsVars>>
    \/ part = "heaps" /\ Heaps!Next /\ UNCHANGED <<part, alarmVars>>

MemorySpec == MemoryInit /\ [][MemoryNext]_<<part, heapsVars, alarmVars>>

-----------------------------------------------------------------------------
(* The properties of the instances.  *)

\* OS_CheckHeap finds nothing wrong, and no memory has two uses, whatever is called.
HeapsAreSound == part = "heaps" => Heaps!HeapsCheck /\ Heaps!MemoryHasOneUse
=============================================================================
