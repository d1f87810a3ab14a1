------------------------------ MODULE MCLocks -------------------------------
(***************************************************************************)
(* What blocks on the thread kernel, as three instances for TLC that share *)
(* one run: a behaviour belongs to the part it starts in, and what only    *)
(* other parts use stays as it started.  "messages" is OSMessage with the  *)
(* launcher and one other thread, "mutexes" OSMutex and "sleepers"         *)
(* OSThread with OS_Sleep and scheduler locks, both with two others.       *)
(***************************************************************************)
EXTENDS OSMutex, OSMessage, TLC

CONSTANTS a, b, x, y, q1, m1, m2, vblank

VARIABLE part

\* The calls of the parts; OSMessage itself has those of the messages.
Mutexes == INSTANCE OSMutex WITH
    Prio <- {15, 17},
    Calls <- {"create", "exit", "destroy", "kill", "sleep", "irqwakedirect",
              "lock", "trylock", "unlock"}
Sleepers == INSTANCE OSThread WITH
    ClientQueue <- {q1}, Prio <- {15, 17}, MaxDisable <- 2,
    Calls <- {"create", "kill", "exit", "sleep", "sleepdirect", "wakeup", "wakedirect",
              "sleepmsec", "irqwakeup", "disable"}

LocksSymmetry == Permutations({a, b}) \cup Permutations({m1, m2}) \cup Permutations(Message)

messageVars == <<mqVars, request, received>>

LocksInit == part \in {"messages", "mutexes", "sleepers"} /\ MutexInit /\ MessageInit

\* One of a and b is never created where messages are exchanged.
OneClient == \E t \in {a, b} : state'[t] = "none"

LocksNext ==
    \/ part = "messages" /\ MessageNext /\ OneClient /\ UNCHANGED <<part, mutexVars>>
    \/ part = "mutexes" /\ Mutexes!MutexNext /\ UNCHANGED <<part, messageVars>>
    \/ part = "sleepers" /\ Sleepers!Next /\ UNCHANGED <<part, mutexVars, messageVars>>

LocksSpec == LocksInit /\ [][LocksNext]_<<part, allVars, messageVars>>
=============================================================================
