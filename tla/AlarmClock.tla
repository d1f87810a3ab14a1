----------------------------- MODULE AlarmClock -----------------------------
(***************************************************************************)
(* What the alarms of the OS library promise, without queue or timer: an   *)
(* alarm that is set goes off when its time has come and no alarm that is  *)
(* set was to go off before it.  Times are relative to now, and a time     *)
(* that has passed is -1 however long ago it was.                          *)
(***************************************************************************)
EXTENDS Integers

CONSTANTS Alarm, NULL

VARIABLES
    pending,    \* the alarms that are set and have not gone off
    left,       \* the time until each of them is to go off
    running     \* the alarm whose handler runs, or NULL

clockVars == <<pending, left, running>>

Earliest(a) == a \in pending /\ \A b \in pending : left[a] <= left[b]

Init == pending = {} /\ running = NULL /\ left \in [Alarm -> {-1}]

Set(a) ==
    /\ a \notin pending
    /\ pending' = pending \cup {a}
    /\ left'[a] >= 0 /\ \A b \in pending : left'[b] = left[b]
    /\ UNCHANGED running

Cancel ==
    /\ pending' \subseteq pending
    /\ \A b \in pending' : left'[b] = left[b]
    /\ UNCHANGED running

GoOff(a) ==
    /\ running = NULL
    /\ Earliest(a) /\ left[a] <= 0
    /\ pending' = pending \ {a}
    /\ running' = a
    /\ \A b \in pending' : left'[b] = left[b]

\* The handler returns; a periodic alarm is set again.
Return ==
    /\ running # NULL /\ running' = NULL
    /\ pending' \in {pending, pending \cup {running}}
    /\ \A b \in pending' : IF b \in pending THEN left'[b] = left[b] ELSE left'[b] >= 0

Tick ==
    /\ left' = [a \in Alarm |-> IF left[a] < 0 THEN -1 ELSE left[a] - 1]
    /\ UNCHANGED <<pending, running>>

Next == (\E a \in Alarm : Set(a) \/ GoOff(a)) \/ Cancel \/ Return \/ Tick

Spec == Init /\ [][Next]_clockVars
=============================================================================
