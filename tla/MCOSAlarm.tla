----------------------------- MODULE MCOSAlarm ------------------------------
(***************************************************************************)
(* Instances of OSAlarm for TLC.                                           *)
(***************************************************************************)
EXTENDS OSAlarm

CONSTANTS a1, a2, a3

AlarmSymmetry == Permutations(Alarm)

\* Starts that have passed and starts to come.
PastAndFuture == {-1, 1}
=============================================================================
