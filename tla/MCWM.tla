-------------------------------- MODULE MCWM --------------------------------
(***************************************************************************)
(* The wireless manager as an instance for TLC: every command with one of  *)
(* them on its way at a time, and the commands of a parent two at a time.  *)
(***************************************************************************)
EXTENDS WM

VARIABLE pairs

OfParent == {"ENABLE", "POWER_ON", "START_PARENT", "START_MP", "END_MP", "DISCONNECT",
             "END_PARENT"}

WMInit == pairs \in BOOLEAN /\ Init

WMNext ==
    /\ Next /\ UNCHANGED pairs
    /\ IF pairs THEN \A i \in DOMAIN outstanding' : outstanding'[i] \in OfParent
       ELSE Len(outstanding') <= 1

WMSpec == WMInit /\ [][WMNext]_<<pairs, vars>> /\ Fairness
=============================================================================
