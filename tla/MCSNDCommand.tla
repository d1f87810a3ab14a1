---------------------------- MODULE MCSNDCommand ----------------------------
(***************************************************************************)
(* Instances of SNDCommand for TLC.                                        *)
(***************************************************************************)
EXTENDS SNDCommand

CONSTANTS a, b, c1, c2, c3
=============================================================================
