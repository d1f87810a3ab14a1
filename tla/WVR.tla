-------------------------------- MODULE WVR --------------------------------
(***************************************************************************)
(* The wireless VRAM switch: the ARM9 lends the ARM7 the banks C and D for *)
(* the wireless driver (libraries/wvr/src/wvr.c), the ARM7 loads and       *)
(* unloads it in a thread of its own (wvr/src/ARM7/wvr.c).  The ARM9's     *)
(* calls run with interrupts disabled.  At most one command is under way,  *)
(* so each FIFO holds at most one word of the tag; other tags may fill it. *)
(***************************************************************************)
EXTENDS GXVram

VARIABLES wvrVRam,      \* the banks lent, {} when none
          wvrCallback,  \* the call that waits for its answer, "none" when NULL
          toARM7,       \* the command on its way, "none" when there is none
          toARM9,       \* the answer on its way
          wvrStatus,    \* ARM7: READY, LOADING, DRIVING or UNLOADING
          wvrThread,    \* ARM7: the thread's progress, "dead" when there is none
          refused       \* a start has been answered ILLEGAL_STATUS

wvrVars == <<wvrVRam, wvrCallback, toARM7, toARM9, wvrStatus, wvrThread, refused>>
vramVars == <<gxVars, wvrVars>>

NoAnswer == [command |-> "none", result |-> "SUCCESS"]

\* WVR_Init on the ARM7.
VramInit ==
    /\ GXInit
    /\ wvrVRam = {} /\ wvrCallback = "none"
    /\ toARM7 = "none" /\ toARM9 = NoAnswer
    /\ wvrStatus = "READY" /\ wvrThread = "dead"
    /\ refused = FALSE

(***************************************************************************)
(* ARM9.                                                                   *)
(***************************************************************************)
\* WVR_StartUpAsync: the banks are locked and mapped to the ARM7, then the
\* command is sent.  A full FIFO undoes the lock and leaves the registers.
WVR_StartUpAsync(s, full) ==
    /\ s \in Settings("arm7") \ {{}}
    /\ wvrCallback = "none" /\ wvrVRam = {}
    /\ CanLock(s, WVR)
    /\ reg' = [b \in Banks |-> IF b \in s THEN Mapped("arm7", s, b) ELSE reg[b]]
    /\ IF full THEN UNCHANGED <<lockId, wvrVRam, wvrCallback, toARM7>>
       ELSE /\ lockId' = Locked(s, WVR) /\ wvrVRam' = s
            /\ wvrCallback' = "STARTUP" /\ toARM7' = "STARTUP"
    /\ UNCHANGED <<vramCnt, enabled, gx, toARM9, wvrStatus, wvrThread, refused>>

WVR_TerminateAsync ==
    /\ wvrCallback = "none"
    /\ wvrCallback' = "TERMINATE" /\ toARM7' = "TERMINATE"
    /\ UNCHANGED <<gxVars, wvrVRam, toARM9, wvrStatus, wvrThread, refused>>

\* Mutation: the banks are returned with every answer to WVR_TerminateAsync.
ReturnsBanks_AnyTerminate(a) == a.command = "TERMINATE"

\* The banks are returned when the ARM7 has ended, or when it answers a
\* start with FATAL_ERROR; no other refusal of a start returns them.
ReturnsBanks(a) ==
    \/ a.command = "STARTUP" /\ a.result = "FATAL_ERROR"
    \/ a.command = "TERMINATE" /\ a.result = "SUCCESS"

WvrReceiveCallback ==
    LET a == toARM9 IN
    /\ a # NoAnswer
    /\ toARM9' = NoAnswer
    /\ IF ReturnsBanks(a)
       THEN lockId' = Released(wvrVRam, WVR) /\ wvrVRam' = {}
       ELSE UNCHANGED <<lockId, wvrVRam>>
    /\ wvrCallback' = "none"
    /\ refused' = (refused \/ a = [command |-> "STARTUP", result |-> "ILLEGAL_STATUS"])
    /\ UNCHANGED <<vramCnt, reg, enabled, gx, toARM7, wvrStatus, wvrThread>>

(***************************************************************************)
(* ARM7.                                                                   *)
(***************************************************************************)
\* WvrPxiReceiveCallback, in the interrupt: a command that comes while the
\* thread of the last one still runs, or in the wrong status, is refused.
\* An answer is sent in a loop until the FIFO takes it.
WvrPxiReceiveCallback ==
    LET fits == IF toARM7 = "STARTUP" THEN "READY" ELSE "DRIVING" IN
    /\ toARM7 # "none"
    /\ IF wvrThread = "dead" /\ wvrStatus = fits
       THEN /\ wvrStatus' = IF toARM7 = "STARTUP" THEN "LOADING" ELSE "UNLOADING"
            /\ wvrThread' = "work"
            /\ UNCHANGED toARM9
       ELSE /\ toARM9' = [command |-> toARM7, result |-> "ILLEGAL_STATUS"]
            /\ UNCHANGED <<wvrStatus, wvrThread>>
    /\ toARM7' = "none"
    /\ UNCHANGED <<gxVars, wvrVRam, wvrCallback, refused>>

\* WvrStartUpThread and WvrTerminateThread answer before they change the
\* status and end.
WvrThreadAnswers ==
    /\ wvrThread = "work"
    /\ toARM9' = [command |-> IF wvrStatus = "LOADING" THEN "STARTUP" ELSE "TERMINATE",
                  result |-> "SUCCESS"]
    /\ wvrThread' = "answered"
    /\ UNCHANGED <<gxVars, wvrVRam, wvrCallback, toARM7, wvrStatus, refused>>

WvrThreadExits ==
    /\ wvrThread = "answered"
    /\ wvrStatus' = IF wvrStatus = "LOADING" THEN "DRIVING" ELSE "READY"
    /\ wvrThread' = "dead"
    /\ UNCHANGED <<gxVars, wvrVRam, wvrCallback, toARM7, toARM9, refused>>

VramNext ==
    \/ GXNext /\ UNCHANGED wvrVars
    \/ \E s \in SUBSET {"C", "D"}, full \in BOOLEAN : WVR_StartUpAsync(s, full)
    \/ WVR_TerminateAsync
    \/ WvrReceiveCallback
    \/ WvrPxiReceiveCallback
    \/ WvrThreadAnswers
    \/ WvrThreadExits

VramSpec == VramInit /\ [][VramNext]_vramVars

(***************************************************************************)
(* Properties.                                                             *)
(***************************************************************************)
\* The driver's code and data stand in the banks lent: while the ARM7 has
\* them, they are locked for WVR and mapped to the ARM7, whatever GX does.
DriverKeepsItsMemory ==
    wvrStatus \in {"LOADING", "DRIVING"} \/ wvrThread = "work" =>
        /\ wvrVRam # {}
        /\ \A b \in wvrVRam : lockId[b] = WVR /\ reg[b] = Mapped("arm7", wvrVRam, b)

\* Locks and the two processors' views agree when no call is under way: the
\* banks are lent exactly while the driver runs, unless a start that came
\* before the ending thread had exited was refused: then they stay lent.
LentWhileDriving ==
    /\ \A b \in Banks : lockId[b] = WVR <=> b \in wvrVRam
    /\ wvrCallback = "none" /\ ~refused =>
        (wvrVRam # {} <=> wvrStatus \in {"LOADING", "DRIVING"})

\* The driver has its memory as long as it runs, and no longer.
DriverHasItsMemory == DriverKeepsItsMemory /\ LentWhileDriving
=============================================================================
