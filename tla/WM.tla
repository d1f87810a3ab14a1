--------------------------------- MODULE WM ---------------------------------
(***************************************************************************)
(* The wireless manager: the ARM9's commands (libraries/wm/src/wm_system.c,*)
(* wm_standard.c, wm_mp.c, wm_etc.c), the request thread of the ARM7 that  *)
(* executes them (wm/src/ARM7/wmsp_request.c, req_*.c), its indicate       *)
(* thread that handles what the wireless driver reports (wmsp_indicate.c), *)
(* and the one buffer both threads answer through (wmsp_system.c).         *)
(*                                                                         *)
(* The driver (wl_arm7) is external: every request of WMSP_WL_xxx may      *)
(* succeed or fail, and while a station is up it may report that a child   *)
(* has associated, that the peer has gone, or that the link has failed.    *)
(* The indicate thread is more urgent than the request thread              *)
(* (wvr/src/ARM7/wvr.c): the latter moves only while the former has        *)
(* nothing to do or sleeps at the mutex, and where the request thread has  *)
(* interrupts disabled nothing is reported.                                *)
(***************************************************************************)
EXTENDS Integers, Sequences, FiniteSets, SequencesExt

CONSTANTS Aids,         \* the children's association IDs, 1 .. WM_NUM_MAX_CHILD
          NumBufs,      \* WM_BUF_MSG_NUM, the command buffers of the ARM9
          MaxCommands,  \* bound: commands without an answer
          MaxInternal   \* bound: requests of the indicate thread in requestQ

ASSUME WMAssumption ==
    /\ Aids \subseteq 1 .. 15 /\ NumBufs \in Nat \ {0}
    /\ MaxCommands \in Nat \ {0} /\ MaxInternal \in Nat

VARIABLES
    status,       \* WMStatus: state, child_bitmap, mp_flag, pparam.entryFlag, mode
    wl,           \* what the driver is: "idle", "class1", "parent" or "child"
    connectedAids,\* ARM9: connectedAidBitmap
    head,         \* ARM9: the buffer at the head of bufMsgQ, which keeps their order
    accepted,     \* the buffers marked WM_API_REQUEST_ACCEPTED
    outstanding,  \* the commands sent and not yet answered, in their order
    requestQ,     \* ARM7: [api, aids, entry, buf], buf = 0 for an internal request
    request,      \* ARM7: the request thread
    indicate,     \* ARM7: the callbacks the indicate thread still has to send
    exclusive,    \* ARM7: who owns fifoExclusive
    callbackFlag, \* WM_EXCEPTION_CB_MASK of wm_callback_control
    fifo7to9,     \* the callback in the shared buffer
    word          \* a word of the tag is on its way to the ARM9

vars == <<status, wl, connectedAids, head, accepted, outstanding, requestQ, request,
          indicate, exclusive, callbackFlag, fifo7to9, word>>
cmdVars == <<head, accepted, outstanding>>
cbVars == <<exclusive, callbackFlag, fifo7to9, word>>

Parents == {"PARENT", "MP_PARENT"}
Children == {"CHILD", "MP_CHILD"}

\* Callbacks: the last answer to a command, a progress report of
\* WM_StartConnect, and the changes of connections.
Cb(api, kind, result, aid) == [api |-> api, kind |-> kind, result |-> result, aid |-> aid]
Answer(api, result) == Cb(api, "answer", result, 0)
NoCb == Answer("none", "SUCCESS")
Gone(aid) == Cb(IF aid = 0 THEN "START_CONNECT" ELSE "START_PARENT", "disconnected", "SUCCESS", aid)

Resting == [api |-> "none", aids |-> {}, entry |-> FALSE, buf |-> 0,
            stage |-> "rest", calls |-> <<>>, masked |-> FALSE]

\* After WM_Init: the ARM7 is READY.
Init ==
    /\ status = [state |-> "READY", children |-> {}, mp |-> FALSE, entry |-> FALSE]
    /\ wl = "idle"
    /\ connectedAids = {}
    /\ head = 1 /\ accepted = 1 .. NumBufs /\ outstanding = <<>>
    /\ requestQ = <<>> /\ request = Resting
    /\ indicate = <<>>
    /\ exclusive = "none" /\ callbackFlag = FALSE /\ fifo7to9 = NoCb /\ word = FALSE

(***************************************************************************)
(* ARM9: the commands.  WMi_CheckState looks at the ARM7's state.          *)
(***************************************************************************)
AllowedIn == [
    ENABLE |-> {"READY"}, DISABLE |-> {"STOP"}, POWER_ON |-> {"STOP"}, POWER_OFF |-> {"IDLE"},
    RESET |-> {"IDLE", "CLASS1", "SCAN"} \cup Parents \cup Children,
    SET_P_PARAM |-> {"IDLE"}, START_PARENT |-> {"IDLE"}, END_PARENT |-> {"PARENT"},
    SET_ENTRY |-> Parents,
    START_SCAN |-> {"IDLE", "CLASS1", "SCAN"}, END_SCAN |-> {"SCAN"},
    START_CONNECT |-> {"IDLE"}, DISCONNECT |-> Parents \cup Children,
    START_MP |-> {"PARENT", "CHILD"}, END_MP |-> {"MP_PARENT", "MP_CHILD"}]
Apis == DOMAIN AllowedIn

\* WM_DisconnectChildren, WM_Disconnect: the ARM9 names a child that is there.
Arguments(api) ==
    IF api # "DISCONNECT" THEN {{}}
    ELSE IF status.state \in Parents
         THEN {s \in SUBSET Aids : s \cap status.children # {}}
         ELSE {{0}}

Callable(api) ==
    /\ status.state \in AllowedIn[api]
    /\ api = "START_MP" => ~status.mp
    /\ api = "END_MP" => status.mp

Next9(b) == (b % NumBufs) + 1

\* WM_xxx and WMi_SendCommand.  The buffer at the head is taken if the ARM7
\* has done with it; when the FIFO is full the command is dropped, and its
\* buffer, no longer marked, goes to the tail all the same.
WMi_SendCommand(api, aids, entry, full) ==
    /\ Callable(api)
    /\ Len(outstanding) < MaxCommands
    /\ connectedAids' = IF api \in {"START_PARENT", "START_CONNECT"} THEN {} ELSE connectedAids
    /\ IF head \notin accepted THEN UNCHANGED <<cmdVars, requestQ>>
       ELSE /\ accepted' = accepted \ {head}
            /\ head' = Next9(head)
            /\ IF full THEN UNCHANGED <<outstanding, requestQ>>
               ELSE /\ outstanding' = Append(outstanding, api)
                    /\ requestQ' = Append(requestQ,
                            [api |-> api, aids |-> aids, entry |-> entry, buf |-> head])
    /\ UNCHANGED <<status, wl, request, indicate, cbVars>>

\* Mutation: only an answer leaves the switch for the line that clears the flag.
ClearFlag_AfterAnswer == callbackFlag' = (fifo7to9.kind # "answer")

ClearFlag == callbackFlag' = FALSE

\* WmReceiveFifo: the callback in the buffer is handled, then the flag is
\* cleared, which lets the ARM7 write the next one.
WmReceiveFifo ==
    LET cb == fifo7to9 IN
    /\ word
    /\ word' = FALSE /\ ClearFlag /\ fifo7to9' = NoCb  \* not read again
    /\ connectedAids' = CASE cb.kind = "connected" -> connectedAids \cup {cb.aid}
                          [] cb.kind = "disconnected" -> connectedAids \ {cb.aid}
                          [] OTHER -> connectedAids
    /\ outstanding' = IF outstanding # <<>> /\ cb.kind \in {"answer", "connected"}
                         /\ cb.api = Head(outstanding) /\ (cb.kind = "connected" => cb.aid = 0)
                      THEN Tail(outstanding) ELSE outstanding
    /\ UNCHANGED <<status, wl, head, accepted, requestQ, request, indicate, exclusive>>

(***************************************************************************)
(* ARM7: WMSP_GetBuffer4Callback2Wm9 locks the mutex and waits for the     *)
(* flag; WMSP_ReturnResult2Wm9 sends the word and unlocks.                 *)
(***************************************************************************)
GetBuffer(who) ==
    /\ exclusive = "none" /\ exclusive' = who
    /\ UNCHANGED <<callbackFlag, fifo7to9, word>>

\* Mutation: the flag of the callback before is not waited for.
ReturnResult_NoWait(who, cb) ==
    /\ exclusive = who
    /\ callbackFlag' = TRUE /\ fifo7to9' = cb /\ word' = TRUE
    /\ exclusive' = "none"

ReturnResult(who, cb) ==
    /\ exclusive = who /\ ~callbackFlag
    /\ callbackFlag' = TRUE /\ fifo7to9' = cb /\ word' = TRUE
    /\ exclusive' = "none"

(***************************************************************************)
(* The indicate thread.                                                    *)
(***************************************************************************)
\* It runs before the request thread unless it sleeps at the mutex.
RequestMayRun == indicate = <<>> \/ exclusive = "request"

Reported == status.state \notin {"READY", "STOP"} /\ indicate = <<>> /\ ~request.masked

\* A request of its own goes into requestQ (from a pool of 32 buffers).
Internal(api, aids) ==
    /\ Cardinality({i \in DOMAIN requestQ : requestQ[i].buf = 0}) < MaxInternal
    /\ requestQ' = Append(requestQ, [api |-> api, aids |-> aids, entry |-> FALSE, buf |-> 0])

IndicateMlmeAssociate(aid) ==
    /\ Reported /\ wl = "parent" /\ aid \in Aids
    /\ IF ~status.entry
       THEN Internal("AUTO_DEAUTH", {aid}) /\ UNCHANGED <<status, indicate>>
       ELSE /\ status' = [status EXCEPT !.children = @ \cup {aid}]
            /\ indicate' = <<Cb("START_PARENT", "connected", "SUCCESS", aid)>>
            /\ UNCHANGED requestQ
    /\ UNCHANGED <<wl, connectedAids, cmdVars, request, cbVars>>

\* Mutation: MP goes on when the parent goes.
Left_InMp == [status EXCEPT !.children = {}, !.state = "CLASS1"]

\* What a child is when its parent has gone.
Left == [status EXCEPT !.children = {}, !.mp = FALSE, !.state = "CLASS1"]

\* A peer has left.  In any state but PARENT and MP_PARENT the thread takes
\* the station for a child.
IndicateMlmeDeAuthenticate(aid) ==
    /\ Reported
    /\ \/ wl = "parent" /\ aid \in Aids /\ wl' = wl
       \/ wl = "child" /\ aid = 0 /\ wl' = "class1"
    /\ IF status.state \in Parents
       THEN /\ aid \in status.children
            /\ status' = [status EXCEPT !.children = @ \ {aid}]
            /\ indicate' = <<Gone(aid)>>
       ELSE IF status.children = {} THEN UNCHANGED <<status, indicate>>
       ELSE status' = Left /\ indicate' = <<Gone(0)>>
    /\ UNCHANGED <<connectedAids, cmdVars, requestQ, request, cbVars>>

\* A changed tgid (child), a child that answers no poll for its life time, or
\* a fatal error: the link is to be closed by the request thread.
IndicateLinkFailure(aids) ==
    /\ Reported
    /\ \/ status.state \in Children /\ aids = {0}
       \/ status.state = "MP_PARENT" /\ \E a \in status.children : aids = {a}
       \/ status.state \in Parents /\ aids = Aids
    /\ Internal("AUTO_DISCONNECT", aids)
    /\ UNCHANGED <<status, wl, connectedAids, cmdVars, request, indicate, cbVars>>

IndicateGetsBuffer ==
    /\ indicate # <<>> /\ exclusive # "indicate"
    /\ GetBuffer("indicate")
    /\ UNCHANGED <<status, wl, connectedAids, cmdVars, requestQ, request, indicate>>

IndicateReturns ==
    /\ indicate # <<>>
    /\ ReturnResult("indicate", Head(indicate))
    /\ indicate' = Tail(indicate)
    /\ UNCHANGED <<status, wl, connectedAids, cmdVars, requestQ, request>>

(***************************************************************************)
(* The request thread.  request.calls are the callbacks it has to send     *)
(* before it goes on at request.stage; between two steps the driver works, *)
(* and reports.                                                            *)
(***************************************************************************)
WMSP_RequestThread ==
    /\ request.stage = "rest" /\ RequestMayRun /\ requestQ # <<>>
    /\ LET r == Head(requestQ) IN
       request' = [Resting EXCEPT !.api = r.api, !.aids = r.aids, !.entry = r.entry,
                                  !.buf = r.buf, !.stage = "start"]
    /\ requestQ' = Tail(requestQ)
    /\ UNCHANGED <<status, wl, connectedAids, cmdVars, indicate, cbVars>>

\* The handler has returned: the buffer is marked and may be used again.
RequestDone ==
    /\ request.stage = "done" /\ request.calls = <<>> /\ RequestMayRun
    /\ request' = Resting
    /\ accepted' = accepted \cup ({request.buf} \ {0})
    /\ UNCHANGED <<status, wl, connectedAids, head, outstanding, requestQ, indicate, cbVars>>

RequestGetsBuffer ==
    /\ request.calls # <<>> /\ RequestMayRun
    /\ GetBuffer("request")
    /\ UNCHANGED <<status, wl, connectedAids, cmdVars, requestQ, request, indicate>>

\* WMSP_StartParent enters PARENT while it owns the buffer.
RequestReturns ==
    /\ request.calls # <<>>
    /\ ReturnResult("request", Head(request.calls))
    /\ request' = [request EXCEPT !.calls = Tail(@),
                       !.masked = IF request.stage = "done" THEN FALSE ELSE @]
    /\ status' = IF request.stage = "done" /\ Head(request.calls) = Answer("START_PARENT", "SUCCESS")
                 THEN [status EXCEPT !.state = "PARENT"] ELSE status
    /\ UNCHANGED <<wl, connectedAids, cmdVars, requestQ, indicate>>

At(stage) == request.stage = stage /\ request.calls = <<>> /\ RequestMayRun
Serves(api) == At("start") /\ request.api = api
Automatic == request.api = "AUTO_DISCONNECT"

GoTo(stage, calls) == request' = [request EXCEPT !.stage = stage, !.calls = calls]
Ends(result) == GoTo("done", <<Answer(request.api, result)>>)

HandlerVars == <<connectedAids, cmdVars, requestQ, indicate, cbVars>>

\* What the handlers ask of the state; the others do not look.
ServedIn == [
    DISABLE |-> {"STOP"}, POWER_ON |-> {"STOP"}, POWER_OFF |-> {"IDLE"},
    START_PARENT |-> {"IDLE"}, END_PARENT |-> {"PARENT"},
    START_SCAN |-> {"IDLE", "CLASS1", "SCAN"}, END_SCAN |-> {"SCAN"},
    START_CONNECT |-> {"IDLE"}, END_MP |-> {"MP_PARENT", "MP_CHILD"},
    DISCONNECT |-> Parents \cup Children, AUTO_DISCONNECT |-> Parents \cup Children]

Legal == request.api \in DOMAIN ServedIn => status.state \in ServedIn[request.api]

IllegalState ==
    /\ At("start") /\ ~Legal
    /\ IF Automatic THEN GoTo("done", <<>>) ELSE Ends("ILLEGAL_STATE")
    /\ UNCHANGED <<status, wl, HandlerVars>>

WMSP_Enable ==
    /\ Serves("ENABLE")
    /\ status' = [status EXCEPT !.mp = FALSE, !.children = {}, !.state = "STOP"]
    /\ Ends("SUCCESS")
    /\ UNCHANGED <<wl, HandlerVars>>

WMSP_Disable ==
    /\ Serves("DISABLE") /\ Legal
    /\ status' = [status EXCEPT !.state = "READY"]
    /\ Ends("SUCCESS")
    /\ UNCHANGED <<wl, HandlerVars>>

\* WMSPi_CommonWlIdle restarts the driver, which may fail.
WMSP_PowerOn ==
    /\ Serves("POWER_ON") /\ Legal
    /\ \/ Ends("SUCCESS") /\ status' = [status EXCEPT !.state = "IDLE"] /\ wl' = "idle"
       \/ Ends("FAILED") /\ UNCHANGED <<status, wl>>
    /\ UNCHANGED HandlerVars

WMSP_PowerOff ==
    /\ Serves("POWER_OFF") /\ Legal
    /\ \/ Ends("SUCCESS") /\ status' = [status EXCEPT !.state = "STOP"]
       \/ Ends("FAILED") /\ UNCHANGED status
    /\ UNCHANGED <<wl, HandlerVars>>

\* The entry flag is taken over before the parameters are looked at.
WMSP_SetParentParam ==
    /\ Serves("SET_P_PARAM")
    /\ status' = [status EXCEPT !.entry = request.entry]
    /\ Ends("SUCCESS") \/ Ends("FAILED")
    /\ UNCHANGED <<wl, HandlerVars>>

WMSP_SetEntry ==
    /\ Serves("SET_ENTRY")
    /\ status' = [status EXCEPT !.entry = request.entry]
    /\ Ends("SUCCESS") \/ Ends("FAILED")
    /\ UNCHANGED <<wl, HandlerVars>>

\* The bitmap is cleared, then the driver is told parameters and class.
WMSP_StartParent ==
    /\ Serves("START_PARENT") /\ Legal
    /\ \/ Ends("INVALID_PARAM") /\ UNCHANGED status
       \/ GoTo("starting", <<>>) /\ status' = [status EXCEPT !.children = {}]
    /\ UNCHANGED <<wl, HandlerVars>>

\* WMSP_WL_MlmeStart: children may come before the state is PARENT.
StartParentInDriver ==
    /\ At("starting")
    /\ \/ wl' = "parent" /\ Ends("SUCCESS")
       \/ wl' \in {wl, "class1"} /\ Ends("FAILED")
    /\ UNCHANGED <<status, HandlerVars>>

WMSP_EndParent ==
    /\ Serves("END_PARENT") /\ Legal
    /\ status' = [status EXCEPT !.entry = FALSE]
    /\ request' = [request EXCEPT !.stage = "children", !.aids = Aids]
    /\ UNCHANGED <<wl, HandlerVars>>

\* The loop over the children named: the next of them that is there is
\* deauthenticated; it is gone if it still was there after that.
NextChild ==
    /\ At("children")
    /\ LET there == request.aids \cap status.children IN
       IF there = {}
       THEN CASE request.api = "END_PARENT" -> GoTo("reset", <<>>)
              [] Automatic -> GoTo("done", <<>>)
              [] OTHER -> Ends("SUCCESS")
       ELSE request' = [request EXCEPT !.stage = "deauth",
                            !.aids = {a \in @ : a >= Min(there)}]
    /\ UNCHANGED <<status, wl, HandlerVars>>

ChildDeauthenticated ==
    LET aid == Min(request.aids) IN
    /\ At("deauth")
    /\ \/ /\ request' = [request EXCEPT !.stage = "children", !.aids = @ \ {aid},
                             !.calls = IF aid \in status.children THEN <<Gone(aid)>> ELSE <<>>]
          /\ status' = [status EXCEPT !.children = @ \ {aid}]
       \/ request.api # "END_PARENT" /\ Ends("FAILED") /\ UNCHANGED status
    /\ UNCHANGED <<wl, HandlerVars>>

\* MlmeReset, the state CLASS1, DevIdle, the state IDLE: the end of a parent
\* and of a child that leaves.
ResetDriver ==
    /\ At("reset")
    /\ \/ GoTo("idle", <<>>) /\ status' = [status EXCEPT !.state = "CLASS1"] /\ wl' = "class1"
       \/ Ends("FAILED") /\ UNCHANGED <<status, wl>>
    /\ UNCHANGED HandlerVars

IdleDriver ==
    /\ At("idle")
    /\ \/ /\ status' = [status EXCEPT !.state = "IDLE"] /\ wl' = "idle"
          /\ CASE request.api = "END_PARENT" -> Ends("SUCCESS")
               [] Automatic -> GoTo("done", <<Gone(0)>>)
               [] OTHER -> GoTo("done", <<Gone(0), Answer(request.api, "SUCCESS")>>)
       \/ Ends("FAILED") /\ UNCHANGED <<status, wl>>
    /\ UNCHANGED HandlerVars

\* WMSP_DisconnectCore, the parent's part and the child's.
WMSP_Disconnect ==
    /\ At("start") /\ request.api \in {"DISCONNECT", "AUTO_DISCONNECT"} /\ Legal
    /\ IF status.state \in Parents
       THEN GoTo("children", <<>>) /\ UNCHANGED status
       ELSE IF status.children = {}
       THEN /\ IF Automatic THEN GoTo("done", <<>>) ELSE Ends("ILLEGAL_STATE")
            /\ UNCHANGED status
       ELSE /\ GoTo("leave", <<>>)
            /\ status' = [status EXCEPT !.children = {}, !.mp = FALSE,
                   !.state = IF status.mp THEN "CHILD" ELSE @]
    /\ UNCHANGED <<wl, HandlerVars>>

LeaveParent ==
    /\ At("leave")
    /\ \/ GoTo("reset", <<>>) /\ status' = [status EXCEPT !.state = "CLASS1"]
       \/ Ends("FAILED") /\ UNCHANGED status
    /\ UNCHANGED <<wl, HandlerVars>>

\* The scan functions: the driver is brought to class 1 if it is idle.
WMSP_StartScan ==
    /\ Serves("START_SCAN") /\ Legal
    /\ \/ Ends("INVALID_PARAM") /\ UNCHANGED <<status, wl>>
       \/ /\ wl' = "class1"
          /\ \/ Ends("FAILED") /\ status' = [status EXCEPT !.state = "CLASS1"]
             \/ \E result \in {"SUCCESS", "FAILED"} :
                    Ends(result) /\ status' = [status EXCEPT !.state = "SCAN"]
    /\ UNCHANGED HandlerVars

WMSP_EndScan ==
    /\ Serves("END_SCAN") /\ Legal
    /\ \/ /\ status' = [status EXCEPT !.state = "IDLE"] /\ wl' = "idle"
          /\ Ends("SUCCESS") \/ Ends("FAILED")
       \/ Ends("FAILED") /\ UNCHANGED <<status, wl>>
    /\ UNCHANGED HandlerVars

WMSP_StartConnectEx ==
    /\ Serves("START_CONNECT") /\ Legal
    /\ \/ Ends("FAILED")
       \/ GoTo("connecting", <<Cb("START_CONNECT", "started", "SUCCESS", 0)>>)
    /\ UNCHANGED <<status, wl, HandlerVars>>

\* Class 1, join, authenticate, associate; each may fail.
ConnectInDriver ==
    /\ At("connecting")
    /\ \/ Ends("FAILED") /\ UNCHANGED <<status, wl>>
       \/ /\ status' = [status EXCEPT !.state = "CLASS1"]
          /\ \/ wl' = "class1" /\ Ends("FAILED")
             \/ wl' = "child" /\ GoTo("associated", <<>>)
    /\ UNCHANGED HandlerVars

\* With interrupts disabled until the ARM9 has been told.
Connected ==
    /\ At("associated")
    /\ status' = [status EXCEPT !.children = {0}, !.state = "CHILD"]
    /\ request' = [request EXCEPT !.stage = "done", !.masked = TRUE,
                       !.calls = <<Cb("START_CONNECT", "connected", "SUCCESS", 0)>>]
    /\ UNCHANGED <<wl, HandlerVars>>

\* With interrupts disabled from the new state to mp_flag.
WMSP_StartMP ==
    /\ Serves("START_MP")
    /\ \/ Ends("INVALID_PARAM") /\ UNCHANGED status
       \/ IF status.state \in {"PARENT", "CHILD"}
          THEN /\ status' = [status EXCEPT !.mp = FALSE,
                      !.state = IF @ = "PARENT" THEN "MP_PARENT" ELSE "MP_CHILD"]
               /\ request' = [request EXCEPT !.stage = "mpstarted", !.masked = TRUE,
                                  !.calls = <<Answer("START_MP", "SUCCESS")>>]
          ELSE Ends("ILLEGAL_STATE") /\ status' = [status EXCEPT !.mp = FALSE]
    /\ UNCHANGED <<wl, HandlerVars>>

\* mp_flag is set when the answer is on its way; the mode of the driver set
\* after that may fail, which is a second answer.
MpStarted ==
    /\ At("mpstarted")
    /\ status' = [status EXCEPT !.mp = TRUE]
    /\ \E calls \in {<<>>, <<Cb("START_MP", "late", "FAILED", 0)>>} :
          request' = [request EXCEPT !.stage = "done", !.masked = FALSE, !.calls = calls]
    /\ UNCHANGED <<wl, HandlerVars>>

Unstarted(state) == CASE state = "MP_PARENT" -> "PARENT"
                      [] state = "MP_CHILD" -> "CHILD"
                      [] OTHER -> state

WMSP_EndMP ==
    /\ Serves("END_MP") /\ Legal
    /\ status' = [status EXCEPT !.mp = FALSE, !.state = Unstarted(@)]
    /\ Ends("SUCCESS") \/ Ends("FAILED")
    /\ UNCHANGED <<wl, HandlerVars>>

\* WMSP_Reset takes the children it has to report with interrupts disabled.
\* fparent is not initialized when the station is neither parent nor child.
WMSP_Reset ==
    LET state == IF status.mp THEN Unstarted(status.state) ELSE status.state IN
    /\ Serves("RESET")
    /\ status' = [status EXCEPT !.mp = FALSE, !.state = state, !.children = {}]
    /\ \E fparent \in BOOLEAN :
          /\ state \in {"PARENT", "CHILD"} => fparent = (state = "PARENT")
          /\ request' = [request EXCEPT !.stage = "captured", !.entry = fparent,
                 !.aids = IF state \in {"PARENT", "CHILD"} THEN status.children ELSE {}]
    /\ UNCHANGED <<wl, HandlerVars>>

ResetReports ==
    /\ At("captured")
    /\ status' = [status EXCEPT !.entry = IF request.entry THEN FALSE ELSE @]
    /\ GoTo("station", SetToSeq({Gone(a) : a \in request.aids}))
    /\ UNCHANGED <<wl, HandlerVars>>

\* By the driver's own state: leave or send away, reset, go idle.
ResetStation ==
    /\ At("station")
    /\ \/ Ends("SUCCESS") /\ wl' = "idle" /\ status' = [status EXCEPT !.state = "IDLE"]
       \/ /\ Ends("FAILED")
          /\ \/ wl' \in {wl, "class1"} /\ UNCHANGED status
             \/ /\ wl \in {"parent", "child"} /\ wl' \in {wl, "class1"}
                /\ status' = [status EXCEPT !.state = "CLASS1"]
    /\ UNCHANGED HandlerVars

\* An uninvited child is sent away.
WMSP_AutoDeAuth ==
    /\ Serves("AUTO_DEAUTH")
    /\ Ends("SUCCESS")
    /\ UNCHANGED <<status, wl, HandlerVars>>

RequestStep ==
    \/ WMSP_RequestThread \/ RequestDone \/ RequestGetsBuffer \/ RequestReturns
    \/ IllegalState \/ WMSP_Enable \/ WMSP_Disable \/ WMSP_PowerOn \/ WMSP_PowerOff
    \/ WMSP_SetParentParam \/ WMSP_SetEntry \/ WMSP_StartParent \/ StartParentInDriver
    \/ WMSP_EndParent \/ NextChild \/ ChildDeauthenticated \/ ResetDriver \/ IdleDriver
    \/ WMSP_Disconnect \/ LeaveParent \/ WMSP_StartScan \/ WMSP_EndScan
    \/ WMSP_StartConnectEx \/ ConnectInDriver \/ Connected \/ WMSP_StartMP \/ MpStarted
    \/ WMSP_EndMP \/ WMSP_Reset \/ ResetReports \/ ResetStation \/ WMSP_AutoDeAuth

IndicateStep == IndicateGetsBuffer \/ IndicateReturns

Command ==
    \E api \in Apis, entry, full \in BOOLEAN :
        /\ entry => api \in {"SET_P_PARAM", "SET_ENTRY"}
        /\ \E aids \in Arguments(api) : WMi_SendCommand(api, aids, entry, full)

Next ==
    \/ Command \/ WmReceiveFifo
    \/ \E aid \in Aids : IndicateMlmeAssociate(aid)
    \/ \E aid \in Aids \cup {0} : IndicateMlmeDeAuthenticate(aid)
    \/ \E aids \in {Aids, {0}} \cup {{a} : a \in Aids} : IndicateLinkFailure(aids)
    \/ IndicateStep \/ RequestStep

\* Each thread and the ARM9's interrupt go on; the reports of the driver leave
\* the request thread time (strong fairness, for the indicate thread takes the
\* processor from it at each of them).
Fairness == WF_vars(WmReceiveFifo) /\ WF_vars(IndicateStep) /\ SF_vars(RequestStep)

Spec == Init /\ [][Next]_vars /\ Fairness

(***************************************************************************)
(* Properties.                                                             *)
(***************************************************************************)
States == {"READY", "STOP", "IDLE", "CLASS1", "SCAN"} \cup Parents \cup Children

TypeOK ==
    /\ status.state \in States /\ status.children \subseteq Aids \cup {0}
    /\ connectedAids \subseteq Aids \cup {0}
    /\ wl \in {"idle", "class1", "parent", "child"}
    /\ accepted \subseteq 1 .. NumBufs /\ head \in 1 .. NumBufs
    /\ exclusive \in {"none", "request", "indicate"}

IsFinal(cb) == cb.kind = "answer" \/ (cb.kind = "connected" /\ cb.aid = 0)

\* cs are the commands among the requests of q, in the order of q.
AreCommandsOf(cs, q) ==
    \E at \in [DOMAIN cs -> DOMAIN q] :
        /\ {at[i] : i \in DOMAIN cs} = {j \in DOMAIN q : q[j].buf # 0}
        /\ \A i, k \in DOMAIN cs : i < k => at[i] < at[k]
        /\ \A i \in DOMAIN cs : cs[i] = q[at[i]].api

InFlight == IF word /\ IsFinal(fifo7to9) /\ fifo7to9.api \in Apis THEN <<fifo7to9.api>> ELSE <<>>
Unanswered ==
    IF /\ request.buf # 0
       /\ \/ request.stage \notin {"done", "mpstarted", "rest"}
          \/ \E i \in DOMAIN request.calls : IsFinal(request.calls[i])
    THEN <<request.api>> ELSE <<>>

\* A command the ARM7 has taken is answered once, in the order of the calls,
\* whatever callbacks of connections come between.
AnswersInOrder ==
    LET begun == InFlight \o Unanswered IN
    /\ IsPrefix(begun, outstanding)
    /\ AreCommandsOf(SubSeq(outstanding, Len(begun) + 1, Len(outstanding)), requestQ)

\* A buffer is marked as free only when nothing refers to it any more: the
\* ARM9 never writes a command into one that is queued or being served.
BuffersInUse ==
    \A b \in accepted : b # request.buf /\ \A i \in DOMAIN requestQ : requestQ[i].buf # b

\* What the two sides promise each other of commands and their buffers.
CommandsAnswered == TypeOK /\ AnswersInOrder /\ BuffersInUse

Quiet == indicate = <<>> /\ ~word /\ exclusive = "none" /\ request = Resting

\* MP runs only in the states that say so, whoever ends it: the command, a
\* disconnection, a reset, or the parent that goes.  (The converse does not
\* hold: of two queued WM_StartMP the second clears the flag of the first.)
MpOnlyWhileStarted == status.mp => status.state \in {"MP_PARENT", "MP_CHILD"}

\* "connectedAidBitmap should be 0" when a connection is started.
ConnectedAidsAreCleared ==
    Quiet /\ outstanding = <<>> /\ status.state = "IDLE" => connectedAids = {}

\* The buffer of a command that has reached the ARM7 is given back.
CommandIsServed ==
    \A b \in 1 .. NumBufs :
        (b = request.buf \/ \E i \in DOMAIN requestQ : requestQ[i].buf = b) ~> (b \in accepted)
=============================================================================
