----------------------------- MODULE MBDownload -----------------------------
(***************************************************************************)
(* Multiboot: a parent sends a program to its children in blocks           *)
(* (libraries/mb/src/mb_parent.c, mb_child.c, mb_block.c).  The parent     *)
(* sends one frame at a time to a set of children and gets what they have  *)
(* to send in the same exchange; each child repeats what its state says.   *)
(* Frames of either direction may be lost or come twice, and a child may   *)
(* leave, or be lost, at any time.  A child without a frame for the        *)
(* parent sends a dummy.                                                   *)
(*                                                                         *)
(* One file is registered.  The application's calls are made from the      *)
(* state callbacks, as nothing interrupts those.  The medium and what of   *)
(* it reaches the callbacks (wm) is external.                              *)
(***************************************************************************)
EXTENDS Integers, FiniteSets, FiniteSetsExt

CONSTANTS
    Children,    \* association IDs
    NumBlocks,   \* blocks of the file
    NumPieces,   \* frames that a child's request takes (req_data_piece.num)
    PlayerNums,  \* the maxPlayerNum's that the game may have
    MaxJoins     \* bound: associations of a behaviour

MB_SEND_THRESHOLD == 2
Blocks == 0 .. NumBlocks - 1
Pieces == 0 .. NumPieces - 1

VARIABLES
    link,       \* the children associated with the parent, as their radios see it
    maxPlayers, \* maxPlayerNum of the game, the parent included
    pstate,     \* parent: p_comm_state
    req2child,  \* parent: what the application has asked for
    pieces,     \* parent: data_bmp, the pieces of each child's request
    entry,      \* parent: the children with a fileid_of_child: child_entry_bmp,
                \* gameinfo_child_bmp
    pollbmp,    \* parent: the children blocks are sent to
    currentb,   \* parent: the block sent last
    nextb,      \* parent: the block asked for in the last exchange
    anyRecv,    \* parent: any_recv_bitmap
    toChildren, \* the frame of the parent
    cstate,     \* child: c_comm_state
    userReq,    \* children with user_req DL_START
    got,        \* child: recvflag; got_block is how many they are
    last,       \* child: last_recv_seq_no
    ending,     \* children with boot_end_flag
    toParent,   \* the frame of each child
    joins

parentVars == <<pstate, req2child, pieces, entry, pollbmp, currentb, nextb, anyRecv>>
childVars == <<cstate, userReq, got, last, ending>>
vars == <<link, maxPlayers, parentVars, toChildren, childVars, toParent, joins>>

Frame(type, n, dest) == [type |-> type, n |-> n, dest |-> dest]
Dummy == Frame("DUMMY", 0, Children)
Request(type, n) == [type |-> type, n |-> n]
Silence == Request("DUMMY", 0)

Init ==
    /\ link = {} /\ joins = 0
    /\ maxPlayers \in PlayerNums
    /\ pstate = [c \in Children |-> "NONE"]
    /\ req2child = [c \in Children |-> "NONE"]
    /\ pieces = [c \in Children |-> {}]
    /\ entry = {} /\ pollbmp = {} /\ currentb = 0 /\ nextb = 0 /\ anyRecv = FALSE
    /\ toChildren = Dummy
    /\ cstate = [c \in Children |-> "NONE"]
    /\ userReq = {} /\ ending = {}
    /\ got = [c \in Children |-> {}]
    /\ last = [c \in Children |-> -1]
    /\ toParent = [c \in Children |-> Silence]

(***************************************************************************)
(* Association and its end.                                                *)
(***************************************************************************)
\* Mutation: the child is not taken out of those that blocks are sent to.
Forget_KeepsPolling(c) ==
    /\ req2child' = [req2child EXCEPT ![c] = "NONE"]
    /\ pieces' = [pieces EXCEPT ![c] = {}]
    /\ entry' = entry \ {c}
    /\ pstate' = [pstate EXCEPT ![c] = "NONE"]
    /\ UNCHANGED <<pollbmp, currentb, nextb, anyRecv>>

Forget(c) ==
    /\ req2child' = [req2child EXCEPT ![c] = "NONE"]
    /\ pieces' = [pieces EXCEPT ![c] = {}]
    /\ entry' = entry \ {c}
    /\ pollbmp' = pollbmp \ {c}
    /\ pstate' = [pstate EXCEPT ![c] = "NONE"]
    /\ UNCHANGED <<currentb, nextb, anyRecv>>

ChildConnected(c) ==
    /\ c \notin link /\ pstate[c] = "NONE" /\ cstate[c] = "NONE" /\ joins < MaxJoins
    /\ joins' = joins + 1
    /\ link' = link \cup {c}
    /\ pstate' = [pstate EXCEPT ![c] = "CONNECTED"]
    /\ UNCHANGED <<maxPlayers, req2child, pieces, entry, pollbmp, currentb, nextb, anyRecv,
                   toChildren, childVars, toParent>>

ConnectedToParent(c) ==
    /\ c \in link /\ cstate[c] = "NONE"
    /\ cstate' = [cstate EXCEPT ![c] = "CONNECT"]
    /\ UNCHANGED <<link, maxPlayers, parentVars, toChildren, userReq, got, last, ending,
                   toParent, joins>>

(* The radio loses the link.                                               *)
LinkLost(c) ==
    /\ c \in link
    /\ link' = link \ {c}
    /\ UNCHANGED <<maxPlayers, parentVars, toChildren, childVars, toParent, joins>>

(* After MB_DisconnectChild it comes only when the child left by itself.    *)
ChildDisconnected(c) ==
    /\ c \notin link /\ (pstate[c] # "NONE" \/ pieces[c] # {})
    /\ Forget(c)
    /\ UNCHANGED <<link, maxPlayers, toChildren, childVars, toParent, joins>>

(* What the child has kept is cleared; a program that boots keeps the file. *)
ChildEnds(c, state) ==
    /\ cstate' = [cstate EXCEPT ![c] = state]
    /\ userReq' = userReq \ {c} /\ ending' = ending \ {c}
    /\ got' = [got EXCEPT ![c] = IF state = "NONE" THEN {} ELSE @]
    /\ last' = [last EXCEPT ![c] = -1]
    /\ toParent' = [toParent EXCEPT ![c] = Silence]
    /\ UNCHANGED <<maxPlayers, parentVars, toChildren, joins>>

(* MBi_CommEnd follows and the download is cancelled, asked to boot or not. *)
DisconnectedFromParent(c) ==
    /\ c \notin link /\ cstate[c] \notin {"NONE", "BOOT_READY"}
    /\ ChildEnds(c, "NONE") /\ UNCHANGED link

(* MB_End, or MBi_CommEnd after the second BOOTREQ, up to END_COMPLETE.     *)
CommEnd(c) ==
    /\ c \in link /\ cstate[c] # "NONE"
    /\ link' = link \ {c}
    /\ ChildEnds(c, IF c \in ending THEN "BOOT_READY" ELSE "NONE")

(* MB_DisconnectChild: the link goes down later.                           *)
DisconnectChild(c) ==
    /\ c \in link /\ pstate[c] # "NONE"
    /\ Forget(c)
    /\ UNCHANGED <<link, maxPlayers, toChildren, childVars, toParent, joins>>

(***************************************************************************)
(* The parent.                                                             *)
(***************************************************************************)
Respond(c, state, req) ==
    /\ pstate[c] = state
    /\ req2child' = [req2child EXCEPT ![c] = req]
    /\ UNCHANGED <<link, maxPlayers, pstate, pieces, entry, pollbmp, currentb, nextb, anyRecv,
                   toChildren, childVars, toParent, joins>>

CommResponseRequest(c) ==
    \/ Respond(c, "REQUESTED", "KICK")
    \/ Respond(c, "REQUESTED", "ACCEPT")
    \/ Respond(c, "WAIT_TO_SEND", "SEND_START")
    \/ Respond(c, "SEND_COMPLETE", "BOOT")

(* MBi_CommParentRecvData: the children of which a frame has come.  Each   *)
(* is handled in its turn, by its ID.                                      *)
ParentRecvData(cs) ==
    LET heard(type, state) == {c \in cs : toParent[c].type = type /\ pstate[c] = state}
        requests == {c \in cs : toParent[c].type = "FILEREQ"}
        asked == {c \in heard("FILEREQ", "CONNECTED") : pieces'[c] = Pieces}
        answered(req) == {c \in heard("FILEREQ", "REQUESTED") : req2child[c] = req}
        full == {c \in heard("FILEREQ", "REQUESTED") :
                    1 + Cardinality(entry \cup {d \in answered("ACCEPT") : d < c}) >= maxPlayers}
        accepted == answered("ACCEPT") \ full
        kicked == answered("KICK") \ full
        informed == heard("ACCEPT_FILEINFO", "REQ_ACCEPTED")
        started == {c \in heard("ACCEPT_FILEINFO", "WAIT_TO_SEND") : req2child[c] = "SEND_START"}
        continued == heard("CONTINUE", "SEND_PROCEED") \cap entry
        completed == heard("STOPREQ", "SEND_PROCEED") \cap entry
        booting == {c \in heard("STOPREQ", "SEND_COMPLETE") : req2child[c] = "BOOT"}
        stateOf(c) ==
            CASE c \in asked -> "REQUESTED"
              [] c \in full -> "MEMBER_FULL"
              [] c \in accepted -> "REQ_ACCEPTED"
              [] c \in kicked -> "KICKED"
              [] c \in informed -> "WAIT_TO_SEND"
              [] c \in started -> "SEND_PROCEED"
              [] c \in completed -> "SEND_COMPLETE"
              [] c \in booting -> "BOOT_REQUEST"
              [] OTHER -> pstate[c]
    IN  /\ pieces' = [c \in Children |-> IF c \in requests THEN pieces[c] \cup {toParent[c].n}
                                         ELSE pieces[c]]
        /\ pstate' = [c \in Children |-> stateOf(c)]
        /\ req2child' = [c \in Children |->
                            IF c \in full \cup accepted \cup kicked \cup started \cup booting
                            THEN "NONE" ELSE req2child[c]]
        /\ entry' = entry \cup accepted
        /\ pollbmp' = (pollbmp \cup started) \ completed
        /\ currentb' = IF started # {} THEN 0 ELSE currentb
        /\ nextb' = Max({0} \cup {toParent[c].n : c \in continued})
        /\ anyRecv' = (continued # {})

ParentRecv(cs) ==
    /\ cs # {} /\ cs \subseteq link
    /\ ParentRecvData(cs)
    /\ UNCHANGED <<link, maxPlayers, toChildren, childVars, toParent, joins>>

(* MBi_calc_sendblock *)
CalcSendblock ==
    IF ~anyRecv THEN currentb
    ELSE IF nextb <= currentb /\ currentb <= nextb + MB_SEND_THRESHOLD THEN currentb + 1
    ELSE nextb

(* MBi_CommParentSendBlock; the cache has the block.                       *)
SendBlock ==
    /\ currentb' = IF pollbmp = {} THEN currentb ELSE CalcSendblock
    /\ toChildren' = IF pollbmp # {} /\ currentb' < NumBlocks
                     THEN Frame("DATA", currentb', pollbmp) ELSE Dummy

(* MBi_CommParentSendData: the states by their urgency, and what they get.  *)
Messages == <<
    [state |-> "BOOT_REQUEST", type |-> "BOOTREQ"],
    [state |-> "CONNECTED", type |-> "SENDSTART"],
    [state |-> "MEMBER_FULL", type |-> "MEMBER_FULL"],
    [state |-> "KICKED", type |-> "KICKREQ"],
    [state |-> "REQ_ACCEPTED", type |-> "DL_FILEINFO"]>>

InState(state) == {c \in Children : pstate[c] = state}

ParentSend ==
    /\ link # {}
    /\ LET due == {i \in DOMAIN Messages : InState(Messages[i].state) # {}}
           m == Messages[Min(due)]
       IN  IF due = {} THEN SendBlock
           ELSE toChildren' = Frame(m.type, 0, InState(m.state)) /\ UNCHANGED currentb
    /\ UNCHANGED <<link, maxPlayers, pstate, req2child, pieces, entry, pollbmp, nextb, anyRecv,
                   childVars, toParent, joins>>

(***************************************************************************)
(* A child.                                                                *)
(***************************************************************************)
Here(c) == c \in link /\ cstate[c] \notin {"NONE", "BOOT_READY"}

StartDownload(c) ==
    /\ cstate[c] = "DLINFO_ACCEPTED" /\ c \notin userReq
    /\ userReq' = userReq \cup {c}
    /\ UNCHANGED <<link, maxPlayers, parentVars, toChildren, cstate, got, last, ending, toParent, joins>>

GoTo(c, from, to) ==
    /\ cstate[c] = from
    /\ cstate' = [cstate EXCEPT ![c] = to]
    /\ UNCHANGED <<userReq, got, last, ending>>

\* Mutation: complete with the last block.
IsComplete_AtLast(blocks) == NumBlocks - 1 \in blocks

(* countRemainingblocks *)
IsComplete(blocks) == blocks = Blocks

RecvBlock(c, n) ==
    /\ \/ cstate[c] = "RECV_PROCEED"
       \/ cstate[c] = "DLINFO_ACCEPTED" /\ c \in userReq
    /\ userReq' = userReq \ {c}
    /\ got' = [got EXCEPT ![c] = @ \cup {n}]
    /\ last' = [last EXCEPT ![c] = IF n \in got[c] THEN @ ELSE n]
    /\ cstate' = [cstate EXCEPT ![c] = IF IsComplete(got'[c]) THEN "RECV_COMPLETE" ELSE "RECV_PROCEED"]
    /\ UNCHANGED ending

ChildRecv(c) ==
    /\ Here(c) /\ c \in toChildren.dest
    /\ CASE toChildren.type = "SENDSTART" -> GoTo(c, "CONNECT", "REQ_ENABLE")
         [] toChildren.type = "KICKREQ" -> GoTo(c, "REQ_ENABLE", "REQ_REFUSED")
         [] toChildren.type = "MEMBER_FULL" -> GoTo(c, "REQ_ENABLE", "MEMBER_FULL")
         [] toChildren.type = "DL_FILEINFO" -> GoTo(c, "REQ_ENABLE", "DLINFO_ACCEPTED")
         [] toChildren.type = "DATA" -> RecvBlock(c, toChildren.n)
         [] toChildren.type = "BOOTREQ" ->
              \/ GoTo(c, "RECV_COMPLETE", "BOOTREQ_ACCEPTED")
              \/ /\ cstate[c] = "BOOTREQ_ACCEPTED"
                 /\ ending' = ending \cup {c}
                 /\ UNCHANGED <<cstate, userReq, got, last>>
         [] OTHER -> FALSE
    /\ UNCHANGED <<link, maxPlayers, parentVars, toChildren, toParent, joins>>

Behind(c) == {b \in Blocks \ got[c] : b > last[c]}

\* Mutation: it looks no further than the file's end.
NextBlockno_NoWrap(c) == Min(Behind(c) \cup {NumBlocks})

(* get_next_blockno: the first block missing behind the last one received, *)
(* or else the first missing.                                              *)
NextBlockno(c) ==
    Min(IF Behind(c) # {} THEN Behind(c) ELSE (Blocks \ got[c]) \cup {NumBlocks})

(* MBi_CommChildSendData, when the frame before has been sent.  With which *)
(* piece a request begins makes no difference; the parent takes no notice  *)
(* of a BOOTREQ_ACCEPTED, which is silence here.                           *)
ChildSend(c) ==
    LET piece == toParent[c].type = "FILEREQ"
    IN  /\ Here(c) /\ c \notin ending
        /\ toParent' = [toParent EXCEPT ![c] =
               CASE cstate[c] = "REQ_ENABLE" ->
                        Request("FILEREQ", IF piece THEN (@.n + 1) % NumPieces ELSE 0)
                 [] cstate[c] = "DLINFO_ACCEPTED" -> Request("ACCEPT_FILEINFO", 0)
                 [] cstate[c] = "RECV_PROCEED" -> Request("CONTINUE", NextBlockno(c))
                 [] cstate[c] = "RECV_COMPLETE" -> Request("STOPREQ", 0)
                 [] OTHER -> Silence]
        /\ UNCHANGED <<link, maxPlayers, parentVars, toChildren, childVars, joins>>

Next ==
    \/ \E c \in Children :
          \/ ChildConnected(c) \/ ConnectedToParent(c) \/ LinkLost(c) \/ ChildDisconnected(c)
          \/ DisconnectedFromParent(c) \/ CommEnd(c) \/ DisconnectChild(c)
          \/ CommResponseRequest(c) \/ StartDownload(c) \/ ChildRecv(c) \/ ChildSend(c)
    \/ \E cs \in SUBSET Children : ParentRecv(cs)
    \/ ParentSend

(* The parent hears from the child, and maybe from others.                  *)
HeardFrom(c) ==
    toParent[c].type # "DUMMY" /\ \E cs \in SUBSET Children : c \in cs /\ ParentRecv(cs)

Spec == Init /\ [][Next]_vars
-----------------------------------------------------------------------------
PStates == {"NONE", "CONNECTED", "REQUESTED", "MEMBER_FULL", "KICKED", "REQ_ACCEPTED",
            "WAIT_TO_SEND", "SEND_PROCEED", "SEND_COMPLETE", "BOOT_REQUEST"}
CStates == {"NONE", "CONNECT", "REQ_ENABLE", "REQ_REFUSED", "MEMBER_FULL", "DLINFO_ACCEPTED",
            "RECV_PROCEED", "RECV_COMPLETE", "BOOTREQ_ACCEPTED", "BOOT_READY"}

TypeOK ==
    /\ link \subseteq Children /\ entry \subseteq Children
    /\ pstate \in [Children -> PStates] /\ cstate \in [Children -> CStates]
    /\ currentb \in 0 .. NumBlocks + MB_SEND_THRESHOLD + 1 /\ nextb \in 0 .. NumBlocks
    /\ got \in [Children -> SUBSET Blocks]

RecordsAgree ==
    /\ pollbmp = InState("SEND_PROCEED")
    /\ entry = UNION {InState(s) : s \in {"REQ_ACCEPTED", "WAIT_TO_SEND", "SEND_PROCEED",
                                          "SEND_COMPLETE", "BOOT_REQUEST"}}
    /\ 1 + Cardinality(entry) <= maxPlayers

(* The parent's records agree: blocks go to the children that receive, the *)
(* members are those accepted and still there, and no more than the game   *)
(* takes.  (MBi_CommParentRecvDataPerChild asserts pollbmp at a CONTINUE.)  *)
ParentAgrees == TypeOK /\ RecordsAgree

(* A child boots, and the parent takes a download for complete, only when  *)
(* every block has arrived, whatever frames were lost or came twice.       *)
FileIsComplete ==
    \A c \in Children :
        cstate[c] \in {"RECV_COMPLETE", "BOOTREQ_ACCEPTED", "BOOT_READY"}
            \/ (c \in link /\ pstate[c] \in {"SEND_COMPLETE", "BOOT_REQUEST"})
        => got[c] = Blocks

(* A child that receives, or of whose end the parent does not know.        *)
Downloading(c) ==
    cstate[c] = "RECV_PROCEED" \/ (cstate[c] = "RECV_COMPLETE" /\ pstate[c] = "SEND_PROCEED")
=============================================================================
