-------------------------- MODULE MBDownload_proofs --------------------------
(***************************************************************************)
(* Proofs about MBDownload, for any number of children, blocks and pieces, *)
(* any number of players and any number of associations.                   *)
(***************************************************************************)
EXTENDS MBDownload, TLAPS, FiniteSetTheorems, WellFoundedInduction

\* Association IDs are 1 to 15 (WM_NUM_MAX_CHILD); a game has its parent at least.
DownloadConstants ==
    /\ Children \subseteq 1 .. 15
    /\ NumBlocks \in Nat /\ NumPieces \in Nat \ {0}
    /\ PlayerNums \subseteq Nat \ {0}

-----------------------------------------------------------------------------
(* The least and the greatest of some numbers *)

NatLess == {ss \in Nat \X Nat : ss[1] < ss[2]}

LEMMA MinIsLeast ==
    ASSUME NEW I \in SUBSET Nat, I # {}
    PROVE  Min(I) \in I /\ \A j \in I : Min(I) <= j
<1>1. PICK i \in I : \A j \in I : ~(<<j, i>> \in NatLess)
    <2>1. IsWellFoundedOn(NatLess, Nat)
        BY NatLessThanWellFounded, Zenon DEF OpToRel, NatLess
    <2> QED
        BY <2>1, WFMin
<1>2. \A j \in I : ~(j < i)
    BY <1>1 DEF NatLess
<1>3. \A j \in I : i <= j
    BY <1>2
<1> QED
    BY <1>3 DEF Min

LEMMA MaxIsGreatest ==
    ASSUME NEW n \in Nat, NEW I \in SUBSET (0 .. n), I # {}
    PROVE  Max(I) \in I /\ \A j \in I : j <= Max(I)
<1> DEFINE J == {k \in 0 .. n : n - k \in I}
<1>1. J \in SUBSET Nat /\ J # {}
    <2>1. PICK i \in I : TRUE
        OBVIOUS
    <2>2. n - i \in 0 .. n /\ n - (n - i) = i
        BY <2>1
    <2>3. n - i \in J
        BY <2>1, <2>2
    <2> QED
        BY <2>3
<1>2. Min(J) \in J /\ \A k \in J : Min(J) <= k
    <2> HIDE DEF J
    <2> QED
        BY <1>1, MinIsLeast
<1>3. \A j \in I : n - j \in J
    <2> TAKE j \in I
    <2>1. n - j \in 0 .. n /\ n - (n - j) = j
        OBVIOUS
    <2> QED
        BY <2>1
<1>4. n - Min(J) \in I /\ \A j \in I : n - Min(J) >= j
    <2>1. Min(J) \in 0 .. n /\ n - Min(J) \in I
        BY <1>2
    <2>2. \A j \in I : Min(J) <= n - j
        BY <1>2, <1>3
    <2> HIDE DEF J
    <2> QED
        BY <2>1, <2>2
<1> HIDE DEF J
<1>5. Max(I) \in I /\ \A j \in I : Max(I) >= j
    BY <1>4 DEF Max
<1> QED
    BY <1>5

-----------------------------------------------------------------------------
(* The parent *)

Members == {"REQ_ACCEPTED", "WAIT_TO_SEND", "SEND_PROCEED", "SEND_COMPLETE", "BOOT_REQUEST"}

\* The states in which the parent takes a download for complete.
Done == {"SEND_COMPLETE", "BOOT_REQUEST"}

\* RecordsAgree, child by child, with the types its proof needs.
ParentInv ==
    /\ pstate \in [Children -> PStates]
    /\ entry \subseteq Children /\ pollbmp \subseteq Children
    /\ maxPlayers \in Nat
    /\ \A c \in Children : c \in pollbmp <=> pstate[c] = "SEND_PROCEED"
    /\ \A c \in Children : c \in entry <=> pstate[c] \in Members
    /\ 1 + Cardinality(entry) <= maxPlayers

LEMMA ParentInvAgrees == ParentInv => RecordsAgree
BY DEF ParentInv, RecordsAgree, InState, Members

Before(A, c) == {d \in A : d < c}

LEMMA AidsFinite == \A S \in SUBSET (1 .. 15) : IsFiniteSet(S) /\ Cardinality(S) \in Nat
<1>1. 1 \in Int /\ 15 \in Int
    OBVIOUS
<1>2. IsFiniteSet(1 .. 15)
    BY <1>1, FS_Interval
<1> QED
    BY <1>2, FS_Subset, FS_CardinalityType

\* The members accepted in one exchange are no more than the game takes: each is
\* counted with those of its own exchange that come before it.
LEMMA MembersCounted ==
    ASSUME NEW E \in SUBSET (1 .. 15), NEW A \in SUBSET (1 .. 15), NEW n \in Nat, NEW T \in SUBSET A,
           1 + Cardinality(E) <= n,
           \A c \in T : ~(1 + Cardinality(E \cup Before(A, c)) >= n)
    PROVE  1 + Cardinality(E \cup T) <= n
<1>1. CASE T = {}
    <2>1. E \cup T = E
        BY <1>1
    <2> QED
        BY <2>1
<1>2. CASE T # {}
    <2>1. Max(T) \in T /\ \A j \in T : j <= Max(T)
        <3>1. T \in SUBSET (0 .. 15)
            OBVIOUS
        <3> QED
            BY <1>2, <3>1, MaxIsGreatest
    <2>2. PICK m \in T : \A j \in T : j <= m
        BY <2>1
    <2> DEFINE F == E \cup Before(A, m)
    <2>3. \A j \in T : j \in Before(A, m) \/ j = m
        <3> TAKE j \in T
        <3>1. j \in A /\ j \in Int /\ m \in Int /\ j <= m
            BY <2>2
        <3> QED
            BY <3>1 DEF Before
    <2>4. F \subseteq 1 .. 15 /\ E \cup T \subseteq F \cup {m} /\ F \cup {m} \subseteq 1 .. 15
        BY <2>2, <2>3 DEF Before
    <2>5. ~(1 + Cardinality(F) >= n)
        BY <2>2
    <2> HIDE DEF F
    <2>6. IsFiniteSet(F) /\ IsFiniteSet(F \cup {m}) /\ Cardinality(F) \in Nat
        BY <2>4, AidsFinite
    <2>7. Cardinality(F \cup {m}) <= Cardinality(F) + 1
        BY <2>6, FS_AddElement
    <2>8. Cardinality(E \cup T) <= Cardinality(F \cup {m}) /\ Cardinality(E \cup T) \in Nat
          /\ Cardinality(F \cup {m}) \in Nat
        BY <2>4, <2>6, FS_Subset, AidsFinite
    <2> QED
        BY <2>5, <2>6, <2>7, <2>8
<1> QED
    BY <1>1, <1>2

\* What every other step leaves alone.
LEMMA ParentUnchanged ==
    ASSUME ParentInv, UNCHANGED <<pstate, entry, pollbmp, maxPlayers>>
    PROVE  ParentInv'
BY DEF ParentInv

\* MB_DisconnectChild and the end of a link.
LEMMA ForgetInv ==
    ASSUME DownloadConstants, ParentInv, NEW c \in Children, Forget(c), UNCHANGED maxPlayers
    PROVE  ParentInv'
<1> USE DEF ParentInv, Forget
<1>1. pstate' = [pstate EXCEPT ![c] = "NONE"] /\ entry' = entry \ {c} /\ pollbmp' = pollbmp \ {c}
    OBVIOUS
<1>2. Cardinality(entry') <= Cardinality(entry) /\ Cardinality(entry') \in Nat /\ Cardinality(entry) \in Nat
    <2>1. entry \subseteq 1 .. 15 /\ entry' \subseteq entry
        BY <1>1 DEF DownloadConstants
    <2> QED
        BY <2>1, FS_Subset, AidsFinite
<1> QED
    BY <1>1, <1>2 DEF PStates, Members

LEMMA ParentRecvDataInv ==
    ASSUME DownloadConstants, ParentInv, NEW cs \in SUBSET Children, ParentRecvData(cs),
           UNCHANGED maxPlayers
    PROVE  /\ ParentInv'
           /\ \A c \in Children : pstate'[c] \in Done =>
                 pstate[c] \in Done \/ (c \in cs /\ toParent[c].type = "STOPREQ")
<1> DEFINE heard(type, state) == {c \in cs : toParent[c].type = type /\ pstate[c] = state}
           asked == {c \in heard("FILEREQ", "CONNECTED") : pieces'[c] = Pieces}
           answered(req) == {c \in heard("FILEREQ", "REQUESTED") : req2child[c] = req}
           full == {c \in heard("FILEREQ", "REQUESTED") :
                       1 + Cardinality(entry \cup {d \in answered("ACCEPT") : d < c}) >= maxPlayers}
           accepted == answered("ACCEPT") \ full
           kicked == answered("KICK") \ full
           informed == heard("ACCEPT_FILEINFO", "REQ_ACCEPTED")
           started == {c \in heard("ACCEPT_FILEINFO", "WAIT_TO_SEND") : req2child[c] = "SEND_START"}
           completed == heard("STOPREQ", "SEND_PROCEED") \cap entry
           booting == {c \in heard("STOPREQ", "SEND_COMPLETE") : req2child[c] = "BOOT"}
           stateOf(c) ==
               CASE c \in asked -> "REQUESTED"
                 [] c \in full -> "MEMBER_FULL"
                 [] c \in accepted -> "REQ_ACCEPTED"
                 [] c \in kicked -> "KICKED"
                 [] c \in informed -> "WAIT_TO_SEND"
                 [] c \in started -> "SEND_PROCEED"
                 [] c \in completed -> "SEND_COMPLETE"
                 [] c \in booting -> "BOOT_REQUEST"
                 [] OTHER -> pstate[c]
<1> USE DEF ParentInv
<1>1. /\ pstate' = [c \in Children |-> stateOf(c)]
      /\ entry' = entry \cup accepted
      /\ pollbmp' = (pollbmp \cup started) \ completed
    BY DEF ParentRecvData
<1>2. /\ \A c \in asked : pstate[c] = "CONNECTED"
      /\ \A c \in full \cup accepted \cup kicked : pstate[c] = "REQUESTED"
      /\ \A c \in informed : pstate[c] = "REQ_ACCEPTED"
      /\ \A c \in started : pstate[c] = "WAIT_TO_SEND"
      /\ \A c \in completed : pstate[c] = "SEND_PROCEED"
      /\ \A c \in booting : pstate[c] = "SEND_COMPLETE"
      /\ \A c \in accepted : c \notin full /\ c \notin kicked
      /\ \A c \in kicked : c \notin full
      /\ accepted \subseteq Children /\ started \subseteq Children
      /\ \A c \in completed : c \in cs /\ toParent[c].type = "STOPREQ"
    OBVIOUS
<1>3. 1 + Cardinality(entry') <= maxPlayers
    <2>1. entry \in SUBSET (1 .. 15) /\ answered("ACCEPT") \in SUBSET (1 .. 15)
          /\ accepted \in SUBSET answered("ACCEPT")
        BY DEF DownloadConstants
    <2>2. \A c \in accepted : ~(1 + Cardinality(entry \cup Before(answered("ACCEPT"), c)) >= maxPlayers)
        BY DEF Before
    <2> HIDE DEF answered, accepted
    <2>3. 1 + Cardinality(entry \cup accepted) <= maxPlayers
        BY <2>1, <2>2, MembersCounted
    <2> QED
        BY <1>1, <2>3
<1> HIDE DEF asked, full, accepted, kicked, informed, started, completed, booting
<1>4. \A c \in Children : pstate'[c] = stateOf(c)
    BY <1>1
<1>5. ASSUME NEW c \in Children
      PROVE  /\ pstate'[c] \in PStates
             /\ c \in pollbmp' <=> pstate'[c] = "SEND_PROCEED"
             /\ c \in entry' <=> pstate'[c] \in Members
             /\ pstate'[c] \in Done =>
                   pstate[c] \in Done \/ (c \in cs /\ toParent[c].type = "STOPREQ")
    <2>1. CASE c \in asked
        BY <1>1, <1>2, <1>4, <2>1 DEF PStates, Members, Done
    <2>2. CASE c \in full
        BY <1>1, <1>2, <1>4, <2>2 DEF PStates, Members, Done
    <2>3. CASE c \in accepted
        BY <1>1, <1>2, <1>4, <2>3 DEF PStates, Members, Done
    <2>4. CASE c \in kicked
        BY <1>1, <1>2, <1>4, <2>4 DEF PStates, Members, Done
    <2>5. CASE c \in informed
        BY <1>1, <1>2, <1>4, <2>5 DEF PStates, Members, Done
    <2>6. CASE c \in started
        BY <1>1, <1>2, <1>4, <2>6 DEF PStates, Members, Done
    <2>7. CASE c \in completed
        BY <1>1, <1>2, <1>4, <2>7 DEF PStates, Members, Done
    <2>8. CASE c \in booting
        BY <1>1, <1>2, <1>4, <2>8 DEF PStates, Members, Done
    <2>9. CASE c \notin asked \cup full \cup accepted \cup kicked \cup informed \cup started
                        \cup completed \cup booting
        BY <1>1, <1>2, <1>4, <2>9 DEF PStates, Members, Done
    <2> QED
        BY <2>1, <2>2, <2>3, <2>4, <2>5, <2>6, <2>7, <2>8, <2>9
<1> QED
    BY <1>1, <1>2, <1>3, <1>5
LEMMA ParentNext ==
    ASSUME DownloadConstants, ParentInv, [Next]_vars
    PROVE  ParentInv'
<1>1. ASSUME NEW c \in Children, ChildConnected(c) PROVE ParentInv'
    BY <1>1 DEF ChildConnected, ParentInv, PStates, Members
<1>2. ASSUME NEW c \in Children, ChildDisconnected(c) \/ DisconnectChild(c) PROVE ParentInv'
    BY <1>2, ForgetInv DEF ChildDisconnected, DisconnectChild
<1>3. ASSUME NEW cs \in SUBSET Children, ParentRecv(cs) PROVE ParentInv'
    BY <1>3, ParentRecvDataInv DEF ParentRecv
<1>4. CASE UNCHANGED <<pstate, entry, pollbmp, maxPlayers>>
    BY <1>4, ParentUnchanged
<1>5. ASSUME NEW c \in Children,
             \/ ConnectedToParent(c) \/ LinkLost(c) \/ DisconnectedFromParent(c) \/ CommEnd(c)
             \/ CommResponseRequest(c) \/ StartDownload(c) \/ ChildRecv(c) \/ ChildSend(c)
      PROVE  UNCHANGED <<pstate, entry, pollbmp, maxPlayers>>
    BY <1>5 DEF ConnectedToParent, LinkLost, DisconnectedFromParent, CommEnd, CommResponseRequest,
           Respond, StartDownload, ChildRecv, ChildSend, ChildEnds, parentVars
<1>6. ParentSend => UNCHANGED <<pstate, entry, pollbmp, maxPlayers>>
    BY DEF ParentSend
<1>7. UNCHANGED vars => UNCHANGED <<pstate, entry, pollbmp, maxPlayers>>
    BY DEF vars, parentVars
<1> QED
    BY <1>1, <1>2, <1>3, <1>4, <1>5, <1>6, <1>7 DEF Next

-----------------------------------------------------------------------------
(* Types *)

RequestType == {"DUMMY", "FILEREQ", "ACCEPT_FILEINFO", "CONTINUE", "STOPREQ"}

\* TypeOK, and what the frames in the air may hold.
TypeInv ==
    /\ TypeOK
    /\ toParent \in [Children -> [type : RequestType, n : Nat]]
    /\ \A c \in Children : toParent[c].type = "CONTINUE" => toParent[c].n \in 0 .. NumBlocks
    /\ toChildren.type = "DATA" => toChildren.n \in Blocks

LEMMA NextBlocknoType ==
    ASSUME DownloadConstants, NEW c \in Children
    PROVE  NextBlockno(c) \in 0 .. NumBlocks
<1> DEFINE S == IF Behind(c) # {} THEN Behind(c) ELSE (Blocks \ got[c]) \cup {NumBlocks}
<1>1. S \subseteq 0 .. NumBlocks /\ S # {} /\ S \in SUBSET Nat
    BY DEF Behind, Blocks, DownloadConstants
<1>2. NextBlockno(c) = Min(S)
    BY DEF NextBlockno
<1> HIDE DEF S
<1>3. Min(S) \in S
    BY <1>1, MinIsLeast
<1> QED
    BY <1>1, <1>2, <1>3

LEMMA ChildSendType ==
    ASSUME DownloadConstants, TypeInv, NEW c \in Children, ChildSend(c)
    PROVE  /\ toParent' \in [Children -> [type : RequestType, n : Nat]]
           /\ \A d \in Children : toParent'[d].type = "CONTINUE" => toParent'[d].n \in 0 .. NumBlocks
           /\ \A d \in Children : toParent'[d].type = "STOPREQ" =>
                 toParent[d].type = "STOPREQ" \/ cstate[d] = "RECV_COMPLETE"
<1>1. PICK r : /\ toParent' = [toParent EXCEPT ![c] = r]
               /\ \/ \E k \in Nat : r = Request("FILEREQ", k)
                  \/ r = Request("ACCEPT_FILEINFO", 0)
                  \/ r = Request("CONTINUE", NextBlockno(c))
                  \/ cstate[c] = "RECV_COMPLETE" /\ r = Request("STOPREQ", 0)
                  \/ r = Silence
    <2>1. (toParent[c].n + 1) % NumPieces \in Nat /\ 0 \in Nat
        BY DEF TypeInv, DownloadConstants
    <2> QED
        BY <2>1 DEF ChildSend, TypeInv
<1>2. /\ r \in [type : RequestType, n : Nat]
      /\ r.type = "CONTINUE" => r.n \in 0 .. NumBlocks
      /\ r.type = "STOPREQ" => cstate[c] = "RECV_COMPLETE"
    <2>1. NextBlockno(c) \in 0 .. NumBlocks /\ NextBlockno(c) \in Nat
        BY NextBlocknoType DEF DownloadConstants
    <2> QED
        BY <1>1, <2>1 DEF Request, Silence, RequestType
<1> QED
    BY <1>1, <1>2 DEF TypeInv

\* The parent's frame has a block of the file, if it has one.
LEMMA ParentSendType ==
    ASSUME DownloadConstants, TypeInv, ParentSend
    PROVE  /\ currentb' \in 0 .. NumBlocks + MB_SEND_THRESHOLD + 1
           /\ toChildren'.type = "DATA" => toChildren'.n \in Blocks
<1> DEFINE due == {i \in DOMAIN Messages : InState(Messages[i].state) # {}}
<1>1. CASE due = {}
    <2>1. SendBlock
        BY <1>1 DEF ParentSend
    <2>2. /\ NumBlocks \in Nat /\ currentb \in 0 .. NumBlocks + MB_SEND_THRESHOLD + 1
          /\ nextb \in 0 .. NumBlocks
        BY DEF DownloadConstants, TypeInv, TypeOK
    <2>3. CalcSendblock \in 0 .. NumBlocks + MB_SEND_THRESHOLD + 1
        BY <2>2 DEF CalcSendblock, MB_SEND_THRESHOLD
    <2>4. currentb' \in 0 .. NumBlocks + MB_SEND_THRESHOLD + 1
        BY <2>1, <2>2, <2>3 DEF SendBlock
    <2>5. \/ toChildren' = Frame("DATA", currentb', pollbmp) /\ currentb' < NumBlocks
          \/ toChildren' = Dummy
        BY <2>1 DEF SendBlock
    <2> QED
        BY <2>2, <2>4, <2>5 DEF Frame, Dummy, Blocks, MB_SEND_THRESHOLD
<1>2. CASE due # {}
    <2>1. DOMAIN Messages = 1 .. 5 /\ \A i \in 1 .. 5 : Messages[i].type # "DATA"
        BY DEF Messages
    <2>2. Min(due) \in due
        <3>1. due \in SUBSET Nat
            BY <2>1
        <3> HIDE DEF due
        <3> QED
            BY <1>2, <3>1, MinIsLeast
    <2>3. Messages[Min(due)].type # "DATA"
        BY <2>1, <2>2
    <2>4. /\ toChildren' = Frame(Messages[Min(due)].type, 0, InState(Messages[Min(due)].state))
          /\ currentb' = currentb
        BY <1>2 DEF ParentSend
    <2> HIDE DEF due
    <2> QED
        BY <2>3, <2>4 DEF Frame, TypeInv, TypeOK
<1> QED
    BY <1>1, <1>2

LEMMA ParentRecvType ==
    ASSUME DownloadConstants, TypeInv, NEW cs \in SUBSET Children, ParentRecvData(cs)
    PROVE  /\ currentb' \in 0 .. NumBlocks + MB_SEND_THRESHOLD + 1
           /\ nextb' \in 0 .. NumBlocks
<1>1. currentb' \in {0, currentb}
    BY DEF ParentRecvData
<1>2. PICK S : S \subseteq cs /\ (\A c \in S : toParent[c].type = "CONTINUE")
               /\ nextb' = Max({0} \cup {toParent[c].n : c \in S})
    <2> DEFINE S == {c \in cs : toParent[c].type = "CONTINUE" /\ pstate[c] = "SEND_PROCEED"} \cap entry
    <2>1. nextb' = Max({0} \cup {toParent[c].n : c \in S})
        BY DEF ParentRecvData
    <2>2. S \subseteq cs /\ \A c \in S : toParent[c].type = "CONTINUE"
        OBVIOUS
    <2> QED
        BY <2>1, <2>2
<1> DEFINE I == {0} \cup {toParent[c].n : c \in S}
<1>3. NumBlocks \in Nat /\ I \in SUBSET (0 .. NumBlocks) /\ I # {}
    BY <1>2 DEF TypeInv, DownloadConstants
<1> HIDE DEF I
<1>4. Max(I) \in 0 .. NumBlocks
    BY <1>3, MaxIsGreatest
<1> QED
    BY <1>1, <1>2, <1>3, <1>4 DEF I, TypeInv, TypeOK, MB_SEND_THRESHOLD
LEMMA ChildRecvType ==
    ASSUME TypeInv, NEW c \in Children, ChildRecv(c)
    PROVE  cstate' \in [Children -> CStates] /\ got' \in [Children -> SUBSET Blocks]
<1> USE DEF TypeInv, TypeOK
<1>1. ASSUME NEW from, NEW to \in CStates, GoTo(c, from, to)
      PROVE  cstate' \in [Children -> CStates] /\ got' \in [Children -> SUBSET Blocks]
    BY <1>1 DEF GoTo
<1>2. ASSUME NEW n \in Blocks, RecvBlock(c, n)
      PROVE  cstate' \in [Children -> CStates] /\ got' \in [Children -> SUBSET Blocks]
    BY <1>2 DEF RecvBlock, CStates
<1>3. \/ \E from, to \in CStates : GoTo(c, from, to)
      \/ \E n \in Blocks : RecvBlock(c, n)
      \/ UNCHANGED <<cstate, got>>
    BY DEF ChildRecv, CStates
<1> QED
    BY <1>1, <1>2, <1>3

LEMMA TypeNext ==
    ASSUME DownloadConstants, ParentInv, ParentInv', TypeInv, [Next]_vars
    PROVE  TypeInv'
<1> USE DEF TypeInv, TypeOK, ParentInv
<1>1. ASSUME NEW c \in Children, ChildSend(c) PROVE TypeInv'
    <2>1. UNCHANGED <<link, entry, pstate, cstate, currentb, nextb, got, toChildren>>
        BY <1>1 DEF ChildSend, parentVars, childVars
    <2> QED
        BY <1>1, <2>1, ChildSendType
<1>2. ASSUME ParentSend PROVE TypeInv'
    <2>1. UNCHANGED <<link, entry, pstate, cstate, nextb, got, toParent>>
        BY <1>2 DEF ParentSend, childVars
    <2> QED
        BY <1>2, <2>1, ParentSendType
<1>3. ASSUME NEW cs \in SUBSET Children, ParentRecv(cs) PROVE TypeInv'
    <2>1. UNCHANGED <<link, cstate, got, toParent, toChildren>>
        BY <1>3 DEF ParentRecv, childVars
    <2> QED
        BY <1>3, <2>1, ParentRecvType DEF ParentRecv
<1>4. ASSUME NEW c \in Children, ChildRecv(c) PROVE TypeInv'
    <2>1. UNCHANGED <<link, currentb, nextb, toParent, toChildren>>
        BY <1>4 DEF ChildRecv, parentVars
    <2> QED
        BY <1>4, <2>1, ChildRecvType
<1>5. ASSUME NEW c \in Children, NEW state \in CStates, ChildEnds(c, state),
             link' \subseteq link
      PROVE  TypeInv'
    <2>1. UNCHANGED <<entry, pstate, currentb, nextb, toChildren>>
          /\ cstate' = [cstate EXCEPT ![c] = state]
          /\ toParent' = [toParent EXCEPT ![c] = Silence]
          /\ got' = [got EXCEPT ![c] = IF state = "NONE" THEN {} ELSE @]
        BY <1>5 DEF ChildEnds, parentVars
    <2>2. Silence \in [type : RequestType, n : Nat] /\ Silence.type = "DUMMY"
        BY DEF Silence, Request, RequestType
    <2> QED
        BY <1>5, <2>1, <2>2
<1>6. ASSUME NEW c \in Children, DisconnectedFromParent(c) \/ CommEnd(c) PROVE TypeInv'
    BY <1>5, <1>6 DEF DisconnectedFromParent, CommEnd, CStates
<1>7. CASE \/ \E c \in Children :
                 \/ ChildConnected(c) \/ ConnectedToParent(c) \/ LinkLost(c) \/ ChildDisconnected(c)
                 \/ DisconnectChild(c) \/ CommResponseRequest(c) \/ StartDownload(c)
           \/ UNCHANGED vars
    <2>1. UNCHANGED <<currentb, nextb, got, toParent, toChildren>> /\ link' \subseteq Children
        BY <1>7 DEF ChildConnected, ConnectedToParent, LinkLost, ChildDisconnected, DisconnectChild,
               CommResponseRequest, Respond, StartDownload, Forget, vars, parentVars, childVars
    <2>2. cstate' \in [Children -> CStates]
        BY <1>7 DEF ChildConnected, ConnectedToParent, LinkLost, ChildDisconnected, DisconnectChild,
               CommResponseRequest, Respond, StartDownload, vars, childVars, CStates
    <2> QED
        BY <2>1, <2>2
<1> QED
    BY <1>1, <1>2, <1>3, <1>4, <1>6, <1>7 DEF Next

-----------------------------------------------------------------------------
(* The file *)

\* A child that tells the parent to stop, and one that may boot, has the file; so
\* has one that the parent takes for served, as long as it is there: a child that
\* loses its file has lost its link, and the parent forgets it before it comes back.
FileInv ==
    /\ FileIsComplete
    /\ \A c \in Children : toParent[c].type = "STOPREQ" => got[c] = Blocks
    /\ \A c \in Children : c \in ending => cstate[c] = "BOOTREQ_ACCEPTED"

Complete == {"RECV_COMPLETE", "BOOTREQ_ACCEPTED", "BOOT_READY"}

\* No step but its end takes a block from a child, and no state makes it complete
\* but that in which its last block comes.
LEMMA ChildRecvFile ==
    ASSUME TypeInv, FileInv, NEW c \in Children, ChildRecv(c)
    PROVE  /\ \A d \in Children : got[d] \subseteq got'[d]
           /\ \A d \in Children : cstate'[d] \in Complete => got'[d] = Blocks
           /\ \A d \in Children : d \in ending' => cstate'[d] = "BOOTREQ_ACCEPTED"
<1> USE DEF TypeInv, TypeOK, FileInv, FileIsComplete, Complete
<1>1. ASSUME NEW from, NEW to, GoTo(c, from, to), from # "BOOTREQ_ACCEPTED",
             to \in Complete => from \in Complete
      PROVE  /\ \A d \in Children : got[d] \subseteq got'[d]
             /\ \A d \in Children : cstate'[d] \in Complete => got'[d] = Blocks
             /\ \A d \in Children : d \in ending' => cstate'[d] = "BOOTREQ_ACCEPTED"
    BY <1>1 DEF GoTo
<1>2. ASSUME NEW n \in Blocks, RecvBlock(c, n)
      PROVE  /\ \A d \in Children : got[d] \subseteq got'[d]
             /\ \A d \in Children : cstate'[d] \in Complete => got'[d] = Blocks
             /\ \A d \in Children : d \in ending' => cstate'[d] = "BOOTREQ_ACCEPTED"
    BY <1>2 DEF RecvBlock, IsComplete
<1>3. ASSUME cstate[c] = "BOOTREQ_ACCEPTED", ending' = ending \cup {c}, UNCHANGED <<cstate, got>>
      PROVE  /\ \A d \in Children : got[d] \subseteq got'[d]
             /\ \A d \in Children : cstate'[d] \in Complete => got'[d] = Blocks
             /\ \A d \in Children : d \in ending' => cstate'[d] = "BOOTREQ_ACCEPTED"
    BY <1>3
<1>4. \/ \E from, to : /\ GoTo(c, from, to) /\ from # "BOOTREQ_ACCEPTED"
                       /\ to \in Complete => from \in Complete
      \/ \E n \in Blocks : RecvBlock(c, n)
      \/ cstate[c] = "BOOTREQ_ACCEPTED" /\ ending' = ending \cup {c} /\ UNCHANGED <<cstate, got>>
    <2>1. \/ GoTo(c, "CONNECT", "REQ_ENABLE") \/ GoTo(c, "REQ_ENABLE", "REQ_REFUSED")
          \/ GoTo(c, "REQ_ENABLE", "MEMBER_FULL") \/ GoTo(c, "REQ_ENABLE", "DLINFO_ACCEPTED")
          \/ GoTo(c, "RECV_COMPLETE", "BOOTREQ_ACCEPTED")
          \/ \E n \in Blocks : RecvBlock(c, n)
          \/ cstate[c] = "BOOTREQ_ACCEPTED" /\ ending' = ending \cup {c} /\ UNCHANGED <<cstate, got>>
        BY DEF ChildRecv
    <2> QED
        BY SMTT(30), <2>1
<1> QED
    BY <1>1, <1>2, <1>3, <1>4

LEMMA FileNext ==
    ASSUME DownloadConstants, ParentInv, TypeInv, TypeInv', FileInv, [Next]_vars
    PROVE  FileInv'
<1> USE DEF FileInv, FileIsComplete, TypeInv, TypeOK
<1>1. ASSUME NEW c \in Children, ChildSend(c) PROVE FileInv'
    <2>1. UNCHANGED <<link, pstate, cstate, got, ending>>
        BY <1>1 DEF ChildSend, parentVars, childVars
    <2> QED
        BY <1>1, <2>1, ChildSendType
<1>2. ASSUME NEW cs \in SUBSET Children, ParentRecv(cs) PROVE FileInv'
    <2>1. UNCHANGED <<link, cstate, got, toParent, ending>> /\ cs \subseteq link
        BY <1>2 DEF ParentRecv, childVars
    <2>2. \A c \in Children : pstate'[c] \in Done =>
             pstate[c] \in Done \/ (c \in cs /\ toParent[c].type = "STOPREQ")
        BY <1>2, ParentRecvDataInv DEF ParentRecv
    <2> QED
        BY <2>1, <2>2 DEF Done
<1>3. ASSUME NEW c \in Children, ChildRecv(c) PROVE FileInv'
    <2>1. UNCHANGED <<link, pstate, toParent>>
        BY <1>3 DEF ChildRecv, parentVars
    <2>2. \A d \in Children : got[d] = Blocks => got'[d] = Blocks
        BY <1>3, ChildRecvFile
    <2> QED
        BY <1>3, <2>1, <2>2, ChildRecvFile DEF Complete
<1>4. ASSUME NEW c \in Children, NEW state \in {"NONE", "BOOT_READY"}, ChildEnds(c, state),
             c \notin link', link' \subseteq link,
             state = "BOOT_READY" => c \in ending
      PROVE  FileInv'
    <2>1. /\ cstate' = [cstate EXCEPT ![c] = state]
          /\ toParent' = [toParent EXCEPT ![c] = Silence]
          /\ got' = [got EXCEPT ![c] = IF state = "NONE" THEN {} ELSE @]
          /\ ending' = ending \ {c} /\ pstate' = pstate
        BY <1>4 DEF ChildEnds, parentVars
    <2>2. Silence.type = "DUMMY"
        BY DEF Silence, Request
    <2> QED
        BY <1>4, <2>1, <2>2
<1>5. ASSUME NEW c \in Children, DisconnectedFromParent(c) \/ CommEnd(c) PROVE FileInv'
    BY <1>4, <1>5 DEF DisconnectedFromParent, CommEnd
<1>6. ASSUME NEW c \in Children, ChildConnected(c) \/ ConnectedToParent(c) PROVE FileInv'
    BY <1>6 DEF ChildConnected, ConnectedToParent, parentVars, childVars, ParentInv
<1>7. ASSUME NEW c \in Children, ChildDisconnected(c) \/ DisconnectChild(c) \/ LinkLost(c)
      PROVE  FileInv'
    BY <1>7 DEF ChildDisconnected, DisconnectChild, LinkLost, Forget, parentVars, childVars
<1>8. CASE \/ \E c \in Children : CommResponseRequest(c) \/ StartDownload(c)
           \/ ParentSend \/ UNCHANGED vars
    BY <1>8 DEF CommResponseRequest, Respond, StartDownload, ParentSend, vars, parentVars, childVars
<1> QED
    BY <1>1, <1>2, <1>3, <1>5, <1>6, <1>7, <1>8 DEF Next

-----------------------------------------------------------------------------
(* Theorems *)

DownloadInv == ParentInv /\ TypeInv /\ FileInv

LEMMA DownloadInit == DownloadConstants /\ Init => DownloadInv
<1> SUFFICES ASSUME DownloadConstants, Init PROVE DownloadInv
    OBVIOUS
<1> USE DEF Init, DownloadConstants
<1>1. ParentInv
    <2>1. Cardinality({}) = 0
        BY FS_EmptySet
    <2> QED
        BY <2>1 DEF ParentInv, PStates, Members
<1>2. TypeInv
    BY DEF TypeInv, TypeOK, PStates, CStates, Blocks, RequestType, Silence, Request, Dummy, Frame,
           MB_SEND_THRESHOLD
<1>3. FileInv
    BY DEF FileInv, FileIsComplete, Silence, Request
<1> QED
    BY <1>1, <1>2, <1>3 DEF DownloadInv

\* The inductive invariant.
THEOREM DownloadInvariant == DownloadConstants => (Spec => []DownloadInv)
<1> SUFFICES ASSUME DownloadConstants PROVE Spec => []DownloadInv
    OBVIOUS
<1>1. Init => DownloadInv
    BY DownloadInit
<1>2. DownloadInv /\ [Next]_vars => DownloadInv'
    <2> SUFFICES ASSUME DownloadInv, [Next]_vars PROVE DownloadInv'
        OBVIOUS
    <2>1. ParentInv'
        BY ParentNext DEF DownloadInv
    <2>2. TypeInv'
        BY <2>1, TypeNext DEF DownloadInv
    <2>3. FileInv'
        BY <2>2, FileNext DEF DownloadInv
    <2> QED
        BY <2>1, <2>2, <2>3 DEF DownloadInv
<1> QED
    BY <1>1, <1>2, PTL DEF Spec

\* Every variable of a download keeps its type: no block behind the last one is
\* counted as sent, and no request is for one behind the end of the file.
THEOREM DownloadTypes == DownloadConstants => (Spec => []TypeOK)
<1>1. DownloadInv => TypeOK
    BY DEF DownloadInv, TypeInv
<1> QED
    BY <1>1, DownloadInvariant, PTL

\* The parent's records agree: it sends blocks to the children that receive them
\* and to no other, its members are the children it has accepted and not yet
\* forgotten, and a game never has more players than it takes, also when several
\* are accepted in one exchange.
THEOREM ParentRecordsAgree == DownloadConstants => (Spec => []ParentAgrees)
<1>1. DownloadInv => ParentAgrees
    BY ParentInvAgrees DEF DownloadInv, TypeInv, ParentAgrees
<1> QED
    BY <1>1, DownloadInvariant, PTL

\* A child boots, and the parent takes a download for complete, only when every
\* block has arrived.
THEOREM FileArrives == DownloadConstants => (Spec => []FileIsComplete)
<1>1. DownloadInv => FileIsComplete
    BY DEF DownloadInv, FileInv
<1> QED
    BY <1>1, DownloadInvariant, PTL
=============================================================================
