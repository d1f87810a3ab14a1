------------------------------ MODULE PXIFifo ------------------------------
(***************************************************************************)
(* The word FIFOs between the two processors (pxi/src/pxi_fifo.c): the     *)
(* start-up handshake over the four bits each processor shows the other,   *)
(* the callback tables, sending, and the interrupt handler that hands a    *)
(* word to its callback or sends it back with the error bit.               *)
(*                                                                         *)
(* A processor that knows from PXI_IsCallbackReady that the other one has  *)
(* registered a tag relies on its words; what it sent before that may come *)
(* back, or be lost on the way back.                                       *)
(***************************************************************************)
EXTENDS Integers, Sequences, SequencesExt

CONSTANTS
    Tags,       \* the tags of PXIFifoTag that are used
    FifoSize,   \* words a FIFO holds (16 in the hardware)
    MaxWords    \* bound: words a processor sends under one tag

ASSUME FifoAssumption == FifoSize \in Nat /\ MaxWords \in Nat

Cpus == {"ARM9", "ARM7"}
Other(c) == IF c = "ARM9" THEN "ARM7" ELSE "ARM9"

VARIABLES
    phase,          \* "off", in "handshake" or "up": how far PXI_InitFifo is
    intf,           \* the four bits of reg_PXI_INTF each processor writes
    count,          \* the local i of the two loops of the handshake
    settled,        \* the ARM9's c has been echoed / the ARM7 has spun its time
    handleChecker,  \* pxiHandleChecker: tags with a callback, as others see them
    callbacks,      \* FifoRecvCallbackTable: tags with a callback
    fifo,           \* words on their way to a processor
    sent,           \* words accepted from a processor under a tag
    received,       \* the words its peer's callback was given, without error
    trusted         \* tags for which the processor has seen the other be ready

fifoVars == <<phase, intf, count, settled, handleChecker, callbacks, fifo, sent, received, trusted>>

Words == [tag : Tags, err : BOOLEAN, data : 0 .. MaxWords]

FifoTypeOK ==
    /\ phase \in [Cpus -> {"off", "handshake", "up"}]
    /\ intf \in [Cpus -> 0 .. 15]
    /\ count \in [Cpus -> 0 .. 8]
    /\ settled \in [Cpus -> BOOLEAN]
    /\ handleChecker \in [Cpus -> SUBSET Tags]
    /\ callbacks \in [Cpus -> SUBSET Tags]
    /\ fifo \in [Cpus -> BoundedSeq(Words, FifoSize)]
    /\ sent \in [Cpus -> [Tags -> 0 .. MaxWords]]
    /\ received \in [Cpus -> [Tags -> 0 .. MaxWords]]
    /\ trusted \in [Cpus -> SUBSET Tags]

(* The memory of pxiHandleChecker and the bits of the register hold what   *)
(* the start-up code left there.                                           *)
FifoInit ==
    /\ phase = [c \in Cpus |-> "off"]
    /\ intf \in [Cpus -> {0, 7}]
    /\ count = [c \in Cpus |-> 0]
    /\ settled = [c \in Cpus |-> FALSE]
    /\ handleChecker \in [Cpus -> {{}, Tags}]
    /\ callbacks = [c \in Cpus |-> {}]
    /\ fifo = [c \in Cpus |-> <<>>]
    /\ sent = [c \in Cpus |-> [t \in Tags |-> 0]]
    /\ received = [c \in Cpus |-> [t \in Tags |-> 0]]
    /\ trusted = [c \in Cpus |-> {}]
-----------------------------------------------------------------------------
(* PXI_InitFifo up to the handshake, with interrupts disabled: the FIFO to *)
(* the other processor is cleared, then the first value is shown.          *)
InitFifo(c) ==
    /\ phase[c] = "off"
    /\ phase' = [phase EXCEPT ![c] = "handshake"]
    /\ handleChecker' = [handleChecker EXCEPT ![c] = {}]
    /\ callbacks' = [callbacks EXCEPT ![c] = {}]
    /\ fifo' = [fifo EXCEPT ![Other(c)] = <<>>]
    /\ IF c = "ARM7"
       THEN /\ count' = [count EXCEPT ![c] = 8]
            /\ intf' = [intf EXCEPT ![c] = 8]
       ELSE /\ count' = [count EXCEPT ![c] = 0]
            /\ intf' = [intf EXCEPT ![c] = intf["ARM7"]]
    /\ settled' = [settled EXCEPT ![c] = c = "ARM9"]
    /\ UNCHANGED <<sent, received, trusted>>

(* The ARM7 counts down from 8. OS_SpinWait(1000) is longer than one turn  *)
(* of the ARM9's loop: when the ARM9 is in the loop, it has answered.      *)
SpinWait ==
    /\ phase["ARM7"] = "handshake" /\ ~settled["ARM7"]
    /\ phase["ARM9"] = "handshake" => intf["ARM9"] = intf["ARM7"]
    /\ settled' = [settled EXCEPT !["ARM7"] = TRUE]
    /\ UNCHANGED <<phase, intf, count, handleChecker, callbacks, fifo, sent, received, trusted>>

(* Not answered: i = 8, and the for statement continues with 7.            *)
CountDown ==
    /\ phase["ARM7"] = "handshake" /\ settled["ARM7"]
    /\ IF intf["ARM9"] = count["ARM7"] /\ count["ARM7"] = 0
       THEN /\ phase' = [phase EXCEPT !["ARM7"] = "up"]
            /\ UNCHANGED <<intf, count, settled>>
       ELSE LET next == IF intf["ARM9"] = count["ARM7"] THEN count["ARM7"] - 1 ELSE 7
            IN  /\ count' = [count EXCEPT !["ARM7"] = next]
                /\ intf' = [intf EXCEPT !["ARM7"] = next]
                /\ settled' = [settled EXCEPT !["ARM7"] = FALSE]
                /\ UNCHANGED phase
    /\ UNCHANGED <<handleChecker, callbacks, fifo, sent, received, trusted>>

(* Mutations: the ARM9 leaves at any 0; it leaves when it has followed more *)
(* values than the ARM7 shows.                                             *)
EchoTurn_AnyZero(i) ==
    /\ intf' = [intf EXCEPT !["ARM9"] = intf["ARM7"]]
    /\ count' = [count EXCEPT !["ARM9"] = i]
    /\ phase' = [phase EXCEPT !["ARM9"] = IF intf["ARM7"] = 0 THEN "up" ELSE "handshake"]
    /\ UNCHANGED <<settled, handleChecker, callbacks, fifo, sent, received, trusted>>

EchoTurn_TooLate(i) ==
    /\ intf' = [intf EXCEPT !["ARM9"] = intf["ARM7"]]
    /\ count' = [count EXCEPT !["ARM9"] = i]
    /\ phase' = [phase EXCEPT !["ARM9"] =
                    IF intf["ARM7"] = 0 /\ i > 8 THEN "up" ELSE "handshake"]
    /\ UNCHANGED <<settled, handleChecker, callbacks, fifo, sent, received, trusted>>

(* The ARM9 shows again what the ARM7 shows, and leaves at 0 when it has   *)
(* followed more than four values without a timeout.                       *)
EchoTurn(i) ==
    /\ intf' = [intf EXCEPT !["ARM9"] = intf["ARM7"]]
    /\ count' = [count EXCEPT !["ARM9"] = i]
    /\ phase' = [phase EXCEPT !["ARM9"] =
                    IF intf["ARM7"] = 0 /\ i > 4 THEN "up" ELSE "handshake"]
    /\ UNCHANGED <<settled, handleChecker, callbacks, fifo, sent, received, trusted>>

Echo ==
    /\ phase["ARM9"] = "handshake" /\ intf["ARM7"] # intf["ARM9"]
    /\ EchoTurn(IF count["ARM9"] < 8 THEN count["ARM9"] + 1 ELSE 8)

(* The 1000 turns of the ARM9's wait are longer than the ARM7's OS_SpinWait: *)
(* they run out only when the ARM7 is not there.                           *)
EchoTimeout ==
    /\ phase["ARM9"] = "handshake" /\ intf["ARM7"] = intf["ARM9"]
    /\ phase["ARM7"] # "handshake"
    /\ EchoTurn(1)

Handshake == SpinWait \/ CountDown \/ Echo \/ EchoTimeout
-----------------------------------------------------------------------------
Push(c, word) == fifo' = [fifo EXCEPT ![c] = Append(@, word)]
IsFull(c) == Len(fifo[c]) >= FifoSize

(* PXI_SetFifoRecvCallback: the table and the bit change with interrupts   *)
(* disabled.                                                               *)
SetFifoRecvCallback(c, t) ==
    /\ phase[c] = "up" /\ t \notin callbacks[c]
    /\ callbacks' = [callbacks EXCEPT ![c] = @ \cup {t}]
    /\ handleChecker' = [handleChecker EXCEPT ![c] = @ \cup {t}]
    /\ UNCHANGED <<phase, intf, count, settled, fifo, sent, received, trusted>>

(* PXI_IsCallbackReady, with the answer TRUE.                              *)
IsCallbackReady(c, t) ==
    /\ phase[c] = "up" /\ t \notin trusted[c]
    /\ t \in handleChecker[Other(c)]
    /\ trusted' = [trusted EXCEPT ![c] = @ \cup {t}]
    /\ UNCHANGED <<phase, intf, count, settled, handleChecker, callbacks, fifo, sent, received>>

(* PXI_SendWordByFifo that succeeds; a sender that finds the FIFO full     *)
(* tries again later. Words that nobody relies on are numbered 0.          *)
SendWordByFifo(c, t) ==
    /\ phase[c] = "up" /\ ~IsFull(Other(c))
    /\ \/ /\ t \in trusted[c] /\ sent[c][t] < MaxWords
          /\ sent' = [sent EXCEPT ![c][t] = @ + 1]
          /\ Push(Other(c), [tag |-> t, err |-> FALSE, data |-> sent[c][t] + 1])
       \/ /\ Push(Other(c), [tag |-> t, err |-> FALSE, data |-> 0])
          /\ UNCHANGED sent
    /\ UNCHANGED <<phase, intf, count, settled, handleChecker, callbacks, received, trusted>>

(* One turn of PXIi_HandlerRecvFifoNotEmpty. A word without a callback goes *)
(* back with its error bit when it has none yet and the FIFO has room.     *)
HandlerRecvFifoNotEmpty(c) ==
    /\ phase[c] = "up" /\ fifo[c] # <<>>
    /\ LET word == Head(fifo[c])
           rest == [fifo EXCEPT ![c] = Tail(@)]
       IN  IF word.tag \in callbacks[c]
           THEN /\ fifo' = rest
                /\ received' = IF word.err \/ word.data = 0 THEN received
                               ELSE [received EXCEPT ![Other(c)][word.tag] = word.data]
           ELSE /\ fifo' = IF word.err \/ IsFull(Other(c)) THEN rest
                           ELSE [rest EXCEPT ![Other(c)] = Append(@, [word EXCEPT !.err = TRUE])]
                /\ UNCHANGED received
    /\ UNCHANGED <<phase, intf, count, settled, handleChecker, callbacks, sent, trusted>>

FifoNext ==
    \/ \E c \in Cpus : InitFifo(c) \/ HandlerRecvFifoNotEmpty(c)
    \/ \E c \in Cpus, t \in Tags :
          SetFifoRecvCallback(c, t) \/ IsCallbackReady(c, t) \/ SendWordByFifo(c, t)
    \/ Handshake

(* Both processors run their start-up code and take their interrupts.      *)
FifoFairness ==
    /\ WF_fifoVars(SpinWait) /\ WF_fifoVars(CountDown)
    /\ WF_fifoVars(Echo) /\ WF_fifoVars(EchoTimeout)
    /\ \A c \in Cpus : WF_fifoVars(InitFifo(c)) /\ WF_fifoVars(HandlerRecvFifoNotEmpty(c))

FifoSpec == FifoInit /\ [][FifoNext]_fifoVars /\ FifoFairness
-----------------------------------------------------------------------------
(* A processor leaves the handshake only when the other one has cleared    *)
(* its callback bits, so that PXI_IsCallbackReady never reads what the     *)
(* memory held before: a tag relied on has its callback.                   *)
ReadyMeansRegistered ==
    \A c \in Cpus :
        /\ phase[c] = "up" => phase[Other(c)] # "off"
        /\ trusted[c] \subseteq callbacks[Other(c)]

(* The words of a tag relied on arrive exactly once and in order, whatever *)
(* other words fill the FIFOs or come back: those not yet received are in  *)
(* the FIFO, without error, in the order they were sent.                   *)
Numbered(c, t) ==
    {i \in DOMAIN fifo[Other(c)] : fifo[Other(c)][i].tag = t /\ fifo[Other(c)][i].data # 0}
InOrderOnce ==
    \A c \in Cpus, t \in Tags :
        /\ received[c][t] <= sent[c][t]
        /\ {fifo[Other(c)][i].data : i \in Numbered(c, t)} = received[c][t] + 1 .. sent[c][t]
        /\ \A i, j \in Numbered(c, t) :
              /\ ~fifo[Other(c)][i].err
              /\ i < j => fifo[Other(c)][i].data < fifo[Other(c)][j].data

(* What a processor that has seen a callback ready relies on.              *)
WordsArriveInOrder == FifoTypeOK /\ ReadyMeansRegistered /\ InOrderOnce

(* The handshake has ended on both processors, whichever started first and *)
(* whatever the register showed before.                                    *)
BothAreUp == \A c \in Cpus : phase[c] = "up"
=============================================================================
