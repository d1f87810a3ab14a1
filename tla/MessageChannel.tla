--------------------------- MODULE MessageChannel ---------------------------
(***************************************************************************)
(* What a message queue of os_message.c promises: a bounded sequence to    *)
(* whose end OS_SendMessage appends and whose front OS_JamMessage extends, *)
(* OS_ReceiveMessage takes from and OS_ReadMessage looks at.  Every caller *)
(* gets the message that is first at that moment.  OSMessage refines it.   *)
(***************************************************************************)
EXTENDS Integers, Sequences

CONSTANTS Client,       \* those who call: threads and the interrupt handler
          Message,
          Capacity,     \* mq->msgCount
          NoMessage

VARIABLES contents,     \* the messages in the queue, first to be received first
          received      \* what each client was given last

ChannelInit == /\ contents = << >>
               /\ received = [c \in Client |-> NoMessage]

Insert(new) == /\ Len(contents) < Capacity
               /\ contents' = new
               /\ UNCHANGED received

SendTo(msg)  == Insert(Append(contents, msg))
JamTo(msg)   == Insert(<<msg>> \o contents)

ReadBy(c)    == /\ contents # << >>
                /\ received' = [received EXCEPT ![c] = Head(contents)]
                /\ UNCHANGED contents

ReceiveBy(c) == /\ contents # << >>
                /\ received' = [received EXCEPT ![c] = Head(contents)]
                /\ contents' = Tail(contents)

ChannelNext == \/ \E msg \in Message : SendTo(msg) \/ JamTo(msg)
               \/ \E c \in Client : ReceiveBy(c) \/ ReadBy(c)

ChannelSpec == ChannelInit /\ [][ChannelNext]_<<contents, received>>
=============================================================================
