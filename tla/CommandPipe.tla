---------------------------- MODULE CommandPipe -----------------------------
(***************************************************************************)
(* What snd_command.c promises of the commands that are pushed: the ARM7   *)
(* executes them in the order of SND_PushCommand, each once.  SNDCommand   *)
(* refines it.                                                             *)
(***************************************************************************)
EXTENDS Sequences

CONSTANT Command

VARIABLE pipe       \* the commands pushed and not yet executed, the oldest first

PipeInit == pipe = << >>

Push(c) == pipe' = Append(pipe, c)

Execute == pipe # << >> /\ pipe' = Tail(pipe)

PipeNext == Execute \/ \E c \in Command : Push(c)

PipeSpec == PipeInit /\ [][PipeNext]_pipe
=============================================================================
