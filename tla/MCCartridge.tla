---------------------------- MODULE MCCartridge ----------------------------
(***************************************************************************)
(* The game cartridge as instances for TLC that share one run: "card" is   *)
(* the card library with a client of the backup memory and one of the ROM, *)
(* "archive" the command queue of the file system over that ROM.  A        *)
(* behaviour belongs to the part it starts in; the other stays at rest.    *)
(***************************************************************************)
EXTENDS CardTask, FSArchive, TLC

CONSTANTS c1, c2

VARIABLE part

Operation(k, a, v, n) == [kind |-> k, async |-> a, verify |-> v, len |-> n]

\* Identification by the task, after whose start the client calls on; writes of a page
\* and of two sectors by the caller; reads of the ROM by the task and by DMA.
MCOperations ==
    c1 :> {Operation("identify", TRUE, FALSE, 0), Operation("stream", FALSE, TRUE, 1),
           Operation("sector", FALSE, TRUE, 2)} @@
    c2 :> {Operation("rom", TRUE, FALSE, 1), Operation("dma", FALSE, FALSE, 2)}
MCTarget == c1 :> "BACKUP" @@ c2 :> "ROM"

CartridgeInit == part \in {"card", "archive"} /\ Init /\ ArchiveInit

CartridgeNext ==
    \/ part = "card" /\ Next /\ UNCHANGED <<part, archiveVars>>
    \/ part = "archive" /\ ArchiveNext /\ UNCHANGED <<part, vars>>

CartridgeSpec ==
    /\ CartridgeInit /\ [][CartridgeNext]_<<part, vars, archiveVars>>
    /\ Fairness /\ ArchiveFairness

-----------------------------------------------------------------------------
(* The properties of the instances.  *)

\* A client or a file's thread sleeps only for what is still to come.
CartridgeSleepers == SleepersHaveReason /\ FilesSleepWithReason
=============================================================================
