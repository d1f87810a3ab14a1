------------------------------ MODULE FSArchive ------------------------------
(***************************************************************************)
(* The command queue of a file system archive (fs_archive, fs_command,     *)
(* fs_file, and the archive of the card's ROM in fs_rom): commands of many *)
(* files, executed one at a time by the thread that finds the archive idle, *)
(* by the thread a command is waited for in, or by the callback of the     *)
(* device; suspending, unloading and cancelling.                           *)
(*                                                                         *)
(* A section with interrupts disabled is a step. Each file is used by one  *)
(* thread, so that a thread woken inside such a section does not go on in  *)
(* the middle of it.                                                       *)
(***************************************************************************)
EXTENDS Naturals, Sequences, FiniteSets, SequencesExt

CONSTANTS
    Files,      \* the files, each with the thread that uses it
    NoFile

ASSUME FilesAssumption == Files \cap {NoFile, "card", "manager"} = {}

Processes == Files \cup {"card", "manager"}

VARIABLES
    arcFlag,    \* p_arc->flag
    list,       \* p_arc->list
    stat,       \* p_file->stat, without the bits that tell what is open
    error,      \* p_file->error
    command,    \* p_file->command
    device,     \* the file the card reads for
    romLocked,  \* the ROM archive's hold on the card
    at,         \* where each thread, and the callback of the card, is
    cur,        \* the file it executes a command of
    dormant,    \* it sleeps in the queue of where it is
    overtaken   \* history: a file was used anew before its executor tested its mode

archiveVars == <<arcFlag, list, stat, error, command, device, romLocked, at, cur, dormant, overtaken>>

Commands == {"READFILE", "WRITEFILE", "OPENFILE"}
Places == {"idle", "activate", "operating?", "translate", "called", "sync?", "release", "next",
           "busy?", "suspending?", "suspended", "unloaded"}

ArchiveTypeOK ==
    /\ arcFlag \subseteq {"LOADED", "RUNNING", "SUSPENDING", "SUSPEND", "CANCELING", "IS_SYNC", "IS_ASYNC"}
    /\ \A f \in Files : stat[f] \subseteq {"BUSY", "SYNC", "OPERATING", "CANCEL"}
    /\ error \in [Files -> {"SUCCESS", "BUSY", "CANCELED", "ERROR", "UNSUPPORTED"}]
    /\ command \in [Files -> Commands]
    /\ device \in Files \cup {NoFile}
    /\ romLocked \in BOOLEAN
    /\ at \in [Processes -> Places]
    /\ cur \in [Processes -> Files \cup {NoFile}]
    /\ dormant \in [Processes -> BOOLEAN]

ArchiveInit ==
    /\ arcFlag = {"LOADED"}
    /\ list = <<>>
    /\ stat = [f \in Files |-> {}]
    /\ error = [f \in Files |-> "SUCCESS"]
    /\ command = [f \in Files |-> "OPENFILE"]
    /\ device = NoFile
    /\ romLocked = FALSE
    /\ at = [p \in Processes |-> "idle"]
    /\ cur = [p \in Processes |-> NoFile]
    /\ dormant = [p \in Processes |-> FALSE]
    /\ overtaken = FALSE

IsSync(f) == "SYNC" \in stat[f]
AwakeAt(p, place) == at[p] = place /\ ~dormant[p]
Goes(p, place, file) ==
    at' = [at EXCEPT ![p] = place] /\ cur' = [cur EXCEPT ![p] = file]
Leave(p) == Goes(p, "idle", NoFile)
FallAsleep(p) == dormant' = [dormant EXCEPT ![p] = TRUE]
(* Mutation: the thread of a file is not woken.                            *)
WakeFiles_None(fs) == UNCHANGED dormant

(* Every file's queue has one sleeper at most, its thread.                 *)
WakeFiles(fs) == dormant' = [p \in Processes |-> dormant[p] /\ ~(p \in fs /\ at[p] \in {"operating?", "busy?"})]

WakeSync == dormant' = [p \in Processes |-> dormant[p] /\ at[p] # "sync?"]
(* Flags that are set with interrupts enabled: an update from a section of *)
(* another thread between the read and the write is lost.                  *)
FlagsInUse == (\E p \in Processes : at[p] = "translate") \/ (device # NoFile /\ "IS_ASYNC" \in arcFlag)

(* The files of s that are not in fs, in their order.                      *)
Without(s, fs) ==
    LET kept[i \in 0 .. Len(s)] ==
            IF i = 0 THEN <<>>
            ELSE IF s[i] \in fs THEN kept[i - 1]
            ELSE Append(kept[i - 1], s[i])
    IN  kept[Len(s)]

(* FSi_ReleaseCommand                                                      *)
ReleaseCommands(fs, ret) ==
    /\ stat' = [f \in Files |-> IF f \in fs THEN {} ELSE stat[f]]
    /\ error' = [f \in Files |-> IF f \in fs THEN ret ELSE error[f]]
    /\ list' = Without(list, fs)
    /\ WakeFiles(fs)
-----------------------------------------------------------------------------
(* FSi_NextCommand: first the cancelled commands go, then the one at the   *)
(* head starts, unless the archive is to be suspended.                     *)
Cancelled(flags) ==
    IF "CANCELING" \in flags THEN {f \in ToSet(list) : "CANCEL" \in stat[f]} ELSE {}

NextCommand(p, flags) ==
    LET gone == Cancelled(flags)
        rest == Without(list, gone)
        kept == flags \ {"CANCELING"}
        starts == {"SUSPENDING", "SUSPEND"} \cap flags = {} /\ rest # <<>>
    IN  /\ list' = rest
        /\ error' = [f \in Files |-> IF f \in gone THEN "CANCELED" ELSE error[f]]
        /\ IF starts
           THEN /\ arcFlag' = kept \cup {"RUNNING"}
                /\ UNCHANGED romLocked
                /\ IF "RUNNING" \in flags
                   THEN /\ stat' = [f \in Files |-> IF f \in gone THEN {}
                                                    ELSE IF f = Head(rest) THEN stat[f] \cup {"OPERATING"}
                                                    ELSE stat[f]]
                        /\ WakeFiles(gone \cup {f \in {Head(rest)} : IsSync(f)})
                        /\ IF IsSync(Head(rest)) THEN Leave(p) ELSE Goes(p, "translate", Head(rest))
                   ELSE /\ stat' = [f \in Files |-> IF f \in gone THEN {} ELSE stat[f]]
                        /\ WakeFiles(gone)
                        /\ Goes(p, "activate", Head(rest))
           ELSE /\ arcFlag' = (kept \ {"RUNNING", "SUSPENDING"})
                                \cup (IF "SUSPENDING" \in flags THEN {"SUSPEND"} ELSE {})
                /\ romLocked' = (romLocked /\ "RUNNING" \notin flags)
                /\ stat' = [f \in Files |-> IF f \in gone THEN {} ELSE stat[f]]
                /\ dormant' = [q \in Processes |->
                                  /\ dormant[q]
                                  /\ ~(q \in gone /\ at[q] \in {"operating?", "busy?"})
                                  /\ ~("SUSPENDING" \in flags /\ at[q] = "suspending?")]
                /\ Leave(p)
        /\ UNCHANGED <<command, device>>

Next1(p) ==
    /\ at[p] = "next"
    /\ NextCommand(p, arcFlag)
    /\ UNCHANGED overtaken

(* Mutation: a suspended archive starts a command.                         *)
AtRest_Suspended == "RUNNING" \notin arcFlag

AtRest == {"SUSPEND", "RUNNING"} \cap arcFlag = {}

(* FSi_SendCommand. A command of FS_ARCHIVE_PROC_SYNC is always            *)
(* synchronous; FS_ReadFile and FS_WriteFile set the bit before.           *)
SendCommand(f, com, async) ==
    LET bits == {"BUSY"} \cup IF async THEN {} ELSE {"SYNC"}
        starts == AtRest
    IN  /\ at[f] = "idle" /\ stat[f] = {} /\ "LOADED" \in arcFlag /\ ~overtaken
        /\ com = "OPENFILE" => ~async
        /\ command' = [command EXCEPT ![f] = com]
        /\ error' = [error EXCEPT ![f] = "BUSY"]
        /\ stat' = [stat EXCEPT ![f] = bits]
        /\ list' = Append(list, f)
        /\ arcFlag' = IF starts THEN arcFlag \cup {"RUNNING"} ELSE arcFlag
        /\ dormant' = [dormant EXCEPT ![f] = ~starts /\ ~async]
        /\ IF starts THEN Goes(f, "activate", f)
           ELSE IF async THEN Leave(f) ELSE Goes(f, "operating?", f)
        /\ UNCHANGED <<device, romLocked, overtaken>>

(* FS_COMMAND_ACTIVATE locks the ROM; then the command operates. Resuming, *)
(* a command that is waited for is left to its thread.                     *)
Activate(p) ==
    /\ at[p] = "activate"
    /\ romLocked' = TRUE
    /\ stat' = [stat EXCEPT ![cur[p]] = @ \cup {"OPERATING"}]
    /\ IF IsSync(cur[p]) /\ p # cur[p]
       THEN Leave(p) /\ WakeFiles({cur[p]})
       ELSE Goes(p, "translate", cur[p]) /\ UNCHANGED dormant
    /\ UNCHANGED <<arcFlag, list, error, command, device, overtaken>>

(* A thread waits until its command operates. The test is of OPERATING     *)
(* alone: a command that was cancelled meanwhile is not seen.              *)
AwaitOperating(f) ==
    /\ AwakeAt(f, "operating?")
    /\ IF "OPERATING" \in stat[f]
       THEN Goes(f, "translate", f) /\ UNCHANGED dormant
       ELSE FallAsleep(f) /\ UNCHANGED <<at, cur>>
    /\ UNCHANGED <<arcFlag, list, stat, error, command, device, romLocked, overtaken>>

(* FS_WaitAsync. Who waits for a command that has not begun executes it.   *)
WaitFileAsync(f) ==
    /\ at[f] = "idle" /\ "BUSY" \in stat[f]
    /\ LET owner == {"SYNC", "OPERATING"} \cap stat[f] = {}
       IN  /\ stat' = [stat EXCEPT ![f] = IF owner THEN @ \cup {"SYNC"} ELSE @]
           /\ Goes(f, IF owner THEN "operating?" ELSE "busy?", f)
    /\ FallAsleep(f)
    /\ UNCHANGED <<arcFlag, list, error, command, device, romLocked, overtaken>>

AwaitEnd(f) ==
    /\ AwakeAt(f, "busy?")
    /\ IF "BUSY" \in stat[f] THEN FallAsleep(f) /\ UNCHANGED <<at, cur>>
       ELSE Leave(f) /\ UNCHANGED dormant
    /\ UNCHANGED <<arcFlag, list, stat, error, command, device, romLocked, overtaken>>

(* FS_CancelFile, from any thread or handler.                              *)
CancelFile(f) ==
    /\ "BUSY" \in stat[f] /\ "CANCEL" \notin stat[f] /\ ~overtaken
    /\ stat' = [stat EXCEPT ![f] = @ \cup {"CANCEL"}]
    /\ \/ arcFlag' = arcFlag \cup {"CANCELING"}
       \/ FlagsInUse /\ UNCHANGED arcFlag
    /\ UNCHANGED <<list, error, command, device, romLocked, at, cur, dormant, overtaken>>
-----------------------------------------------------------------------------
(* FSi_TranslateCommand up to what the device answers, with the head of    *)
(* the loop of FSi_ExecuteAsyncCommand. The ROM refuses a write at once; a *)
(* read, of a file or of the tables, goes to the card, which may still be  *)
(* at work for another; opening a file whose tables are in memory, or      *)
(* directly, or closing it, does not.                                      *)
Translate(p) ==
    LET f == cur[p]
        mode == IF IsSync(f) THEN "IS_SYNC" ELSE "IS_ASYNC"
        answers == CASE command[f] = "READFILE" -> {"async"}
                     [] command[f] = "WRITEFILE" -> {"UNSUPPORTED"}
                     [] command[f] = "OPENFILE" -> {"async", "SUCCESS"}
    IN  /\ at[p] = "translate"
        /\ \E answer \in answers :
              IF answer = "async"
              THEN /\ device = NoFile
                   /\ device' = f
                   /\ arcFlag' = arcFlag \cup {mode}
                   /\ Goes(p, "called", f)
                   /\ UNCHANGED <<list, stat, error, dormant>>
              ELSE /\ arcFlag' = arcFlag \ {mode}
                   /\ UNCHANGED device
                   /\ IF IsSync(f)
                      THEN /\ error' = [error EXCEPT ![f] = answer]
                           /\ Goes(p, "release", f)
                           /\ UNCHANGED <<list, stat, dormant>>
                      ELSE ReleaseCommands({f}, answer) /\ Goes(p, "next", NoFile)
        /\ UNCHANGED <<command, romLocked, overtaken>>

(* The mode of the file is read again after the device has been started.   *)
(* For a command of another thread's file, the device may have answered    *)
(* and that thread have gone on to its next command.                       *)
Called(p) ==
    /\ at[p] = "called"
    /\ IF IsSync(cur[p]) THEN Goes(p, "sync?", cur[p]) ELSE Leave(p)
    /\ overtaken' = (overtaken \/ (IsSync(cur[p]) /\ p # cur[p]))
    /\ UNCHANGED <<arcFlag, list, stat, error, command, device, romLocked, dormant>>

AwaitSync(p) ==
    /\ AwakeAt(p, "sync?")
    /\ IF "IS_SYNC" \in arcFlag THEN FallAsleep(p) /\ UNCHANGED <<at, cur>>
       ELSE /\ IF p = cur[p] THEN Goes(p, "release", p) ELSE Goes(p, "next", NoFile)
            /\ UNCHANGED dormant
    /\ UNCHANGED <<arcFlag, list, stat, error, command, device, romLocked, overtaken>>

(* FSi_ExecuteSyncCommand after the translation.                           *)
Release(p) ==
    /\ at[p] = "release"
    /\ ReleaseCommands({cur[p]}, error[cur[p]])
    /\ Goes(p, "next", NoFile)
    /\ UNCHANGED <<arcFlag, command, device, romLocked, overtaken>>

(* FSi_OnRomReadDone and FS_NotifyArchiveAsyncEnd: the card has read, or   *)
(* was pulled out.                                                         *)
NotifyArchiveAsyncEnd(ret) ==
    /\ device # NoFile /\ at["card"] = "idle" /\ list # <<>>
    /\ device' = NoFile
    /\ arcFlag' = arcFlag \ {IF "IS_ASYNC" \in arcFlag THEN "IS_ASYNC" ELSE "IS_SYNC"}
    /\ IF "IS_ASYNC" \in arcFlag
       THEN ReleaseCommands({Head(list)}, ret) /\ Goes("card", "next", NoFile)
       ELSE /\ error' = [error EXCEPT ![Head(list)] = ret]
            /\ WakeSync
            /\ UNCHANGED <<list, stat, at, cur>>
    /\ UNCHANGED <<command, romLocked, overtaken>>
-----------------------------------------------------------------------------
(* FS_SuspendArchive, and with it FS_UnloadArchive and                     *)
(* FS_UnloadArchiveTables, which begin with it.                            *)
SuspendArchive ==
    /\ at["manager"] = "idle" /\ ~overtaken
    /\ IF "RUNNING" \in arcFlag
       THEN /\ \/ arcFlag' = arcFlag \cup {"SUSPENDING"}
               \/ FlagsInUse /\ UNCHANGED arcFlag
            /\ FallAsleep("manager")
            /\ Goes("manager", "suspending?", NoFile)
       ELSE /\ arcFlag' = arcFlag \cup {"SUSPEND"}
            /\ Goes("manager", "suspended", NoFile)
            /\ UNCHANGED dormant
    /\ UNCHANGED <<list, stat, error, command, device, romLocked, overtaken>>

AwaitSuspended ==
    /\ AwakeAt("manager", "suspending?")
    /\ IF "SUSPENDING" \in arcFlag THEN FallAsleep("manager") /\ UNCHANGED <<at, cur>>
       ELSE Goes("manager", "suspended", NoFile) /\ UNCHANGED dormant
    /\ UNCHANGED <<arcFlag, list, stat, error, command, device, romLocked, overtaken>>

ResumeArchive ==
    /\ at["manager"] = "suspended"
    /\ NextCommand("manager", arcFlag \ {"SUSPEND"})
    /\ UNCHANGED overtaken

(* The rest of FS_UnloadArchive, which resumes an empty list.              *)
UnloadArchive ==
    /\ at["manager"] = "suspended"
    /\ ReleaseCommands(ToSet(list), "CANCELED")
    /\ arcFlag' = arcFlag \ {"CANCELING", "LOADED", "SUSPEND"}
    /\ Goes("manager", "unloaded", NoFile)
    /\ UNCHANGED <<command, device, romLocked, overtaken>>

LoadArchive ==
    /\ at["manager"] = "unloaded"
    /\ arcFlag' = arcFlag \cup {"LOADED"}
    /\ Leave("manager")
    /\ UNCHANGED <<list, stat, error, command, device, romLocked, dormant, overtaken>>

ExecuteCommand(p) == Next1(p) \/ Activate(p) \/ Translate(p) \/ Called(p) \/ AwaitSync(p) \/ Release(p)
Await(f) == AwaitOperating(f) \/ AwaitEnd(f)
Device == \E ret \in {"SUCCESS", "ERROR"} : NotifyArchiveAsyncEnd(ret)

ArchiveNext ==
    \/ \E f \in Files, com \in Commands, async \in BOOLEAN : SendCommand(f, com, async)
    \/ \E f \in Files : WaitFileAsync(f) \/ CancelFile(f) \/ Await(f)
    \/ \E p \in Processes : ExecuteCommand(p)
    \/ Device
    \/ SuspendArchive \/ AwaitSuspended \/ ResumeArchive \/ UnloadArchive \/ LoadArchive

\* A thread that can go on does, and the card ends what it was asked for.
ArchiveFairness ==
    /\ \A f \in Files : WF_archiveVars(ExecuteCommand(f) \/ Await(f))
    /\ WF_archiveVars(ExecuteCommand("manager") \/ AwaitSuspended \/ ResumeArchive)
    /\ WF_archiveVars(ExecuteCommand("card") \/ Device)

ArchiveSpec == ArchiveInit /\ [][ArchiveNext]_archiveVars /\ ArchiveFairness
-----------------------------------------------------------------------------
(* Who has the archive: the threads and callbacks that execute, the thread *)
(* a command has been handed to, and the card that reads for a command     *)
(* nobody waits in.                                                        *)
Executors ==
    {p \in Processes : \/ at[p] \in {"activate", "translate", "release", "next"}
                       \/ at[p] \in {"called", "sync?"} /\ p = cur[p] /\ IsSync(p)}
    \cup {f \in Files : at[f] = "operating?" /\ "OPERATING" \in stat[f]}
InCard == {f \in {device} \ {NoFile} : ~IsSync(f)}

(* One command at a time: while the archive runs, one thread, callback or  *)
(* device has it, and the ROM is locked for it; otherwise nobody does. The *)
(* one exception is a thread that takes another thread's next command for  *)
(* the one it has started.                                                 *)
OneExecutor ==
    ~overtaken =>
        /\ Cardinality(Executors) + Cardinality(InCard) = IF "RUNNING" \in arcFlag THEN 1 ELSE 0
        /\ romLocked = ("RUNNING" \in arcFlag /\ ~\E p \in Processes : at[p] = "activate")
        /\ device # NoFile => device = Head(list)

(* The list holds the busy files, each once, and only its head operates.   *)
ListIsBusy ==
    ~overtaken =>
        /\ ToSet(list) = {f \in Files : "BUSY" \in stat[f]} /\ IsInjective(list)
        /\ \A f \in Files : "OPERATING" \in stat[f] => f = Head(list)

(* A suspended archive is at rest: nothing operates and the ROM is free,   *)
(* until it is resumed.                                                    *)
SuspendedAtRest ==
    at["manager"] = "suspended" /\ ~overtaken => device = NoFile /\ ~romLocked /\ Executors = {}

(* The whole of what an archive promises of its commands.                  *)
OneCommandAtATime == ArchiveTypeOK /\ OneExecutor /\ ListIsBusy /\ SuspendedAtRest

(* A thread sleeps for something that is to come: the one exception is a   *)
(* thread that waits to execute a command which is cancelled, alone or with *)
(* its archive; nothing wakes it but its file.                             *)
FilesSleepWithReason ==
  ~overtaken =>
    /\ \A f \in Files :
          /\ dormant[f] /\ at[f] = "operating?" =>
                "OPERATING" \notin stat[f] /\ ("BUSY" \in stat[f] \/ error[f] = "CANCELED")
          /\ dormant[f] /\ at[f] = "busy?" => "BUSY" \in stat[f]
    /\ \A p \in Processes : dormant[p] /\ at[p] = "sync?" => "IS_SYNC" \in arcFlag /\ device # NoFile

(* FSi_ReleaseCommand asserts that the file is busy.                       *)
ReleasedFileIsBusy ==
    /\ \A p \in Processes : at[p] = "release" => "BUSY" \in stat[cur[p]]
    /\ device # NoFile /\ at["card"] = "idle" /\ "IS_ASYNC" \in arcFlag =>
          list # <<>> /\ "BUSY" \in stat[Head(list)]

(* Every command ends: those queued behind others, behind a suspension, and *)
(* those that are waited for.                                              *)
CommandEnds ==
    \A f \in Files : "BUSY" \in stat[f] ~> "BUSY" \notin stat[f] \/ overtaken
=============================================================================
