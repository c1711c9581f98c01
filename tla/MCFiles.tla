-------------------------------- MODULE MCFiles --------------------------------
(***************************************************************************)
(* What the library does with descriptors, and what it reports: polls,     *)
(* reads and writes under a deadline, temporary files, the list of files,  *)
(* the standard descriptors, flags, sockets, error frames, messages, times *)
(* that are measured, and text that is parsed.  These parts share no       *)
(* state, so a behaviour is one of the part in focus, while the others     *)
(* stay in their initial states: each part is checked by itself.           *)
(***************************************************************************)
EXTENDS PollLoop, FdTransfer, TemporaryFile, FileList, StdFds, ErrorFrames, Messages,
        Arguments, Environment, Sockets, FileLocks,
        FullReads, TestFaults, FdFlags, IntervalTimer, ProcText

VARIABLE focus      \* the part that runs

Parts == {"poll", "transfer", "temporary", "files", "standard", "errors", "messages",
          "arguments", "environment", "sockets", "locks",
          "reads", "faults", "flags", "intervals", "texts"}
OneProcess == [w \in Writers |-> "process"]

FilesInit ==
    /\ focus \in Parts
    /\ PollInit /\ TransferInit /\ TempInit /\ FileInit /\ StdInit /\ FramesInit /\ MessagesInit
    /\ ArgumentsInit /\ EnvironmentInit /\ SocketsInit /\ FileLocksInit
    /\ FullReadsInit /\ TestFaultsInit /\ FdFlagsInit /\ IntervalInit /\ ProcTextInit

\* All parts but one stay as they are.
Others(name) ==
    /\ UNCHANGED focus
    /\ IF name = "poll" THEN TRUE ELSE UNCHANGED pollVars
    /\ IF name = "transfer" THEN TRUE ELSE UNCHANGED transferVars
    /\ IF name = "temporary" THEN TRUE ELSE UNCHANGED tempVars
    /\ IF name = "files" THEN TRUE ELSE UNCHANGED fileVars
    /\ IF name = "standard" THEN TRUE ELSE UNCHANGED stdVars
    /\ IF name = "errors" THEN TRUE ELSE UNCHANGED frameVars
    /\ IF name = "messages" THEN TRUE ELSE UNCHANGED messageVars
    /\ IF name = "arguments" THEN TRUE ELSE UNCHANGED argumentVars
    /\ IF name = "environment" THEN TRUE ELSE UNCHANGED environmentVars
    /\ IF name = "sockets" THEN TRUE ELSE UNCHANGED socketVars
    /\ IF name = "locks" THEN TRUE ELSE UNCHANGED lockVars
    /\ IF name = "reads" THEN TRUE ELSE UNCHANGED fullVars
    /\ IF name = "faults" THEN TRUE ELSE UNCHANGED faultVars
    /\ IF name = "flags" THEN TRUE ELSE UNCHANGED flagVars
    /\ IF name = "intervals" THEN TRUE ELSE UNCHANGED intervalVars
    /\ IF name = "texts" THEN TRUE ELSE UNCHANGED procVars

PollRun == focus = "poll" /\ PollNext /\ Others("poll")
TransferRun == focus = "transfer" /\ TransferNext /\ Others("transfer")
TempRun == focus = "temporary" /\ TempNext /\ Others("temporary")
FileRun == focus = "files" /\ FileNext /\ Others("files")
StdRun == focus = "standard" /\ StdNext /\ Others("standard")
FrameRun == focus = "errors" /\ FramesNext /\ Others("errors")
MessageRun == focus = "messages" /\ MessagesNext /\ Others("messages")
ArgumentRun == focus = "arguments" /\ ArgumentsNext /\ Others("arguments")
EnvironmentRun == focus = "environment" /\ EnvironmentNext /\ Others("environment")
SocketRun == focus = "sockets" /\ SocketsNext /\ Others("sockets")
LockRun == focus = "locks" /\ FileLocksNext /\ Others("locks")
ReadsRun == focus = "reads" /\ FullReadsNext /\ Others("reads")
FaultsRun == focus = "faults" /\ TestFaultsNext /\ Others("faults")
FlagsRun == focus = "flags" /\ FdFlagsNext /\ Others("flags")
IntervalRun == focus = "intervals" /\ IntervalNext /\ Others("intervals")
TextRun == focus = "texts" /\ ProcTextNext /\ Others("texts")

FilesNext ==
    \/ PollRun \/ TransferRun \/ TempRun
    \/ FileRun \/ StdRun \/ FrameRun \/ MessageRun
    \/ ArgumentRun \/ EnvironmentRun \/ SocketRun \/ LockRun
    \/ ReadsRun \/ FaultsRun \/ FlagsRun \/ IntervalRun \/ TextRun

filesVars ==
    <<focus, pollVars, transferVars, tempVars, fileVars, stdVars, frameVars, messageVars,
      argumentVars, environmentVars, socketVars, lockVars, fullVars, faultVars, flagVars, intervalVars,
      procVars>>

FilesSpec == FilesInit /\ [][FilesNext]_filesVars

-----------------------------------------------------------------------------
FileTypesOK ==
    /\ focus = "poll" => PollTypeOK
    /\ focus = "transfer" => TransferTypeOK
    /\ focus = "temporary" => TempTypeOK
    /\ focus = "files" => FileTypeOK
    /\ focus = "standard" => StdTypeOK
    /\ focus = "errors" => FramesTypeOK
    /\ focus = "messages" => MessagesTypeOK
    /\ focus = "arguments" => ArgumentsTypeOK
    /\ focus = "environment" => EnvironmentTypeOK
    /\ focus = "sockets" => SocketsTypeOK
    /\ focus = "locks" => FileLocksTypeOK
    /\ focus = "reads" => FullReadsTypeOK
    /\ focus = "faults" => TestFaultsTypeOK
    /\ focus = "flags" => FdFlagsTypeOK
    /\ focus = "intervals" => IntervalTypeOK
    /\ focus = "texts" => ProcTextTypeOK

\* The loop serves its files before the timers, and every timer at its time; timers and
\* deadlines that the library works out itself are those of the clock.
PollKept ==
    /\ focus = "poll" => PollLoopKept
    /\ focus = "intervals" => IntervalsKept

\* A call that moves data loses none, and gives up for its deadline only after the file had
\* its chance.
MovesKept ==
    /\ focus = "transfer" => TransfersKept
    /\ focus = "reads" => FullReadsKept

\* Descriptors are where they belong when a call ends, with their flags, and no file is left
\* behind.
FilesKept ==
    /\ focus = "temporary" => TemporaryKept
    /\ focus = "files" => FileListKept
    /\ focus = "standard" => StdFdsKept
    /\ focus = "sockets" => SocketsKept
    /\ focus = "locks" => FileLocksKept
    /\ focus = "flags" => FdFlagsKept

\* What is read is what was written: error frames as they were added, messages as they
\* were printed, lists of arguments, numbers and the state of processes as they stand in
\* their texts.
ReportsKept ==
    /\ focus = "errors" => ErrorsKept
    /\ focus = "messages" => MessagesKept
    /\ focus = "arguments" => ArgumentsKept
    /\ focus = "environment" => NumbersKept
    /\ focus = "faults" => FaultsKept
    /\ focus = "texts" => ProcTextKept
=============================================================================
