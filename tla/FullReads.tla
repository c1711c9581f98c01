------------------------------- MODULE FullReads -------------------------------
(***************************************************************************)
(* Files read to their end: ert_readFdFully() of fd.c, into a buffer that  *)
(* grows, and ert_fetchSystemIncarnation() of system.c, which reads the    *)
(* identity of the boot with it, once for all threads.  A file is a        *)
(* sequence of letters; a read returns as many as it likes, and any step   *)
(* that asks the system for something can fail.                            *)
(***************************************************************************)
EXTENDS Integers, FiniteSets, FiniteSetsExt, Sequences

CONSTANTS
    FetchThreads,
    MaxFile,        \* bound on the letters of the file
    FirstSize       \* the size of the first buffer, 64 in the code

ASSUME FullReadsAssumption == MaxFile \in Nat /\ FirstSize \in Nat \ {0}

VARIABLES
    bootFile,       \* the letters of the file
    readAt,         \* letters that were read
    buffer,         \* [size, data] of ert_readFdFully(); size 0 without a buffer
    step,           \* what the thread that runs fetchSystemIncarnation_() does
    runner,         \* that thread, or NoThread
    incarnation,    \* bootIncarnation_ and bootIncarnationErr_: [text, err]
    fileOpen,       \* the descriptor is open
    fetched         \* what each thread was told, or NotTold

fullVars == <<bootFile, readAt, buffer, step, runner, incarnation, fileOpen, fetched>>

NoThread == "nobody"
NoBuffer == [size |-> 0, data |-> <<>>]
NoText == <<"none">>
NotTold == [text |-> NoText, err |-> "unknown"]
FileLetters == {"x", "newline"}

FullReadsTypeOK ==
    /\ Len(bootFile) <= MaxFile /\ readAt \in 0 .. Len(bootFile)
    /\ Len(buffer.data) <= buffer.size
    /\ step \in {"never", "open", "read", "copy", "done"}
    /\ runner \in FetchThreads \cup {NoThread} /\ fileOpen \in BOOLEAN
    /\ {incarnation.err} \cup {fetched[t].err : t \in FetchThreads} \subseteq
            {"unknown", "none", "EINVAL", "failed"}

FullReadsInit ==
    /\ bootFile = <<>> /\ readAt = 0 /\ buffer = NoBuffer /\ step = "never" /\ runner = NoThread
    /\ incarnation = NotTold /\ fileOpen = FALSE
    /\ fetched = [t \in FetchThreads |-> NotTold]

\* pthread_once(): one thread runs it, whatever comes of it, and the others wait.
BeginOnce(t) ==
    /\ step = "never" /\ step' = "open" /\ runner' = t
    /\ UNCHANGED <<bootFile, readAt, buffer, incarnation, fileOpen, fetched>>

OpenBoot ==
    /\ step = "open" /\ step' = "read" /\ fileOpen' = TRUE
    /\ bootFile' \in UNION {[1 .. n -> FileLetters] : n \in 0 .. MaxFile}
    /\ UNCHANGED <<readAt, buffer, runner, incarnation, fetched>>

Available == buffer.size - Len(buffer.data)

\* A bug: the end of what is read stays at the start of the new buffer.
BugGrown(b) == [size |-> IF b.size = 0 THEN FirstSize ELSE 2 * b.size, data |-> <<>>]

\* realloc() keeps what is in the buffer, and its end is moved with it.
Grown(b) == [b EXCEPT !.size = IF @ = 0 THEN FirstSize ELSE 2 * @]

Grow ==
    /\ step = "read" /\ Available = 0 /\ buffer' = Grown(buffer)
    /\ UNCHANGED <<bootFile, readAt, step, runner, incarnation, fileOpen, fetched>>

ReadSome ==
    /\ step = "read" /\ Available > 0
    /\ \E n \in 1 .. Min({Available, Len(bootFile) - readAt}) :
         /\ readAt' = readAt + n
         /\ buffer' = [buffer EXCEPT !.data = @ \o SubSeq(bootFile, readAt + 1, readAt + n)]
    /\ UNCHANGED <<bootFile, step, runner, incarnation, fileOpen, fetched>>

\* What ends, with a result or with a failure, frees the buffer and closes the file.
EndOnce(result) ==
    /\ step' = "done" /\ incarnation' = result /\ fileOpen' = FALSE /\ buffer' = NoBuffer
    /\ UNCHANGED <<bootFile, readAt, runner, fetched>>

\* The end of the file: a file without letters leaves no buffer, and is EINVAL.
ReadEnd ==
    /\ step = "read" /\ Available > 0 /\ readAt = Len(bootFile)
    /\ IF buffer.data = <<>> THEN EndOnce([text |-> NoText, err |-> "EINVAL"])
       ELSE /\ step' = "copy"
            /\ UNCHANGED <<bootFile, readAt, buffer, runner, incarnation, fileOpen, fetched>>

\* Up to the first newline, if there is one.
CopyBoot ==
    /\ step = "copy"
    /\ LET newlines == {i \in 1 .. Len(buffer.data) : buffer.data[i] = "newline"}
           end == IF newlines = {} THEN Len(buffer.data) ELSE Min(newlines) - 1
       IN  EndOnce([text |-> SubSeq(buffer.data, 1, end), err |-> "none"])

\* open(), read(), realloc() or malloc() fails.
StepFails ==
    /\ step \in {"open", "read", "copy"} /\ EndOnce([text |-> NoText, err |-> "failed"])

FetchIncarnation(t) ==
    /\ step = "done" /\ fetched[t] = NotTold
    /\ fetched' = [fetched EXCEPT ![t] = incarnation]
    /\ UNCHANGED <<bootFile, readAt, buffer, step, runner, incarnation, fileOpen>>

FullReadsNext ==
    \/ \E t \in FetchThreads : BeginOnce(t) \/ FetchIncarnation(t)
    \/ OpenBoot \/ Grow \/ ReadSome \/ ReadEnd \/ CopyBoot \/ StepFails

FullReadsSpec == FullReadsInit /\ [][FullReadsNext]_fullVars

-----------------------------------------------------------------------------
\* However the file arrives in pieces, the buffer has what was read, in order.  All
\* threads are told the same: the first line of the file, or an error that is not retried.
FullReadsKept ==
    /\ step \in {"read", "copy"} => buffer.data = SubSeq(bootFile, 1, readAt)
    /\ step = "done" /\ incarnation.err = "none" =>
            LET lines == {i \in 1 .. Len(bootFile) : bootFile[i] = "newline"}
            IN  incarnation.text = SubSeq(bootFile, 1, Min(lines \cup {Len(bootFile) + 1}) - 1)
    /\ \A t \in FetchThreads : fetched[t] \in {NotTold, incarnation}
    /\ step = "done" => ~fileOpen /\ buffer = NoBuffer

-----------------------------------------------------------------------------
\* What makes this inductive (FilesProofs).

\* The buffer and the place in the file belong together, from nothing to the end.
BufferInv ==
    /\ bootFile \in Seq(FileLetters) /\ readAt \in 0 .. Len(bootFile)
    /\ buffer \in [size : Nat, data : Seq(FileLetters)]
    /\ step \in {"never", "open"} => readAt = 0 /\ buffer = NoBuffer
    /\ step = "copy" => readAt = Len(bootFile)

\* Nobody is told before the end.
OnceInv ==
    /\ fetched \in [FetchThreads -> {NotTold, incarnation}]
    /\ step # "done" => incarnation = NotTold

ReadsInv == BufferInv /\ OnceInv /\ FullReadsKept
=============================================================================
