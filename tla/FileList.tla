------------------------------ MODULE FileList ------------------------------
(***************************************************************************)
(* The list of the files of a process (file.c), and the purge that closes  *)
(* every descriptor not on it (process.c, ert_purgeProcessOrphanedFds()).  *)
(* Threads open, duplicate, close and detach files.  A file is put on the  *)
(* list after its descriptor is open and is taken off before it is closed, *)
(* each under the mutex of the list, which a fork takes too; the purge     *)
(* walks the list twice, to count the files and to collect them, and then  *)
(* looks at the descriptors one by one (fd.c, ert_closeFdDescriptors()).   *)
(* A descriptor is the lowest number that is free, as for every process.   *)
(* The purge runs in the process or in a forked child, which has the       *)
(* thread that forked only.                                                *)
(***************************************************************************)
EXTENDS Integers, FiniteSets, FiniteSetsExt

CONSTANTS
    FileThreads,    \* threads that use files
    StandardFds,         \* descriptors that are never purged
    LastFd,         \* the largest descriptor, below the limit
    Orphans,        \* descriptors open from before the program started
    MaxFileOps      \* bound on opens and duplications

ASSUME FileListAssumption ==
    /\ LastFd \in Nat
    /\ StandardFds \subseteq 0 .. LastFd /\ Orphans \subseteq 0 .. LastFd
    /\ MaxFileOps \in Nat

VARIABLES
    fileOp,         \* what each thread does: [step, fd]
    openFds,        \* the descriptors that are open
    listed,         \* mFd of the files on the list: a function of their owners
    purge,          \* [step, count, white, fd] of the purge
    forkedFiles,    \* the purge runs in a forked child
    fileOps,
    \* history
    changed,        \* the list changed between the two walks
    raced           \* a thread was at work on a file while descriptors were purged

fileVars == <<fileOp, openFds, listed, purge, forkedFiles, fileOps, changed, raced>>

Fds == 0 .. LastFd
NoFd == -1
Idle == [step |-> "idle", fd |-> NoFd]
Steps == {"idle", "opened", "listed", "unlisted"}
Purging == purge.step \in {"collect", "close"}

FileTypeOK ==
    /\ fileOp \in [FileThreads -> [step : Steps, fd : Fds \cup {NoFd}]]
    /\ openFds \subseteq Fds /\ listed \subseteq Fds
    /\ purge \in [step : {"idle", "collect", "close", "done", "aborted"},
                  count : 0 .. Cardinality(Fds), white : SUBSET Fds,
                  fd : 0 .. LastFd + 1]
    /\ {forkedFiles, changed, raced} \subseteq BOOLEAN

FileInit ==
    /\ fileOp = [t \in FileThreads |-> Idle]
    /\ openFds = StandardFds \cup Orphans /\ listed = {}
    /\ purge = [step |-> "idle", count |-> 0, white |-> {}, fd |-> 0]
    /\ forkedFiles = FALSE /\ fileOps = 0 /\ changed = FALSE /\ raced = FALSE

Running(t) == ~forkedFiles /\ purge.step # "aborted"

Racing ==
    /\ changed' = (changed \/ purge.step = "collect")
    /\ raced' = (raced \/ purge.step = "close")

\* ert_openFd() and ert_duplicateFd(): the lowest free number.
OpenFile(t) ==
    /\ Running(t) /\ fileOp[t] = Idle /\ fileOps < MaxFileOps
    /\ Fds \ openFds # {}
    /\ fileOps' = fileOps + 1
    /\ LET fd == Min(Fds \ openFds)
       IN  /\ openFds' = openFds \cup {fd}
           /\ fileOp' = [fileOp EXCEPT ![t] = [step |-> "opened", fd |-> fd]]
    /\ raced' = (raced \/ Purging)
    /\ UNCHANGED <<listed, purge, forkedFiles, changed>>

\* ert_createFile(), with the mutex of the list.
InsertFile(t) ==
    /\ Running(t) /\ fileOp[t].step = "opened"
    /\ listed' = listed \cup {fileOp[t].fd}
    /\ fileOp' = [fileOp EXCEPT ![t].step = "listed"]
    /\ Racing
    /\ UNCHANGED <<openFds, purge, forkedFiles, fileOps>>

\* A bug: the descriptor is closed before its file is off the list.
BugRemoveFile(t) ==
    /\ Running(t) /\ fileOp[t].step = "listed"
    /\ openFds' = openFds \ {fileOp[t].fd}
    /\ fileOp' = [fileOp EXCEPT ![t].step = "unlisted"]
    /\ Racing
    /\ UNCHANGED <<listed, purge, forkedFiles, fileOps>>

\* ert_closeFile() and ert_detachFile(): off the list first.
RemoveFile(t) ==
    /\ Running(t) /\ fileOp[t].step = "listed"
    /\ listed' = listed \ {fileOp[t].fd}
    /\ fileOp' = [fileOp EXCEPT ![t].step = "unlisted"]
    /\ Racing
    /\ UNCHANGED <<openFds, purge, forkedFiles, fileOps>>

\* ert_closeFile() closes the descriptor; that of a detached file stays open.
CloseFile(t) ==
    /\ Running(t) /\ fileOp[t].step = "unlisted"
    /\ openFds' \in {openFds \ {fileOp[t].fd}, openFds}
    /\ fileOp' = [fileOp EXCEPT ![t] = Idle]
    /\ raced' = (raced \/ Purging)
    /\ UNCHANGED <<listed, purge, forkedFiles, fileOps, changed>>

\* The fork waits for the mutex of the list (ERT_THREAD_FORK_SENTRY).
ForkFiles ==
    /\ ~forkedFiles /\ purge.step = "idle" /\ forkedFiles' = TRUE
    /\ UNCHANGED <<fileOp, openFds, listed, purge, fileOps, changed, raced>>

CountFiles ==
    /\ purge.step = "idle"
    /\ purge' = [purge EXCEPT !.step = "collect", !.count = Cardinality(listed)]
    /\ UNCHANGED <<fileOp, openFds, listed, forkedFiles, fileOps, changed, raced>>

\* With more files than counted the array overflows; with fewer the code aborts.
CollectFiles ==
    /\ purge.step = "collect"
    /\ purge' = IF Cardinality(listed) = purge.count
                THEN [purge EXCEPT !.step = "close", !.white = listed \cup StandardFds]
                ELSE [purge EXCEPT !.step = "aborted"]
    /\ UNCHANGED <<fileOp, openFds, listed, forkedFiles, fileOps, changed, raced>>

\* Descriptors up to the limit, which ends the white list.
PurgeFd ==
    /\ purge.step = "close"
    /\ IF purge.fd > LastFd
       THEN purge' = [purge EXCEPT !.step = "done"] /\ UNCHANGED openFds
       ELSE /\ purge' = [purge EXCEPT !.fd = @ + 1]
            /\ openFds' = IF purge.fd \in purge.white THEN openFds ELSE openFds \ {purge.fd}
    /\ raced' = \/ raced
                \/ /\ ~forkedFiles
                   /\ \E t \in FileThreads :
                        fileOp[t].fd = purge.fd /\ fileOp[t].step \in {"opened", "unlisted"}
    /\ UNCHANGED <<fileOp, listed, forkedFiles, fileOps, changed>>

FileNext ==
    \/ \E t \in FileThreads : OpenFile(t) \/ InsertFile(t) \/ RemoveFile(t) \/ CloseFile(t)
    \/ ForkFiles \/ CountFiles \/ CollectFiles \/ PurgeFd

FileSpec == FileInit /\ [][FileNext]_fileVars

-----------------------------------------------------------------------------
\* Whoever walks the list, also a forked child that never sees the threads of its
\* parent again, finds only files whose descriptors are open: unless a purge ran
\* while other threads used files, whose new descriptors it closes.
ListedOpen == ~raced => listed \subseteq openFds

\* A purge that no thread disturbed leaves what is on the list and the standard
\* descriptors, and nothing else; in a forked child nothing can disturb it.
PurgedExactly ==
    /\ purge.step = "close" /\ purge.fd > LastFd /\ ~raced =>
            openFds = (openFds \cap StandardFds) \cup listed
    /\ purge.step = "aborted" => changed
    /\ forkedFiles => ~changed /\ ~raced

\* What the users of files and of the purge may rely on.
FileListKept == ListedOpen /\ PurgedExactly

-----------------------------------------------------------------------------
(* What is true between the steps, from which the above follows.           *)

\* The descriptor of a file that a thread is at work on is open and its own, and on the list
\* from its insertion to its removal.  A forked child has no threads that would open,
\* insert or close.
FilesOpenInv ==
    ~raced =>
      /\ \A t \in FileThreads : fileOp[t].step # "idle" =>
           /\ fileOp[t].step = "listed" \/ ~forkedFiles => fileOp[t].fd \in openFds
           /\ \A u \in FileThreads \ {t} :
                fileOp[u].step # "idle" => fileOp[u].fd # fileOp[t].fd
      /\ \A n \in Fds :
           n \in listed <=> \E t \in FileThreads : fileOp[t] = [step |-> "listed", fd |-> n]

\* What the purge has counted and collected is what is on the list, unless that changed; and
\* it has closed the rest up to where it is.
PurgeInv ==
    /\ purge.step = "idle" => ~changed /\ ~raced
    /\ purge.step \in {"idle", "collect"} => purge.fd = 0
    /\ purge.step = "collect" /\ ~changed => purge.count = Cardinality(listed)
    /\ purge.step = "close" /\ ~raced =>
         /\ purge.white = listed \cup StandardFds
         /\ \A n \in openFds : n < purge.fd => n \in purge.white

\* The types, but for how many files are counted.
FileFieldsInv ==
    /\ fileOp \in [FileThreads -> [step : Steps, fd : Fds \cup {NoFd}]]
    /\ \A t \in FileThreads : fileOp[t].step # "idle" => fileOp[t].fd \in Fds
    /\ openFds \subseteq Fds /\ listed \subseteq Fds
    /\ purge.step \in {"idle", "collect", "close", "done", "aborted"}
    /\ purge = [step |-> purge.step, count |-> purge.count, white |-> purge.white,
                fd |-> purge.fd]
    /\ purge.fd \in 0 .. LastFd + 1
    /\ {forkedFiles, changed, raced} \subseteq BOOLEAN

FileListInv == FileFieldsInv /\ FileListKept /\ FilesOpenInv /\ PurgeInv

=============================================================================
