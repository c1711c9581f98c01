---------------------------- MODULE TemporaryFile ----------------------------
(***************************************************************************)
(* ert_temporaryFile() of file.c: a file without a name.  Where the kernel *)
(* has no O_TMPFILE, a child process in a session of its own creates a     *)
(* file, removes its name, and sends the descriptor over a socket pair to  *)
(* a thread of the parent.  The fork is the abstract one: it fails, or the *)
(* child calls its method and tells the parent how that went, or dies; the *)
(* parent calls its own method only after it heard of a success, and reaps *)
(* a child it forked in vain.                                              *)
(***************************************************************************)
EXTENDS Naturals, Sequences

CONSTANTS
    NameTaken       \* bound on names found in use already

ASSUME NameAssumption == NameTaken \in Nat

VARIABLES
    main,           \* what the caller does next
    receiver,       \* what the thread that receives does next
    child,          \* what the child does next
    childEnd,           \* who has the child's end of the socket pair open
    messages,       \* sent and not received yet
    named,          \* the file has its name in the directory
    heard,          \* what the child said of its method, or "nothing"
    file,           \* the caller has the descriptor (mFd)
    answer,         \* what ert_temporaryFile() returned
    retries,
    \* history
    killed,         \* the child was killed
    cut,            \* ... while the file had its name
    stuck,          \* the name could not be removed
    thwarted         \* the file could not be created, sent, or received

tempVars == <<main, receiver, child, childEnd, messages, named, heard, file, answer, retries,
              killed, cut, stuck, thwarted>>

TempTypeOK ==
    /\ main \in {"open", "prepare", "fork", "listen", "close", "join", "reap",
                 "abandon", "done", "aborted"}
    /\ receiver \in {"none", "error", "descriptor", "ended"}
    /\ child \in {"none", "create", "unlink", "send", "descriptor", "tell", "exit",
                  "failing", "over", "failed"}
    /\ childEnd \subseteq {"parent", "child"}
    /\ messages \in {<<>>, <<"ok">>, <<"error">>, <<"ok", "fd">>, <<"fd">>}
    /\ answer \in {"none", "file", "error"} /\ heard \in {"nothing", "ready", "failed"}

TempInit ==
    /\ main = "open" /\ receiver = "none" /\ child = "none" /\ childEnd = {}
    /\ messages = <<>> /\ named = FALSE /\ heard = "nothing" /\ file = FALSE
    /\ answer = "none" /\ retries = 0
    /\ killed = FALSE /\ cut = FALSE /\ stuck = FALSE /\ thwarted = FALSE

-----------------------------------------------------------------------------
(* The caller.                                                             *)

Finish(result) == main' = "done" /\ answer' = result

OpenUnnamed ==
    /\ main = "open"
    /\ \/ Finish("file") /\ UNCHANGED thwarted
       \/ Finish("error") /\ thwarted' = TRUE
       \/ main' = "prepare" /\ UNCHANGED <<answer, thwarted>>
    /\ UNCHANGED <<receiver, child, childEnd, messages, named, heard, file, retries, killed,
                   cut, stuck>>

\* prepareTemporaryFileProcessSocket_(), in the fork's first method; that the lists of
\* descriptors can fail is the fork's failure.
PrepareSocket ==
    /\ main = "prepare"
    /\ \/ main' = "fork" /\ childEnd' = {"parent"} /\ receiver' = "error" /\ UNCHANGED <<answer,
                                                                                         thwarted>>
       \/ Finish("error") /\ thwarted' = TRUE /\ UNCHANGED <<childEnd, receiver>>
    /\ UNCHANGED <<child, messages, named, heard, file, retries, killed, cut, stuck>>

ForkTemporary ==
    /\ main = "fork"
    /\ \/ main' = "listen" /\ child' = "create" /\ childEnd' = {"parent", "child"}
          /\ UNCHANGED thwarted
       \/ main' = "abandon" /\ thwarted' = TRUE /\ UNCHANGED <<child, childEnd>>
    /\ UNCHANGED <<receiver, messages, named, heard, file, answer, retries, killed, cut, stuck>>

\* The parent of the fork waits for the child's word, or for the end of its channel.
Listen ==
    /\ main = "listen"
    /\ \/ heard = "ready" /\ main' = "close"
       \/ heard # "ready" /\ child \in {"over", "failed"} /\ main' = "abandon"
    /\ UNCHANGED <<receiver, child, childEnd, messages, named, heard, file, answer, retries,
                   killed, cut, stuck, thwarted>>

CloseChildEnd ==
    /\ main = "close" /\ main' = "join" /\ childEnd' = childEnd \ {"parent"}
    /\ UNCHANGED <<receiver, child, messages, named, heard, file, answer, retries, killed,
                   cut, stuck, thwarted>>

JoinReceiver ==
    /\ main = "join" /\ receiver = "ended" /\ main' = "reap"
    /\ UNCHANGED <<receiver, child, childEnd, messages, named, heard, file, answer, retries,
                   killed, cut, stuck, thwarted>>

ReapTemporary ==
    /\ main = "reap" /\ child \in {"over", "failed"}
    /\ IF child = "failed" THEN Finish("error")
       ELSE IF file THEN Finish("file")
       ELSE main' = "aborted" /\ UNCHANGED answer           \* ert_ensure(-1 != retFd)
    /\ UNCHANGED <<receiver, child, childEnd, messages, named, heard, file, retries, killed,
                   cut, stuck, thwarted>>

\* closeTemporaryFileProcess_(): both ends are closed, which ends the thread's wait,
\* and the thread is joined.
Abandon ==
    /\ main = "abandon" /\ childEnd' = childEnd \ {"parent"}
    /\ IF receiver = "ended" THEN Finish("error") ELSE UNCHANGED <<main, answer>>
    /\ UNCHANGED <<receiver, child, messages, named, heard, file, retries, killed, cut,
                   stuck, thwarted>>

-----------------------------------------------------------------------------
(* The thread: recvTemporaryFileProcessFd_().  A thread whose method fails *)
(* aborts the process (thread.c, createThread_()).                         *)

Reads(message, next) ==
    /\ main # "aborted"
    /\ \/ /\ messages # <<>>
          /\ messages' = (IF messages = <<"ok", "fd">> THEN <<"fd">> ELSE <<>>)
          /\ \/ message /\ receiver' = next /\ UNCHANGED <<main, thwarted>>
             \/ ~message /\ main' = "aborted" /\ UNCHANGED <<receiver, thwarted>>
             \/ main' = "aborted" /\ thwarted' = TRUE /\ UNCHANGED receiver
       \/ /\ messages = <<>> /\ childEnd = {}                  \* the end of the file
          /\ main' = "aborted" /\ UNCHANGED <<receiver, messages, thwarted>>
    /\ UNCHANGED <<child, childEnd, named, heard, answer, retries, killed, cut, stuck>>

RecvError ==
    /\ receiver = "error"
    /\ Reads(messages \in {<<"ok">>, <<"ok", "fd">>}, "descriptor") /\ UNCHANGED file

RecvFd ==
    /\ receiver = "descriptor" /\ Reads(TRUE, "ended")
    /\ file' = (receiver' = "ended")

-----------------------------------------------------------------------------
(* The child: temporaryFileCreate_() with its signals blocked, and         *)
(* sendTemporaryFileProcessFd_().                                          *)

CreateNamed ==
    /\ child = "create"
    /\ \/ child' = "unlink" /\ named' = TRUE /\ UNCHANGED <<retries, thwarted>>
       \/ /\ retries < NameTaken /\ retries' = retries + 1      \* EEXIST
          /\ UNCHANGED <<child, named, thwarted>>
       \/ child' = "failing" /\ thwarted' = TRUE /\ UNCHANGED <<named, retries>>
    /\ UNCHANGED <<main, receiver, childEnd, messages, heard, file, answer, killed, cut, stuck>>

\* A bug: the name is left for the parent to remove.
BugUnlinkName ==
    /\ child = "unlink" /\ child' = "send"
    /\ UNCHANGED <<main, receiver, childEnd, messages, named, heard, file, answer, retries,
                   killed, cut, stuck, thwarted>>

\* Only a name that is gone already is an error.
UnlinkName ==
    /\ child = "unlink"
    /\ \/ named /\ child' = "send" /\ named' = FALSE /\ UNCHANGED <<stuck, thwarted>>
       \/ named /\ child' = "send" /\ stuck' = TRUE /\ UNCHANGED <<named, thwarted>>
       \/ ~named /\ child' = "failing" /\ thwarted' = TRUE /\ UNCHANGED <<named, stuck>>
    /\ UNCHANGED <<main, receiver, childEnd, messages, heard, file, answer, retries, killed, cut>>

\* Another process of the system removes the name first.
RemoveName ==
    /\ child = "unlink" /\ named /\ named' = FALSE
    /\ UNCHANGED <<main, receiver, child, childEnd, messages, heard, file, answer, retries,
                   killed, cut, stuck, thwarted>>

SendError ==
    /\ child \in {"send", "failing"}
    /\ \/ /\ child' = (IF child = "send" THEN "descriptor" ELSE "tell")
          /\ messages' = <<IF child = "send" THEN "ok" ELSE "error">>
          /\ UNCHANGED <<thwarted, heard>>
       \/ child' = "failed" /\ thwarted' = TRUE /\ heard' = "failed" /\ UNCHANGED messages
    /\ childEnd' = IF child' = "failed" THEN childEnd \ {"child"} ELSE childEnd
    /\ UNCHANGED <<main, receiver, named, file, answer, retries, killed, cut, stuck>>

SendFd ==
    /\ child = "descriptor"
    /\ \/ child' = "tell" /\ messages' = Append(messages, "fd") /\ UNCHANGED <<thwarted, heard,
                                                                               childEnd>>
       \/ /\ child' = "failed" /\ thwarted' = TRUE /\ heard' = "failed" /\ UNCHANGED messages
          /\ childEnd' = childEnd \ {"child"}
    /\ UNCHANGED <<main, receiver, named, file, answer, retries, killed, cut, stuck>>

TellParent ==
    /\ child = "tell" /\ child' = "exit" /\ heard' = "ready"
    /\ UNCHANGED <<main, receiver, childEnd, messages, named, file, answer, retries, killed,
                   cut, stuck, thwarted>>

ExitTemporary ==
    /\ child = "exit" /\ child' = "over" /\ childEnd' = childEnd \ {"child"}
    /\ UNCHANGED <<main, receiver, messages, named, heard, file, answer, retries, killed,
                   cut, stuck, thwarted>>

KillTemporary ==
    /\ child \notin {"none", "over", "failed"}
    /\ child' = "failed" /\ killed' = TRUE /\ cut' = named /\ childEnd' = childEnd \ {"child"}
    /\ UNCHANGED <<main, receiver, messages, named, heard, file, answer, retries, stuck,
                   thwarted>>

TempNext ==
    \/ OpenUnnamed \/ PrepareSocket \/ ForkTemporary \/ Listen \/ CloseChildEnd
    \/ JoinReceiver \/ ReapTemporary \/ Abandon \/ RecvError \/ RecvFd
    \/ CreateNamed \/ UnlinkName \/ RemoveName \/ SendError \/ SendFd \/ TellParent
    \/ ExitTemporary \/ KillTemporary

TempSpec == TempInit /\ [][TempNext]_tempVars

-----------------------------------------------------------------------------
ChildGone == child \in {"over", "failed"}

\* A name is left in the directory only by a child that was killed between creating
\* the file and removing its name, or whose removal failed, which is not noticed.
NoLitter == ChildGone /\ named => cut \/ stuck

\* The caller gets a file only when it has the descriptor, and the whole process is
\* aborted, where an error should be returned, only because the child was killed, or
\* could not create or send the file, or the thread could not receive it.
FileOrCause ==
    /\ answer = "file" /\ child # "none" => file
    /\ main = "aborted" => killed \/ thwarted

\* What a user of a temporary file may rely on.
TemporaryKept == NoLitter /\ FileOrCause

-----------------------------------------------------------------------------
(* What is true at each place, from which the above follows.               *)

\* There is a receiver from the preparation on, and a child from the fork on; the caller
\* has the descriptor when its receiver has ended.
PlacesInv ==
    /\ main \in {"open", "prepare"} => receiver = "none" /\ child = "none"
    /\ main = "fork" => child = "none" /\ childEnd = {"parent"}
    /\ main \in {"open", "prepare", "fork"} => answer = "none"
    /\ child = "none" => main \in {"open", "prepare", "fork"} \/ receiver = "none" \/ thwarted
    /\ main = "reap" => receiver = "ended"
    /\ file <=> receiver = "ended"
    /\ answer = "file" /\ child # "none" => file

\* The child keeps its end of the socket pair until it is gone.
ChildInv ==
    /\ child \notin {"none", "over", "failed"} => "child" \in childEnd
    /\ child = "failed" => killed \/ thwarted
    /\ child = "failing" => thwarted
    /\ child \in {"exit", "over"} => heard = "ready"
    /\ child \in {"none", "create"} => ~named
    /\ named => child = "unlink" \/ cut \/ stuck

\* Unless something went wrong, what the child has sent and the receiver has not read is
\* what the receiver waits for.
MessagesInv ==
    /\ child = "none" => messages = <<>>
    /\ child = "descriptor" => messages \in {<<>>, <<"ok">>}
    /\ messages = <<"error">> => thwarted
    /\ ~(killed \/ thwarted) /\ receiver = "error" =>
         messages = IF child = "descriptor" THEN <<"ok">>
                    ELSE IF child \in {"tell", "exit", "over"} THEN <<"ok", "fd">> ELSE <<>>
    /\ ~(killed \/ thwarted) /\ receiver = "descriptor" =>
         /\ child \in {"descriptor", "tell", "exit", "over"}
         /\ messages = IF child = "descriptor" THEN <<>> ELSE <<"fd">>

TempInv == TempTypeOK /\ TemporaryKept /\ PlacesInv /\ ChildInv /\ MessagesInv

=============================================================================
