-------------------------------- MODULE FdFlags --------------------------------
(***************************************************************************)
(* The flags of descriptors: ert_closeFdOnExec(), ert_nonBlockingFd(),     *)
(* ert_duplicateFd() and ert_nullifyFd() of fd.c, and the calls of pipe.c  *)
(* for both ends.  A number has the flag that closes it when a program is  *)
(* executed; the status flags belong to the open file, which duplicates    *)
(* and executed programs share.  A call reads flags, decides and then      *)
(* writes, beside other threads, whose programs are executed at any time.  *)
(* No number is replaced while another call uses it.                       *)
(***************************************************************************)
EXTENDS Integers, FiniteSets, FiniteSetsExt, Sequences

CONSTANTS
    FlagThreads,
    FlagTable,      \* numbers of descriptors a process may have
    MaxFlagCalls    \* bound on calls, and on changes of the other status flag

ASSUME FlagsAssumption == FlagTable \in Nat /\ FlagTable > 1 /\ MaxFlagCalls \in Nat

VARIABLES
    refers,         \* the open file of each number, or "free"
    closeOnExec,    \* numbers with FD_CLOEXEC
    status,         \* [open file -> its status flags: nonBlocking, append]
    flagCall,       \* the call of each thread
    flagCalls,      \* calls so far
    handed,         \* numbers that the program has
    \* history
    programs,       \* files that an executed program has got
    lax,            \* files whose numbers the program did not keep apart from programs
    append,         \* the other status flag, as the program set it last
    torn            \* files for which it did so in the middle of a call

flagVars == <<refers, closeOnExec, status, flagCall, flagCalls, handed, programs, lax, append,
              torn>>

FdNumbers == 0 .. FlagTable - 1
OpenFiles == {"one", "two"}
DevNull == "null"
NoNumber == -1
NoFlagCall == [do |-> "none", step |-> "none", fd |-> NoNumber, rest |-> <<>>, want |-> FALSE,
           read |-> FALSE, kept |-> FALSE, got |-> NoNumber, before |-> FALSE, beside |-> FALSE]

InTable == {n \in FdNumbers : refers[n] # "free"}
LowestFree == Min(FdNumbers \ InTable)
Calling(t) == flagCall[t] # NoFlagCall

FdFlagsTypeOK ==
    /\ refers \in [FdNumbers -> OpenFiles \cup {DevNull, "free"}]
    /\ closeOnExec \subseteq InTable /\ handed \subseteq InTable
    /\ status \in [OpenFiles -> [nonBlocking : BOOLEAN, append : BOOLEAN]]
    /\ \A t \in FlagThreads :
         /\ flagCall[t].do \in {"none", "exec", "block", "duplicate", "nullify"}
         /\ flagCall[t].step \in {"none", "read", "check", "write", "open", "replace", "close",
                                  "drop", "done", "failed"}
    /\ programs \cup lax \cup torn \subseteq OpenFiles

FdFlagsInit ==
    /\ refers = [n \in FdNumbers |-> CASE n = 0 -> "one" [] n = 1 -> "two" [] OTHER -> "free"]
    /\ closeOnExec = {0} /\ handed = {0, 1}
    /\ status = [f \in OpenFiles |-> [nonBlocking |-> FALSE, append |-> FALSE]]
    /\ flagCall = [t \in FlagThreads |-> NoFlagCall] /\ flagCalls = 0
    /\ programs = {} /\ lax = {} /\ append = [f \in OpenFiles |-> FALSE] /\ torn = {}

-----------------------------------------------------------------------------
(* Calls begin, and return.                                                *)

Replaced(c) == IF c.do = "nullify" THEN {c.fd}
               ELSE IF c.do = "duplicate" THEN {c.got} \ {NoNumber} ELSE {}
Used(c) == ({c.fd, c.got} \cup {c.rest[i] : i \in 1 .. Len(c.rest)}) \ {NoNumber}
FilesOf(c) == {refers[n] : n \in Used(c)} \ {"free"}
Beside(t, c) == {u \in FlagThreads \ {t} : Calling(u) /\ FilesOf(flagCall[u]) \cap FilesOf(c) # {}}

Begin(t, c) ==
    /\ ~Calling(t) /\ flagCalls < MaxFlagCalls /\ flagCalls' = flagCalls + 1
    /\ \A u \in FlagThreads \ {t} :
         /\ Replaced(flagCall[u]) \cap Used(c) = {} /\ Used(flagCall[u]) \cap Replaced(c) = {}
    /\ flagCall' = [u \in FlagThreads |->
                      IF u = t THEN [c EXCEPT !.beside = Beside(t, c) # {}]
                      ELSE IF u \in Beside(t, c) THEN [flagCall[u] EXCEPT !.beside = TRUE]
                      ELSE flagCall[u]]
    /\ UNCHANGED <<refers, closeOnExec, status, handed, programs, lax, append, torn>>

\* A pipe has its reader and its writer changed one after the other.  The status flags of
\* /dev/null are left out.
BeginFlag(t) ==
    \E do \in {"exec", "block"}, n \in handed, want \in BOOLEAN,
       rest \in {<<>>} \cup {<<k>> : k \in handed} :
        /\ rest # <<n>>
        /\ do = "block" => DevNull \notin {refers[n]} \cup {refers[rest[i]] : i \in 1 .. Len(rest)}
        /\ Begin(t, [NoFlagCall EXCEPT !.do = do, !.step = "read", !.fd = n, !.rest = rest,
                                   !.want = want])

BeginDuplicate(t) ==
    \E n \in handed, target \in handed \cup {NoNumber} :
        n # target /\ Begin(t, [NoFlagCall EXCEPT !.do = "duplicate", !.step = "read", !.fd = n,
                                              !.got = target])

BeginNullify(t) ==
    \E n \in handed :
        Begin(t, [NoFlagCall EXCEPT !.do = "nullify", !.step = "read", !.fd = n,
                                !.before = n \in closeOnExec])

Goes(t, step) == flagCall' = [flagCall EXCEPT ![t].step = step]
CallAt(t, do, step) == flagCall[t].do = do /\ flagCall[t].step = step
This(t) == flagCall[t].fd

ReturnFlag(t) ==
    /\ flagCall[t].step \in {"done", "failed"}
    /\ flagCall' = [flagCall EXCEPT ![t] = NoFlagCall]
    /\ UNCHANGED <<refers, closeOnExec, status, flagCalls, handed, programs, lax, append, torn>>

\* What is set is set: on to the other end of a pipe, or to the end.
Settle(t) ==
    flagCall' = [flagCall EXCEPT ![t] =
                    IF @.rest = <<>> THEN [@ EXCEPT !.step = "done"]
                    ELSE [@ EXCEPT !.step = "read", !.fd = Head(flagCall[t].rest),
                               !.got = This(t), !.rest = <<>>]]

\* Any system call of a call can fail.
FlagFails(t) ==
    /\ flagCall[t].step \in {"read", "check", "write", "open", "replace"}
    /\ Goes(t, IF CallAt(t, "nullify", "replace") THEN "drop" ELSE "failed")
    /\ UNCHANGED <<refers, closeOnExec, status, flagCalls, handed, programs, lax, append, torn>>

-----------------------------------------------------------------------------
(* ert_closeFdOnExec(), ert_nonBlockingFd().                               *)

\* A bug: the flag is cleared, as dup() and dup2() do.
BugFlagged(n, flag) == closeOnExec \ {n}

\* The numbers with the flag when n gets it, or loses it.
Flagged(n, flag) == IF flag THEN closeOnExec \cup {n} ELSE closeOnExec \ {n}

\* Files that have a number programs get beside one that they do not get.
Mixed == {f \in OpenFiles : \E n \in closeOnExec', k \in InTable' \ closeOnExec' :
                                refers'[n] = f /\ refers'[k] = f}

\* FD_CLOEXEC is read, and written if it is another.
ReadExec(t) ==
    /\ CallAt(t, "exec", "read")
    /\ IF This(t) \in closeOnExec <=> flagCall[t].want THEN Settle(t) ELSE Goes(t, "write")
    /\ UNCHANGED <<refers, closeOnExec, status, flagCalls, handed, programs, lax, append, torn>>

WriteExec(t) ==
    /\ CallAt(t, "exec", "write") /\ Settle(t)
    /\ closeOnExec' = Flagged(This(t), flagCall[t].want)
    /\ UNCHANGED refers
    /\ lax' = lax \cup Mixed \cup (IF flagCall[t].want THEN {refers[This(t)]} \cap programs
                                   ELSE {refers[This(t)]} \ {DevNull})
    /\ UNCHANGED <<status, flagCalls, handed, programs, append, torn>>

\* A bug: a file may not block whoever has it.
BugMayNotBlock(t) == TRUE

\* O_NONBLOCK is set only through a number that programs do not get.
MayNotBlock(t) == This(t) \in closeOnExec

ReadBlock(t) ==
    /\ CallAt(t, "block", "read")
    /\ LET f == refers[This(t)]
       IN  IF status[f].nonBlocking <=> flagCall[t].want THEN Settle(t)
           ELSE flagCall' = [flagCall EXCEPT
                                ![t].step = IF flagCall[t].want THEN "check" ELSE "write",
                                ![t].kept = status[f].append]
    /\ UNCHANGED <<refers, closeOnExec, status, flagCalls, handed, programs, lax, append, torn>>

CheckBlock(t) ==
    /\ CallAt(t, "block", "check") /\ Goes(t, IF MayNotBlock(t) THEN "write" ELSE "failed")
    /\ UNCHANGED <<refers, closeOnExec, status, flagCalls, handed, programs, lax, append, torn>>

\* A bug: the other flags are left out.
BugNextStatus(t) == [nonBlocking |-> flagCall[t].want, append |-> FALSE]

\* The flags that were read, but for O_NONBLOCK.
NextStatus(t) == [nonBlocking |-> flagCall[t].want, append |-> flagCall[t].kept]

WriteBlock(t) ==
    /\ CallAt(t, "block", "write") /\ Settle(t)
    /\ status' = [status EXCEPT ![refers[This(t)]] = NextStatus(t)]
    /\ UNCHANGED <<refers, closeOnExec, flagCalls, handed, programs, lax, append, torn>>

-----------------------------------------------------------------------------
(* ert_duplicateFd(), ert_nullifyFd().                                     *)

ReadDuplicate(t) ==
    /\ flagCall[t].do \in {"duplicate", "nullify"} /\ flagCall[t].step = "read"
    /\ flagCall' = [flagCall EXCEPT ![t].read = This(t) \in closeOnExec,
                                    ![t].step = IF flagCall[t].do = "nullify"
                                                THEN "open" ELSE "replace"]
    /\ UNCHANGED <<refers, closeOnExec, status, flagCalls, handed, programs, lax, append, torn>>

\* fcntl(F_DUPFD) takes the lowest number, dup3() the one that is given, in one step.
DuplicateNumber(t) ==
    /\ CallAt(t, "duplicate", "replace")
    /\ LET given == flagCall[t].got # NoNumber
       IN  /\ given \/ InTable # FdNumbers
           /\ LET n == IF given THEN flagCall[t].got ELSE LowestFree
              IN  /\ refers' = [refers EXCEPT ![n] = refers[This(t)]]
                  /\ closeOnExec' = Flagged(n, flagCall[t].read)
                  /\ handed' = handed \cup {n}
                  /\ flagCall' = [flagCall EXCEPT ![t].step = "done", ![t].got = n]
    /\ lax' = lax \cup Mixed
    /\ UNCHANGED <<status, flagCalls, programs, append, torn>>

OpenNull(t) ==
    /\ CallAt(t, "nullify", "open") /\ InTable # FdNumbers
    /\ refers' = [refers EXCEPT ![LowestFree] = DevNull]
    /\ closeOnExec' = IF flagCall[t].read THEN closeOnExec \cup {LowestFree} ELSE closeOnExec
    /\ flagCall' = [flagCall EXCEPT ![t].step = "replace", ![t].got = LowestFree]
    /\ UNCHANGED <<status, flagCalls, handed, programs, lax, append, torn>>

\* ert_duplicateFd() of the new number, whose flag nobody else changes, to the old one.
ReplaceByNull(t) ==
    /\ CallAt(t, "nullify", "replace") /\ Goes(t, "close")
    /\ refers' = [refers EXCEPT ![This(t)] = DevNull]
    /\ closeOnExec' = Flagged(This(t), flagCall[t].got \in closeOnExec)
    /\ lax' = lax \cup Mixed
    /\ UNCHANGED <<status, flagCalls, handed, programs, append, torn>>

CloseNull(t) ==
    /\ flagCall[t].step \in {"close", "drop"}
    /\ flagCall' = [flagCall EXCEPT ![t].step = IF @ = "close" THEN "done" ELSE "failed",
                                    ![t].got = NoNumber]
    /\ refers' = [refers EXCEPT ![flagCall[t].got] = "free"]
    /\ closeOnExec' = closeOnExec \ {flagCall[t].got}
    /\ UNCHANGED <<status, flagCalls, handed, programs, lax, append, torn>>

-----------------------------------------------------------------------------
(* The rest of the program.                                                *)

\* A child is forked that executes a program.
ExecuteProgram ==
    /\ programs' = programs \cup ({refers[n] : n \in InTable \ closeOnExec} \ {DevNull})
    /\ UNCHANGED <<refers, closeOnExec, status, flagCall, flagCalls, handed, lax, append, torn>>

\* fcntl() by the program, of another flag.
SetAppend ==
    /\ flagCalls < MaxFlagCalls /\ flagCalls' = flagCalls + 1
    /\ \E f \in {refers[n] : n \in handed} \ {DevNull} :
         /\ status' = [status EXCEPT ![f].append = ~@]
         /\ append' = [append EXCEPT ![f] = ~status[f].append]
         /\ torn' = IF \E t \in FlagThreads : flagCall[t].do = "block" /\ f \in FilesOf(flagCall[t])
                    THEN torn \cup {f} ELSE torn
    /\ UNCHANGED <<refers, closeOnExec, flagCall, handed, programs, lax>>

FdFlagsNext ==
    \/ ExecuteProgram \/ SetAppend
    \/ \E t \in FlagThreads :
         \/ BeginFlag(t) \/ BeginDuplicate(t) \/ BeginNullify(t) \/ ReturnFlag(t) \/ FlagFails(t)
         \/ ReadExec(t) \/ WriteExec(t) \/ ReadBlock(t) \/ CheckBlock(t) \/ WriteBlock(t)
         \/ ReadDuplicate(t) \/ DuplicateNumber(t)
         \/ OpenNull(t) \/ ReplaceByNull(t) \/ CloseNull(t)

FdFlagsSpec == FdFlagsInit /\ [][FdFlagsNext]_flagVars

-----------------------------------------------------------------------------
\* "Because O_NONBLOCK affects the underlying open file ... only allow non-blocking mode on
\* file descriptors that are not going to be shared.  This is not a water-tight defense": it
\* fails only where a number was cleared of its flag, where two numbers of a file did not
\* have the same flag, or where a program had got the file before.
ProgramsBlock == \A f \in programs : status[f].nonBlocking => f \in lax

\* No call loses another status flag, unless the program sets it in the middle of one.
OthersKept == \A f \in OpenFiles \ torn : status[f].append <=> append[f]

\* A call that nobody disturbs has done what it says when it returns, to both ends of a
\* pipe; a duplicate has the flag of what it was made from, as an open file that is replaced
\* keeps that of its number; and whatever fails, no number is left without an owner.
CallsDone ==
    /\ \A t \in FlagThreads :
         LET c == flagCall[t]
         IN  c.step = "done" /\ ~c.beside =>
                CASE c.do = "exec"      -> \A n \in Used(c) : n \in closeOnExec <=> c.want
                  [] c.do = "block"     -> \A n \in Used(c) :
                                                status[refers[n]].nonBlocking <=> c.want
                  [] c.do = "duplicate" -> /\ refers[c.got] = refers[c.fd]
                                           /\ c.got \in closeOnExec <=> c.fd \in closeOnExec
                  [] c.do = "nullify"   -> /\ refers[c.fd] = DevNull
                                           /\ c.fd \in closeOnExec <=> c.before
    /\ InTable = handed \cup {flagCall[t].got : t \in {u \in FlagThreads :
                                flagCall[u].do = "nullify" /\ flagCall[u].got # NoNumber}}

\* What the users of the flags may rely on.
FdFlagsKept == ProgramsBlock /\ OthersKept /\ CallsDone

-----------------------------------------------------------------------------
(* What is true between the steps of calls, from which the above follows.  *)

FlagCalls ==
    [do : {"none", "exec", "block", "duplicate", "nullify"},
     step : {"none", "read", "check", "write", "open", "replace", "close", "drop", "done",
             "failed"},
     fd : FdNumbers \cup {NoNumber}, rest : {<<>>} \cup {<<n>> : n \in FdNumbers},
     want : BOOLEAN, read : BOOLEAN, kept : BOOLEAN, got : FdNumbers \cup {NoNumber},
     before : BOOLEAN, beside : BOOLEAN]

FlagFieldsInv ==
    /\ refers \in [FdNumbers -> OpenFiles \cup {DevNull, "free"}]
    /\ closeOnExec \subseteq InTable /\ handed \subseteq InTable
    /\ status \in [OpenFiles -> [nonBlocking : BOOLEAN, append : BOOLEAN]]
    /\ append \in [OpenFiles -> BOOLEAN] /\ programs \cup lax \cup torn \subseteq OpenFiles
    /\ flagCall \in [FlagThreads -> FlagCalls]

\* A call uses numbers that the program has, but for the one that nullifies.
CallOwns(t) ==
    LET c == flagCall[t]
    IN  /\ c.do = "none" => c = NoFlagCall
        /\ c.do # "none" => c.fd \in handed /\ c.step # "none"
        /\ c.do \in {"exec", "block"} => c.step \in {"read", "check", "write", "done", "failed"}
        /\ c.do # "nullify" => Used(c) \subseteq handed
        /\ c.rest # <<>> => c.do \in {"exec", "block"} /\ c.got = NoNumber /\ c.step # "done"
        /\ c.do = "block" => \A n \in Used(c) : refers[n] \in OpenFiles
        /\ c.do = "duplicate" =>
             /\ c.step \in {"read", "replace", "done", "failed"} /\ c.got # c.fd
             /\ c.step = "done" => c.got # NoNumber
        /\ c.do = "nullify" =>
             /\ c.step \notin {"check", "write"}
             /\ c.got # NoNumber <=> c.step \in {"replace", "close", "drop"}
             /\ c.got # NoNumber => c.got \in InTable \ handed

\* What a call has done so far, and what it knows.
CallKnows(t) ==
    LET c == flagCall[t]
    IN  /\ c.do = "exec" /\ ~c.beside =>
             /\ c.got # NoNumber => (c.got \in closeOnExec <=> c.want)
             /\ c.step = "done" => (c.fd \in closeOnExec <=> c.want)
        /\ c.do = "block" /\ ~c.beside =>
             /\ c.got # NoNumber => (status[refers[c.got]].nonBlocking <=> c.want)
             /\ c.step = "done" => (status[refers[c.fd]].nonBlocking <=> c.want)
        /\ c.do = "block" /\ c.step \in {"check", "write"} =>
             refers[c.fd] \in torn \/ (c.kept <=> append[refers[c.fd]])
        /\ c.do = "block" /\ c.step = "write" /\ c.want =>
             refers[c.fd] \in lax \/ c.fd \in closeOnExec
        /\ c.do = "duplicate" /\ ~c.beside =>
             /\ c.step = "replace" => (c.read <=> c.fd \in closeOnExec)
             /\ c.step = "done" => /\ refers[c.got] = refers[c.fd]
                                   /\ c.got \in closeOnExec <=> c.fd \in closeOnExec
        /\ c.do = "nullify" =>
             /\ c.step = "read" => (c.fd \in closeOnExec <=> c.before)
             /\ c.step = "open" => (c.read <=> c.before)
             /\ c.step = "replace" => (c.got \in closeOnExec <=> c.before)
             /\ c.step \in {"close", "done"} => /\ refers[c.fd] = DevNull
                                                /\ c.fd \in closeOnExec <=> c.before

\* Calls that use the same number, or set the same file, know of each other; what a call
\* replaces, no other uses.
Private(c) == IF c.do = "nullify" THEN Used(c) ELSE Replaced(c)
CallsApart(t, u) ==
    LET c == flagCall[t]
        d == flagCall[u]
    IN  /\ Private(c) \cap Used(d) = {}
        /\ Used(c) \cap Used(d) # {} => c.beside
        /\ c.do = "block" /\ d.do = "block" /\ FilesOf(c) \cap FilesOf(d) # {} => c.beside

\* The numbers of a file have the same flag, and have it if it does not block.
FileInv(f) ==
    \A n \in InTable : refers[n] = f =>
        /\ \A k \in InTable : refers[k] = f => (n \in closeOnExec <=> k \in closeOnExec)
        /\ f \in programs => n \notin closeOnExec
        /\ status[f].nonBlocking => n \in closeOnExec

TableInv ==
    \A n \in InTable \ handed : \E t \in FlagThreads :
        flagCall[t].do = "nullify" /\ flagCall[t].got = n

FlagsInv ==
    /\ FlagFieldsInv /\ ProgramsBlock /\ OthersKept /\ TableInv
    /\ \A t \in FlagThreads : CallOwns(t) /\ CallKnows(t)
    /\ \A t, u \in FlagThreads : t # u => CallsApart(t, u)
    /\ \A f \in OpenFiles \ lax : FileInv(f)

=============================================================================
