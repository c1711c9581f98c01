------------------------------- MODULE StdFds -------------------------------
(***************************************************************************)
(* Standing in for the standard descriptors.  ert_openStdFds() of fd.c     *)
(* gives a process that was started without some of them the closed end of *)
(* a pipe in their place; the filler of stdfdfiller.c takes their numbers  *)
(* for the time that a fork opens descriptors of its own, and gives them   *)
(* back.  Both rely on the system to hand out the lowest free number.      *)
(* Every system call that needs a descriptor can fail.                     *)
(***************************************************************************)
EXTENDS Naturals, FiniteSets, FiniteSetsExt

CONSTANT TableSize      \* numbers of descriptors, the limit of the process

ASSUME TableAssumption == TableSize \in Nat /\ TableSize > 3

VARIABLES
    table,          \* what each number stands for: a record, or NoEntry
    start,          \* the table when the operation began
    doing,          \* the call that is next
    missing,        \* standard descriptors that ert_openStdFds() has still to open
    created,        \* numbers the operation has to close if it fails
    filling,        \* the filler is in place, or on its way
    outcome         \* "idle", "busy", "open", "filled", "given back", "failed"

stdVars == <<table, start, doing, missing, created, filling, outcome>>

Numbers == 0 .. TableSize - 1
Std == 0 .. 2
NoEntry == [end |-> "none", pipe |-> 0, cloexec |-> FALSE]
User == [end |-> "user", pipe |-> 0, cloexec |-> FALSE]
End(end, pipe, cloexec) == [end |-> end, pipe |-> pipe, cloexec |-> cloexec]

Entries == [end : {"none", "user", "read", "write"}, pipe : 0 .. 3, cloexec : BOOLEAN]

Open == {n \in Numbers : table[n] # NoEntry}
Lowest == Min(Numbers \ Open)

Calls == {"none", "pipe", "close other", "move", "close old", "copy", "duplicate", "end"}

StdTypeOK ==
    /\ table \in [Numbers -> Entries] /\ doing \in Calls /\ missing \subseteq Std /\ created \subseteq Numbers
    /\ filling \in BOOLEAN
    /\ outcome \in {"idle", "busy", "open", "filled", "given back", "failed"}

StdInit ==
    /\ table = [n \in Numbers |-> NoEntry] /\ start = table
    /\ doing = "none" /\ missing = {} /\ created = {} /\ filling = FALSE /\ outcome = "idle"

\* ert_openStdFds() opens the lowest of those that are missing, by openBlockedFd_().
Opens(closed) == IF closed = {} THEN "end" ELSE "pipe"

\* ert_openStdFds() asks first which of the three are open; ert_createStdFdFiller() does not.
BeginStd ==
    /\ outcome = "idle" /\ outcome' = "busy"
    /\ \E closed \in SUBSET Std, filler \in BOOLEAN :
         /\ table' = [n \in Numbers |-> IF n \in Std \ closed THEN User ELSE NoEntry]
         /\ start' = table'
         /\ missing' = (IF filler THEN {} ELSE closed)
         /\ doing' = (IF filler THEN "pipe" ELSE Opens(closed))
         /\ filling' = filler
    /\ UNCHANGED created

Doing(what) == outcome = "busy" /\ doing = what

CanOpen(n) == Cardinality(Numbers \ Open) >= n

\* The number to stand in for, the end of a pipe that does, and the numbers of both ends.
Target == IF filling THEN 0 ELSE Min(missing)
Wanted == IF Target = 0 THEN "read" ELSE "write"
Selected == CHOOSE n \in created : table[n].end = Wanted
Other == CHOOSE n \in created : table[n].end # Wanted

OpenPipe ==
    /\ Doing("pipe") /\ CanOpen(2) /\ doing' = "close other"
    /\ LET r == Lowest
           w == Min(Numbers \ (Open \cup {r}))
       IN  /\ table' = [table EXCEPT ![r] = End("read", Target + 1, ~filling),
                                     ![w] = End("write", Target + 1, ~filling)]
           /\ created' = created \cup {r, w}
    /\ UNCHANGED <<start, missing, filling, outcome>>

CloseOther ==
    /\ Doing("close other") /\ doing' = (IF filling THEN "duplicate" ELSE "move")
    /\ table' = [table EXCEPT ![Other] = NoEntry] /\ created' = created \ {Other}
    /\ UNCHANGED <<start, missing, filling, outcome>>

\* A bug: dup2() is used, which forgets that the descriptor is to be closed on exec.
BugCopied(entry) == [entry EXCEPT !.cloexec = FALSE]

\* ert_duplicateFd() keeps it.
Copied(entry) == entry

MoveFd ==
    /\ Doing("move") /\ doing' = "close old"
    /\ table' = [table EXCEPT ![Target] = IF Selected = Target THEN @ ELSE Copied(table[Selected])]
    /\ UNCHANGED <<start, missing, created, filling, outcome>>

\* Standard error is a copy of standard output if both were closed.
CloseOld ==
    /\ Doing("close old") /\ missing' = missing \ {Target}
    /\ doing' = (IF missing = {1, 2} THEN "copy" ELSE Opens(missing'))
    /\ table' = [table EXCEPT ![Selected] = IF Selected = Target THEN @ ELSE NoEntry]
    /\ created' = {}
    /\ UNCHANGED <<start, filling, outcome>>

CopyStdout ==
    /\ Doing("copy") /\ missing' = {} /\ doing' = "end"
    /\ table' = [table EXCEPT ![2] = Copied(table[1])]
    /\ UNCHANGED <<start, created, filling, outcome>>

\* The filler has three files, of the end of the pipe and of two copies of it.
DuplicateFiller ==
    /\ Doing("duplicate") /\ CanOpen(1)
    /\ table' = [table EXCEPT ![Lowest] = Copied(table[Selected])]
    /\ created' = created \cup {Lowest}
    /\ doing' = (IF Cardinality(created) = 2 THEN "end" ELSE "duplicate")
    /\ UNCHANGED <<start, missing, filling, outcome>>

EndStd ==
    /\ Doing("end") /\ doing' = "none"
    /\ outcome' = (IF filling THEN "filled" ELSE "open")
    /\ UNCHANGED <<table, start, missing, created, filling>>

\* What the operation has created is closed.
CloseCreated ==
    /\ table' = [n \in Numbers |-> IF n \in created THEN NoEntry ELSE table[n]]
    /\ created' = {} /\ filling' = FALSE

\* ert_closeStdFdFiller().
GiveBack ==
    /\ outcome = "filled" /\ outcome' = "given back" /\ CloseCreated
    /\ UNCHANGED <<start, doing, missing>>

\* What fails closes what it has not handed over.
StdFails ==
    /\ \/ Doing("pipe") \/ Doing("copy") \/ Doing("duplicate")
       \/ Doing("move") /\ Selected # Target
    /\ outcome' = "failed" /\ doing' = "none" /\ missing' = {} /\ CloseCreated
    /\ UNCHANGED start

StdNext ==
    \/ BeginStd \/ OpenPipe \/ CloseOther \/ MoveFd \/ CloseOld \/ CopyStdout
    \/ DuplicateFiller \/ EndStd \/ GiveBack \/ StdFails

StdSpec == StdInit /\ [][StdNext]_stdVars

-----------------------------------------------------------------------------
\* Whichever were closed, the three descriptors are in place afterwards, those that were
\* open untouched: input ends at once and output goes nowhere, as no one has the other
\* end; a program that is executed does not inherit them; nothing else stays open.
StoodIn ==
    outcome = "open" =>
        /\ Open = Std
        /\ \A n \in Std : start[n] # NoEntry => table[n] = start[n]
        /\ \A n \in Std : start[n] = NoEntry =>
             /\ table[n].end = (IF n = 0 THEN "read" ELSE "write") /\ table[n].cloexec
             /\ \A o \in Open : table[o].pipe = table[n].pipe => table[o].end = table[n].end

\* While the filler is there no descriptor that is opened gets a standard number, and it
\* leaves the table as it was.
FilledIn ==
    /\ outcome = "filled" => Std \subseteq Open
    /\ outcome = "given back" => table = start

\* An operation that fails leaves nothing open above the standard descriptors.
NothingLeft == outcome = "failed" => Open \subseteq Std

\* What start-up and fork rely on.
StdFdsKept == StoodIn /\ FilledIn /\ NothingLeft

-----------------------------------------------------------------------------
(* What is true between the calls, from which the above follows.           *)

\* What a standard descriptor is when it is stood in for, or was open.
Standing(n) ==
    End(IF n = 0 THEN "read" ELSE "write", IF n = 2 /\ start[1] = NoEntry THEN 2 ELSE n + 1, TRUE)
Stood(n) == IF start[n] # NoEntry THEN start[n] ELSE Standing(n)

StdTables ==
    /\ StdTypeOK /\ start \in [Numbers -> {NoEntry, User}]
    /\ \A n \in Numbers \ Std : start[n] = NoEntry
    /\ \A n \in missing : start[n] = NoEntry
    /\ filling => missing = {} /\ outcome \in {"busy", "filled"}
    /\ outcome = "filled" => filling
    /\ outcome = "busy" => doing # "none"
    /\ outcome = "idle" => created = {}

\* The descriptors that are not missing are in place, and the operation has others only
\* for the one that it stands in for, which is the lowest that is missing.
OpeningInv ==
    outcome \in {"busy", "open"} /\ ~filling =>
        /\ \A n \in Std \ missing : table[n] = Stood(n) /\ n \notin created
        /\ \A n \in Numbers \ (Std \ missing) :
             n \in created \/ table[n] = NoEntry \/ (doing = "close old" /\ n = Target)
        /\ doing \notin {"close other", "move", "close old"} => created = {}
        /\ doing # "copy" /\ start[1] = NoEntry /\ 2 \in missing => 1 \in missing
        /\ doing \in {"end", "none"} <=> missing = {}
        /\ doing = "copy" => missing = {2} /\ start[1] = NoEntry
        /\ doing = "close other" =>
             \E w \in Numbers \ {Target} :
                /\ created = {Target, w} /\ table[Target] = End("read", Target + 1, TRUE)
                /\ table[w] = End("write", Target + 1, TRUE)
        /\ doing \in {"move", "close old"} =>
             \E s \in Numbers : created = {s} /\ table[s] = Standing(Target)
        /\ doing = "close old" => table[Target] = Standing(Target)
        /\ doing # "duplicate"

\* The filler took the lowest numbers that were free.
FillingInv ==
    filling =>
        /\ \A n \in Numbers \ created : table[n] = start[n]
        /\ \A n \in created : /\ start[n] = NoEntry /\ table[n] # NoEntry
                               /\ \A m \in Numbers : m < n /\ start[m] = NoEntry => m \in created
        /\ doing \in {"pipe", "close other", "duplicate", "end", "none"}
        /\ doing = "pipe" => created = {}
        /\ doing = "close other" =>
             \E a, b \in Numbers : /\ a < b /\ created = {a, b}
                                   /\ table[a].end = "read" /\ table[b].end = "write"
        /\ doing # "close other" => \A n \in created : table[n].end = "read"
        /\ doing = "duplicate" =>
             \E a, b \in Numbers : a <= b /\ created = {a, b}
        /\ doing \in {"end", "none"} =>
             \E a, b, c \in Numbers : a < b /\ b < c /\ created = {a, b, c}

StdInv == StdTables /\ OpeningInv /\ FillingInv /\ StdFdsKept

=============================================================================
