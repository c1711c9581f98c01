------------------------------- MODULE FileLocks -------------------------------
(***************************************************************************)
(* Locks on one file: ert_lockFd() and ert_lockFdRegion() of fd.c, which   *)
(* file.c passes on to.  The system keeps a lock on the whole file with    *)
(* the description that a descriptor refers to, which duplicates and a     *)
(* forked child share, and the locks on its bytes with the process.  Calls *)
(* wait, and a signal can interrupt the wait; the system refuses a wait    *)
(* for bytes that would never end.  The two kinds of lock do not affect    *)
(* each other, so a behaviour has locks of one kind.  Bytes is small; a    *)
(* process has two numbers for descriptors of the file.                    *)
(***************************************************************************)
EXTENDS Integers, FiniteSets

CONSTANTS
    Lockers,        \* processes
    Bytes,          \* of the file
    MaxDescriptions,    \* bound on the times the file is opened
    MaxLockSignals      \* bound on interrupted waits

ASSUME FileLocksAssumption == {MaxDescriptions, MaxLockSignals} \subseteq Nat

VARIABLES
    locking,        \* the kind of lock that was the first: "bytes" or "whole"
    describes,      \* the description of each number of each process, or Nothing
    described,      \* descriptions made
    whole,          \* the lock of each description
    bytes,          \* the locks of each process on each byte
    waiting,        \* the call a process waits in, or NoWait
    lockSignals,
    \* what calls returned, and what undoes it
    told,           \* the locks a process was told it has on each byte
    toldWhole,      \* the lock it was told it has for each description
    forsaken,       \* processes that closed a descriptor of the file while they had bytes
    shared          \* descriptions that another process unlocked or converted

lockVars ==
    <<locking, describes, described, whole, bytes, waiting, lockSignals, told, toldWhole, forsaken, shared>>

Fdn == {1, 2}
Nothing == 0
Descriptions == 1 .. MaxDescriptions
LockTypes == {"unlocked", "read", "write"}
NoWait == [for |-> "nothing", type |-> "unlocked", bytes |-> {}, of |-> Nothing]

FileLocksTypeOK ==
    /\ locking \in {"either", "bytes", "whole"} /\ describes \in [Lockers -> [Fdn -> 0 .. described]]
    /\ described \in 0 .. MaxDescriptions
    /\ whole \in [Descriptions -> LockTypes]
    /\ bytes \in [Lockers -> [Bytes -> LockTypes]] /\ told \in [Lockers -> [Bytes -> LockTypes]]
    /\ toldWhole \in [Lockers -> [Descriptions -> LockTypes]]
    /\ waiting \in [Lockers -> [for : {"nothing", "bytes", "whole"}, type : LockTypes,
                                bytes : SUBSET Bytes, of : 0 .. MaxDescriptions]]
    /\ forsaken \subseteq Lockers /\ shared \subseteq Descriptions

FileLocksInit ==
    /\ locking = "either"
    /\ describes = [p \in Lockers |-> [n \in Fdn |-> Nothing]] /\ described = 0
    /\ whole = [d \in Descriptions |-> "unlocked"]
    /\ bytes = [p \in Lockers |-> [b \in Bytes |-> "unlocked"]] /\ told = bytes
    /\ toldWhole = [p \in Lockers |-> whole]
    /\ waiting = [p \in Lockers |-> NoWait]
    /\ lockSignals = 0 /\ forsaken = {} /\ shared = {}

-----------------------------------------------------------------------------
(* The system.                                                             *)

Conflict(a, b) == "unlocked" \notin {a, b} /\ "write" \in {a, b}
Descs(p) == {describes[p][n] : n \in Fdn} \ {Nothing}
Sharers(d) == {p \in Lockers : d \in Descs(p)}

\* Processes whose locks keep p from some bytes, and those that they wait for.
Owners(p, type, set) ==
    {q \in Lockers \ {p} : \E b \in set : Conflict(type, bytes[q][b])}
Blockers(p) ==
    IF waiting[p].for = "bytes" THEN Owners(p, waiting[p].type, waiting[p].bytes) ELSE {}
Endless(p, type, set) == \E q \in Owners(p, type, set) : p \in Blockers(q)

\* Descriptions whose locks keep d from a lock.
Rivals(d, type) == {e \in Descriptions \ {d} : Conflict(type, whole[e])}

-----------------------------------------------------------------------------
(* Descriptors.                                                            *)

NotWaiting(p) == waiting[p] = NoWait

Describe(p, n, d) == describes' = [describes EXCEPT ![p][n] = d]

OpenAgain(p) ==
    /\ NotWaiting(p) /\ described < MaxDescriptions
    /\ \E n \in Fdn : describes[p][n] = Nothing /\ Describe(p, n, described + 1)
    /\ described' = described + 1
    /\ UNCHANGED <<locking, whole, bytes, waiting, lockSignals, told, toldWhole, forsaken, shared>>

\* ert_duplicateFd(), or the same descriptor in a child that was forked.
Inherit(p, q) ==
    /\ NotWaiting(p) /\ NotWaiting(q)
    /\ \E n, k \in Fdn :
         /\ describes[p][n] = Nothing /\ describes[q][k] # Nothing
         /\ Describe(p, n, describes[q][k])
    /\ UNCHANGED <<locking, described, whole, bytes, waiting, lockSignals, told, toldWhole,
                   forsaken, shared>>

\* ert_closeFd(): the locks of the process on bytes go, whichever descriptor took them,
\* and that of a description when nobody has it any more.
CloseLocked(p) ==
    /\ NotWaiting(p)
    /\ \E n \in Fdn :
         LET d == describes[p][n]
             last == \A q \in Lockers, k \in Fdn : describes[q][k] = d => q = p /\ k = n
         IN  /\ d # Nothing /\ Describe(p, n, Nothing)
             /\ whole' = IF last THEN [whole EXCEPT ![d] = "unlocked"] ELSE whole
             /\ toldWhole' = IF \A k \in Fdn \ {n} : describes[p][k] # d
                             THEN [toldWhole EXCEPT ![p][d] = "unlocked"] ELSE toldWhole
    /\ bytes' = [bytes EXCEPT ![p] = [b \in Bytes |-> "unlocked"]]
    /\ forsaken' = IF bytes[p] = bytes'[p] THEN forsaken ELSE forsaken \cup {p}
    /\ UNCHANGED <<locking, described, waiting, lockSignals, told, shared>>

-----------------------------------------------------------------------------
(* Locking.                                                                *)

Locking(kind) == locking \in {"either", kind} /\ locking' = kind

\* ert_lockFdRegion(): the system refuses a wait that would not end, and the caller is
\* told.
LockBytes(p) ==
    /\ Locking("bytes") /\ NotWaiting(p) /\ Descs(p) # {}
    /\ \E set \in SUBSET Bytes \ {{}}, type \in {"read", "write"} :
         /\ ~Endless(p, type, set)
         /\ waiting' = [waiting EXCEPT ![p] =
                            [for |-> "bytes", type |-> type, bytes |-> set, of |-> Nothing]]
    /\ UNCHANGED <<describes, described, whole, bytes, lockSignals, told, toldWhole,
                   forsaken, shared>>

\* ert_lockFd(): a lock of the other type that the description has goes before the wait.
LockWhole(p) ==
    /\ Locking("whole") /\ NotWaiting(p)
    /\ \E d \in Descs(p), type \in {"read", "write"} :
         /\ waiting' = [waiting EXCEPT ![p] =
                            [for |-> "whole", type |-> type, bytes |-> {}, of |-> d]]
         /\ IF whole[d] = type THEN UNCHANGED <<whole, toldWhole, shared>>
            ELSE /\ whole' = [whole EXCEPT ![d] = "unlocked"]
                 /\ toldWhole' = [toldWhole EXCEPT ![p][d] = "unlocked"]
                 /\ shared' = IF whole[d] = "unlocked" \/ Sharers(d) = {p} THEN shared
                              ELSE shared \cup {d}
    /\ UNCHANGED <<describes, described, bytes, lockSignals, told, forsaken>>

\* The call returns with what it asked for.
Locked(p) ==
    LET w == waiting[p]
    IN  /\ waiting' = [waiting EXCEPT ![p] = NoWait]
        /\ told' = [told EXCEPT ![p] = [b \in Bytes |-> IF b \in w.bytes THEN w.type ELSE @[b]]]
        /\ toldWhole' = IF w.for = "whole" THEN [toldWhole EXCEPT ![p][w.of] = w.type]
                        ELSE toldWhole

GrantBytes(p) ==
    /\ waiting[p].for = "bytes" /\ Blockers(p) = {} /\ Locked(p)
    /\ bytes' = [bytes EXCEPT ![p] =
                    [b \in Bytes |-> IF b \in waiting[p].bytes THEN waiting[p].type ELSE @[b]]]
    /\ forsaken' = forsaken \ {q \in {p} : waiting[p].bytes = Bytes}
    /\ UNCHANGED <<locking, describes, described, whole, lockSignals, shared>>

GrantWhole(p) ==
    /\ waiting[p].for = "whole" /\ Rivals(waiting[p].of, waiting[p].type) = {} /\ Locked(p)
    /\ whole' = [whole EXCEPT ![waiting[p].of] = waiting[p].type]
    /\ shared' = IF Sharers(waiting[p].of) = {p} THEN shared \ {waiting[p].of}
                 ELSE shared \cup {waiting[p].of}
    /\ UNCHANGED <<locking, describes, described, bytes, lockSignals, forsaken>>

\* A bug: a wait that a signal interrupts is taken for the end of the call.
BugInterrupted(p) == Locked(p)

\* flock() and fcntl() are called again after EINTR.
Interrupted(p) == UNCHANGED <<waiting, told, toldWhole>>

SignalWaiter(p) ==
    /\ ~NotWaiting(p) /\ lockSignals < MaxLockSignals /\ lockSignals' = lockSignals + 1
    /\ Interrupted(p)
    /\ UNCHANGED <<locking, describes, described, whole, bytes, forsaken, shared>>

UnlockBytes(p) ==
    /\ Locking("bytes") /\ NotWaiting(p) /\ Descs(p) # {}
    /\ \E set \in SUBSET Bytes \ {{}} :
         LET cleared(locks) == [b \in Bytes |-> IF b \in set THEN "unlocked" ELSE locks[b]]
         IN  /\ bytes' = [bytes EXCEPT ![p] = cleared(@)]
             /\ told' = [told EXCEPT ![p] = cleared(@)]
             /\ forsaken' = forsaken \ {q \in {p} : set = Bytes}
    /\ UNCHANGED <<describes, described, whole, waiting, lockSignals, toldWhole, shared>>

UnlockWhole(p) ==
    /\ NotWaiting(p)
    /\ \E d \in Descs(p) :
         /\ whole[d] # "unlocked"
         /\ whole' = [whole EXCEPT ![d] = "unlocked"]
         /\ toldWhole' = [toldWhole EXCEPT ![p][d] = "unlocked"]
         /\ shared' = IF Sharers(d) = {p} THEN shared ELSE shared \cup {d}
    /\ UNCHANGED <<locking, describes, described, bytes, waiting, lockSignals, told, forsaken>>

\* A bug: the query asks who keeps it from a shared lock.
BugRegionLocked(p, set) ==
    LET locks == {bytes[q][b] : q \in Owners(p, "read", set), b \in set}
    IN  IF Owners(p, "read", set) = {} THEN {"unlocked"} ELSE locks \ {"unlocked"}

\* ert_ownFdRegionLocked(): what keeps the process from an exclusive lock, its own locks
\* aside; where there are several, one of them.
RegionLocked(p, set) ==
    LET locks == {bytes[q][b] : q \in Owners(p, "write", set), b \in set}
    IN  IF Owners(p, "write", set) = {} THEN {"unlocked"} ELSE locks \ {"unlocked"}

FileLocksNext ==
    \E p \in Lockers :
        \/ OpenAgain(p) \/ CloseLocked(p) \/ \E q \in Lockers : Inherit(p, q)
        \/ LockBytes(p) \/ LockWhole(p) \/ GrantBytes(p) \/ GrantWhole(p) \/ SignalWaiter(p)
        \/ UnlockBytes(p) \/ UnlockWhole(p)

FileLocksSpec == FileLocksInit /\ [][FileLocksNext]_lockVars

-----------------------------------------------------------------------------
\* Every process that asks about a byte learns of a lock that another was told it has,
\* whatever interrupted its wait: unless that process closed a descriptor of the file
\* meanwhile, be it another than the one it locked with.
BytesSeen ==
    \A p, q \in Lockers : \A b \in Bytes :
        p # q /\ told[q][b] # "unlocked" /\ q \notin forsaken =>
            /\ "unlocked" \notin RegionLocked(p, {b})
            /\ told[q][b] = "write" => RegionLocked(p, {b}) = {"write"}

\* Two processes are never told that they have locks that exclude each other, on bytes or
\* on the whole file, unless one closed a descriptor, or they share their description.
ToldApart ==
    \A p, q \in Lockers : p # q =>
        /\ {p, q} \cap forsaken = {} => \A b \in Bytes : ~Conflict(told[p][b], told[q][b])
        /\ \A d, e \in Descriptions \ shared :
             Sharers(d) = {p} /\ Sharers(e) = {q} => ~Conflict(toldWhole[p][d], toldWhole[q][e])

\* What the users of locks may rely on.
FileLocksKept == BytesSeen /\ ToldApart

-----------------------------------------------------------------------------
(* What the system and the callers agree on, from which the above follows. *)

\* Who waits for the lock of a description has a number for it.
WaiterInv ==
    \A p \in Lockers :
        /\ waiting[p].for = "whole" => waiting[p].bytes = {} /\ waiting[p].of \in Descs(p)
        /\ waiting[p].for = "nothing" => waiting[p] = NoWait

\* Locks on bytes exclude each other, and are those that callers were told of, unless a
\* descriptor was closed.
BytesInv ==
    /\ \A p, q \in Lockers : p # q => \A b \in Bytes : ~Conflict(bytes[p][b], bytes[q][b])
    /\ \A p \in Lockers \ forsaken : told[p] = bytes[p]

\* Locks of descriptions exclude each other, and so do those that callers were told of,
\* unless a description was shared.
WholeInv ==
    /\ \A d, e \in Descriptions : d # e => ~Conflict(whole[d], whole[e])
    /\ \A p \in Lockers, d \in Descriptions :
         toldWhole[p][d] # "unlocked" =>
            d \in Descs(p) /\ (d \in shared \/ toldWhole[p][d] = whole[d])

LocksInv == FileLocksTypeOK /\ WaiterInv /\ BytesInv /\ WholeInv

=============================================================================
