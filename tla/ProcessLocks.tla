---------------------------- MODULE ProcessLocks ----------------------------
(***************************************************************************)
(* The locks that a fork of the process takes, and what takes them besides *)
(* (process.c, thread.c, fd.c): the fork child lock, the lock on the fork  *)
(* itself, the application lock with the region of its lock file, the      *)
(* locks on signal actions, those on the watch methods, the file list.     *)
(*                                                                         *)
(* A thread works through two frames: its call, and a signal handler on    *)
(* top of it.  A frame is what is left of a sequence of steps <<do, lock>>,*)
(* written down in the order in which the code takes its locks.  What a    *)
(* call does between these steps touches no lock.  fork() copies the locks *)
(* into a process where the thread that forked is alone.                   *)
(***************************************************************************)
EXTENDS Integers, Sequences, FiniteSets

CONSTANTS
    LockThreads,        \* threads of the program
    MaxLockForks,       \* bound on the forks of a behaviour
    MaxLockSignals,     \* bound on the signals that arrive
    HandlersReport      \* does ert_debug() report (mDebug above 1)

ASSUME LockAssumption ==
    /\ MaxLockForks \in Nat /\ MaxLockSignals \in Nat
    /\ HandlersReport \in BOOLEAN

VARIABLES
    calls,      \* what each thread of each process has left of its call
    handlers,   \* and of the signal handler on top of it
    held,       \* how often each thread has each lock
    forkLock,   \* processForkChildLock_: mProcess, mThread, mCount
    region,     \* the process that has locked the region of the lock file
    regionKept, \* processLock_.mLock->mLock
    living,     \* the threads of each process
    rung,       \* children that have rung the bell of their fork channel
    forks,      \* forks so far
    called,     \* threads that have made their call
    lockSignals \* signals that have arrived

lockVars == <<calls, handlers, held, forkLock, region, regionKept, living, rung, forks, called,
              lockSignals>>

LockProcesses == 0 .. MaxLockForks
NoProcess == -1
WatchedSignals == {"CONT", "HUP"}

\* struct Ert_ThreadSigMutex: recursive, and its owner takes no signal.
SigMutexes == {"app", "signal", "watch"}
\* mVectorLock is "reader" or "writer", mActionMutex has the name of its signal.
Locks == SigMutexes \cup WatchedSignals
            \cup {"forkChild", "fork", "reader", "writer", "files"}

NoForkLock == [process |-> NoProcess, thread |-> <<>>, count |-> 0]

----------------------------------------------------------------------------
\* What the calls lock

\* Blocking signals is a step of its own where the thread has a lock by then.
\* Unlocks in a row are one step, since nobody waits for a lock to stay locked.
Mask(l)         == <<<<"mask", l>>>>
LockFor(l)      == <<<<"lock", l>>>>
Unlock(several) == <<<<"unlock", several>>>>

\* ert_acquireProcessAppLock, ert_releaseProcessAppLock
AcquireApp == LockFor("app") \o <<<<"lockRegion", "app">>>>
ReleaseApp == <<<<"unlockRegion", "app">>>> \o Unlock({"app"})
Report == IF HandlersReport THEN AcquireApp \o ReleaseApp ELSE <<>>

\* Mutant: prepareFork_ takes the signal vector before the application lock.
BugPrepareFork ==
    <<<<"lockFork", "forkChild">>>> \o LockFor("fork") \o LockFor("writer")
        \o Mask("app") \o LockFor("app") \o LockFor("signal") \o LockFor("files")

\* The handlers that pthread_atfork() runs, last registered first.
PrepareFork ==
    <<<<"lockFork", "forkChild">>>> \o LockFor("fork") \o Mask("app") \o LockFor("app")
        \o LockFor("writer") \o LockFor("signal") \o LockFor("files")

\* completeFork_ and ert_postProcessForkParent_
CompleteFork ==
    Unlock({"signal", "writer", "app", "fork"}) \o <<<<"unlockFork", "forkChild">>>>

Fork == PrepareFork \o <<<<"fork", "raw">>>>

ForkProcessChild ==
    <<<<"lockFork", "forkChild">>>> \o PrepareFork \o <<<<"fork", "child">>>>

ChangeSigAction(sig) ==
    LockFor("signal") \o Unlock({"signal"}) \o LockFor("reader")
        \o Mask(sig) \o LockFor(sig) \o Unlock({sig, "reader"})

UpdateWatchMethod == LockFor("watch") \o Unlock({"watch"})

\* runSigAction_, runSigHandler_: only the handlers of SIGCONT and SIGTSTP lock.
RunSigHandler(sig) ==
    LockFor("reader") \o Report \o LockFor(sig)
        \o (IF sig = "CONT" THEN LockFor("watch") \o Report \o Unlock({"watch"}) ELSE <<>>)
        \o Unlock({sig, "reader"})

\* What a thread may call; the fork steps are completed when they are taken.
LockCalls == {
    Fork, ForkProcessChild, ChangeSigAction("HUP"), UpdateWatchMethod,
    AcquireApp \o ChangeSigAction("HUP") \o ReleaseApp,
    AcquireApp \o UpdateWatchMethod \o ReleaseApp,
    AcquireApp \o Fork \o ReleaseApp, AcquireApp \o ForkProcessChild \o ReleaseApp}

\* The parent after fork(): ert_forkProcessChild waits for the bell of the child.
ParentPath(kind, k) ==
    Unlock({"files"}) \o CompleteFork
        \o (IF kind = "child" THEN <<<<"waitBell", k>>, <<"unlockFork", "forkChild">>>> ELSE <<>>)

\* The child: postForkChild_ takes the region of its parent; ert_forkProcessChild
\* resets the fork lock, the signals, and rings.
ChildPath(kind) ==
    Unlock({"files"}) \o <<<<"forkRegion", "app">>>> \o CompleteFork
        \o (IF kind = "child"
            THEN <<<<"resetFork", "forkChild">>, <<"lockFork", "forkChild">>>>
                    \o UpdateWatchMethod \o ChangeSigAction("HUP")
                    \o <<<<"ringBell", "child">>, <<"unlockFork", "forkChild">>, <<"exit", "child">>>>
            ELSE <<>>)

----------------------------------------------------------------------------
LockInit ==
    /\ calls = [p \in LockProcesses |-> [t \in LockThreads |-> <<>>]]
    /\ handlers = calls
    /\ held = [p \in LockProcesses |-> [l \in Locks |-> [t \in LockThreads |-> 0]]]
    /\ forkLock = [p \in LockProcesses |-> NoForkLock]
    /\ region = NoProcess
    /\ regionKept = [p \in LockProcesses |-> FALSE]
    /\ living = [p \in LockProcesses |-> IF p = 0 THEN LockThreads ELSE {}]
    /\ rung = {} /\ forks = 0 /\ called = {} /\ lockSignals = 0

InHandler(p, t) == handlers[p][t] # <<>>
Frame(p, t)     == IF InHandler(p, t) THEN handlers[p][t] ELSE calls[p][t]
LockRunning(p, t) == t \in living[p] /\ Frame(p, t) # <<>>
Do(p, t)        == Head(Frame(p, t))[1]
Lock(p, t)      == Head(Frame(p, t))[2]

Advance(p, t) ==
    IF InHandler(p, t)
    THEN handlers' = [handlers EXCEPT ![p][t] = Tail(@)] /\ UNCHANGED calls
    ELSE calls' = [calls EXCEPT ![p][t] = Tail(@)] /\ UNCHANGED handlers

Has(p, t, l)   == held[p][l][t] > 0
Holders(p, l)  == {t \in LockThreads : Has(p, t, l)}

\* ert_ownThreadSigMutexLocked(processLock_.mMutex) = 1
OwnsAppOnce(p, t) == held[p]["app"][t] = 1

\* Mutant: the fork does not wait for those who read the signal vector.
BugExcludes(l) == IF l = "reader" THEN {"writer"} ELSE {l}

\* Whose holders keep others from l.
Excludes(l) == CASE l = "writer" -> {"reader", "writer"}
                 [] l = "reader" -> {"writer"}
                 [] OTHER        -> {l}

RegionTaken(p) ==
    IF region \in {NoProcess, p} THEN {} ELSE {<<region, u>> : u \in Holders(region, "app")}

\* The threads that keep t from taking its next step.
Blockers(p, t) ==
    LET do == Do(p, t)  l == Lock(p, t)
    IN  CASE do = "lock" ->
                {<<p, u>> : u \in UNION {Holders(p, m) : m \in Excludes(l)}}
                    \ (IF l \in SigMutexes THEN {<<p, t>>} ELSE {})
          [] do = "lockFork" ->
                IF forkLock[p].thread = <<p, t>> THEN {}
                ELSE {<<p, u>> : u \in Holders(p, "forkChild")}
          [] do = "lockRegion" -> IF OwnsAppOnce(p, t) THEN RegionTaken(p) ELSE {}
          [] do = "forkRegion" -> IF regionKept[p] THEN RegionTaken(p) ELSE {}
          [] do = "waitBell" -> IF l \in rung THEN {} ELSE {<<l, u>> : u \in living[l]}
          [] OTHER -> {}

Free(p, t) == LockRunning(p, t) /\ Blockers(p, t) = {}

----------------------------------------------------------------------------
\* The steps

CallLock(t) ==
    /\ t \notin called
    /\ \E c \in LockCalls : calls' = [calls EXCEPT ![0][t] = c]
    /\ called' = called \cup {t}
    /\ UNCHANGED <<handlers, held, forkLock, region, regionKept, living, rung, forks,
                   lockSignals>>

\* Does the mask of t, or sa_mask of its handler, block sig?
Masked(p, t, sig) ==
    \/ InHandler(p, t)
    \/ \E l \in SigMutexes \cup {sig} :
        \/ Has(p, t, l)
        \/ LockRunning(p, t) /\ Do(p, t) = "lock" /\ Lock(p, t) = l

DeliverLock(p, t, sig) ==
    /\ lockSignals < MaxLockSignals
    /\ t \in living[p] /\ ~ Masked(p, t, sig)
    /\ handlers' = [handlers EXCEPT ![p][t] = RunSigHandler(sig)]
    /\ lockSignals' = lockSignals + 1
    /\ UNCHANGED <<calls, held, forkLock, region, regionKept, living, rung, forks, called>>

\* Locks, unlocks and masks; waiting for the bell takes nothing either.
TakeLock(p, t) ==
    /\ Free(p, t) /\ Do(p, t) \in {"mask", "lock", "unlock", "waitBell"}
    /\ held' = CASE Do(p, t) = "lock"   -> [held EXCEPT ![p][Lock(p, t)][t] = @ + 1]
                 [] Do(p, t) = "unlock" -> [held EXCEPT ![p] = [l \in Locks |->
                        IF l \in Lock(p, t) THEN [held[p][l] EXCEPT ![t] = held[p][l][t] - 1]
                        ELSE held[p][l]]]
                 [] OTHER -> held
    /\ Advance(p, t)
    /\ UNCHANGED <<forkLock, region, regionKept, living, rung, forks, called, lockSignals>>

\* ert_acquireProcessForkChildLock_
AcquireForkLock(p, t) ==
    /\ Free(p, t) /\ Do(p, t) = "lockFork"
    /\ IF forkLock[p].thread = <<p, t>>
       THEN forkLock' = [forkLock EXCEPT ![p].count = @ + 1] /\ UNCHANGED held
       ELSE /\ held' = [held EXCEPT ![p]["forkChild"][t] = @ + 1]
            /\ forkLock' = [forkLock EXCEPT ![p] =
                    [process |-> p, thread |-> <<p, t>>, count |-> @.count + 1]]
    /\ Advance(p, t)
    /\ UNCHANGED <<region, regionKept, living, rung, forks, called, lockSignals>>

\* ert_relinquishProcessForkChildLock_, by one or, in the child, altogether
RelinquishForkLock(p, t) ==
    /\ Free(p, t) /\ Do(p, t) \in {"unlockFork", "resetFork"}
    /\ LET count == IF Do(p, t) = "unlockFork" THEN forkLock[p].count - 1 ELSE 0
       IN  /\ forkLock' = [forkLock EXCEPT ![p] =
                [process |-> p, thread |-> IF count = 0 THEN <<>> ELSE <<p, t>>, count |-> count]]
           /\ held' = IF count = 0 THEN [held EXCEPT ![p]["forkChild"][t] = @ - 1] ELSE held
    /\ Advance(p, t)
    /\ UNCHANGED <<region, regionKept, living, rung, forks, called, lockSignals>>

\* lockProcessLock_ and unlockProcessLock_, by the first owner of the application
\* lock and the last; forkProcessLock_, by a child whose parent has the region.
LockRegion(p, t) ==
    /\ Free(p, t) /\ Do(p, t) \in {"lockRegion", "unlockRegion", "forkRegion"}
    /\ CASE Do(p, t) = "lockRegion" /\ OwnsAppOnce(p, t) ->
                region' = p /\ regionKept' = [regionKept EXCEPT ![p] = TRUE]
         [] Do(p, t) = "unlockRegion" /\ OwnsAppOnce(p, t) ->
                region' = NoProcess /\ regionKept' = [regionKept EXCEPT ![p] = FALSE]
         [] Do(p, t) = "forkRegion" /\ regionKept[p] -> region' = p /\ UNCHANGED regionKept
         [] OTHER -> UNCHANGED <<region, regionKept>>
    /\ Advance(p, t)
    /\ UNCHANGED <<held, forkLock, living, rung, forks, called, lockSignals>>

\* fork(): the child has a copy of the memory, with the locks, and one thread.
\* The child of ert_forkProcessChild never returns from the call.
MakeProcess(p, t) ==
    /\ Free(p, t) /\ Do(p, t) = "fork"
    /\ forks < MaxLockForks
    /\ forks' = forks + 1
    /\ LET k == forks + 1
       IN  /\ calls' = [calls EXCEPT
                ![p][t] = ParentPath(Lock(p, t), k) \o Tail(@),
                ![k][t] = ChildPath(Lock(p, t))
                            \o (IF Lock(p, t) = "raw" THEN Tail(calls[p][t]) ELSE <<>>)]
           /\ held' = [held EXCEPT ![k] = held[p]]
           /\ forkLock' = [forkLock EXCEPT ![k] = forkLock[p]]
           /\ regionKept' = [regionKept EXCEPT ![k] = regionKept[p]]
           /\ living' = [living EXCEPT ![k] = {t}]
    /\ UNCHANGED <<handlers, region, rung, called, lockSignals>>

\* sendForkProcessChannelResult_, which lets the parent go on
RingBell(p, t) ==
    /\ Free(p, t) /\ Do(p, t) = "ringBell"
    /\ rung' = rung \cup {p}
    /\ Advance(p, t)
    /\ UNCHANGED <<held, forkLock, region, regionKept, living, forks, called, lockSignals>>

\* callForkMethod_: the system releases the region with the process.
ExitProcess(p, t) ==
    /\ Free(p, t) /\ Do(p, t) = "exit"
    /\ living' = [living EXCEPT ![p] = {}]
    /\ region' = IF region = p THEN NoProcess ELSE region
    /\ Advance(p, t)
    /\ UNCHANGED <<held, forkLock, regionKept, rung, forks, called, lockSignals>>

LockNext ==
    \/ \E t \in LockThreads : CallLock(t)
    \/ \E p \in LockProcesses, t \in LockThreads :
        \/ \E sig \in WatchedSignals : DeliverLock(p, t, sig)
        \/ TakeLock(p, t) \/ AcquireForkLock(p, t) \/ RelinquishForkLock(p, t)
        \/ LockRegion(p, t) \/ MakeProcess(p, t) \/ RingBell(p, t) \/ ExitProcess(p, t)

LockSpec == LockInit /\ [][LockNext]_lockVars

----------------------------------------------------------------------------
LockTypeOK ==
    /\ held \in [LockProcesses -> [Locks -> [LockThreads -> 0 .. 3]]]
    /\ \A p \in LockProcesses :
        /\ forkLock[p].process \in LockProcesses \cup {NoProcess}
        /\ forkLock[p].count \in 0 .. 2
    /\ region \in LockProcesses \cup {NoProcess}
    /\ regionKept \in [LockProcesses -> BOOLEAN]
    /\ living \in [LockProcesses -> SUBSET LockThreads]
    /\ rung \subseteq LockProcesses /\ called \subseteq LockThreads
    /\ forks \in 0 .. MaxLockForks /\ lockSignals \in 0 .. MaxLockSignals

\* Threads that wait for one another, each for a member of the set.
LiveThreads == {x \in LockProcesses \X LockThreads : LockRunning(x[1], x[2]) /\ x[2] \in living[x[1]]}
Knots == {s \in SUBSET LiveThreads : s # {} /\ \A x \in s : Blockers(x[1], x[2]) \cap s # {}}

\* A handler reports while it keeps its locks.
ReportsInHandler(p, t) == InHandler(p, t) /\ Do(p, t) \in {"lock", "lockRegion"} /\ Lock(p, t) = "app"
\* The owner of the application lock waits for the fork lock, or for its child.
OwnerForks(p, t) == Has(p, t, "app") /\ Do(p, t) \in {"lockFork", "waitBell"}

(***************************************************************************)
(* Threads wait for one another for two reasons only: a signal handler     *)
(* reports, and so takes the application lock above locks that prepareFork_*)
(* and others take after it; or a thread forks that owns the application   *)
(* lock, while another that has the fork lock, or its own child, needs it. *)
(* No other calls, in whatever order, block each other: prepareFork_,      *)
(* changeSigAction_, the handlers and the lock of the watch methods.       *)
(***************************************************************************)
DeadlockCauses ==
    \A s \in Knots : \E x \in s : ReportsInHandler(x[1], x[2]) \/ OwnerForks(x[1], x[2])

\* A lock of a process belongs to a thread that it has not got.  "The purpose here is to
\* prevent the signal mutexes from being held while a fork is in progress, since those
\* locked mutexes will then be transferred into the child process" (prepareFork_).
Orphaned(p, l) == living[p] # {} /\ \E t \in LockThreads \ living[p] : Has(p, t, l)

(***************************************************************************)
(* Of the locks above only those of the watch methods can be orphaned: the *)
(* child owns each lock that it finds locked, and knows it: its fork lock  *)
(* names a process and a thread that let it release, and acquire again.    *)
(***************************************************************************)
ForkedLocksOwned ==
    \A p \in LockProcesses :
        /\ \A l \in Locks : Orphaned(p, l) => l = "watch"
        /\ \A t \in living[p] :
            /\ LockRunning(p, t) /\ Do(p, t) = "lockFork" => forkLock[p].process \in {NoProcess, p}
            /\ LockRunning(p, t) /\ Do(p, t) \in {"unlockFork", "resetFork"} =>
                /\ forkLock[p].count > 0 /\ Has(p, t, "forkChild")
                /\ forkLock[p].process = p => forkLock[p].thread = <<p, t>>
=============================================================================
