------------------------------ MODULE MCProcesses ------------------------------
(***************************************************************************)
(* What the library keeps between threads and processes: locks, signal     *)
(* actions, threads, daemons, aborts and children.  These parts share no   *)
(* state, so a behaviour is one of the part in focus, while the others     *)
(* stay in their initial states: each part is checked by itself.           *)
(***************************************************************************)
EXTENDS ProcessLocks, ProcessWatches, SharedMutex, ThreadLife, Daemon, Abort, Children

VARIABLE focus      \* the part that runs

Parts == {"locks", "watches", "shared", "threads", "daemon", "abort", "children"}

ProcessesInit ==
    /\ focus \in Parts
    /\ LockInit /\ WatchInit /\ SharedInit /\ LifeInit /\ DaemonInit /\ AbortInit /\ ChildInit
    /\ focus # "abort" => masked = {} /\ action = "default"

\* All parts but one stay as they are.
Others(name) ==
    /\ UNCHANGED focus
    /\ IF name = "locks" THEN TRUE ELSE UNCHANGED lockVars
    /\ IF name = "watches" THEN TRUE ELSE UNCHANGED watchVars
    /\ IF name = "shared" THEN TRUE ELSE UNCHANGED sharedVars
    /\ IF name = "threads" THEN TRUE ELSE UNCHANGED threadVars
    /\ IF name = "daemon" THEN TRUE ELSE UNCHANGED daemonVars
    /\ IF name = "abort" THEN TRUE ELSE UNCHANGED abortVars
    /\ IF name = "children" THEN TRUE ELSE UNCHANGED childVars

LockRun == focus = "locks" /\ LockNext /\ Others("locks")
WatchRun == focus = "watches" /\ WatchNext /\ Others("watches")
SharedRun == focus = "shared" /\ SharedNext /\ Others("shared")
ThreadRun == focus = "threads" /\ LifeNext /\ Others("threads")
DaemonRun == focus = "daemon" /\ DaemonNext /\ Others("daemon")
AbortRun == focus = "abort" /\ AbortNext /\ Others("abort")
ChildRun == focus = "children" /\ ChildNext /\ Others("children")

ProcessesNext ==
    \/ LockRun \/ WatchRun \/ SharedRun \/ ThreadRun
    \/ DaemonRun \/ AbortRun \/ ChildRun

processesVars ==
    <<focus, lockVars, watchVars, sharedVars, threadVars, daemonVars, abortVars, childVars>>

\* The processes of a daemon's start run, and so do the threads of a process that aborts.
ProcessesFairness ==
    /\ WF_daemonVars(focus = "daemon" /\ CallerStep)
    /\ WF_daemonVars(focus = "daemon" /\ ServerStep)
    /\ WF_daemonVars(focus = "daemon" /\ DaemonStep)
    /\ \A t \in AbortThreads :
         /\ WF_abortVars(focus = "abort" /\ KillStep(t))
         /\ WF_abortVars(focus = "abort" /\ EndAction(t))
         /\ WF_abortVars(focus = "abort" /\ EndForking(t))

ProcessesSpec == ProcessesInit /\ [][ProcessesNext]_processesVars /\ ProcessesFairness

-----------------------------------------------------------------------------
ProcessTypesOK ==
    /\ focus = "locks" => LockTypeOK
    /\ focus = "watches" => WatchTypeOK
    /\ focus = "shared" => SharedTypeOK
    /\ focus = "threads" => LifeTypeOK
    /\ focus = "daemon" => DaemonTypeOK
    /\ focus = "abort" => AbortTypeOK
    /\ focus = "children" => ChildTypeOK

\* Threads and processes stop one another over the locks that forks, handlers and reports
\* take for the known reasons only, and a child owns each lock that it inherits.
LocksKept == focus = "locks" => DeadlockCauses /\ ForkedLocksOwned

\* A watch ends with no call after it, and with the actions from before it; a signal ends
\* the process, or a call aborts it, for the known reasons only.
WatchesKept == focus = "watches" => WatchesEnd /\ WatchAborts

\* Threads and processes that share a mutex, a creation or children keep them through
\* timeouts, deaths, spurious wakeups and process ids that are given out again.
ThreadsKept ==
    /\ focus = "shared" => SharedMutexKept
    /\ focus = "threads" => ThreadLifeKept
    /\ focus = "children" => ChildrenKept

\* What is started is ended: a daemon is left to itself, never under a guardian and never
\* without its caller's knowledge, and a process that aborts is terminated.
ProcessesEnd ==
    /\ [](focus = "daemon" => DaemonOrphaned)
    /\ focus = "daemon" ~> Released
    /\ trigger ~> (ended \/ unable)
=============================================================================
