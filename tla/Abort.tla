-------------------------------- MODULE Abort --------------------------------
(***************************************************************************)
(* Ending the process from within: ert_abortProcess() of process.c, for    *)
(* SIGABRT (ert_quitProcess() is the same for SIGQUIT).  Several threads   *)
(* may abort at once, in the middle of whatever holds the locks of the     *)
(* dispatcher, while other threads change the action of the signal or      *)
(* handle it: the signal that is raised may be caught, and the dispatcher  *)
(* that catches it takes those locks before it looks whether it is to      *)
(* abort.  The time limit of these locks is left out: the process ends     *)
(* without it.                                                             *)
(***************************************************************************)
EXTENDS Naturals, FiniteSets

CONSTANTS
    AbortThreads,   \* threads of the process
    MaxRaises,      \* attempts to raise the signal before the last one; ten in the code
    MaxChanges      \* bound on changes of the action and forks

ASSUME AbortAssumption == MaxRaises \in Nat \ {0}

VARIABLES
    doing,          \* [thread -> the step it is at]
    tries,          \* [thread -> attempts to raise the signal]
    reading,        \* threads that share mVectorLock, each for a dispatch or a change
    writing,        \* threads that exclude those that share it: one, for a fork
    acting,         \* threads that hold mActionMutex of the signal: at most one
    masked,         \* threads that block the signal
    action,         \* what the system does with the signal: "default", "ignore", "dispatch"
    trigger,        \* processAbort_
    unable,         \* a system call of an abort failed
    changes,        \* changes of the action and forks so far
    ended           \* the process was terminated

abortVars == <<doing, tries, reading, writing, acting, masked, action, trigger, unable, changes,
               ended>>

Killing == {"unmask", "default", "raise", "last", "pause"}
Entering == {"enter", "wait", "look"}

AbortTypeOK ==
    /\ doing \in [AbortThreads -> {"work", "changing", "forking", "handler"} \cup Killing
                                  \cup Entering]
    /\ tries \in [AbortThreads -> 0 .. MaxRaises]
    /\ reading \cup writing \cup acting \cup masked \subseteq AbortThreads
    /\ action \in {"default", "ignore", "dispatch"} /\ {trigger, unable, ended} \subseteq BOOLEAN

AbortInit ==
    /\ doing = [t \in AbortThreads |-> "work"] /\ tries = [t \in AbortThreads |-> 0]
    /\ reading = {} /\ writing = {} /\ acting = {}
    /\ masked \in {{}, AbortThreads}
    /\ action \in {"default", "dispatch"} /\ trigger = FALSE /\ unable = FALSE
    /\ changes = 0 /\ ended = FALSE

At(t, step) == ~ended /\ doing[t] = step
Goes(t, step) == doing' = [doing EXCEPT ![t] = step]

-----------------------------------------------------------------------------
(* The rest of the program.                                                *)

\* changeSigAction_(): the locks are taken, and the signal is blocked.
BeginAction(t) ==
    /\ At(t, "work") /\ writing = {} /\ acting = {}
    /\ changes < MaxChanges /\ changes' = changes + 1
    /\ Goes(t, "changing")
    /\ reading' = reading \cup {t} /\ acting' = {t} /\ masked' = masked \cup {t}
    /\ UNCHANGED <<tries, writing, action, trigger, unable, ended>>

EndAction(t) ==
    /\ At(t, "changing") /\ Goes(t, "work")
    /\ action' \in {"default", "ignore", "dispatch"}
    /\ reading' = reading \ {t} /\ acting' = {} /\ masked' = masked \ {t}
    /\ UNCHANGED <<tries, writing, trigger, unable, changes, ended>>

\* prepareFork_() and completeFork_() around a fork.
BeginFork(t) ==
    /\ At(t, "work") /\ reading = {} /\ writing = {}
    /\ changes < MaxChanges /\ changes' = changes + 1
    /\ Goes(t, "forking") /\ writing' = {t}
    /\ UNCHANGED <<tries, reading, acting, masked, action, trigger, unable, ended>>

EndForking(t) ==
    /\ At(t, "forking") /\ Goes(t, "work") /\ writing' = {}
    /\ UNCHANGED <<tries, reading, acting, masked, action, trigger, unable, changes, ended>>

\* The signal comes from elsewhere, and is taken by a thread that does not block it.
TakeSignal(t) ==
    /\ At(t, "work") /\ t \notin masked /\ action = "dispatch"
    /\ Goes(t, "enter") /\ masked' = masked \cup {t}
    /\ UNCHANGED <<tries, reading, writing, acting, action, trigger, unable, changes, ended>>

LeaveAction(t) ==
    /\ At(t, "handler") /\ Goes(t, "work")
    /\ reading' = reading \ {t} /\ acting' = {} /\ masked' = masked \ {t}
    /\ UNCHANGED <<tries, writing, action, trigger, unable, changes, ended>>

-----------------------------------------------------------------------------
(* The dispatcher, runSigHandler_().                                       *)

ShareVector(t) ==
    /\ At(t, "enter") /\ Goes(t, "wait")
    /\ writing = {} /\ reading' = reading \cup {t}
    /\ UNCHANGED <<tries, writing, acting, masked, action, trigger, unable, changes, ended>>

LockAction(t) ==
    /\ At(t, "wait") /\ Goes(t, "look")
    /\ acting = {} /\ acting' = {t}
    /\ UNCHANGED <<tries, reading, writing, masked, action, trigger, unable, changes, ended>>

\* dispatchSigExit_(), then the handler of the program.
LookAtTrigger(t) ==
    /\ At(t, "look") /\ Goes(t, IF trigger THEN "unmask" ELSE "handler")
    /\ tries' = [tries EXCEPT ![t] = 0]
    /\ UNCHANGED <<reading, writing, acting, masked, action, trigger, unable, changes, ended>>

-----------------------------------------------------------------------------
(* killProcess_().                                                         *)

\* ert_abortProcess() from anywhere, a handler included.
CallAbort(t) ==
    /\ ~ended /\ doing[t] \in {"work", "changing", "forking", "handler"}
    /\ Goes(t, "unmask") /\ trigger' = TRUE
    /\ tries' = [tries EXCEPT ![t] = 0]
    /\ UNCHANGED <<reading, writing, acting, masked, action, unable, changes, ended>>

\* The signal is unblocked in this thread; a failure leads to the last attempt.
Unmask(t) ==
    /\ At(t, "unmask")
    /\ \/ Goes(t, "default") /\ masked' = masked \ {t} /\ UNCHANGED unable
       \/ Goes(t, "last") /\ unable' = TRUE /\ UNCHANGED masked
    /\ UNCHANGED <<tries, reading, writing, acting, action, trigger, changes, ended>>

\* A bug: the action is left as it is.
BugSetDefault(t) == action

\* sigaction() sets the action back, without the lock.
SetDefault(t) == "default"

ResetAction(t) ==
    /\ At(t, "default")
    /\ \/ Goes(t, "raise") /\ action' = SetDefault(t) /\ UNCHANGED unable
       \/ Goes(t, "last") /\ unable' = TRUE /\ UNCHANGED action
    /\ UNCHANGED <<tries, reading, writing, acting, masked, trigger, changes, ended>>

\* Raising the signal in this thread: it ends the process, is caught, ignored, or blocked.
Raised(t, after) ==
    IF t \in masked THEN Goes(t, after) /\ UNCHANGED <<masked, ended>>
    ELSE CASE action = "default"  -> ended' = TRUE /\ UNCHANGED <<doing, masked>>
           [] action = "ignore"   -> Goes(t, after) /\ UNCHANGED <<masked, ended>>
           [] action = "dispatch" -> Goes(t, "enter") /\ masked' = masked \cup {t}
                                     /\ UNCHANGED ended

\* A bug: the loop goes round once more.
BugLastTry(t) == tries[t] = MaxRaises

LastTry(t) == tries[t] + 1 = MaxRaises

RaiseSignal(t) ==
    /\ At(t, "raise") /\ tries' = [tries EXCEPT ![t] = @ + 1]
    /\ Raised(t, IF LastTry(t) THEN "last" ELSE "default")
    /\ UNCHANGED <<reading, writing, acting, action, trigger, unable, changes>>

RaiseLast(t) ==
    /\ At(t, "last") /\ Raised(t, "pause")
    /\ UNCHANGED <<tries, reading, writing, acting, action, trigger, unable, changes>>

\* SIGKILL can be neither blocked nor caught.
RaiseKill(t) ==
    /\ At(t, "pause") /\ ended' = TRUE
    /\ UNCHANGED <<doing, tries, reading, writing, acting, masked, action, trigger, unable,
                   changes>>

KillStep(t) ==
    \/ ShareVector(t) \/ LockAction(t) \/ LookAtTrigger(t)
    \/ Unmask(t) \/ ResetAction(t) \/ RaiseSignal(t) \/ RaiseLast(t) \/ RaiseKill(t)

AbortNext ==
    \E t \in AbortThreads :
      \/ BeginAction(t) \/ EndAction(t) \/ BeginFork(t) \/ EndForking(t) \/ TakeSignal(t)
      \/ LeaveAction(t) \/ CallAbort(t) \/ KillStep(t)

\* Every thread runs, and what holds a lock of the dispatcher to change an action or to
\* fork ends; a handler of the program may run for ever.
AbortFairness ==
    \A t \in AbortThreads :
      WF_abortVars(KillStep(t)) /\ WF_abortVars(EndAction(t)) /\ WF_abortVars(EndForking(t))

AbortSpec == AbortInit /\ [][AbortNext]_abortVars /\ AbortFairness

-----------------------------------------------------------------------------
\* A process that is told to abort ends: the action that the dispatcher is to catch the
\* signal with cannot be put back by a thread while another has its lock for a handler, and
\* the handler that is entered later finds the trigger.  It may not if the system refuses to
\* set the action back.
AbortEnds == trigger ~> (ended \/ unable)
=============================================================================
