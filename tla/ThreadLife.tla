----------------------------- MODULE ThreadLife -----------------------------
(***************************************************************************)
(* Creation, cancellation, joining and closing of a thread (thread.c).     *)
(*                                                                         *)
(* The creator passes a structure on its stack (struct Thread_), and waits *)
(* on a condition variable in it until the thread has read it.  There is   *)
(* no condition to look at: any return of the wait counts.                 *)
(***************************************************************************)
EXTENDS Integers, FiniteSets

CONSTANTS
    Created,            \* threads that are created, each by a creator of its own
    MaxSpurious         \* bound on spurious wakeups

ASSUME CreatedAssumption == MaxSpurious \in Nat

VARIABLES
    creator,    \* where the creator of each thread is
    thread,     \* where the thread is
    startLock,  \* who has mMutex: "creator", "thread", or ""
    detached,   \* threads created without a struct Ert_Thread
    cancelled,  \* threads that pthread_cancel() was called for
    joined,     \* mJoined
    told,       \* threads whose cancellation ert_joinThread() has reported
    aborted,    \* creators that an assertion has ended
    misled,     \* creators awake for no reason
    spurious    \* such wakeups so far

threadVars == <<creator, thread, startLock, detached, cancelled, joined, told, aborted, misled,
                spurious>>

LifeInit ==
    /\ creator = [t \in Created |-> "start"]
    /\ thread = [t \in Created |-> "none"]
    /\ startLock = [t \in Created |-> ""]
    /\ detached = {} /\ cancelled = {} /\ joined = {} /\ told = {} /\ aborted = {} /\ misled = {}
    /\ spurious = 0

Creator(t, from, to) == creator[t] = from /\ t \notin aborted /\ creator' = [creator EXCEPT ![t] = to]
Thread(t, from, to)  == thread[t] = from /\ thread' = [thread EXCEPT ![t] = to]
StartLock(t, from, to) == startLock[t] = from /\ startLock' = [startLock EXCEPT ![t] = to]

\* pthread_create() with mMutex locked
CreateThread(t) ==
    /\ Creator(t, "start", "created") /\ Thread(t, "none", "read")
    /\ StartLock(t, "", "creator")
    /\ detached' \in {detached, detached \cup {t}}
    /\ UNCHANGED <<cancelled, joined, told, aborted, misled, spurious>>

WaitForThread(t) ==
    /\ Creator(t, "created", "waiting") /\ startLock' = [startLock EXCEPT ![t] = ""]
    /\ UNCHANGED <<thread, detached, cancelled, joined, told, aborted, misled, spurious>>

WakeForNothing(t) ==
    /\ spurious < MaxSpurious /\ spurious' = spurious + 1
    /\ Creator(t, "waiting", "woken")
    /\ misled' = misled \cup {t}
    /\ UNCHANGED <<thread, startLock, detached, cancelled, joined, told, aborted>>

\* Back from the wait with the lock, which is released: the structure is gone.
LeaveCreation(t) ==
    /\ Creator(t, "woken", "returned") /\ startLock[t] = ""
    /\ UNCHANGED <<thread, startLock, detached, cancelled, joined, told, aborted, misled,
                   spurious>>

\* createThread_
ReadMethod(t) ==
    /\ Thread(t, "read", "lock")
    /\ UNCHANGED <<creator, startLock, detached, cancelled, joined, told, aborted, misled,
                   spurious>>

\* Mutant: the thread does not wait for the lock.
BugLockStart(t) ==
    /\ Thread(t, "lock", "named")
    /\ UNCHANGED <<creator, startLock, detached, cancelled, joined, told, aborted, misled,
                   spurious>>

LockStart(t) ==
    /\ Thread(t, "lock", "named") /\ StartLock(t, "", "thread")
    /\ UNCHANGED <<creator, detached, cancelled, joined, told, aborted, misled, spurious>>

SignalCreator(t) ==
    /\ Thread(t, "named", "unlock")
    /\ creator' = [creator EXCEPT ![t] = IF @ = "waiting" THEN "woken" ELSE @]
    /\ UNCHANGED <<startLock, detached, cancelled, joined, told, aborted, misled, spurious>>

UnlockStart(t) ==
    /\ Thread(t, "unlock", "run") /\ StartLock(t, "thread", "")
    /\ UNCHANGED <<creator, detached, cancelled, joined, told, aborted, misled, spurious>>

EndThread(t) ==
    /\ \/ Thread(t, "run", "ended")
       \/ t \in cancelled /\ Thread(t, "run", "stopped")
    /\ UNCHANGED <<creator, startLock, detached, cancelled, joined, told, aborted, misled,
                   spurious>>

\* ert_cancelThread; a detached thread has no handle.
CancelThread(t) ==
    /\ creator[t] = "returned" /\ t \notin detached \cup joined \cup aborted
    /\ cancelled' = cancelled \cup {t}
    /\ UNCHANGED <<creator, thread, startLock, detached, joined, told, aborted, misled, spurious>>

Over(t) == thread[t] \in {"ended", "stopped"}

\* ert_joinThread: EINVAL the second time, ECANCELED for a cancelled thread.
JoinThread(t) ==
    /\ creator[t] = "returned" /\ t \notin detached \cup joined \cup aborted /\ Over(t)
    /\ joined' = joined \cup {t}
    /\ told' = IF thread[t] = "stopped" THEN told \cup {t} ELSE told
    /\ UNCHANGED <<creator, thread, startLock, detached, cancelled, aborted, misled, spurious>>

\* ert_closeThread joins a thread that was not, and does not forgive a cancellation.
CloseThread(t) ==
    /\ creator[t] = "returned" /\ t \notin detached \cup aborted
    /\ t \in joined \/ Over(t)
    /\ joined' = joined \cup {t}
    /\ IF t \notin joined /\ thread[t] = "stopped"
       THEN aborted' = aborted \cup {t} /\ UNCHANGED creator
       ELSE Creator(t, "returned", "closed") /\ UNCHANGED aborted
    /\ UNCHANGED <<thread, startLock, detached, cancelled, told, misled, spurious>>

LifeNext ==
    \E t \in Created :
        \/ CreateThread(t) \/ WaitForThread(t) \/ WakeForNothing(t) \/ LeaveCreation(t)
        \/ ReadMethod(t) \/ LockStart(t) \/ SignalCreator(t) \/ UnlockStart(t) \/ EndThread(t)
        \/ CancelThread(t) \/ JoinThread(t) \/ CloseThread(t)

LifeSpec == LifeInit /\ [][LifeNext]_threadVars

----------------------------------------------------------------------------
LifeTypeOK ==
    /\ creator \in [Created -> {"start", "created", "waiting", "woken", "returned", "closed"}]
    /\ thread \in [Created -> {"none", "read", "lock", "named", "unlock", "run", "ended", "stopped"}]
    /\ startLock \in [Created -> {"creator", "thread", ""}]
    /\ UNION {detached, cancelled, joined, told, aborted, misled} \subseteq Created

(***************************************************************************)
(* "Do not reference self beyond this point because the parent will have   *)
(* deallocated the struct Thread_ instance": a thread reads the stack of   *)
(* its creator only while the creator waits for it, unless the creator was *)
(* awake for no reason; and a creator that was not is not kept waiting.    *)
(* A handle is closed when its thread is over, and closing it aborts only  *)
(* over a cancellation that no join has reported.                          *)
(***************************************************************************)
ThreadLifeKept ==
    \A t \in Created :
        /\ creator[t] \in {"returned", "closed"} /\ thread[t] \in {"read", "lock", "named", "unlock"} =>
                t \in misled
        /\ creator[t] = "waiting" => thread[t] \in {"read", "lock", "named"}
        /\ creator[t] = "closed" => Over(t) /\ t \notin detached
        /\ t \in aborted => t \in cancelled \ told
----------------------------------------------------------------------------
\* What makes this inductive (ProcessesProofs).

\* Who has the start lock, and how far the thread can be while the creator waits.
StartInv ==
    \A t \in Created :
        /\ creator[t] = "start" <=> thread[t] = "none"
        /\ startLock[t] = "creator" <=> creator[t] = "created"
        /\ startLock[t] = "thread" <=> thread[t] \in {"named", "unlock"}
        /\ creator[t] = "created" => thread[t] \in {"read", "lock"}
        /\ creator[t] = "woken" /\ t \notin misled => thread[t] = "unlock" \/ thread[t] = "run" \/ Over(t)

\* A thread is joined when it is over, and only one with a handle.
JoinInv ==
    \A t \in Created :
        /\ t \in joined => Over(t) /\ t \notin detached /\ creator[t] \in {"returned", "closed"}
        /\ t \in told \cup aborted => t \in joined
        /\ t \in aborted => creator[t] = "returned"
        /\ thread[t] = "stopped" => t \in cancelled
        /\ t \in detached => creator[t] # "start"

LifeInv == LifeTypeOK /\ ThreadLifeKept /\ StartInv /\ JoinInv
=============================================================================
