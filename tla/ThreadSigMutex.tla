--------------------------- MODULE ThreadSigMutex ---------------------------
(***************************************************************************)
(* struct Ert_ThreadSigMutex (thread.c): a recursive lock built from a     *)
(* pthread mutex, a condition variable and the signal mask of the thread,  *)
(* which other threads and the signal handlers of the same thread may      *)
(* take.  A thread blocks all its signals before it competes for the lock  *)
(* and gets its own mask back from the lock when it releases it.           *)
(*                                                                         *)
(* A context <<t, 0>> is the ordinary code of thread t, <<t, 1>> a signal  *)
(* handler running on top of it: while level[t] = 1 the context <<t, 0>>   *)
(* stands still wherever it was interrupted.                               *)
(***************************************************************************)
EXTENDS Naturals

CONSTANTS
    Threads,        \* the threads that use the lock
    NoThread,       \* not a thread
    Blocked,        \* the threads that run with all signals blocked anyway
    MaxDepth,       \* bound on how often a context nests the lock
    MaxCalls,       \* bound on the calls of lock and own, for each thread
    MaxSignals,     \* bound on the signals delivered to a thread
    MaxSpurious,    \* bound on the spurious wakeups
    Askers          \* the threads that call ert_ownThreadSigMutexLocked()
                    \* whether or not they own the lock

ASSUME ThreadsAssumption == 
    NoThread \notin Threads /\ Blocked \subseteq Threads /\ Askers \subseteq Threads
ASSUME BoundsAssumption ==
    /\ MaxDepth \in Nat /\ MaxCalls \in Nat /\ MaxSignals \in Nat
    /\ MaxSpurious \in Nat

VARIABLES
    mutex,      \* holder of the pthread mutex mMutex: a context or NoContext
    mLocked,    \* how often the owner has locked it
    mOwner,     \* the owner, stale when mLocked = 0
    mMask,      \* signal mask of the owner before it took the lock
    masked,     \* masked[t]: thread t has all its signals blocked
    level,      \* level[t]: 1 while a signal handler runs in t
    pc,         \* pc[c]: where context c is
    saved,      \* saved[c]: the local threadSigMask_ of lock and unlock
    held,       \* held[c]: locks context c has taken and not released
    calls,      \* calls[t]: lock and own calls made, see MaxCalls
    signals,    \* signals[t]: signals delivered, see MaxSignals
    spurious    \* wakeups that nobody signalled, see MaxSpurious

vars == <<mutex, mLocked, mOwner, mMask, masked, level, pc, saved, held,
          calls, signals, spurious>>
counters == <<calls, signals, spurious>>

Frame(t, l) == <<t, l>>
Contexts    == Threads \X {0, 1}
NoContext   == Frame(NoThread, 0)
Self(t)     == Frame(t, level[t])

\* Places in the code that only the holder of the pthread mutex is at.
InMutex == {"test", "retest", "taken", "clear", "signal", "read"}
Places  == InMutex \cup
           {"run", "enter", "wait", "wake", "acquired", "leave", "restore",
            "ask"}

\* How often the frames of thread t have locked it between them.
HeldBy(t) == held[Frame(t, 0)] + held[Frame(t, 1)]

----------------------------------------------------------------------------
\* ert_createThreadSigMutex, or ERT_THREAD_SIG_MUTEX_INITIALIZER.
Init ==
    /\ mutex = NoContext
    /\ mLocked = 0 /\ mOwner = NoThread /\ mMask = FALSE
    /\ masked = [t \in Threads |-> t \in Blocked]
    /\ level = [t \in Threads |-> 0]
    /\ pc = [c \in Contexts |-> "run"]
    /\ saved = [c \in Contexts |-> FALSE]
    /\ held = [c \in Contexts |-> 0]
    /\ calls = [t \in Threads |-> 0]
    /\ signals = [t \in Threads |-> 0]
    /\ spurious = 0

At(t, place)     == pc[Self(t)] = place
GoTo(t, place)   == pc' = [pc EXCEPT ![Self(t)] = place]
\* pthread_mutex_lock and pthread_mutex_unlock on mMutex.
TakeMutex(t)     == mutex = NoContext /\ mutex' = Self(t)
DropMutex        == mutex' = NoContext

----------------------------------------------------------------------------
\* ert_lockThreadSigMutex

\* Blocks the signals of the thread and remembers its mask.
PushMask(t) ==
    /\ At(t, "run") /\ held[Self(t)] < MaxDepth
    /\ calls[t] < MaxCalls
    /\ calls' = [calls EXCEPT ![t] = @ + 1]
    /\ saved' = [saved EXCEPT ![Self(t)] = masked[t]]
    /\ masked' = [masked EXCEPT ![t] = TRUE]
    /\ GoTo(t, "enter")
    /\ UNCHANGED <<mutex, mLocked, mOwner, mMask, level, held, signals,
                   spurious>>

LockMutex(t) ==
    /\ At(t, "enter") /\ TakeMutex(t)
    /\ GoTo(t, "test")
    /\ UNCHANGED <<mLocked, mOwner, mMask, masked, level, saved, held, counters>>

\* Mutant: an if where the code has a while, so a woken context does not look.
BugMustWait(t) == At(t, "test") /\ mLocked # 0 /\ mOwner # t

\* The conditions under which a context goes on waiting: the first test looks
\* at the owner, the one after pthread_cond_wait() does not.
MustWait(t) ==
    \/ At(t, "test") /\ mLocked # 0 /\ mOwner # t
    \/ At(t, "retest") /\ mLocked # 0

\* Mutant: sleeps without giving up the mutex.
BugWaitCond(t) ==
    /\ At(t, "test") \/ At(t, "retest")
    /\ MustWait(t)
    /\ GoTo(t, "wait")
    /\ UNCHANGED <<mutex, mLocked, mOwner, mMask, masked, level, saved, held,
                   counters>>

\* pthread_cond_wait() gives up the mutex and waits in one step.
WaitCond(t) ==
    /\ At(t, "test") \/ At(t, "retest")
    /\ MustWait(t)
    /\ DropMutex
    /\ GoTo(t, "wait")
    /\ UNCHANGED <<mLocked, mOwner, mMask, masked, level, saved, held, counters>>

\* A waiting context may also wake up when nobody signalled.
SpuriousWakeup(t) ==
    /\ At(t, "wait")
    /\ spurious < MaxSpurious
    /\ spurious' = spurious + 1
    /\ GoTo(t, "wake")
    /\ UNCHANGED <<mutex, mLocked, mOwner, mMask, masked, level, saved, held,
                   calls, signals>>

RelockMutex(t) ==
    /\ At(t, "wake") /\ TakeMutex(t)
    /\ GoTo(t, "retest")
    /\ UNCHANGED <<mLocked, mOwner, mMask, masked, level, saved, held, counters>>

\* Mutants: every lock, not only the first, leaves its mask in the lock; and
\* the first does not leave its name.
BugTakeMask(t) ==
    /\ At(t, "test") \/ At(t, "retest")
    /\ ~ MustWait(t)
    /\ mLocked' = mLocked + 1
    /\ mMask' = saved[Self(t)] /\ mOwner' = t
    /\ held' = [held EXCEPT ![Self(t)] = @ + 1]
    /\ GoTo(t, "taken")
    /\ UNCHANGED <<mutex, masked, level, saved, counters>>

BugTakeOwner(t) ==
    /\ At(t, "test") \/ At(t, "retest")
    /\ ~ MustWait(t)
    /\ mLocked' = mLocked + 1
    /\ mMask' = IF mLocked' = 1 THEN saved[Self(t)] ELSE mMask
    /\ held' = [held EXCEPT ![Self(t)] = @ + 1]
    /\ GoTo(t, "taken")
    /\ UNCHANGED <<mutex, mOwner, masked, level, saved, counters>>

\* The first lock of a thread leaves its mask and its name in the lock.
Take(t) ==
    /\ At(t, "test") \/ At(t, "retest")
    /\ ~ MustWait(t)
    /\ mLocked' = mLocked + 1
    /\ IF mLocked' = 1
       THEN mMask' = saved[Self(t)] /\ mOwner' = t
       ELSE UNCHANGED <<mMask, mOwner>>
    /\ held' = [held EXCEPT ![Self(t)] = @ + 1]
    /\ GoTo(t, "taken")
    /\ UNCHANGED <<mutex, masked, level, saved, counters>>

UnlockMutex(t) ==
    /\ At(t, "taken")
    /\ DropMutex
    /\ GoTo(t, "acquired")
    /\ UNCHANGED <<mLocked, mOwner, mMask, masked, level, saved, held, counters>>

\* Mutant: the first lock undoes its change of the signal mask, too.
BugAcquired(t) ==
    /\ At(t, "acquired")
    /\ masked' = [masked EXCEPT ![t] = saved[Self(t)]]
    /\ GoTo(t, "run")
    /\ UNCHANGED <<mutex, mLocked, mOwner, mMask, level, saved, held, counters>>

\* Only a nested lock undoes its own change of the signal mask.
Acquired(t) ==
    /\ At(t, "acquired")
    /\ masked' = IF mLocked # 1 THEN [masked EXCEPT ![t] = saved[Self(t)]]
                                ELSE masked
    /\ GoTo(t, "run")
    /\ UNCHANGED <<mutex, mLocked, mOwner, mMask, level, saved, held, counters>>

----------------------------------------------------------------------------
\* ert_unlockThreadSigMutex

\* Mutant: does not ensure that the lock is its own to give back.
BugUnlockNested(t) ==
    /\ At(t, "run") /\ mLocked > 1
    /\ mLocked' = mLocked - 1
    /\ held' = [held EXCEPT ![Self(t)] = @ - 1]
    /\ UNCHANGED <<mutex, mOwner, mMask, masked, level, pc, saved, counters>>

\* The owner gives back a nested lock without the pthread mutex.
UnlockNested(t) ==
    /\ At(t, "run") /\ held[Self(t)] > 0
    /\ mLocked - 1 # 0
    /\ mLocked' = mLocked - 1
    /\ held' = [held EXCEPT ![Self(t)] = @ - 1]
    /\ UNCHANGED <<mutex, mOwner, mMask, masked, level, pc, saved, counters>>

\* The last unlock first copies the mask, which is the next owner's later.
UnlockLast(t) ==
    /\ At(t, "run") /\ held[Self(t)] > 0
    /\ mLocked - 1 = 0
    /\ saved' = [saved EXCEPT ![Self(t)] = mMask]
    /\ GoTo(t, "leave")
    /\ UNCHANGED <<mutex, mLocked, mOwner, mMask, masked, level, held, counters>>

LockToRelease(t) ==
    /\ At(t, "leave") /\ TakeMutex(t)
    /\ GoTo(t, "clear")
    /\ UNCHANGED <<mLocked, mOwner, mMask, masked, level, saved, held, counters>>

Clear(t) ==
    /\ At(t, "clear")
    /\ mLocked' = 0
    /\ held' = [held EXCEPT ![Self(t)] = @ - 1]
    /\ GoTo(t, "signal")
    /\ UNCHANGED <<mutex, mOwner, mMask, masked, level, saved, counters>>

Waiting == {c \in Contexts : pc[c] = "wait"}

\* Mutant: unlocks without signalling.
BugSignalUnlock(t) ==
    /\ At(t, "signal")
    /\ DropMutex
    /\ GoTo(t, "restore")
    /\ UNCHANGED <<mLocked, mOwner, mMask, masked, level, saved, held, counters>>

\* ert_unlockMutexSignal_: wakes one of the waiting contexts, if any waits.
SignalUnlock(t) ==
    /\ At(t, "signal")
    /\ \/ /\ Waiting = {}
          /\ GoTo(t, "restore")
       \/ \E c \in Waiting :
              pc' = [pc EXCEPT ![c] = "wake", ![Self(t)] = "restore"]
    /\ DropMutex
    /\ UNCHANGED <<mLocked, mOwner, mMask, masked, level, saved, held, counters>>

PopMask(t) ==
    /\ At(t, "restore")
    /\ masked' = [masked EXCEPT ![t] = saved[Self(t)]]
    /\ GoTo(t, "run")
    /\ UNCHANGED <<mutex, mLocked, mOwner, mMask, level, saved, held, counters>>

----------------------------------------------------------------------------
\* ert_ownThreadSigMutexLocked: takes the pthread mutex but blocks no signal.

AskOwn(t) ==
    /\ At(t, "run")
    /\ t \in Askers \/ HeldBy(t) > 0
    /\ calls[t] < MaxCalls
    /\ calls' = [calls EXCEPT ![t] = @ + 1]
    /\ GoTo(t, "ask")
    /\ UNCHANGED <<mutex, mLocked, mOwner, mMask, masked, level, saved, held,
                   signals, spurious>>

LockToRead(t) ==
    /\ At(t, "ask") /\ TakeMutex(t)
    /\ GoTo(t, "read")
    /\ UNCHANGED <<mLocked, mOwner, mMask, masked, level, saved, held, counters>>

\* Mutant: does not look whose the lock is.
BugOwnLocked(t) == mLocked

\* What the caller is told.
OwnLocked(t) == IF mLocked # 0 /\ mOwner # t THEN 0 ELSE mLocked

ReadOwn(t) ==
    /\ At(t, "read")
    /\ DropMutex
    /\ GoTo(t, "run")
    /\ UNCHANGED <<mLocked, mOwner, mMask, masked, level, saved, held, counters>>

----------------------------------------------------------------------------
\* A signal runs a handler on top of a thread that has not blocked it; the
\* actions are installed with a full sa_mask, so the handler runs with all
\* signals blocked and its return restores the mask it interrupted.

Deliver(t) ==
    /\ level[t] = 0 /\ ~ masked[t]
    /\ signals[t] < MaxSignals
    /\ signals' = [signals EXCEPT ![t] = @ + 1]
    /\ level' = [level EXCEPT ![t] = 1]
    /\ masked' = [masked EXCEPT ![t] = TRUE]
    /\ UNCHANGED <<mutex, mLocked, mOwner, mMask, pc, saved, held, calls,
                   spurious>>

\* A handler returns only after it has released what it locked.
Return(t) ==
    /\ level[t] = 1
    /\ At(t, "run") /\ held[Self(t)] = 0
    /\ level' = [level EXCEPT ![t] = 0]
    /\ masked' = [masked EXCEPT ![t] = FALSE]
    /\ UNCHANGED <<mutex, mLocked, mOwner, mMask, pc, saved, held, counters>>

----------------------------------------------------------------------------
\* The steps of a thread that has entered one of the functions, and those by
\* which the owner leaves its critical section and a handler returns.
Progress(t) ==
    \/ LockMutex(t) \/ WaitCond(t) \/ RelockMutex(t) \/ Take(t)
    \/ UnlockMutex(t) \/ Acquired(t)
    \/ UnlockNested(t) \/ UnlockLast(t) \/ LockToRelease(t) \/ Clear(t)
    \/ SignalUnlock(t) \/ PopMask(t)
    \/ LockToRead(t) \/ ReadOwn(t) \/ Return(t)

Next ==
    \E t \in Threads :
        Progress(t) \/ PushMask(t) \/ AskOwn(t) \/ SpuriousWakeup(t) \/ Deliver(t)

Spec == Init /\ [][Next]_vars

\* The scheduler runs every thread, and critical sections and handlers end.
\* Nobody is obliged to call, no signal to arrive, no wakeup to be spurious.
Fairness == \A t \in Threads : WF_vars(Progress(t))
FairSpec == Spec /\ Fairness

----------------------------------------------------------------------------
TypeOK ==
    /\ mutex \in Contexts \cup {NoContext}
    /\ mLocked \in Nat
    /\ mOwner \in Threads \cup {NoThread}
    /\ mMask \in BOOLEAN
    /\ masked \in [Threads -> BOOLEAN]
    /\ level \in [Threads -> {0, 1}]
    /\ pc \in [Contexts -> Places]
    /\ saved \in [Contexts -> BOOLEAN]
    /\ held \in [Contexts -> Nat]
    /\ calls \in [Threads -> 0 .. MaxCalls]
    /\ signals \in [Threads -> 0 .. MaxSignals]
    /\ spurious \in 0 .. MaxSpurious

\* Threads never hold the lock together, however locks, unlocks, wakeups and
\* signal handlers interleave (ert_lockThreadSigMutex).
MutualExclusion ==
    \A t, u \in Threads : HeldBy(t) > 0 /\ HeldBy(u) > 0 => t = u

\* No handler runs in a thread from the moment it competes for the lock until
\* it has given it back, so a handler that takes the lock never finds it
\* owned, or half taken, by the code that it interrupted.
SignalsExcluded ==
    \A t \in Threads :
        held[Frame(t, 0)] > 0 \/ pc[Frame(t, 0)] \notin {"run", "ask", "read"}
            => masked[t] /\ level[t] = 0

\* A thread that has released the lock has the signal mask it had before it
\* took it, though the mask was kept in the lock that others took meanwhile.
MaskRestored ==
    \A t \in Threads :
        level[t] = 0 /\ pc[Frame(t, 0)] = "run" /\ held[Frame(t, 0)] = 0
            => (masked[t] <=> t \in Blocked)

\* While the lock is free and a context waits for it, some context has been
\* woken, or is about to wake one: no wakeup is lost between the unlock, the
\* threads that barge in and those that wait again.
NoLostWakeup ==
    mLocked = 0 /\ Waiting # {} =>
        \E c \in Contexts : pc[c] \in {"signal", "wake", "retest"}

\* The ert_ensure() calls of lock and unlock hold: a context that has the lock
\* finds it locked and owned by its own thread.
EnsuresHold ==
    \A t \in Threads :
        At(t, "acquired") \/ (At(t, "run") /\ held[Self(t)] > 0)
            => mLocked # 0 /\ mOwner = t

\* ert_ownThreadSigMutexLocked() tells its caller how often it has locked it.
OwnCountExact ==
    \A t \in Threads : At(t, "read") => OwnLocked(t) = HeldBy(t)

\* A signal handler never waits for the pthread mutex while the code that it
\* interrupted holds it.
NoSelfDeadlock ==
    \A t \in Threads :
        ~ (/\ mutex = Frame(t, 0)
           /\ level[t] = 1
           /\ At(t, "enter") \/ At(t, "ask") \/ At(t, "leave") \/ At(t, "wake"))

\* Every context that asks for the lock gets it.
LockGranted ==
    \A c \in Contexts : pc[c] \in {"enter", "wait"} ~> held[c] > 0

\* The lock does what a recursive lock promises.
Abstract == INSTANCE RecursiveLock WITH
    owner    <- IF mLocked = 0 THEN NoThread ELSE mOwner,
    depth    <- mLocked
RecursiveLockSpec == Abstract!Spec
----------------------------------------------------------------------------
(***************************************************************************)
(* The inductive invariant: what each place in the code knows of the lock, *)
(* of its holder and of the signal masks.                                  *)
(***************************************************************************)
\* Outside the lock and unlock functions.
Outside == {"run", "ask", "read"}

\* The signal mask that the code of a context runs with outside the lock.
UsualMask(t, l) == l = 1 \/ t \in Blocked

\* The pthread mutex belongs to the context that is between lock and unlock.
MutexInv == \A c \in Contexts : pc[c] \in InMutex <=> mutex = c

\* A handler is somewhere only while it runs, and it interrupts only code
\* that neither has the lock nor is about to take or return it.
HandlerInv ==
    \A t \in Threads :
        /\ level[t] = 0 => pc[Frame(t, 1)] = "run" /\ held[Frame(t, 1)] = 0
        /\ level[t] = 1 => /\ pc[Frame(t, 0)] \in Outside /\ held[Frame(t, 0)] = 0
                           /\ masked[t] /\ t \notin Blocked

\* The running context has its usual mask, or all signals blocked once it
\* has pushed the mask and until it restores it.
MaskInv ==
    \A t \in Threads, l \in {0, 1} :
        l = level[t] =>
            (masked[t] <=> \/ UsualMask(t, l)
                           \/ held[Frame(t, l)] > 0
                           \/ pc[Frame(t, l)] \notin Outside)

\* The saved mask is that of the first lock call, or the blocked one.
SavedInv ==
    \A t \in Threads, l \in {0, 1} :
        /\ pc[Frame(t, l)] \in {"enter", "test", "wait", "wake", "retest"}
             => (saved[Frame(t, l)] <=> UsualMask(t, l) \/ held[Frame(t, l)] > 0)
        /\ pc[Frame(t, l)] \in {"taken", "acquired"} /\ held[Frame(t, l)] > 1
             => saved[Frame(t, l)]
        /\ pc[Frame(t, l)] \in {"leave", "clear", "signal", "restore"}
             => (saved[Frame(t, l)] <=> UsualMask(t, l))

\* The context that has taken the lock is the one the lock names.
OwnerInv ==
    /\ \A t \in Threads, l \in {0, 1} :
           held[Frame(t, l)] > 0 =>
               /\ mLocked = held[Frame(t, l)]
               /\ mOwner = t
               /\ mMask <=> UsualMask(t, l)
    /\ mLocked # 0 => \E c \in Contexts : held[c] > 0

\* How often the context has the lock at each place.
PlaceInv ==
    \A c \in Contexts :
        /\ pc[c] \in {"enter", "test", "wait", "wake", "retest"}
             => held[c] < MaxDepth
        /\ pc[c] \in {"taken", "acquired"} => held[c] > 0
        /\ pc[c] \in {"leave", "clear"} => held[c] = 1
        /\ pc[c] \in {"signal", "restore"} => held[c] = 0

\* Who asks for the count without being one of Askers has the lock.
QueryInv ==
    \A t \in Threads, l \in {0, 1} :
        pc[Frame(t, l)] \in {"ask", "read"} => t \in Askers \/ held[Frame(t, l)] > 0

Inv ==
    /\ TypeOK /\ MutexInv /\ HandlerInv /\ MaskInv /\ SavedInv /\ OwnerInv
    /\ PlaceInv /\ QueryInv /\ NoLostWakeup
=============================================================================
