--------------------------- MODULE ProcessesProofs ---------------------------
(***************************************************************************)
(* Proofs about the parts of MCProcesses: what they say of threads that    *)
(* share a mutex, create each other or reap children, of watches, of the   *)
(* locks that forks take, of daemons and of aborts holds for every number  *)
(* of threads, processes and children, and for every bound.  The lemmas    *)
(* show that each action keeps the invariant of its part; the parts are    *)
(* independent, so the step of any other part leaves it alone.             *)
(***************************************************************************)
EXTENDS MCProcesses, FiniteSetTheorems, SequenceTheorems, WellFoundedInduction, TLAPS

----------------------------------------------------------------------------
\* Threads that are created (ThreadLife)

LEMMA LifeSets ==
    LifeTypeOK <=>
        /\ creator \in [Created -> {"start", "created", "waiting", "woken",
                                    "returned", "closed"}]
        /\ thread \in [Created -> {"none", "read", "lock", "named", "unlock",
                                   "run", "ended", "stopped"}]
        /\ startLock \in [Created -> {"creator", "thread", ""}]
        /\ detached \subseteq Created /\ cancelled \subseteq Created
        /\ joined \subseteq Created /\ told \subseteq Created
        /\ aborted \subseteq Created /\ misled \subseteq Created
BY DEF LifeTypeOK

LEMMA LifeInitInv == LifeInit => LifeInv
BY LifeSets DEF LifeInit, LifeInv, ThreadLifeKept, StartInv, JoinInv, Over

LEMMA CreateThreadInv ==
    ASSUME LifeInv, NEW t \in Created, CreateThread(t)
    PROVE  LifeInv'
<1> USE DEF LifeInv
<1>1. LifeTypeOK'
  <2>1. /\ creator' \in [Created -> {"start", "created", "waiting", "woken",
                                    "returned", "closed"}]
        /\ thread' \in [Created -> {"none", "read", "lock", "named", "unlock",
                                   "run", "ended", "stopped"}]
        /\ startLock' \in [Created -> {"creator", "thread", ""}]
    BY LifeSets DEF CreateThread, Creator, Thread, StartLock
  <2>2. /\ detached' \subseteq Created /\ cancelled' \subseteq Created
        /\ joined' \subseteq Created /\ told' \subseteq Created
        /\ aborted' \subseteq Created /\ misled' \subseteq Created
    BY LifeSets DEF CreateThread, Creator, Thread, StartLock
  <2> QED  BY <2>1, <2>2 DEF LifeTypeOK
<1>2. ThreadLifeKept'
  BY ZenonT(40) DEF LifeTypeOK, ThreadLifeKept, StartInv, JoinInv, Over, CreateThread,
     Creator, Thread, StartLock
<1>3. StartInv'
  BY ZenonT(40) DEF LifeTypeOK, ThreadLifeKept, StartInv, JoinInv, Over, CreateThread,
     Creator, Thread, StartLock
<1>4. JoinInv'
  BY ZenonT(40) DEF LifeTypeOK, ThreadLifeKept, StartInv, JoinInv, Over, CreateThread,
     Creator, Thread, StartLock
<1> QED  BY <1>1, <1>2, <1>3, <1>4

LEMMA WaitForThreadInv ==
    ASSUME LifeInv, NEW t \in Created, WaitForThread(t)
    PROVE  LifeInv'
<1> USE DEF LifeInv
<1>1. LifeTypeOK'
  <2>1. /\ creator' \in [Created -> {"start", "created", "waiting", "woken",
                                    "returned", "closed"}]
        /\ thread' \in [Created -> {"none", "read", "lock", "named", "unlock",
                                   "run", "ended", "stopped"}]
        /\ startLock' \in [Created -> {"creator", "thread", ""}]
    BY LifeSets DEF WaitForThread, Creator
  <2>2. /\ detached' \subseteq Created /\ cancelled' \subseteq Created
        /\ joined' \subseteq Created /\ told' \subseteq Created
        /\ aborted' \subseteq Created /\ misled' \subseteq Created
    BY LifeSets DEF WaitForThread, Creator
  <2> QED  BY <2>1, <2>2 DEF LifeTypeOK
<1>2. ThreadLifeKept'
  BY DEF LifeTypeOK, ThreadLifeKept, StartInv, JoinInv, Over, WaitForThread,
     Creator
<1>3. StartInv'
  BY DEF LifeTypeOK, ThreadLifeKept, StartInv, JoinInv, Over, WaitForThread,
     Creator
<1>4. JoinInv'
  BY DEF LifeTypeOK, ThreadLifeKept, StartInv, JoinInv, Over, WaitForThread,
     Creator
<1> QED  BY <1>1, <1>2, <1>3, <1>4

LEMMA WakeForNothingInv ==
    ASSUME LifeInv, NEW t \in Created, WakeForNothing(t)
    PROVE  LifeInv'
<1> USE DEF LifeInv
<1>1. LifeTypeOK'
  <2>1. /\ creator' \in [Created -> {"start", "created", "waiting", "woken",
                                    "returned", "closed"}]
        /\ thread' \in [Created -> {"none", "read", "lock", "named", "unlock",
                                   "run", "ended", "stopped"}]
        /\ startLock' \in [Created -> {"creator", "thread", ""}]
    BY LifeSets DEF WakeForNothing, Creator
  <2>2. /\ detached' \subseteq Created /\ cancelled' \subseteq Created
        /\ joined' \subseteq Created /\ told' \subseteq Created
        /\ aborted' \subseteq Created /\ misled' \subseteq Created
    BY LifeSets DEF WakeForNothing, Creator
  <2> QED  BY <2>1, <2>2 DEF LifeTypeOK
<1>2. ThreadLifeKept'
  BY DEF LifeTypeOK, ThreadLifeKept, StartInv, JoinInv, Over, WakeForNothing,
     Creator
<1>3. StartInv'
  BY DEF LifeTypeOK, ThreadLifeKept, StartInv, JoinInv, Over, WakeForNothing,
     Creator
<1>4. JoinInv'
  BY DEF LifeTypeOK, ThreadLifeKept, StartInv, JoinInv, Over, WakeForNothing,
     Creator
<1> QED  BY <1>1, <1>2, <1>3, <1>4

LEMMA LeaveCreationInv ==
    ASSUME LifeInv, NEW t \in Created, LeaveCreation(t)
    PROVE  LifeInv'
<1> USE DEF LifeInv
<1>1. LifeTypeOK'
  <2>1. /\ creator' \in [Created -> {"start", "created", "waiting", "woken",
                                    "returned", "closed"}]
        /\ thread' \in [Created -> {"none", "read", "lock", "named", "unlock",
                                   "run", "ended", "stopped"}]
        /\ startLock' \in [Created -> {"creator", "thread", ""}]
    BY LifeSets DEF LeaveCreation, Creator
  <2>2. /\ detached' \subseteq Created /\ cancelled' \subseteq Created
        /\ joined' \subseteq Created /\ told' \subseteq Created
        /\ aborted' \subseteq Created /\ misled' \subseteq Created
    BY LifeSets DEF LeaveCreation, Creator
  <2> QED  BY <2>1, <2>2 DEF LifeTypeOK
<1>2. ThreadLifeKept'
  BY DEF LifeTypeOK, ThreadLifeKept, StartInv, JoinInv, Over, LeaveCreation,
     Creator
<1>3. StartInv'
  BY DEF LifeTypeOK, ThreadLifeKept, StartInv, JoinInv, Over, LeaveCreation,
     Creator
<1>4. JoinInv'
  BY DEF LifeTypeOK, ThreadLifeKept, StartInv, JoinInv, Over, LeaveCreation,
     Creator
<1> QED  BY <1>1, <1>2, <1>3, <1>4

LEMMA ReadMethodInv ==
    ASSUME LifeInv, NEW t \in Created, ReadMethod(t)
    PROVE  LifeInv'
<1> USE DEF LifeInv
<1>1. LifeTypeOK'
  <2>1. /\ creator' \in [Created -> {"start", "created", "waiting", "woken",
                                    "returned", "closed"}]
        /\ thread' \in [Created -> {"none", "read", "lock", "named", "unlock",
                                   "run", "ended", "stopped"}]
        /\ startLock' \in [Created -> {"creator", "thread", ""}]
    BY LifeSets DEF ReadMethod, Thread
  <2>2. /\ detached' \subseteq Created /\ cancelled' \subseteq Created
        /\ joined' \subseteq Created /\ told' \subseteq Created
        /\ aborted' \subseteq Created /\ misled' \subseteq Created
    BY LifeSets DEF ReadMethod, Thread
  <2> QED  BY <2>1, <2>2 DEF LifeTypeOK
<1>2. ThreadLifeKept'
  BY DEF LifeTypeOK, ThreadLifeKept, StartInv, JoinInv, Over, ReadMethod,
     Thread
<1>3. StartInv'
  BY DEF LifeTypeOK, ThreadLifeKept, StartInv, JoinInv, Over, ReadMethod,
     Thread
<1>4. JoinInv'
  BY DEF LifeTypeOK, ThreadLifeKept, StartInv, JoinInv, Over, ReadMethod,
     Thread
<1> QED  BY <1>1, <1>2, <1>3, <1>4

LEMMA LockStartInv ==
    ASSUME LifeInv, NEW t \in Created, LockStart(t)
    PROVE  LifeInv'
<1> USE DEF LifeInv
<1>1. LifeTypeOK'
  <2>1. /\ creator' \in [Created -> {"start", "created", "waiting", "woken",
                                    "returned", "closed"}]
        /\ thread' \in [Created -> {"none", "read", "lock", "named", "unlock",
                                   "run", "ended", "stopped"}]
        /\ startLock' \in [Created -> {"creator", "thread", ""}]
    BY LifeSets DEF LockStart, Thread, StartLock
  <2>2. /\ detached' \subseteq Created /\ cancelled' \subseteq Created
        /\ joined' \subseteq Created /\ told' \subseteq Created
        /\ aborted' \subseteq Created /\ misled' \subseteq Created
    BY LifeSets DEF LockStart, Thread, StartLock
  <2> QED  BY <2>1, <2>2 DEF LifeTypeOK
<1>2. ThreadLifeKept'
  BY DEF LifeTypeOK, ThreadLifeKept, StartInv, JoinInv, Over, LockStart, Thread,
     StartLock
<1>3. StartInv'
  BY DEF LifeTypeOK, ThreadLifeKept, StartInv, JoinInv, Over, LockStart, Thread,
     StartLock
<1>4. JoinInv'
  BY DEF LifeTypeOK, ThreadLifeKept, StartInv, JoinInv, Over, LockStart, Thread,
     StartLock
<1> QED  BY <1>1, <1>2, <1>3, <1>4

LEMMA SignalCreatorInv ==
    ASSUME LifeInv, NEW t \in Created, SignalCreator(t)
    PROVE  LifeInv'
<1> USE DEF LifeInv
<1>1. LifeTypeOK'
  <2>1. /\ creator' \in [Created -> {"start", "created", "waiting", "woken",
                                    "returned", "closed"}]
        /\ thread' \in [Created -> {"none", "read", "lock", "named", "unlock",
                                   "run", "ended", "stopped"}]
        /\ startLock' \in [Created -> {"creator", "thread", ""}]
    BY LifeSets DEF SignalCreator, Thread
  <2>2. /\ detached' \subseteq Created /\ cancelled' \subseteq Created
        /\ joined' \subseteq Created /\ told' \subseteq Created
        /\ aborted' \subseteq Created /\ misled' \subseteq Created
    BY LifeSets DEF SignalCreator, Thread
  <2> QED  BY <2>1, <2>2 DEF LifeTypeOK
<1>2. ThreadLifeKept'
  BY DEF LifeTypeOK, ThreadLifeKept, StartInv, JoinInv, Over, SignalCreator,
     Thread
<1>3. StartInv'
  BY ZenonT(40) DEF LifeTypeOK, ThreadLifeKept, StartInv, JoinInv, Over, SignalCreator,
     Thread
<1>4. JoinInv'
  BY DEF LifeTypeOK, ThreadLifeKept, StartInv, JoinInv, Over, SignalCreator,
     Thread
<1> QED  BY <1>1, <1>2, <1>3, <1>4

LEMMA UnlockStartInv ==
    ASSUME LifeInv, NEW t \in Created, UnlockStart(t)
    PROVE  LifeInv'
<1> USE DEF LifeInv
<1>1. LifeTypeOK'
  <2>1. /\ creator' \in [Created -> {"start", "created", "waiting", "woken",
                                    "returned", "closed"}]
        /\ thread' \in [Created -> {"none", "read", "lock", "named", "unlock",
                                   "run", "ended", "stopped"}]
        /\ startLock' \in [Created -> {"creator", "thread", ""}]
    BY LifeSets DEF UnlockStart, Thread, StartLock
  <2>2. /\ detached' \subseteq Created /\ cancelled' \subseteq Created
        /\ joined' \subseteq Created /\ told' \subseteq Created
        /\ aborted' \subseteq Created /\ misled' \subseteq Created
    BY LifeSets DEF UnlockStart, Thread, StartLock
  <2> QED  BY <2>1, <2>2 DEF LifeTypeOK
<1>2. ThreadLifeKept'
  BY DEF LifeTypeOK, ThreadLifeKept, StartInv, JoinInv, Over, UnlockStart,
     Thread, StartLock
<1>3. StartInv'
  BY ZenonT(40) DEF LifeTypeOK, ThreadLifeKept, StartInv, JoinInv, Over, UnlockStart,
     Thread, StartLock
<1>4. JoinInv'
  BY DEF LifeTypeOK, ThreadLifeKept, StartInv, JoinInv, Over, UnlockStart,
     Thread, StartLock
<1> QED  BY <1>1, <1>2, <1>3, <1>4

LEMMA EndThreadInv ==
    ASSUME LifeInv, NEW t \in Created, EndThread(t)
    PROVE  LifeInv'
<1> USE DEF LifeInv
<1>1. LifeTypeOK'
  <2>1. /\ creator' \in [Created -> {"start", "created", "waiting", "woken",
                                    "returned", "closed"}]
        /\ thread' \in [Created -> {"none", "read", "lock", "named", "unlock",
                                   "run", "ended", "stopped"}]
        /\ startLock' \in [Created -> {"creator", "thread", ""}]
    BY LifeSets DEF EndThread, Thread
  <2>2. /\ detached' \subseteq Created /\ cancelled' \subseteq Created
        /\ joined' \subseteq Created /\ told' \subseteq Created
        /\ aborted' \subseteq Created /\ misled' \subseteq Created
    BY LifeSets DEF EndThread, Thread
  <2> QED  BY <2>1, <2>2 DEF LifeTypeOK
<1>a. PICK e \in {"ended", "stopped"} :
        /\ thread[t] = "run" /\ (e = "stopped" => t \in cancelled)
        /\ \A u \in Created : thread'[u] = IF u = t THEN e ELSE thread[u]
  BY DEF EndThread, Thread, LifeTypeOK
<1>b. UNCHANGED <<creator, startLock, detached, cancelled, joined, told, aborted,
        misled>>
  BY DEF EndThread
<1>2. ThreadLifeKept'
  BY <1>a, <1>b DEF ThreadLifeKept, StartInv, JoinInv, Over
<1>3. StartInv'
  BY <1>a, <1>b DEF ThreadLifeKept, StartInv, JoinInv, Over
<1>4. JoinInv'
  BY <1>a, <1>b DEF ThreadLifeKept, StartInv, JoinInv, Over
<1> QED  BY <1>1, <1>2, <1>3, <1>4

LEMMA CancelThreadInv ==
    ASSUME LifeInv, NEW t \in Created, CancelThread(t)
    PROVE  LifeInv'
<1> USE DEF LifeInv
<1>1. LifeTypeOK'
  <2>1. /\ creator' \in [Created -> {"start", "created", "waiting", "woken",
                                    "returned", "closed"}]
        /\ thread' \in [Created -> {"none", "read", "lock", "named", "unlock",
                                   "run", "ended", "stopped"}]
        /\ startLock' \in [Created -> {"creator", "thread", ""}]
    BY LifeSets DEF CancelThread
  <2>2. /\ detached' \subseteq Created /\ cancelled' \subseteq Created
        /\ joined' \subseteq Created /\ told' \subseteq Created
        /\ aborted' \subseteq Created /\ misled' \subseteq Created
    BY LifeSets DEF CancelThread
  <2> QED  BY <2>1, <2>2 DEF LifeTypeOK
<1>2. ThreadLifeKept'
  BY DEF LifeTypeOK, ThreadLifeKept, StartInv, JoinInv, Over, CancelThread
<1>3. StartInv'
  BY DEF LifeTypeOK, ThreadLifeKept, StartInv, JoinInv, Over, CancelThread
<1>4. JoinInv'
  BY DEF LifeTypeOK, ThreadLifeKept, StartInv, JoinInv, Over, CancelThread
<1> QED  BY <1>1, <1>2, <1>3, <1>4

LEMMA JoinThreadInv ==
    ASSUME LifeInv, NEW t \in Created, JoinThread(t)
    PROVE  LifeInv'
<1> USE DEF LifeInv
<1>1. LifeTypeOK'
  <2>1. /\ creator' \in [Created -> {"start", "created", "waiting", "woken",
                                    "returned", "closed"}]
        /\ thread' \in [Created -> {"none", "read", "lock", "named", "unlock",
                                   "run", "ended", "stopped"}]
        /\ startLock' \in [Created -> {"creator", "thread", ""}]
    BY LifeSets DEF JoinThread
  <2>2. /\ detached' \subseteq Created /\ cancelled' \subseteq Created
        /\ joined' \subseteq Created /\ told' \subseteq Created
        /\ aborted' \subseteq Created /\ misled' \subseteq Created
    BY LifeSets DEF JoinThread
  <2> QED  BY <2>1, <2>2 DEF LifeTypeOK
<1>2. ThreadLifeKept'
  BY DEF LifeTypeOK, ThreadLifeKept, StartInv, JoinInv, Over, JoinThread
<1>3. StartInv'
  BY DEF LifeTypeOK, ThreadLifeKept, StartInv, JoinInv, Over, JoinThread
<1>4. JoinInv'
  BY DEF LifeTypeOK, ThreadLifeKept, StartInv, JoinInv, Over, JoinThread
<1> QED  BY <1>1, <1>2, <1>3, <1>4

LEMMA CloseThreadInv ==
    ASSUME LifeInv, NEW t \in Created, CloseThread(t)
    PROVE  LifeInv'
<1> USE DEF LifeInv
<1>1. LifeTypeOK'
  <2>1. /\ creator' \in [Created -> {"start", "created", "waiting", "woken",
                                    "returned", "closed"}]
        /\ thread' \in [Created -> {"none", "read", "lock", "named", "unlock",
                                   "run", "ended", "stopped"}]
        /\ startLock' \in [Created -> {"creator", "thread", ""}]
    BY LifeSets DEF CloseThread, Creator
  <2>2. /\ detached' \subseteq Created /\ cancelled' \subseteq Created
        /\ joined' \subseteq Created /\ told' \subseteq Created
        /\ aborted' \subseteq Created /\ misled' \subseteq Created
    BY LifeSets DEF CloseThread, Creator
  <2> QED  BY <2>1, <2>2 DEF LifeTypeOK
<1>a. /\ creator[t] = "returned" /\ t \notin detached /\ t \notin aborted
      /\ Over(t) /\ joined' = joined \cup {t}
      /\ \/ /\ aborted' = aborted \cup {t} /\ creator' = creator
            /\ t \notin joined /\ thread[t] = "stopped"
         \/ /\ aborted' = aborted
            /\ \A u \in Created :
                  creator'[u] = IF u = t THEN "closed" ELSE creator[u]
  BY DEF CloseThread, Creator, LifeTypeOK, JoinInv
<1>b. UNCHANGED <<thread, startLock, detached, cancelled, told, misled>>
  BY DEF CloseThread
<1>2. ThreadLifeKept'
  BY <1>a, <1>b DEF ThreadLifeKept, StartInv, JoinInv, Over
<1>3. StartInv'
  BY <1>a, <1>b DEF ThreadLifeKept, StartInv, JoinInv, Over
<1>4. JoinInv'
  BY <1>a, <1>b DEF ThreadLifeKept, StartInv, JoinInv, Over
<1> QED  BY <1>1, <1>2, <1>3, <1>4

LEMMA LifeNextInv == LifeInv /\ LifeNext => LifeInv'
BY CreateThreadInv, WaitForThreadInv, WakeForNothingInv, LeaveCreationInv,
   ReadMethodInv, LockStartInv, SignalCreatorInv, UnlockStartInv, EndThreadInv,
   CancelThreadInv, JoinThreadInv, CloseThreadInv
   DEF LifeNext

LEMMA LifeStutterInv == LifeInv /\ UNCHANGED threadVars => LifeInv'
BY ZenonT(40) DEF threadVars, LifeInv, LifeTypeOK, ThreadLifeKept, StartInv, JoinInv, Over

----------------------------------------------------------------------------
\* Shared mutexes (SharedMutex)

Places == {"out", "try", "timed", "repair", "repaired", "in", "writing", "wait",
           "dead"}

LEMMA SharedSets ==
    ASSUME SharedInv
    PROVE  /\ place \in [Sharers -> Places]
           /\ owner \subseteq Sharers
           /\ mutexState \in {"consistent", "inconsistent", "lost"}
           /\ whole \in BOOLEAN
           /\ conts \in [Sharers -> Nat] /\ tracker \in [Sharers -> Nat]
           /\ uncounted \subseteq Sharers /\ lapsed \subseteq Sharers
           /\ late \subseteq Sharers /\ stopped \subseteq Sharers
           /\ refused \subseteq Sharers
BY DEF SharedInv, SharedTypeOK, CountInv, Places

\* One owner at most, as SharedTypeOK says it.
LEMMA OneOwner ==
    ASSUME NEW S, \A p, q \in S : p = q
    PROVE  Cardinality(S) <= 1
<1>1. CASE S = {}
  BY <1>1, FS_EmptySet
<1>2. ASSUME NEW p \in S PROVE Cardinality(S) <= 1
  <2>1. S = {p}
    OBVIOUS
  <2>2. Cardinality({p}) = 1
    BY FS_Singleton
  <2> QED  BY <2>1, <2>2
<1> QED  BY <1>1, <1>2

LEMMA SharedInitInv == SharedInit => SharedInv
<1> SUFFICES ASSUME SharedInit PROVE SharedInv
  OBVIOUS
<1>1. Cardinality(owner) <= 1
  BY OneOwner DEF SharedInit
<1>2. SharedTypeOK
  BY <1>1 DEF SharedInit, SharedTypeOK
<1> QED  BY <1>2 DEF SharedInit, SharedInv, SharedMutexKept, RepairedByOwner,
            FoundWhole, OwnerInv, Owns, WholeInv, RefusedInv, CountInv, Attempting

LEMMA LockSharedMutexInv ==
    ASSUME SharedInv, NEW p \in Sharers, LockSharedMutex(p)
    PROVE  SharedInv'
<1> USE DEF SharedInv
<1>1. /\ place' \in [Sharers -> Places]
      /\ mutexState' \in {"consistent", "inconsistent", "lost"}
  BY SharedSets DEF LockSharedMutex, Goto, Attempting, Places
<1>2. whole' \in BOOLEAN
  BY SharedSets DEF LockSharedMutex
<1>3. /\ owner' \subseteq Sharers /\ uncounted' \subseteq Sharers
      /\ lapsed' \subseteq Sharers /\ late' \subseteq Sharers
      /\ stopped' \subseteq Sharers /\ refused' \subseteq Sharers
  BY SharedSets DEF LockSharedMutex, Goto, Attempting
<1>4. RepairedByOwner'
  BY SharedSets DEF SharedMutexKept, RepairedByOwner, FoundWhole, OwnerInv,
     WholeInv, RefusedInv, CountInv, Owns, LockSharedMutex, Goto, Attempting
<1>5. FoundWhole'
  BY SharedSets DEF SharedMutexKept, RepairedByOwner, FoundWhole, OwnerInv,
     WholeInv, RefusedInv, CountInv, Owns, LockSharedMutex, Goto, Attempting
<1>6. OwnerInv'
  BY SharedSets DEF SharedMutexKept, RepairedByOwner, FoundWhole, OwnerInv,
     WholeInv, RefusedInv, CountInv, Owns, LockSharedMutex, Goto, Attempting
<1>7. WholeInv'
  BY SharedSets DEF SharedMutexKept, RepairedByOwner, FoundWhole, OwnerInv,
     WholeInv, RefusedInv, CountInv, Owns, LockSharedMutex, Goto, Attempting
<1>8. RefusedInv'
  BY SharedSets DEF SharedMutexKept, RepairedByOwner, FoundWhole, OwnerInv,
     WholeInv, RefusedInv, CountInv, Owns, LockSharedMutex, Goto, Attempting
<1>9. CountInv'
  BY SharedSets DEF SharedMutexKept, RepairedByOwner, FoundWhole, OwnerInv,
     WholeInv, RefusedInv, CountInv, Owns, LockSharedMutex, Goto, Attempting
<1>10. SharedTypeOK'
  <2>1. Cardinality(owner') <= 1
    BY <1>6, OneOwner DEF OwnerInv
  <2> QED  BY <1>1, <1>2, <1>3, <2>1 DEF SharedTypeOK, Places
<1> QED  BY <1>4, <1>5, <1>6, <1>7, <1>8, <1>9, <1>10 DEF SharedMutexKept

LEMMA TakeMutexInv ==
    ASSUME SharedInv, NEW p \in Sharers, TakeMutex(p)
    PROVE  SharedInv'
<1> USE DEF SharedInv
<1>1. /\ place' \in [Sharers -> Places]
      /\ mutexState' \in {"consistent", "inconsistent", "lost"}
  BY SharedSets DEF TakeMutex, Goto, Attempting, Places
<1>2. whole' \in BOOLEAN
  BY SharedSets DEF TakeMutex
<1>3. /\ owner' \subseteq Sharers /\ uncounted' \subseteq Sharers
      /\ lapsed' \subseteq Sharers /\ late' \subseteq Sharers
      /\ stopped' \subseteq Sharers /\ refused' \subseteq Sharers
  BY SharedSets DEF TakeMutex, Goto, Attempting
<1>4. RepairedByOwner'
  BY SharedSets DEF SharedMutexKept, RepairedByOwner, FoundWhole, OwnerInv,
     WholeInv, RefusedInv, CountInv, Owns, TakeMutex, Goto, Attempting
<1>5. FoundWhole'
  BY SharedSets DEF SharedMutexKept, RepairedByOwner, FoundWhole, OwnerInv,
     WholeInv, RefusedInv, CountInv, Owns, TakeMutex, Goto, Attempting
<1>6. OwnerInv'
  BY SharedSets DEF SharedMutexKept, RepairedByOwner, FoundWhole, OwnerInv,
     WholeInv, RefusedInv, CountInv, Owns, TakeMutex, Goto, Attempting
<1>7. WholeInv'
  BY SharedSets DEF SharedMutexKept, RepairedByOwner, FoundWhole, OwnerInv,
     WholeInv, RefusedInv, CountInv, Owns, TakeMutex, Goto, Attempting
<1>8. RefusedInv'
  BY SharedSets DEF SharedMutexKept, RepairedByOwner, FoundWhole, OwnerInv,
     WholeInv, RefusedInv, CountInv, Owns, TakeMutex, Goto, Attempting
<1>9. CountInv'
  BY SharedSets DEF SharedMutexKept, RepairedByOwner, FoundWhole, OwnerInv,
     WholeInv, RefusedInv, CountInv, Owns, TakeMutex, Goto, Attempting
<1>10. SharedTypeOK'
  <2>1. Cardinality(owner') <= 1
    BY <1>6, OneOwner DEF OwnerInv
  <2> QED  BY <1>1, <1>2, <1>3, <2>1 DEF SharedTypeOK, Places
<1> QED  BY <1>4, <1>5, <1>6, <1>7, <1>8, <1>9, <1>10 DEF SharedMutexKept

LEMMA FindTakenInv ==
    ASSUME SharedInv, NEW p \in Sharers, FindTaken(p)
    PROVE  SharedInv'
<1> USE DEF SharedInv
<1>1. /\ place' \in [Sharers -> Places]
      /\ mutexState' \in {"consistent", "inconsistent", "lost"}
  BY SharedSets DEF FindTaken, Goto, Attempting, Places
<1>2. whole' \in BOOLEAN
  BY SharedSets DEF FindTaken
<1>3. /\ owner' \subseteq Sharers /\ uncounted' \subseteq Sharers
      /\ lapsed' \subseteq Sharers /\ late' \subseteq Sharers
      /\ stopped' \subseteq Sharers /\ refused' \subseteq Sharers
  BY SharedSets DEF FindTaken, Goto, Attempting
<1>4. RepairedByOwner'
  BY SharedSets DEF SharedMutexKept, RepairedByOwner, FoundWhole, OwnerInv,
     WholeInv, RefusedInv, CountInv, Owns, FindTaken, Goto, Attempting
<1>5. FoundWhole'
  BY SharedSets DEF SharedMutexKept, RepairedByOwner, FoundWhole, OwnerInv,
     WholeInv, RefusedInv, CountInv, Owns, FindTaken, Goto, Attempting
<1>6. OwnerInv'
  BY SharedSets DEF SharedMutexKept, RepairedByOwner, FoundWhole, OwnerInv,
     WholeInv, RefusedInv, CountInv, Owns, FindTaken, Goto, Attempting
<1>7. WholeInv'
  BY SharedSets DEF SharedMutexKept, RepairedByOwner, FoundWhole, OwnerInv,
     WholeInv, RefusedInv, CountInv, Owns, FindTaken, Goto, Attempting
<1>8. RefusedInv'
  BY SharedSets DEF SharedMutexKept, RepairedByOwner, FoundWhole, OwnerInv,
     WholeInv, RefusedInv, CountInv, Owns, FindTaken, Goto, Attempting
<1>9. CountInv'
  BY SharedSets DEF SharedMutexKept, RepairedByOwner, FoundWhole, OwnerInv,
     WholeInv, RefusedInv, CountInv, Owns, FindTaken, Goto, Attempting
<1>10. SharedTypeOK'
  <2>1. Cardinality(owner') <= 1
    BY <1>6, OneOwner DEF OwnerInv
  <2> QED  BY <1>1, <1>2, <1>3, <2>1 DEF SharedTypeOK, Places
<1> QED  BY <1>4, <1>5, <1>6, <1>7, <1>8, <1>9, <1>10 DEF SharedMutexKept

LEMMA LapseInv ==
    ASSUME SharedInv, NEW p \in Sharers, Lapse(p)
    PROVE  SharedInv'
<1> USE DEF SharedInv
<1>1. /\ place' \in [Sharers -> Places]
      /\ mutexState' \in {"consistent", "inconsistent", "lost"}
  BY SharedSets DEF Lapse, Goto, Attempting, Places
<1>2. whole' \in BOOLEAN
  BY SharedSets DEF Lapse
<1>3. /\ owner' \subseteq Sharers /\ uncounted' \subseteq Sharers
      /\ lapsed' \subseteq Sharers /\ late' \subseteq Sharers
      /\ stopped' \subseteq Sharers /\ refused' \subseteq Sharers
  BY SharedSets DEF Lapse, Goto, Attempting
<1>4. RepairedByOwner'
  BY SharedSets DEF SharedMutexKept, RepairedByOwner, FoundWhole, OwnerInv,
     WholeInv, RefusedInv, CountInv, Owns, Lapse, Goto, Attempting
<1>5. FoundWhole'
  BY SharedSets DEF SharedMutexKept, RepairedByOwner, FoundWhole, OwnerInv,
     WholeInv, RefusedInv, CountInv, Owns, Lapse, Goto, Attempting
<1>6. OwnerInv'
  BY SharedSets DEF SharedMutexKept, RepairedByOwner, FoundWhole, OwnerInv,
     WholeInv, RefusedInv, CountInv, Owns, Lapse, Goto, Attempting
<1>7. WholeInv'
  BY SharedSets DEF SharedMutexKept, RepairedByOwner, FoundWhole, OwnerInv,
     WholeInv, RefusedInv, CountInv, Owns, Lapse, Goto, Attempting
<1>8. RefusedInv'
  BY SharedSets DEF SharedMutexKept, RepairedByOwner, FoundWhole, OwnerInv,
     WholeInv, RefusedInv, CountInv, Owns, Lapse, Goto, Attempting
<1>9. CountInv'
  BY SharedSets DEF SharedMutexKept, RepairedByOwner, FoundWhole, OwnerInv,
     WholeInv, RefusedInv, CountInv, Owns, Lapse, Goto, Attempting
<1>10. SharedTypeOK'
  <2>1. Cardinality(owner') <= 1
    BY <1>6, OneOwner DEF OwnerInv
  <2> QED  BY <1>1, <1>2, <1>3, <2>1 DEF SharedTypeOK, Places
<1> QED  BY <1>4, <1>5, <1>6, <1>7, <1>8, <1>9, <1>10 DEF SharedMutexKept

LEMMA StopAndContinueInv ==
    ASSUME SharedInv, NEW p \in Sharers, StopAndContinue(p)
    PROVE  SharedInv'
<1> USE DEF SharedInv
<1>1. /\ place' \in [Sharers -> Places]
      /\ mutexState' \in {"consistent", "inconsistent", "lost"}
  BY SharedSets DEF StopAndContinue, Goto, Attempting, Places
<1>2. whole' \in BOOLEAN
  BY SharedSets DEF StopAndContinue
<1>3. /\ owner' \subseteq Sharers /\ uncounted' \subseteq Sharers
      /\ lapsed' \subseteq Sharers /\ late' \subseteq Sharers
      /\ stopped' \subseteq Sharers /\ refused' \subseteq Sharers
  BY SharedSets DEF StopAndContinue, Goto, Attempting
<1>4. RepairedByOwner'
  BY SharedSets DEF SharedMutexKept, RepairedByOwner, FoundWhole, OwnerInv,
     WholeInv, RefusedInv, CountInv, Owns, StopAndContinue, Goto, Attempting
<1>5. FoundWhole'
  BY SharedSets DEF SharedMutexKept, RepairedByOwner, FoundWhole, OwnerInv,
     WholeInv, RefusedInv, CountInv, Owns, StopAndContinue, Goto, Attempting
<1>6. OwnerInv'
  BY SharedSets DEF SharedMutexKept, RepairedByOwner, FoundWhole, OwnerInv,
     WholeInv, RefusedInv, CountInv, Owns, StopAndContinue, Goto, Attempting
<1>7. WholeInv'
  BY SharedSets DEF SharedMutexKept, RepairedByOwner, FoundWhole, OwnerInv,
     WholeInv, RefusedInv, CountInv, Owns, StopAndContinue, Goto, Attempting
<1>8. RefusedInv'
  BY SharedSets DEF SharedMutexKept, RepairedByOwner, FoundWhole, OwnerInv,
     WholeInv, RefusedInv, CountInv, Owns, StopAndContinue, Goto, Attempting
<1>9. CountInv'
  BY SharedSets DEF SharedMutexKept, RepairedByOwner, FoundWhole, OwnerInv,
     WholeInv, RefusedInv, CountInv, Owns, StopAndContinue, Goto, Attempting
<1>10. SharedTypeOK'
  <2>1. Cardinality(owner') <= 1
    BY <1>6, OneOwner DEF OwnerInv
  <2> QED  BY <1>1, <1>2, <1>3, <2>1 DEF SharedTypeOK, Places
<1> QED  BY <1>4, <1>5, <1>6, <1>7, <1>8, <1>9, <1>10 DEF SharedMutexKept

LEMMA CountContInv ==
    ASSUME SharedInv, NEW p \in Sharers, CountCont(p)
    PROVE  SharedInv'
<1> USE DEF SharedInv
<1>1. /\ place' \in [Sharers -> Places]
      /\ mutexState' \in {"consistent", "inconsistent", "lost"}
  BY SharedSets DEF CountCont, Goto, Attempting, Places
<1>2. whole' \in BOOLEAN
  BY SharedSets DEF CountCont
<1>3. /\ owner' \subseteq Sharers /\ uncounted' \subseteq Sharers
      /\ lapsed' \subseteq Sharers /\ late' \subseteq Sharers
      /\ stopped' \subseteq Sharers /\ refused' \subseteq Sharers
  BY SharedSets DEF CountCont, Goto, Attempting
<1>4. RepairedByOwner'
  BY SharedSets DEF SharedMutexKept, RepairedByOwner, FoundWhole, OwnerInv,
     WholeInv, RefusedInv, CountInv, Owns, CountCont, Goto, Attempting
<1>5. FoundWhole'
  BY SharedSets DEF SharedMutexKept, RepairedByOwner, FoundWhole, OwnerInv,
     WholeInv, RefusedInv, CountInv, Owns, CountCont, Goto, Attempting
<1>6. OwnerInv'
  BY SharedSets DEF SharedMutexKept, RepairedByOwner, FoundWhole, OwnerInv,
     WholeInv, RefusedInv, CountInv, Owns, CountCont, Goto, Attempting
<1>7. WholeInv'
  BY SharedSets DEF SharedMutexKept, RepairedByOwner, FoundWhole, OwnerInv,
     WholeInv, RefusedInv, CountInv, Owns, CountCont, Goto, Attempting
<1>8. RefusedInv'
  BY SharedSets DEF SharedMutexKept, RepairedByOwner, FoundWhole, OwnerInv,
     WholeInv, RefusedInv, CountInv, Owns, CountCont, Goto, Attempting
<1>9. CountInv'
  BY SharedSets DEF SharedMutexKept, RepairedByOwner, FoundWhole, OwnerInv,
     WholeInv, RefusedInv, CountInv, Owns, CountCont, Goto, Attempting
<1>10. SharedTypeOK'
  <2>1. Cardinality(owner') <= 1
    BY <1>6, OneOwner DEF OwnerInv
  <2> QED  BY <1>1, <1>2, <1>3, <2>1 DEF SharedTypeOK, Places
<1> QED  BY <1>4, <1>5, <1>6, <1>7, <1>8, <1>9, <1>10 DEF SharedMutexKept

LEMMA CallRepairInv ==
    ASSUME SharedInv, NEW p \in Sharers, CallRepair(p)
    PROVE  SharedInv'
<1> USE DEF SharedInv
<1>1. /\ place' \in [Sharers -> Places]
      /\ mutexState' \in {"consistent", "inconsistent", "lost"}
  BY SharedSets DEF CallRepair, Goto, Attempting, Places
<1>2. whole' \in BOOLEAN
  BY SharedSets DEF CallRepair
<1>3. /\ owner' \subseteq Sharers /\ uncounted' \subseteq Sharers
      /\ lapsed' \subseteq Sharers /\ late' \subseteq Sharers
      /\ stopped' \subseteq Sharers /\ refused' \subseteq Sharers
  BY SharedSets DEF CallRepair, Goto, Attempting
<1>4. RepairedByOwner'
  BY SharedSets DEF SharedMutexKept, RepairedByOwner, FoundWhole, OwnerInv,
     WholeInv, RefusedInv, CountInv, Owns, CallRepair, Goto, Attempting
<1>5. FoundWhole'
  BY SharedSets DEF SharedMutexKept, RepairedByOwner, FoundWhole, OwnerInv,
     WholeInv, RefusedInv, CountInv, Owns, CallRepair, Goto, Attempting
<1>6. OwnerInv'
  BY SharedSets DEF SharedMutexKept, RepairedByOwner, FoundWhole, OwnerInv,
     WholeInv, RefusedInv, CountInv, Owns, CallRepair, Goto, Attempting
<1>7. WholeInv'
  BY SharedSets DEF SharedMutexKept, RepairedByOwner, FoundWhole, OwnerInv,
     WholeInv, RefusedInv, CountInv, Owns, CallRepair, Goto, Attempting
<1>8. RefusedInv'
  BY SharedSets DEF SharedMutexKept, RepairedByOwner, FoundWhole, OwnerInv,
     WholeInv, RefusedInv, CountInv, Owns, CallRepair, Goto, Attempting
<1>9. CountInv'
  BY SharedSets DEF SharedMutexKept, RepairedByOwner, FoundWhole, OwnerInv,
     WholeInv, RefusedInv, CountInv, Owns, CallRepair, Goto, Attempting
<1>10. SharedTypeOK'
  <2>1. Cardinality(owner') <= 1
    BY <1>6, OneOwner DEF OwnerInv
  <2> QED  BY <1>1, <1>2, <1>3, <2>1 DEF SharedTypeOK, Places
<1> QED  BY <1>4, <1>5, <1>6, <1>7, <1>8, <1>9, <1>10 DEF SharedMutexKept

LEMMA MakeConsistentInv ==
    ASSUME SharedInv, NEW p \in Sharers, MakeConsistent(p)
    PROVE  SharedInv'
<1> USE DEF SharedInv
<1>1. /\ place' \in [Sharers -> Places]
      /\ mutexState' \in {"consistent", "inconsistent", "lost"}
  BY SharedSets DEF MakeConsistent, Goto, Attempting, Places
<1>2. whole' \in BOOLEAN
  BY SharedSets DEF MakeConsistent
<1>3. /\ owner' \subseteq Sharers /\ uncounted' \subseteq Sharers
      /\ lapsed' \subseteq Sharers /\ late' \subseteq Sharers
      /\ stopped' \subseteq Sharers /\ refused' \subseteq Sharers
  BY SharedSets DEF MakeConsistent, Goto, Attempting
<1>4. RepairedByOwner'
  BY SharedSets DEF SharedMutexKept, RepairedByOwner, FoundWhole, OwnerInv,
     WholeInv, RefusedInv, CountInv, Owns, MakeConsistent, Goto, Attempting
<1>5. FoundWhole'
  BY SharedSets DEF SharedMutexKept, RepairedByOwner, FoundWhole, OwnerInv,
     WholeInv, RefusedInv, CountInv, Owns, MakeConsistent, Goto, Attempting
<1>6. OwnerInv'
  BY SharedSets DEF SharedMutexKept, RepairedByOwner, FoundWhole, OwnerInv,
     WholeInv, RefusedInv, CountInv, Owns, MakeConsistent, Goto, Attempting
<1>7. WholeInv'
  BY SharedSets DEF SharedMutexKept, RepairedByOwner, FoundWhole, OwnerInv,
     WholeInv, RefusedInv, CountInv, Owns, MakeConsistent, Goto, Attempting
<1>8. RefusedInv'
  BY SharedSets DEF SharedMutexKept, RepairedByOwner, FoundWhole, OwnerInv,
     WholeInv, RefusedInv, CountInv, Owns, MakeConsistent, Goto, Attempting
<1>9. CountInv'
  BY SharedSets DEF SharedMutexKept, RepairedByOwner, FoundWhole, OwnerInv,
     WholeInv, RefusedInv, CountInv, Owns, MakeConsistent, Goto, Attempting
<1>10. SharedTypeOK'
  <2>1. Cardinality(owner') <= 1
    BY <1>6, OneOwner DEF OwnerInv
  <2> QED  BY <1>1, <1>2, <1>3, <2>1 DEF SharedTypeOK, Places
<1> QED  BY <1>4, <1>5, <1>6, <1>7, <1>8, <1>9, <1>10 DEF SharedMutexKept

LEMMA WriteInv ==
    ASSUME SharedInv, NEW p \in Sharers, Write(p)
    PROVE  SharedInv'
<1> USE DEF SharedInv
<1>1. /\ place' \in [Sharers -> Places]
      /\ mutexState' \in {"consistent", "inconsistent", "lost"}
  BY SharedSets DEF Write, Goto, Attempting, Places
<1>2. whole' \in BOOLEAN
  BY SharedSets DEF Write
<1>3. /\ owner' \subseteq Sharers /\ uncounted' \subseteq Sharers
      /\ lapsed' \subseteq Sharers /\ late' \subseteq Sharers
      /\ stopped' \subseteq Sharers /\ refused' \subseteq Sharers
  BY SharedSets DEF Write, Goto, Attempting
<1>4. RepairedByOwner'
  BY SharedSets DEF SharedMutexKept, RepairedByOwner, FoundWhole, OwnerInv,
     WholeInv, RefusedInv, CountInv, Owns, Write, Goto, Attempting
<1>5. FoundWhole'
  BY SharedSets DEF SharedMutexKept, RepairedByOwner, FoundWhole, OwnerInv,
     WholeInv, RefusedInv, CountInv, Owns, Write, Goto, Attempting
<1>6. OwnerInv'
  BY SharedSets DEF SharedMutexKept, RepairedByOwner, FoundWhole, OwnerInv,
     WholeInv, RefusedInv, CountInv, Owns, Write, Goto, Attempting
<1>7. WholeInv'
  BY SharedSets DEF SharedMutexKept, RepairedByOwner, FoundWhole, OwnerInv,
     WholeInv, RefusedInv, CountInv, Owns, Write, Goto, Attempting
<1>8. RefusedInv'
  BY SharedSets DEF SharedMutexKept, RepairedByOwner, FoundWhole, OwnerInv,
     WholeInv, RefusedInv, CountInv, Owns, Write, Goto, Attempting
<1>9. CountInv'
  BY SharedSets DEF SharedMutexKept, RepairedByOwner, FoundWhole, OwnerInv,
     WholeInv, RefusedInv, CountInv, Owns, Write, Goto, Attempting
<1>10. SharedTypeOK'
  <2>1. Cardinality(owner') <= 1
    BY <1>6, OneOwner DEF OwnerInv
  <2> QED  BY <1>1, <1>2, <1>3, <2>1 DEF SharedTypeOK, Places
<1> QED  BY <1>4, <1>5, <1>6, <1>7, <1>8, <1>9, <1>10 DEF SharedMutexKept

LEMMA ReleaseInv ==
    ASSUME SharedInv, NEW p \in Sharers, NEW where \in {"out", "wait"}, Release(p, where)
    PROVE  SharedInv'
<1> USE DEF SharedInv
<1>1. /\ place' \in [Sharers -> Places]
      /\ mutexState' \in {"consistent", "inconsistent", "lost"}
  BY SharedSets DEF Release, Goto, Attempting, Places
<1>2. whole' \in BOOLEAN
  BY SharedSets DEF Release
<1>3. /\ owner' \subseteq Sharers /\ uncounted' \subseteq Sharers
      /\ lapsed' \subseteq Sharers /\ late' \subseteq Sharers
      /\ stopped' \subseteq Sharers /\ refused' \subseteq Sharers
  BY SharedSets DEF Release, Goto, Attempting
<1>4. RepairedByOwner'
  BY SharedSets DEF SharedMutexKept, RepairedByOwner, FoundWhole, OwnerInv,
     WholeInv, RefusedInv, CountInv, Owns, Release, Goto, Attempting
<1>5. FoundWhole'
  BY SharedSets DEF SharedMutexKept, RepairedByOwner, FoundWhole, OwnerInv,
     WholeInv, RefusedInv, CountInv, Owns, Release, Goto, Attempting
<1>6. OwnerInv'
  BY SharedSets DEF SharedMutexKept, RepairedByOwner, FoundWhole, OwnerInv,
     WholeInv, RefusedInv, CountInv, Owns, Release, Goto, Attempting
<1>7. WholeInv'
  BY SharedSets DEF SharedMutexKept, RepairedByOwner, FoundWhole, OwnerInv,
     WholeInv, RefusedInv, CountInv, Owns, Release, Goto, Attempting
<1>8. RefusedInv'
  BY SharedSets DEF SharedMutexKept, RepairedByOwner, FoundWhole, OwnerInv,
     WholeInv, RefusedInv, CountInv, Owns, Release, Goto, Attempting
<1>9. CountInv'
  BY SharedSets DEF SharedMutexKept, RepairedByOwner, FoundWhole, OwnerInv,
     WholeInv, RefusedInv, CountInv, Owns, Release, Goto, Attempting
<1>10. SharedTypeOK'
  <2>1. Cardinality(owner') <= 1
    BY <1>6, OneOwner DEF OwnerInv
  <2> QED  BY <1>1, <1>2, <1>3, <2>1 DEF SharedTypeOK, Places
<1> QED  BY <1>4, <1>5, <1>6, <1>7, <1>8, <1>9, <1>10 DEF SharedMutexKept

LEMMA WakeSharedInv ==
    ASSUME SharedInv, NEW p \in Sharers, WakeShared(p)
    PROVE  SharedInv'
<1> USE DEF SharedInv
<1>1. /\ place' \in [Sharers -> Places]
      /\ mutexState' \in {"consistent", "inconsistent", "lost"}
  BY SharedSets DEF WakeShared, Goto, Attempting, Places
<1>2. whole' \in BOOLEAN
  BY SharedSets DEF WakeShared
<1>3. /\ owner' \subseteq Sharers /\ uncounted' \subseteq Sharers
      /\ lapsed' \subseteq Sharers /\ late' \subseteq Sharers
      /\ stopped' \subseteq Sharers /\ refused' \subseteq Sharers
  BY SharedSets DEF WakeShared, Goto, Attempting
<1>4. RepairedByOwner'
  BY SharedSets DEF SharedMutexKept, RepairedByOwner, FoundWhole, OwnerInv,
     WholeInv, RefusedInv, CountInv, Owns, WakeShared, Goto, Attempting
<1>5. FoundWhole'
  BY SharedSets DEF SharedMutexKept, RepairedByOwner, FoundWhole, OwnerInv,
     WholeInv, RefusedInv, CountInv, Owns, WakeShared, Goto, Attempting
<1>6. OwnerInv'
  BY SharedSets DEF SharedMutexKept, RepairedByOwner, FoundWhole, OwnerInv,
     WholeInv, RefusedInv, CountInv, Owns, WakeShared, Goto, Attempting
<1>7. WholeInv'
  BY SharedSets DEF SharedMutexKept, RepairedByOwner, FoundWhole, OwnerInv,
     WholeInv, RefusedInv, CountInv, Owns, WakeShared, Goto, Attempting
<1>8. RefusedInv'
  BY SharedSets DEF SharedMutexKept, RepairedByOwner, FoundWhole, OwnerInv,
     WholeInv, RefusedInv, CountInv, Owns, WakeShared, Goto, Attempting
<1>9. CountInv'
  BY SharedSets DEF SharedMutexKept, RepairedByOwner, FoundWhole, OwnerInv,
     WholeInv, RefusedInv, CountInv, Owns, WakeShared, Goto, Attempting
<1>10. SharedTypeOK'
  <2>1. Cardinality(owner') <= 1
    BY <1>6, OneOwner DEF OwnerInv
  <2> QED  BY <1>1, <1>2, <1>3, <2>1 DEF SharedTypeOK, Places
<1> QED  BY <1>4, <1>5, <1>6, <1>7, <1>8, <1>9, <1>10 DEF SharedMutexKept

LEMMA DieInv ==
    ASSUME SharedInv, NEW p \in Sharers, Die(p)
    PROVE  SharedInv'
<1> USE DEF SharedInv
<1>1. /\ place' \in [Sharers -> Places]
      /\ mutexState' \in {"consistent", "inconsistent", "lost"}
  BY SharedSets DEF Die, Goto, Attempting, Places
<1>2. whole' \in BOOLEAN
  BY SharedSets DEF Die
<1>3. /\ owner' \subseteq Sharers /\ uncounted' \subseteq Sharers
      /\ lapsed' \subseteq Sharers /\ late' \subseteq Sharers
      /\ stopped' \subseteq Sharers /\ refused' \subseteq Sharers
  BY SharedSets DEF Die, Goto, Attempting
<1>4. RepairedByOwner'
  BY SharedSets DEF SharedMutexKept, RepairedByOwner, FoundWhole, OwnerInv,
     WholeInv, RefusedInv, CountInv, Owns, Die, Goto, Attempting
<1>5. FoundWhole'
  BY SharedSets DEF SharedMutexKept, RepairedByOwner, FoundWhole, OwnerInv,
     WholeInv, RefusedInv, CountInv, Owns, Die, Goto, Attempting
<1>6. OwnerInv'
  BY SharedSets DEF SharedMutexKept, RepairedByOwner, FoundWhole, OwnerInv,
     WholeInv, RefusedInv, CountInv, Owns, Die, Goto, Attempting
<1>7. WholeInv'
  BY SharedSets DEF SharedMutexKept, RepairedByOwner, FoundWhole, OwnerInv,
     WholeInv, RefusedInv, CountInv, Owns, Die, Goto, Attempting
<1>8. RefusedInv'
  BY SharedSets DEF SharedMutexKept, RepairedByOwner, FoundWhole, OwnerInv,
     WholeInv, RefusedInv, CountInv, Owns, Die, Goto, Attempting
<1>9. CountInv'
  BY SharedSets DEF SharedMutexKept, RepairedByOwner, FoundWhole, OwnerInv,
     WholeInv, RefusedInv, CountInv, Owns, Die, Goto, Attempting
<1>10. SharedTypeOK'
  <2>1. Cardinality(owner') <= 1
    BY <1>6, OneOwner DEF OwnerInv
  <2> QED  BY <1>1, <1>2, <1>3, <2>1 DEF SharedTypeOK, Places
<1> QED  BY <1>4, <1>5, <1>6, <1>7, <1>8, <1>9, <1>10 DEF SharedMutexKept

LEMMA SharedNextInv == SharedInv /\ SharedNext => SharedInv'
BY LockSharedMutexInv, TakeMutexInv, FindTakenInv, LapseInv, StopAndContinueInv,
   CountContInv, CallRepairInv, MakeConsistentInv, WriteInv, ReleaseInv,
   WakeSharedInv, DieInv
   DEF SharedNext

LEMMA SharedStutterInv == SharedInv /\ UNCHANGED sharedVars => SharedInv'
BY DEF sharedVars, SharedInv, SharedTypeOK, SharedMutexKept, RepairedByOwner,
   FoundWhole, OwnerInv, Owns, WholeInv, RefusedInv, CountInv, Attempting

----------------------------------------------------------------------------
\* Children (Children)

States == Living \cup Finished \cup {"none"}
Numbers == 0 .. MaxBirths

LEMMA ChildSets ==
    ASSUME ChildInv
    PROVE  /\ family \in [Pids -> [child : Numbers, state : States]]
           /\ asking \in [Parents -> Calls \cup {"idle"}]
           /\ known \in [Parents -> [pid : Pids \cup {0}, child : Numbers, how : States]]
           /\ reaped \in [1 .. MaxBirths -> Numbers]
           /\ robbed \subseteq Parents /\ deceived \subseteq Parents
           /\ births \in Numbers
BY DEF ChildInv, ChildTypeOK, FamilyInv, States, Numbers

\* What the states of a child tell apart.
LEMMA StatesApart ==
    /\ Finished \subseteq States /\ Living \subseteq States
    /\ Finished \cap Living = {} /\ "none" \notin Finished \cup Living
    /\ "running" \in Living /\ "stopped" \in Living
BY DEF Finished, Living, States

\* Thread t knows of a child that nobody took away from it.
Knows(t) == known[t] # NoChild /\ t \notin robbed

LEMMA KnownChild ==
    ASSUME ChildInv, NEW t \in Parents, Knows(t)
    PROVE  /\ known[t].pid \in Pids
           /\ family[known[t].pid].child = known[t].child
           /\ family[known[t].pid].state \in Finished
           /\ known[t].child # 0 /\ t \notin deceived
           /\ known[t].how \in Finished \cup {"none"}
BY DEF ChildInv, ChildrenKept, KnownInv, Knows

LEMMA ChildInitInv == ChildInit => ChildInv
<1> SUFFICES ASSUME ChildInit PROVE ChildInv
  OBVIOUS
<1>1. ChildTypeOK
  BY ChildAssumption DEF ChildInit, ChildTypeOK, Vacant, NoChild
<1>2. ChildrenKept
  BY DEF ChildInit, ChildrenKept
<1>3. FamilyInv
  BY ChildAssumption DEF ChildInit, FamilyInv, Vacant
<1>4. KnownInv
  BY DEF ChildInit, KnownInv
<1> QED  BY <1>1, <1>2, <1>3, <1>4 DEF ChildInv

LEMMA BearChildInv ==
    ASSUME ChildInv, BearChild
    PROVE  ChildInv'
<1>a. PICK p \in Pids :
        /\ births < MaxBirths /\ births' = births + 1 /\ family[p] = Vacant
        /\ family' = [family EXCEPT ![p] = [child |-> births + 1,
                                            state |-> "running"]]
  BY DEF BearChild
<1>b. /\ births \in Nat /\ births + 1 \in Numbers /\ births + 1 \in 1 .. MaxBirths
      /\ births' \in Numbers /\ births + 1 # 0
  BY <1>a, ChildSets, ChildAssumption DEF Numbers
<1>c. /\ family'[p].child = births + 1 /\ family'[p].state = "running"
      /\ \A q \in Pids \ {p} : family'[q] = family[q]
      /\ family' \in [Pids -> [child : Numbers, state : States]]
  BY <1>a, <1>b, ChildSets, StatesApart
<1>d. UNCHANGED <<asking, known, reaped, robbed, deceived, turns>>
  BY DEF BearChild
<1>1. ChildTypeOK'
  BY <1>c, <1>d DEF ChildInv, ChildTypeOK, States, Numbers
<1>2. ASSUME NEW t \in Parents, Knows(t) PROVE known[t].pid # p
  BY <1>2, <1>a, KnownChild, StatesApart DEF Vacant
<1>3. ChildrenKept'
  BY <1>2, <1>c, <1>d, KnownChild DEF ChildInv, ChildrenKept, Knows
<1>4. FamilyInv'
  <2>1. ASSUME NEW q \in Pids PROVE family[q].child \in Nat /\ family[q].child <= births
    BY ChildSets, ChildAssumption DEF ChildInv, FamilyInv, Numbers
  <2>2. \A q \in Pids :
          /\ family'[q].child = 0 <=> family'[q].state = "none"
          /\ family'[q].child <= births'
    BY <1>a, <1>b, <1>c, <2>1 DEF ChildInv, FamilyInv
  <2>3. \A q \in Pids : family'[q].child # 0 => reaped'[family'[q].child] = 0
    BY <1>b, <1>c, <1>d DEF ChildInv, FamilyInv
  <2>4. \A q, r \in Pids :
          family'[q].child = family'[r].child /\ family'[q].child # 0 => q = r
    BY <1>b, <1>c, <2>1 DEF ChildInv, FamilyInv
  <2>5. \A c \in 1 .. MaxBirths : c > births' => reaped'[c] = 0
    BY <1>a, <1>b, <1>d, ChildAssumption DEF ChildInv, FamilyInv
  <2> QED  BY <1>b, <2>2, <2>3, <2>4, <2>5 DEF FamilyInv, Numbers
<1>5. KnownInv'
  BY <1>d DEF ChildInv, KnownInv
<1> QED  BY <1>1, <1>3, <1>4, <1>5 DEF ChildInv

\* Only the state of a living child changes, and to no vacancy.
LEMMA StateChange ==
    ASSUME ChildInv, NEW p \in Pids, NEW s \in Living \cup Finished,
           family[p].state \in Living, family' = [family EXCEPT ![p].state = s],
           UNCHANGED <<asking, known, births, reaped, robbed, deceived>>
    PROVE  ChildInv'
<1>c. /\ family'[p].child = family[p].child /\ family'[p].state = s
      /\ \A q \in Pids \ {p} : family'[q] = family[q]
      /\ family' \in [Pids -> [child : Numbers, state : States]]
  BY ChildSets, StatesApart
<1>1. ChildTypeOK'
  BY <1>c DEF ChildInv, ChildTypeOK, States, Numbers
<1>2. ASSUME NEW t \in Parents, Knows(t) PROVE known[t].pid # p
  BY <1>2, KnownChild, StatesApart
<1>3. ChildrenKept'
  BY <1>2, <1>c, KnownChild DEF ChildInv, ChildrenKept, Knows
<1>4. FamilyInv'
  <2>1. \A q \in Pids : family'[q].child = family[q].child
    BY <1>c
  <2>2. \A q \in Pids : family'[q].state = "none" <=> family[q].state = "none"
    BY <1>c, StatesApart
  <2> QED  BY <2>1, <2>2 DEF ChildInv, FamilyInv
<1>5. KnownInv'
  BY DEF ChildInv, KnownInv
<1> QED  BY <1>1, <1>3, <1>4, <1>5 DEF ChildInv

LEMMA TurnChildInv ==
    ASSUME ChildInv, TurnChild
    PROVE  ChildInv'
<1>1. PICK p \in Pids :
        /\ family[p].state \in Living
        /\ family' = [family EXCEPT ![p].state =
                         IF @ = "running" THEN "stopped" ELSE "running"]
        /\ UNCHANGED <<asking, known, births, reaped, robbed, deceived>>
  BY DEF TurnChild
<1> DEFINE s == IF family[p].state = "running" THEN "stopped" ELSE "running"
<1>2. s \in Living \cup Finished
  BY StatesApart
<1>3. family' = [family EXCEPT ![p].state = s]
  BY <1>1
<1> HIDE DEF s
<1> QED  BY <1>1, <1>2, <1>3, StateChange

LEMMA ChildEndsInv ==
    ASSUME ChildInv, ChildEnds
    PROVE  ChildInv'
BY StateChange DEF ChildEnds

LEMMA AskInv ==
    ASSUME ChildInv, NEW t \in Parents, NEW call \in Calls, Ask(t, call)
    PROVE  ChildInv'
<1>a. /\ call = "any" => known[t] = NoChild
      /\ call # "any" => known[t] # NoChild
      /\ asking' \in [Parents -> Calls \cup {"idle"}]
      /\ \A o \in Parents : asking'[o] = IF o = t THEN call ELSE asking[o]
  BY ChildSets DEF Ask
<1>b. UNCHANGED <<family, known, births, reaped, robbed, deceived>>
  BY DEF Ask
<1>1. ChildTypeOK'
  BY <1>a, <1>b DEF ChildInv, ChildTypeOK
<1>2. ChildrenKept' /\ FamilyInv'
  BY <1>b DEF ChildInv, ChildrenKept, FamilyInv
<1>3. KnownInv'
  BY <1>a, <1>b DEF ChildInv, KnownInv, Calls
<1> QED  BY <1>1, <1>2, <1>3 DEF ChildInv

LEMMA Answered ==
    ASSUME ChildInv, NEW t \in Parents, Answer(t)
    PROVE  /\ asking' \in [Parents -> Calls \cup {"idle"}]
           /\ \A o \in Parents : asking'[o] = IF o = t THEN "idle" ELSE asking[o]
BY ChildSets DEF Answer

LEMMA WaitProcessChildrenInv ==
    ASSUME ChildInv, NEW t \in Parents, WaitProcessChildren(t)
    PROVE  ChildInv'
<1>a. /\ asking[t] = "any" /\ Answer(t) /\ known[t] = NoChild /\ family' = family
      /\ UNCHANGED <<births, reaped, robbed, deceived, turns>>
  BY DEF WaitProcessChildren, Looked, ChildInv, KnownInv
<1>1. CASE UNCHANGED known
  <2>1. ChildTypeOK'
    BY <1>1, <1>a, Answered DEF ChildInv, ChildTypeOK
  <2>2. ChildrenKept' /\ FamilyInv'
    BY <1>1, <1>a DEF ChildInv, ChildrenKept, FamilyInv
  <2>3. KnownInv'
    BY <1>1, <1>a, Answered DEF ChildInv, KnownInv
  <2> QED  BY <2>1, <2>2, <2>3 DEF ChildInv
<1>2. ASSUME NEW p \in Pids, family[p].state \in Finished,
             known' = [known EXCEPT ![t] = [pid |-> p, child |-> family[p].child,
                                            how |-> "none"]]
      PROVE  ChildInv'
  <2>1. family[p].child \in Numbers /\ family[p].child # 0
    BY <1>2, ChildSets, StatesApart DEF ChildInv, FamilyInv
  <2>2. /\ known'[t].pid = p /\ known'[t].child = family[p].child
        /\ known'[t].how = "none" /\ known'[t] # NoChild
        /\ \A o \in Parents \ {t} : known'[o] = known[o]
        /\ known' \in [Parents -> [pid : Pids \cup {0}, child : Numbers, how : States]]
    BY <1>2, <2>1, ChildSets DEF NoChild, States
  <2>3. ChildTypeOK'
    BY <1>a, <2>2, Answered DEF ChildInv, ChildTypeOK, Numbers, States
  <2>4. t \notin robbed /\ t \notin deceived
    BY <1>a DEF ChildInv, KnownInv
  <2>5. ChildrenKept'
    BY <1>a, <1>2, <2>2, <2>4 DEF ChildInv, ChildrenKept
  <2>6. FamilyInv'
    BY <1>a DEF ChildInv, FamilyInv
  <2>7. KnownInv'
    BY <1>a, <2>1, <2>2, <2>4, Answered DEF ChildInv, KnownInv
  <2> QED  BY <2>3, <2>5, <2>6, <2>7 DEF ChildInv
<1> QED  BY <1>1, <1>2 DEF WaitProcessChildren

LEMMA LookAtChildInv ==
    ASSUME ChildInv, NEW t \in Parents, LookAtChild(t)
    PROVE  ChildInv'
<1>a. /\ asking[t] \in {"wait", "monitor"} /\ Answer(t) /\ family' = family
      /\ known' = [known EXCEPT ![t].how = family[known[t].pid].state]
      /\ deceived' = IF Wrong(t) THEN deceived \cup {t} ELSE deceived
      /\ UNCHANGED <<births, reaped, robbed, turns>>
  BY DEF LookAtChild, Looked, Misled
<1>b. /\ known[t] # NoChild /\ known[t].pid \in Pids /\ known[t].child # 0
  BY <1>a DEF ChildInv, KnownInv
<1>c. /\ known'[t].pid = known[t].pid /\ known'[t].child = known[t].child
      /\ known'[t].how = family[known[t].pid].state /\ known'[t] # NoChild
      /\ \A o \in Parents \ {t} : known'[o] = known[o]
      /\ known' \in [Parents -> [pid : Pids \cup {0}, child : Numbers, how : States]]
  BY <1>a, <1>b, ChildSets DEF NoChild
<1>d. t \notin robbed => deceived' = deceived
  BY <1>a, <1>b, KnownChild DEF Wrong, Knows
<1>1. ChildTypeOK'
  BY <1>a, <1>c, Answered DEF ChildInv, ChildTypeOK, Numbers, States
<1>2. ChildrenKept'
  <2>1. ASSUME NEW o \in Parents, known'[o] # NoChild, o \notin robbed'
        PROVE  /\ family'[known'[o].pid].child = known'[o].child
               /\ family'[known'[o].pid].state \in Finished
               /\ o \notin deceived' /\ known'[o].how \in Finished \cup {"none"}
    <3>1. Knows(o)
      BY <2>1, <1>a, <1>b, <1>c DEF Knows
    <3>2. CASE o = t
      BY <3>1, <3>2, <1>a, <1>c, <1>d, KnownChild DEF Knows
    <3>3. CASE o # t
      BY <3>1, <3>3, <1>a, <1>c, KnownChild
    <3> QED  BY <3>2, <3>3
  <2> QED  BY <2>1, <1>a DEF ChildInv, ChildrenKept
<1>3. FamilyInv'
  BY <1>a DEF ChildInv, FamilyInv
<1>4. KnownInv'
  BY <1>a, <1>b, <1>c, <1>d, Answered DEF ChildInv, KnownInv
<1> QED  BY <1>1, <1>2, <1>3, <1>4 DEF ChildInv

LEMMA ReapProcessChildInv ==
    ASSUME ChildInv, NEW t \in Parents, ReapProcessChild(t)
    PROVE  ChildInv'
<1> DEFINE p == known[t].pid
           c == family[p].child
<1>a. /\ asking[t] = "reap" /\ Answer(t)
      /\ family' = [family EXCEPT ![p] = Vacant]
      /\ reaped' = IF c = 0 THEN reaped ELSE [reaped EXCEPT ![c] = @ + 1]
      /\ robbed' = (robbed \ {t})
                   \cup {o \in Parents \ {t} :
                            c # 0 /\ known[o].pid = p /\ known[o].child = c}
      /\ deceived' = IF Wrong(t) /\ t \notin robbed THEN deceived \cup {t}
                                                    ELSE deceived \ {t}
      /\ known' = [known EXCEPT ![t] = NoChild]
      /\ UNCHANGED <<births, turns>>
  BY DEF ReapProcessChild
<1>b. /\ known[t] # NoChild /\ p \in Pids /\ c \in Numbers
  BY <1>a, ChildSets DEF ChildInv, KnownInv
<1> HIDE DEF p, c
<1>c. /\ family'[p].child = 0 /\ family'[p].state = "none"
      /\ \A q \in Pids \ {p} : family'[q] = family[q]
      /\ family' \in [Pids -> [child : Numbers, state : States]]
  BY <1>a, <1>b, ChildSets, ChildAssumption DEF Vacant, States, Numbers
<1>d. /\ known'[t] = NoChild
      /\ \A o \in Parents \ {t} : known'[o] = known[o]
      /\ known' \in [Parents -> [pid : Pids \cup {0}, child : Numbers, how : States]]
  BY <1>a, ChildSets, ChildAssumption DEF NoChild, States, Numbers
<1>e. t \notin robbed => ~Wrong(t)
  BY <1>b, KnownChild DEF Wrong, Knows, p
<1>f. deceived' = deceived \ {t}
  <2>1. t \notin robbed => t \notin deceived
    BY DEF ChildInv, KnownInv
  <2> QED  BY <2>1, <1>a, <1>e
<1>g. /\ \A d \in 1 .. MaxBirths : d # c => reaped'[d] = reaped[d]
      /\ c # 0 => c \in 1 .. MaxBirths /\ reaped[c] = 0 /\ reaped'[c] = 1
      /\ reaped' \in [1 .. MaxBirths -> Numbers]
  <2>1. c # 0 => c \in 1 .. MaxBirths /\ reaped[c] = 0 /\ 1 \in Numbers
    BY <1>b, ChildAssumption DEF ChildInv, FamilyInv, Numbers, c
  <2> QED  BY <2>1, <1>a, ChildSets
<1>1. ChildTypeOK'
  <2>1. robbed' \subseteq Parents /\ deceived' \subseteq Parents
    BY <1>a, <1>f, ChildSets
  <2> QED  BY <2>1, <1>a, <1>c, <1>d, <1>g, Answered
              DEF ChildTypeOK, Numbers, States
<1>2. ChildrenKept'
  <2>1. ASSUME NEW o \in Parents, known'[o] # NoChild, o \notin robbed'
        PROVE  /\ family'[known'[o].pid].child = known'[o].child
               /\ family'[known'[o].pid].state \in Finished
               /\ o \notin deceived' /\ known'[o].how \in Finished \cup {"none"}
    <3>1. o # t /\ Knows(o) /\ known'[o] = known[o]
      BY <2>1, <1>a, <1>d DEF Knows
    <3>2. known[o].pid # p
      BY <3>1, <2>1, <1>a, KnownChild DEF c
    <3> QED  BY <3>1, <3>2, <1>c, <1>f, KnownChild
  <2>2. \A d \in 1 .. MaxBirths : reaped'[d] <= 1
    BY <1>g DEF ChildInv, ChildrenKept
  <2> QED  BY <2>1, <2>2 DEF ChildrenKept
<1>3. FamilyInv'
  <2>1. \A q \in Pids :
          /\ family'[q].child = 0 <=> family'[q].state = "none"
          /\ family'[q].child <= births'
    BY <1>a, <1>c, ChildSets, ChildAssumption DEF ChildInv, FamilyInv, Numbers
  <2>2. \A q, r \in Pids :
          family'[q].child = family'[r].child /\ family'[q].child # 0 => q = r
    BY <1>c DEF ChildInv, FamilyInv
  <2>3. ASSUME NEW q \in Pids, family'[q].child # 0
        PROVE  reaped'[family'[q].child] = 0
    <3>1. q # p /\ family'[q] = family[q]
      BY <2>3, <1>c
    <3>2. family[q].child # c
      BY <2>3, <3>1, <1>b DEF ChildInv, FamilyInv, c
    <3>3. family[q].child \in 1 .. MaxBirths
      BY <2>3, <3>1, ChildSets, ChildAssumption DEF Numbers
    <3> QED  BY <2>3, <3>1, <3>2, <3>3, <1>g DEF ChildInv, FamilyInv
  <2>4. ASSUME NEW d \in 1 .. MaxBirths, d > births' PROVE reaped'[d] = 0
    <3>1. d # c
      BY <2>4, <1>a, <1>b, ChildSets, ChildAssumption
         DEF ChildInv, FamilyInv, Numbers, c
    <3> QED  BY <3>1, <2>4, <1>a, <1>g DEF ChildInv, FamilyInv
  <2> QED  BY <1>a, <2>1, <2>2, <2>3, <2>4 DEF ChildInv, FamilyInv
<1>4. KnownInv'
  <2>1. ASSUME NEW o \in Parents, o # t, o \in robbed' PROVE known[o] # NoChild
    <3>1. CASE o \in robbed
      BY <3>1 DEF ChildInv, KnownInv
    <3>2. CASE known[o].child # 0
      BY <3>2 DEF NoChild
    <3> QED  BY <2>1, <3>1, <3>2, <1>a
  <2> QED  BY <2>1, <1>a, <1>d, <1>f, Answered DEF ChildInv, KnownInv
<1> QED  BY <1>1, <1>2, <1>3, <1>4 DEF ChildInv

LEMMA ChildNextInv == ChildInv /\ ChildNext => ChildInv'
BY BearChildInv, TurnChildInv, ChildEndsInv, AskInv, WaitProcessChildrenInv,
   LookAtChildInv, ReapProcessChildInv DEF ChildNext

LEMMA ChildStutterInv == ChildInv /\ UNCHANGED childVars => ChildInv'
BY DEF childVars, ChildInv, ChildTypeOK, ChildrenKept, FamilyInv, KnownInv

----------------------------------------------------------------------------
\* Signal actions and what watches them (ProcessWatches)

\* No assertion has failed.
Unbroken == broken = ""

WatchNames == Signals \cup Watches \cup Actions \cup {""}

LEMMA SignalFacts ==
    /\ Signals = {"CONT", "TSTP", "CHLD", "ALRM", "HUP", "TERM", "PIPE"}
    /\ ActionWatches["CONT"] = "cont" /\ ActionWatches["TSTP"] = "stop"
    /\ ActionWatches["CHLD"] = "chld" /\ ActionWatches["ALRM"] = "clock"
    /\ ActionWatches["HUP"] = "signals" /\ ActionWatches["TERM"] = "signals"
    /\ ActionWatches["PIPE"] = "pipe"
    /\ Watches = {"cont", "stop", "chld", "clock", "signals", "pipe"}
    /\ LockedWatches = {"cont", "stop"}
    /\ SavingSignals = {"ALRM", "HUP", "TERM", "PIPE"}
    /\ \A s \in Signals : ActionWatches[s] \in Watches
    /\ Watched("chld") = {"CHLD"} /\ Watched("clock") = {"ALRM"}
    /\ Watched("signals") = {"HUP", "TERM"} /\ Watched("pipe") = {"PIPE"}
    /\ Watched("cont") = {"CONT"} /\ Watched("stop") = {"TSTP"}
<1>1. Signals = {"CONT", "TSTP", "CHLD", "ALRM", "HUP", "TERM", "PIPE"}
  BY DEF Signals, ActionWatches
<1>2. /\ ActionWatches["CONT"] = "cont" /\ ActionWatches["TSTP"] = "stop"
      /\ ActionWatches["CHLD"] = "chld" /\ ActionWatches["ALRM"] = "clock"
      /\ ActionWatches["HUP"] = "signals" /\ ActionWatches["TERM"] = "signals"
      /\ ActionWatches["PIPE"] = "pipe"
  BY DEF ActionWatches
<1>3. Watches = {"cont", "stop", "chld", "clock", "signals", "pipe"}
  BY <1>1, <1>2 DEF Watches
<1>4. \A s \in Signals : ActionWatches[s] \in Watches
  BY <1>1, <1>2, <1>3
<1>5. /\ Watched("chld") = {"CHLD"} /\ Watched("clock") = {"ALRM"}
      /\ Watched("signals") = {"HUP", "TERM"} /\ Watched("pipe") = {"PIPE"}
      /\ Watched("cont") = {"CONT"} /\ Watched("stop") = {"TSTP"}
  BY <1>1, <1>2 DEF Watched
<1> QED  BY <1>1, <1>2, <1>3, <1>4, <1>5 DEF LockedWatches, SavingSignals

\* A step leaves the first n steps of a call behind.
LEMMA DropKept ==
    ASSUME UnwatchLeft, NEW n \in Nat, todo \in Seq(WatchSteps), todo' \in Seq(WatchSteps),
           n <= Len(todo), Len(todo') = Len(todo) - n,
           \A i \in 1 .. Len(todo') : todo'[i] = todo[i + n],
           failed => failed',
           \A s \in Signals : ActionWatches[s] \notin LockedWatches =>
              (Stopped(s) \/ Refuses(s) => Stopped(s)' \/ Refuses(s)'),
           \A s \in Signals : EndsWell(s) => EndsWell(s)' \/ failed',
           \A s \in Signals : \A j \in 1 .. n :
              todo[j][1] \in {"change", "restore"} /\ todo[j][2] = s =>
                 /\ EndsWell(s)' \/ failed'
                 /\ s # "ALRM" \/ j = n => Stopped(s)' \/ Refuses(s)',
           \A s \in {"ALRM", "PIPE"} : saved[s] # "none" =>
              saved'[s] # "none" \/ \E j \in 1 .. n : todo[j][1] = "restore" /\ todo[j][2] = s
    PROVE  UnwatchLeft'
<1> SUFFICES ASSUME NEW i \in 1 .. Len(todo') PROVE StepKept(todo, i, failed)'
  BY DEF UnwatchLeft
<1> DEFINE k == i + n
<1>1. /\ Len(todo) \in Nat /\ Len(todo') \in Nat /\ k \in 1 .. Len(todo) /\ todo'[i] = todo[k]
      /\ k - n = i /\ k >= i
  BY LenProperties
<1>2. StepKept(todo, k, failed)
  BY <1>1 DEF UnwatchLeft
<1>3. \A s \in Signals : Given(todo, k, s) =>
           \/ Given(todo, i, s)'
           \/ \E j \in 1 .. n : todo[j][1] \in {"change", "restore"} /\ todo[j][2] = s
  <2> SUFFICES ASSUME NEW s \in Signals, NEW j \in 1 .. k - 1, j > n,
                      todo[j][1] \in {"change", "restore"}, todo[j][2] = s
               PROVE  Given(todo, i, s)'
    BY <1>1 DEF Given
  <2>1. j - n \in 1 .. i - 1 /\ j - n \in 1 .. Len(todo')
    BY <1>1, SMTT(30)
  <2>2. todo'[j - n] = todo[j]
    BY <2>1
  <2> QED  BY <2>1, <2>2 DEF Given
<1> DEFINE do == todo[k][1]
           x  == todo[k][2]
           y  == todo[k][3]
<1>4. /\ do \in {"update", "method", "change", "restore", "disarm", "ended", "job", "check",
                 "ensure", "closed"}
      /\ do = "update" => x \in LockedWatches /\ y = "nil"
      /\ do = "change" => x = "CHLD" /\ y = "default"
      /\ do = "restore" => x \in SavingSignals
  BY <1>2 DEF StepKept
<1>5. do = "restore" /\ x = "ALRM" => i < Len(todo') /\ todo'[i + 1] = SetMethod("clock", "nil")
  <2> SUFFICES ASSUME do = "restore", x = "ALRM"
               PROVE  i < Len(todo') /\ todo'[i + 1] = SetMethod("clock", "nil")
    OBVIOUS
  <2>1. k < Len(todo) /\ todo[k + 1] = SetMethod("clock", "nil")
    BY <1>2 DEF StepKept
  <2>2. i + 1 \in 1 .. Len(todo') /\ (i + 1) + n = k + 1
    BY <1>1, <2>1, SMTT(30)
  <2>3. todo'[i + 1] = todo[(i + 1) + n]
    BY <2>2
  <2> QED  BY <1>1, <2>1, <2>2, <2>3
<1>6. do = "restore" /\ x \in {"ALRM", "PIPE"} =>
           /\ saved'[x] # "none"
           /\ \A j \in 1 .. Len(todo') : todo'[j][1] = "restore" /\ todo'[j][2] = x => j = i
  <2> SUFFICES ASSUME do = "restore", x \in {"ALRM", "PIPE"}
               PROVE  /\ saved'[x] # "none"
                      /\ \A j \in 1 .. Len(todo') :
                            todo'[j][1] = "restore" /\ todo'[j][2] = x => j = i
    OBVIOUS
  <2>1. /\ saved[x] # "none"
        /\ \A j \in 1 .. Len(todo) : todo[j][1] = "restore" /\ todo[j][2] = x => j = k
    BY <1>2 DEF StepKept
  <2>2. saved'[x] # "none"
    <3> SUFFICES ASSUME NEW j \in 1 .. n, todo[j][1] = "restore", todo[j][2] = x PROVE FALSE
      BY <2>1
    <3>1. j \in 1 .. Len(todo) /\ j # k
      BY <1>1
    <3> QED  BY <2>1, <3>1
  <2>3. ASSUME NEW j \in 1 .. Len(todo'), todo'[j][1] = "restore", todo'[j][2] = x PROVE j = i
    <3>1. j + n \in 1 .. Len(todo) /\ todo[j + n] = todo'[j]
      BY <1>1
    <3>2. j + n = k
      BY <2>1, <2>3, <3>1
    <3> QED  BY <1>1, <3>2
  <2> QED  BY <2>2, <2>3
<1>7. do = "method" =>
           /\ x \in {"chld", "clock", "signals"} /\ y = "nil"
           /\ \A s \in Watched(x) :
                \/ Stopped(s)' \/ Refuses(s)'
                \/ IF x = "clock" THEN i > 1 /\ todo'[i - 1] = Restore(s) ELSE Given(todo, i, s)'
  <2> SUFFICES ASSUME do = "method", NEW s \in Watched(x)
               PROVE  /\ x \in {"chld", "clock", "signals"} /\ y = "nil"
                      /\ \/ Stopped(s)' \/ Refuses(s)'
                         \/ IF x = "clock" THEN i > 1 /\ todo'[i - 1] = Restore(s)
                            ELSE Given(todo, i, s)'
    BY <1>2, SignalFacts DEF StepKept
  <2>1. /\ x \in {"chld", "clock", "signals"} /\ y = "nil"
        /\ \/ Stopped(s) \/ Refuses(s)
           \/ IF x = "clock" THEN k > 1 /\ todo[k - 1] = Restore(s) ELSE Given(todo, k, s)
    BY <1>2 DEF StepKept
  <2>2. /\ s \in Signals /\ ActionWatches[s] \notin LockedWatches
        /\ (x = "clock" <=> s = "ALRM")
    BY <2>1, SignalFacts
  <2>3. CASE Stopped(s) \/ Refuses(s)
    BY <2>1, <2>2, <2>3
  <2>4. CASE x = "clock" /\ k > 1 /\ todo[k - 1] = Restore(s)
    <3>1. todo[k - 1][1] = "restore" /\ todo[k - 1][2] = s
      <4>1. todo[k - 1] = <<"restore", s, "">>
        BY <2>4 DEF Restore
      <4>2. <<"restore", s, "">>[1] = "restore" /\ <<"restore", s, "">>[2] = s
        OBVIOUS
      <4> QED  BY ONLY <4>1, <4>2
    <3>2. CASE i = 1
      <4>1. n \in 1 .. n /\ n = k - 1
        BY <1>1, <2>4, <3>2
      <4> QED  BY <2>1, <2>2, <3>1, <4>1
    <3>3. CASE i > 1
      <4>1. i - 1 \in 1 .. Len(todo') /\ (i - 1) + n = k - 1
        BY <1>1, <3>3, SMTT(30)
      <4>2. todo'[i - 1] = todo[(i - 1) + n]
        BY <4>1
      <4> QED  BY <2>1, <2>4, <3>3, <4>1, <4>2
    <3> QED  BY <1>1, <3>2, <3>3
  <2>5. CASE x # "clock" /\ Given(todo, k, s)
    BY <1>3, <2>1, <2>2, <2>5
  <2> QED  BY <2>1, <2>3, <2>4, <2>5
<1>8. do = "ended" => x \in Watches /\ \A s \in Watched(x) :
                        failed' \/ Given(todo, i, s)' \/ EndsWell(s)'
  <2> SUFFICES ASSUME do = "ended", NEW s \in Watched(x)
               PROVE  x \in Watches /\ (failed' \/ Given(todo, i, s)' \/ EndsWell(s)')
    BY <1>2 DEF StepKept
  <2>1. x \in Watches /\ (failed \/ Given(todo, k, s) \/ EndsWell(s)) /\ s \in Signals
    BY <1>2, SignalFacts DEF StepKept, Watched
  <2> QED  BY <1>3, <2>1
<1> HIDE DEF k
<1> QED  BY <1>1, <1>4, <1>5, <1>6, <1>7, <1>8 DEF StepKept, SetMethod, Restore

LEMMA StayKept ==
    ASSUME UnwatchLeft, todo \in Seq(WatchSteps), todo' = todo, failed' = failed, saved' = saved,
           \A s \in Signals : (Stopped(s) => Stopped(s)') /\ (EndsWell(s) => EndsWell(s)'),
           \A s \in Signals : Refuses(s)' <=> Refuses(s)
    PROVE  UnwatchLeft'
<1>1. Len(todo) \in Nat /\ 0 <= Len(todo) /\ Len(todo') = Len(todo) - 0
  BY LenProperties
<1>2. \A i \in 1 .. Len(todo') : todo'[i] = todo[i + 0]
  BY <1>1
<1>3. 0 \in Nat /\ \A j \in 1 .. 0 : FALSE
  OBVIOUS
<1>4. /\ \A s \in Signals : ActionWatches[s] \notin LockedWatches =>
              (Stopped(s) \/ Refuses(s) => Stopped(s)' \/ Refuses(s)')
      /\ \A s \in Signals : EndsWell(s) => EndsWell(s)' \/ failed'
      /\ \A s \in {"ALRM", "PIPE"} : saved[s] # "none" => saved'[s] # "none"
      /\ todo' \in Seq(WatchSteps) /\ (failed => failed')
  OBVIOUS
<1> QED  BY <1>1, <1>2, <1>3, <1>4, DropKept

LEMMA NoKeep ==
    ASSUME UnwatchLeft
    PROVE  (\A s : ~Pending(s)) /\ ~Arming
BY DEF UnwatchLeft, StepKept, Pending, Arming

LEMMA WatchTypes ==
    WatchTypeOK <=>
        /\ kernel \in [Signals -> Actions \ {"watch"}]
        /\ vector \in [Signals -> Actions \ {"restart"}]
        /\ methods \in [Watches -> {"nil", "user", "job"}]
        /\ saved \in [SavingSignals -> (Actions \ {"watch"}) \cup {"none"}]
        /\ marked \subseteq {"HUP", "TERM"}
        /\ period \in BOOLEAN /\ timer \in BOOLEAN /\ failed \in BOOLEAN
        /\ job \subseteq JobWatches /\ on \subseteq Watches /\ twice \subseteq Signals
        /\ users \in [Signals -> Actions \ {"watch", "dispatch"}]
        /\ running \in [WatchThreads ->
             {Nobody} \cup [signal : Signals, stage : {"entered", "action", "method"}]]
        /\ todo \in Seq(WatchSteps)
BY DEF WatchTypeOK

\* A step of a handler, which changes no action: no handler of a watch starts running but by
\* the action of the watch.
LEMMA FramesInv ==
    ASSUME WatchInv, Unbroken,
           UNCHANGED <<kernel, vector, methods, saved, marked, period, timer, job, todo, failed,
                       on, twice, users>>,
           running' \in [WatchThreads ->
             {Nobody} \cup [signal : Signals, stage : {"entered", "action", "method"}]],
           \A s \in Signals : Stopped(s) => Stopped(s)',
           \A w \in LockedWatches : InMethod(w)' # {} => methods[w] # "nil",
           AbortsInv'
    PROVE  WatchInv'
<1>1. WatchTypeOK'
  BY DEF WatchInv, WatchTypeOK
<1>2. /\ \A s \in Signals : (Refuses(s)' <=> Refuses(s)) /\ (OwnKept(s)' <=> OwnKept(s))
      /\ \A s \in Signals : Effective(s)' = Effective(s)
      /\ \A s : Pending(s)' <=> Pending(s)
      /\ Arming' <=> Arming
  BY DEF Refuses, OwnKept, Effective, Pending, Arming
<1>3. TodoInv'
  <2>1. CASE UnwatchLeft
    <3>1. todo \in Seq(WatchSteps) /\ Len(todo) \in Nat
      BY LenProperties, WatchTypes DEF WatchInv
    <3>2. \A s \in Signals : EndsWell(s) => EndsWell(s)'
      BY <1>2 DEF EndsWell
    <3>3. \A i \in 1 .. Len(todo') : todo'[i] = todo[i + 0]
      BY <3>1
    <3> QED  BY <1>2, <2>1, <3>1, <3>2, <3>3, DropKept DEF TodoInv
  <2>2. CASE ~failed /\ \E w \in on : WatchLeft(w)
    BY <2>2 DEF TodoInv, WatchLeft
  <2>3. CASE ~failed /\ ArmLeft
    BY <2>3 DEF TodoInv, ArmLeft
  <2> QED  BY <2>1, <2>2, <2>3 DEF WatchInv, TodoInv
<1>4. MethodsInv'
  BY <1>2 DEF WatchInv, MethodsInv
<1>5. SavedInv'
  BY <1>2, SignalFacts DEF WatchInv, SavedInv, Unbroken
<1>6. UsersInv'
  <2> SUFFICES ASSUME NEW s \in SavingSignals \ twice
               PROVE  /\ ActionWatches[s] \notin on \/ Pending(s) => OwnKept(s)
                      /\ ActionWatches[s] \in on /\ ~Pending(s) /\ ~(s = "ALRM" /\ Arming) =>
                           \/ users[s] = "restart" \/ saved[s] = users[s]
                           \/ /\ s \in {"ALRM", "PIPE"} /\ saved[s] = "none"
                              /\ Effective(s) = users[s]
    BY <1>2, SignalFacts DEF UsersInv
  <2> QED  BY DEF WatchInv, UsersInv
<1> QED  BY <1>1, <1>3, <1>4, <1>5, <1>6 DEF WatchInv

LEMMA FrameFacts ==
    ASSUME WatchTypeOK, NEW t \in WatchThreads
    PROVE  /\ Nobody.stage = "none"
           /\ \/ running[t] = Nobody
              \/ /\ running[t].signal \in Signals
                 /\ running[t].stage \in {"entered", "action", "method"}
                 /\ running[t] \in [signal : Signals, stage : {"entered", "action", "method"}]
<1>1. running[t] \in {Nobody} \cup [signal : Signals, stage : {"entered", "action", "method"}]
  BY DEF WatchTypeOK
<1> QED  BY <1>1 DEF Nobody

\* A thread goes on to frame f.
LEMMA FrameStep ==
    ASSUME WatchTypeOK, NEW t \in WatchThreads,
           NEW f \in {Nobody} \cup [signal : Signals, stage : {"entered", "action", "method"}],
           running' = [running EXCEPT ![t] = f]
    PROVE  /\ running' \in [WatchThreads ->
                {Nobody} \cup [signal : Signals, stage : {"entered", "action", "method"}]]
           /\ running'[t] = f /\ \A u \in WatchThreads : u # t => running'[u] = running[u]
           /\ \A s : f.signal # s \/ f.stage \notin {"action", "method"} =>
                InAction(s)' \subseteq InAction(s)
           /\ \A w : f.stage # "method" \/ ActionWatches[f.signal] # w =>
                InMethod(w)' \subseteq InMethod(w)
<1>1. /\ running' \in [WatchThreads ->
           {Nobody} \cup [signal : Signals, stage : {"entered", "action", "method"}]]
      /\ running'[t] = f /\ \A u \in WatchThreads : u # t => running'[u] = running[u]
  BY DEF WatchTypeOK
<1>2. \A s : f.signal # s \/ f.stage \notin {"action", "method"} =>
                InAction(s)' \subseteq InAction(s)
  BY <1>1 DEF InAction
<1>3. \A w : f.stage # "method" \/ ActionWatches[f.signal] # w =>
                InMethod(w)' \subseteq InMethod(w)
  BY <1>1 DEF InMethod
<1> QED  BY <1>1, <1>2, <1>3

LEMMA DeliverWatchedInv ==
    ASSUME WatchInv, NEW t \in WatchThreads, NEW s \in Signals, DeliverWatched(t, s)
    PROVE  WatchInv'
<1> DEFINE f == [signal |-> s, stage |-> "entered"]
<1>1. /\ running' = [running EXCEPT ![t] = f] /\ broken' = broken /\ broken = ""
      /\ UNCHANGED <<kernel, vector, methods, saved, marked, period, timer, job, todo, failed,
                       on, twice, users>>
      /\ f \in [signal : Signals, stage : {"entered", "action", "method"}] /\ f.stage = "entered"
  BY DEF DeliverWatched, RestOfWatch, Frames
<1>2. WatchTypeOK
  BY DEF WatchInv
<1> HIDE DEF f
<1>3. /\ running' \in [WatchThreads ->
           {Nobody} \cup [signal : Signals, stage : {"entered", "action", "method"}]]
      /\ \A x \in Signals : InAction(x)' \subseteq InAction(x)
      /\ \A w : InMethod(w)' \subseteq InMethod(w)
  BY <1>1, <1>2, FrameStep
<1>4. AbortsInv'
  BY <1>1 DEF WatchInv, AbortsInv, WatchAborts, Refused
<1>5. /\ \A x \in Signals : Stopped(x) => Stopped(x)'
      /\ \A w \in LockedWatches : InMethod(w)' # {} => methods[w] # "nil"
  BY <1>1, <1>3 DEF Stopped, WatchInv, MethodsInv
<1> QED  BY <1>1, <1>3, <1>4, <1>5, FramesInv DEF Unbroken

LEMMA RunActionInv ==
    ASSUME WatchInv, NEW t \in WatchThreads, RunAction(t)
    PROVE  WatchInv'
<1> DEFINE s == running[t].signal
           f == [running[t] EXCEPT !.stage = "action"]
<1>1. /\ broken = "" /\ running[t].stage = "entered" /\ InAction(s) = {}
      /\ UNCHANGED <<kernel, vector, methods, saved, marked, period, timer, job, todo, failed,
                       on, twice, users>>
      /\ WatchTypeOK
  BY DEF RunAction, RestOfWatch, WatchInv
<1>2. /\ s \in Signals /\ running[t] # Nobody
      /\ f \in [signal : Signals, stage : {"entered", "action", "method"}]
      /\ f.stage = "action" /\ f.signal = s
  BY <1>1, FrameFacts
<1>3. CASE vector[s] = "dispatch" /\ broken' = "dispatcher" /\ UNCHANGED running
  <2>1. s \in twice
    BY <1>2, <1>3 DEF WatchInv, SavedInv
  <2>2. AbortsInv'
    BY <1>1, <1>3, <2>1 DEF AbortsInv, WatchAborts
  <2>3. /\ \A x \in Signals : Stopped(x) => Stopped(x)'
        /\ \A w \in LockedWatches : InMethod(w)' # {} => methods[w] # "nil"
    BY <1>1, <1>3 DEF Stopped, InAction, InMethod, WatchInv, MethodsInv
  <2>4. running' \in [WatchThreads ->
           {Nobody} \cup [signal : Signals, stage : {"entered", "action", "method"}]]
    BY <1>1, <1>3 DEF WatchTypeOK
  <2> QED  BY <1>1, <1>3, <2>2, <2>3, <2>4, FramesInv DEF Unbroken
<1>4. CASE vector[s] = "watch" /\ UNCHANGED broken /\ running' = [running EXCEPT ![t] = f]
  <2> HIDE DEF f
  <2>1. /\ running' \in [WatchThreads ->
             {Nobody} \cup [signal : Signals, stage : {"entered", "action", "method"}]]
        /\ \A x \in Signals : x # s => InAction(x)' \subseteq InAction(x)
        /\ \A w : InMethod(w)' \subseteq InMethod(w)
    BY <1>1, <1>2, <1>4, FrameStep
  <2>2. AbortsInv'
    BY <1>1, <1>4 DEF WatchInv, AbortsInv, WatchAborts, Refused
  <2>3. \A x \in Signals : Stopped(x) => Stopped(x)'
    BY <1>1, <1>4, <2>1 DEF Stopped
  <2>4. \A w \in LockedWatches : InMethod(w)' # {} => methods[w] # "nil"
    BY <2>1 DEF WatchInv, MethodsInv
  <2> QED  BY <1>1, <2>1, <2>2, <2>3, <2>4, FramesInv DEF Unbroken
<1>5. CASE running' = [running EXCEPT ![t] = Nobody] /\ UNCHANGED broken
  <2>1. Nobody.stage = "none"
    BY DEF Nobody
  <2>2. /\ running' \in [WatchThreads ->
             {Nobody} \cup [signal : Signals, stage : {"entered", "action", "method"}]]
        /\ \A x \in Signals : InAction(x)' \subseteq InAction(x)
        /\ \A w : InMethod(w)' \subseteq InMethod(w)
    BY <1>1, <1>5, <2>1, FrameStep
  <2>3. AbortsInv'
    BY <1>1, <1>5 DEF WatchInv, AbortsInv, WatchAborts, Refused
  <2>4. /\ \A x \in Signals : Stopped(x) => Stopped(x)'
        /\ \A w \in LockedWatches : InMethod(w)' # {} => methods[w] # "nil"
    BY <1>1, <2>2 DEF Stopped, WatchInv, MethodsInv
  <2> QED  BY <1>1, <2>2, <2>3, <2>4, FramesInv DEF Unbroken
<1> QED  BY <1>3, <1>4, <1>5 DEF RunAction, Frames

LEMMA LookUpMethodInv ==
    ASSUME WatchInv, NEW t \in WatchThreads, LookUpMethod(t)
    PROVE  WatchInv'
<1> DEFINE s == running[t].signal
           w == ActionWatches[s]
           f == [running[t] EXCEPT !.stage = "method"]
<1>1. /\ broken = "" /\ broken' = "" /\ running[t].stage = "action"
      /\ UNCHANGED <<kernel, vector, methods, saved, marked, period, timer, job, todo, failed,
                       on, twice, users>>
      /\ WatchTypeOK
  BY DEF LookUpMethod, RestOfWatch, WatchInv
<1>2. /\ s \in Signals /\ running[t] # Nobody
      /\ f \in [signal : Signals, stage : {"entered", "action", "method"}]
      /\ f.stage = "method" /\ f.signal = s /\ Nobody.stage = "none"
  BY <1>1, FrameFacts
<1>3. AbortsInv'
  BY <1>1 DEF WatchInv, AbortsInv, WatchAborts, Refused
<1>4. CASE methods[w] = "nil" /\ running' = [running EXCEPT ![t] = Nobody]
  <2>1. /\ running' \in [WatchThreads ->
             {Nobody} \cup [signal : Signals, stage : {"entered", "action", "method"}]]
        /\ \A x \in Signals : InAction(x)' \subseteq InAction(x)
        /\ \A v : InMethod(v)' \subseteq InMethod(v)
    BY <1>1, <1>2, <1>4, FrameStep
  <2>2. /\ \A x \in Signals : Stopped(x) => Stopped(x)'
        /\ \A v \in LockedWatches : InMethod(v)' # {} => methods[v] # "nil"
    BY <1>1, <2>1 DEF Stopped, WatchInv, MethodsInv
  <2> QED  BY <1>1, <1>3, <2>1, <2>2, FramesInv DEF Unbroken
<1>5. CASE methods[w] # "nil" /\ running' = [running EXCEPT ![t] = f]
  <2>0. ActionWatches[f.signal] = w
    BY <1>2
  <2> HIDE DEF f, w
  <2>1. /\ running' \in [WatchThreads ->
             {Nobody} \cup [signal : Signals, stage : {"entered", "action", "method"}]]
        /\ \A x \in Signals : x # s => InAction(x)' \subseteq InAction(x)
        /\ \A v : v # w => InMethod(v)' \subseteq InMethod(v)
    BY <1>1, <1>2, <1>5, <2>0, FrameStep
  <2>2. ~Stopped(s)
    BY <1>1 DEF Stopped, InAction
  <2>3. /\ \A x \in Signals : Stopped(x) => Stopped(x)'
        /\ \A v \in LockedWatches : InMethod(v)' # {} => methods[v] # "nil"
    BY <1>1, <1>5, <2>1, <2>2 DEF Stopped, WatchInv, MethodsInv
  <2> QED  BY <1>1, <1>3, <2>1, <2>3, FramesInv DEF Unbroken
<1> QED  BY <1>1, <1>4, <1>5 DEF LookUpMethod, Frames

LEMMA RunMethodInv ==
    ASSUME WatchInv, NEW t \in WatchThreads, RunMethod(t)
    PROVE  WatchInv'
<1> DEFINE s == running[t].signal
           w == ActionWatches[s]
<1>1. /\ broken = "" /\ running[t].stage = "method"
      /\ UNCHANGED <<kernel, vector, methods, saved, marked, period, timer, job, todo, failed,
                       on, twice, users>>
      /\ WatchTypeOK
  BY DEF RunMethod, RestOfWatch, WatchInv
<1>2. s \in Signals /\ running[t] # Nobody /\ Nobody.stage = "none"
  BY <1>1, FrameFacts
<1>3. CASE methods[w] = "nil" /\ broken' = "method" /\ UNCHANGED running
  <2>1. InMethod(w) # {} /\ ~Stopped(s)
    BY <1>1 DEF InMethod, Stopped, InAction
  <2>2. w \notin LockedWatches
    BY <1>3, <2>1 DEF WatchInv, MethodsInv
  <2>3. Refuses(s)
    BY <1>2, <1>3, <2>1, <2>2 DEF WatchInv, MethodsInv
  <2>4. Refused("signals")'
    BY <1>1, <1>2, <2>3, SignalFacts DEF Refuses, Refused
  <2>5. AbortsInv'
    BY <1>3, <2>4 DEF AbortsInv, WatchAborts
  <2>6. /\ \A x \in Signals : Stopped(x) => Stopped(x)'
        /\ \A v \in LockedWatches : InMethod(v)' # {} => methods[v] # "nil"
        /\ running' \in [WatchThreads ->
             {Nobody} \cup [signal : Signals, stage : {"entered", "action", "method"}]]
    BY <1>1, <1>3 DEF Stopped, InAction, InMethod, WatchInv, MethodsInv, WatchTypeOK
  <2> QED  BY <1>1, <2>5, <2>6, FramesInv DEF Unbroken
<1>4. CASE running' = [running EXCEPT ![t] = Nobody] /\ UNCHANGED broken
  <2>1. /\ running' \in [WatchThreads ->
             {Nobody} \cup [signal : Signals, stage : {"entered", "action", "method"}]]
        /\ \A x \in Signals : InAction(x)' \subseteq InAction(x)
        /\ \A v : InMethod(v)' \subseteq InMethod(v)
    BY <1>1, <1>2, <1>4, FrameStep
  <2>2. AbortsInv'
    BY <1>1, <1>4 DEF WatchInv, AbortsInv, WatchAborts, Refused
  <2>3. /\ \A x \in Signals : Stopped(x) => Stopped(x)'
        /\ \A v \in LockedWatches : InMethod(v)' # {} => methods[v] # "nil"
    BY <1>1, <2>1 DEF Stopped, WatchInv, MethodsInv
  <2> QED  BY <1>1, <2>1, <2>2, <2>3, FramesInv DEF Unbroken
<1> QED  BY <1>3, <1>4 DEF RunMethod, Frames

LEMMA MethodWatchesInv ==
    ASSUME WatchInv, NEW t \in WatchThreads, NEW w \in WatchesUsed, MethodWatches(t, w)
    PROVE  WatchInv'
<1>1. /\ broken = "" /\ running[t].stage = "method" /\ methods[ActionWatches[running[t].signal]] # "nil"
      /\ UNCHANGED <<kernel, vector, saved, marked, period, timer, job, todo, failed, twice, users>>
      /\ WatchTypeOK /\ w \in Watches
  BY WatchAssumption, SignalFacts DEF MethodWatches, WatchInv
<1>2. running[t].signal \in Signals /\ running[t] # Nobody /\ Nobody.stage = "none"
  BY <1>1, FrameFacts
<1>3. CASE w \in LockedWatches /\ methods' = [methods EXCEPT ![w] = "user"]
           /\ on' = on \cup {w} /\ running' = [running EXCEPT ![t] = Nobody] /\ broken' = broken
  <2>1. /\ running' \in [WatchThreads ->
             {Nobody} \cup [signal : Signals, stage : {"entered", "action", "method"}]]
        /\ \A x \in Signals : InAction(x)' \subseteq InAction(x)
        /\ \A v : InMethod(v)' \subseteq InMethod(v)
    BY <1>1, <1>2, <1>3, FrameStep
  <2>2. /\ methods' \in [Watches -> {"nil", "user", "job"}] /\ methods'[w] = "user"
        /\ \A v \in Watches : v # w => methods'[v] = methods[v]
    BY <1>1, <1>3 DEF WatchTypeOK
  <2>3. WatchTypeOK'
    <3>1. on' \subseteq Watches
      BY <1>1, <1>3 DEF WatchTypeOK
    <3> QED  BY <1>1, <2>1, <2>2, <3>1 DEF WatchTypeOK
  <2>4. /\ \A x \in Signals : (Refuses(x)' <=> Refuses(x)) /\ (OwnKept(x)' <=> OwnKept(x))
        /\ \A x \in Signals : Effective(x)' = Effective(x)
        /\ \A x : Pending(x)' <=> Pending(x)
        /\ Arming' <=> Arming
        /\ \A x \in Signals : Stopped(x) => Stopped(x)'
        /\ \A x \in Signals : EndsWell(x) => EndsWell(x)'
    BY <1>1, <2>1 DEF Refuses, OwnKept, Effective, Pending, Arming, Stopped, EndsWell
  <2>5. /\ \A v \in Watches : v \notin LockedWatches =>
             methods'[v] = methods[v] /\ (v \in on' <=> v \in on)
        /\ \A x \in SavingSignals : ActionWatches[x] \in on' <=> ActionWatches[x] \in on
    BY <1>3, <2>2, SignalFacts
  <2>6. TodoInv'
    <3>1. CASE UnwatchLeft
      <4>1. todo \in Seq(WatchSteps) /\ Len(todo) \in Nat
        BY <1>1, LenProperties, WatchTypes
      <4>2. todo' = todo /\ failed' = failed /\ saved' = saved
        BY <1>1
      <4>3. UnwatchLeft'
        BY <2>4, <3>1, <4>1, <4>2, StayKept
      <4> QED  BY <4>3 DEF TodoInv
    <3>2. CASE ~failed /\ \E v \in on : WatchLeft(v)
      <4>1. PICK v \in on : WatchLeft(v)
        BY <3>2
      <4>2. WatchLeft(v)'
        BY <1>1, <2>5, <4>1, SignalFacts, ZenonT(40) DEF WatchLeft, SetMethod, ChangeKeeping, Change, Update
      <4> QED  BY <1>1, <1>3, <3>2, <4>1, <4>2 DEF TodoInv
    <3>3. CASE ~failed /\ ArmLeft
      <4>1. methods'["clock"] = methods["clock"] /\ ("clock" \in on' <=> "clock" \in on)
        BY <2>5, SignalFacts
      <4>2. ArmLeft'
        BY <1>1, <3>3, <4>1 DEF ArmLeft
      <4> QED  BY <1>1, <3>3, <4>2 DEF TodoInv
    <3> QED  BY <3>1, <3>2, <3>3 DEF WatchInv, TodoInv
  <2>7. MethodsInv'
    <3>1. ASSUME NEW v \in LockedWatches
          PROVE  (methods'[v] # "nil" => v \in on') /\ (InMethod(v)' # {} => methods'[v] # "nil")
      <4>1. v \in Watches
        BY SignalFacts
      <4> QED  BY <1>3, <2>1, <2>2, <4>1 DEF WatchInv, MethodsInv
    <3>2. ASSUME NEW x \in Signals, ActionWatches[x] \notin LockedWatches
          PROVE  \/ Stopped(x)' \/ Refuses(x)'
                 \/ ActionWatches[x] \in on' /\ methods'[ActionWatches[x]] # "nil"
      <4>1. ActionWatches[x] \in Watches
        BY SignalFacts
      <4> QED  BY <2>4, <2>5, <3>2, <4>1 DEF WatchInv, MethodsInv
    <3> QED  BY <3>1, <3>2 DEF MethodsInv
  <2>8. SavedInv'
    <3>1. "signals" \in on' <=> "signals" \in on
      BY <2>5, SignalFacts
    <3> QED  BY <1>1, <2>4, <2>5, <3>1, SignalFacts, ZenonT(40) DEF WatchInv, SavedInv
  <2>9. UsersInv'
    <3> SUFFICES ASSUME NEW s \in SavingSignals \ twice
                 PROVE  /\ ActionWatches[s] \notin on' \/ Pending(s)' => OwnKept(s)'
                        /\ ActionWatches[s] \in on' /\ ~Pending(s)' /\ ~(s = "ALRM" /\ Arming') =>
                             \/ users'[s] = "restart" \/ saved'[s] = users'[s]
                             \/ /\ s \in {"ALRM", "PIPE"} /\ saved'[s] = "none"
                                /\ Effective(s)' = users'[s]
      BY <1>1 DEF UsersInv
    <3>1. /\ s \in Signals /\ (ActionWatches[s] \in on' <=> ActionWatches[s] \in on)
          /\ (OwnKept(s)' <=> OwnKept(s)) /\ Effective(s)' = Effective(s)
          /\ (Pending(s)' <=> Pending(s)) /\ (Arming' <=> Arming)
      BY <2>4, <2>5, SignalFacts
    <3> QED  BY <1>1, <3>1 DEF WatchInv, UsersInv
  <2>10. AbortsInv'
    BY <1>1, <1>3 DEF WatchInv, AbortsInv, WatchAborts, Refused
  <2> QED  BY <2>3, <2>6, <2>7, <2>8, <2>9, <2>10 DEF WatchInv
<1>4. CASE broken' = "inMethod" /\ UNCHANGED <<methods, on, running>>
  <2>1. AbortsInv'
    BY <1>4 DEF AbortsInv, WatchAborts
  <2>2. /\ \A x \in Signals : Stopped(x) => Stopped(x)'
        /\ \A v \in LockedWatches : InMethod(v)' # {} => methods[v] # "nil"
        /\ running' \in [WatchThreads ->
             {Nobody} \cup [signal : Signals, stage : {"entered", "action", "method"}]]
    BY <1>1, <1>4 DEF Stopped, InAction, InMethod, WatchInv, MethodsInv, WatchTypeOK
  <2> QED  BY <1>1, <1>4, <2>1, <2>2, FramesInv DEF Unbroken
<1> QED  BY <1>3, <1>4 DEF MethodWatches, Frames

LEMMA EmptyTodo ==
    ASSUME todo = <<>>
    PROVE  UnwatchLeft /\ (\A s : ~Pending(s)) /\ ~Arming
BY DEF UnwatchLeft, Pending, Arming

LEMMA EmptyNext ==
    ASSUME todo' = <<>>
    PROVE  UnwatchLeft' /\ (\A s : ~Pending(s)') /\ ~Arming'
<1>1. 1 .. Len(todo') = {}
  OBVIOUS
<1> QED  BY <1>1 DEF UnwatchLeft, Pending, Arming

LEMMA OwnActionInv ==
    ASSUME WatchInv, NEW s \in SavingSignals, NEW a \in {"own", "restart"}, OwnAction(s, a)
    PROVE  WatchInv'
<1>1. /\ broken = "" /\ todo = <<>> /\ todo' = <<>> /\ failed' = FALSE
      /\ ActionWatches[s] \notin on
      /\ kernel' = [kernel EXCEPT ![s] = a] /\ users' = [users EXCEPT ![s] = a]
      /\ UNCHANGED <<vector, methods, saved, marked, period, timer, job, running, broken, on, twice>>
      /\ WatchTypeOK /\ s \in Signals
  BY SignalFacts DEF OwnAction, Begin, WatchInv
<1>2. /\ kernel' \in [Signals -> Actions \ {"watch"}] /\ kernel'[s] = a
      /\ \A x \in Signals : x # s => kernel'[x] = kernel[x]
      /\ users' \in [Signals -> Actions \ {"watch", "dispatch"}] /\ users'[s] = a
      /\ \A x \in Signals : x # s => users'[x] = users[x]
  BY <1>1 DEF WatchTypeOK, Actions
<1>3. /\ UnwatchLeft' /\ (\A x : ~Pending(x)') /\ ~Arming'
      /\ (\A x : ~Pending(x)) /\ ~Arming
  <2>1. (\A x : ~Pending(x)) /\ ~Arming
    BY <1>1, EmptyTodo
  <2> QED  BY <1>1, <2>1, EmptyNext
<1>4. /\ \A x \in Signals : (Refuses(x)' <=> Refuses(x)) /\ (Stopped(x)' <=> Stopped(x))
      /\ \A w : InMethod(w)' = InMethod(w)
      /\ \A x \in Signals : x # s => (OwnKept(x)' <=> OwnKept(x)) /\ Effective(x)' = Effective(x)
      /\ OwnKept(s)'
  BY <1>1, <1>2 DEF Refuses, Stopped, InAction, InMethod, OwnKept, Effective
<1>5. WatchTypeOK'
  BY <1>1, <1>2 DEF WatchTypeOK
<1>6. MethodsInv'
  BY <1>1, <1>4 DEF WatchInv, MethodsInv
<1>7. SavedInv'
  <2>1. \A x \in Signals : /\ kernel'[x] = "restart" => users'[x] = "restart"
                           /\ vector[x] = "dispatch" => x \in twice
    BY <1>2 DEF WatchInv, SavedInv
  <2>2. \A x \in {"HUP", "TERM"} :
             /\ x \notin marked => Stopped(x)' \/ Refuses(x)'
             /\ x \in marked => saved[x] # "none"
             /\ "signals" \in on => x \in marked \/ saved[x] = "restart"
    BY <1>3, <1>4, SignalFacts DEF WatchInv, SavedInv
  <2>3. (saved["ALRM"] = "none" => Stopped("ALRM")') /\ Stopped("PIPE")'
    BY <1>1, <1>3, <1>4, SignalFacts DEF WatchInv, SavedInv
  <2>4. \A x \in SavingSignals : saved[x] = "dispatch" => x \in twice
    BY DEF WatchInv, SavedInv
  <2>5. \A x \in {"ALRM", "PIPE"} : ActionWatches[x] \notin on => saved[x] = "none"
    BY DEF WatchInv, SavedInv
  <2> QED  BY <1>1, <2>1, <2>2, <2>3, <2>4, <2>5 DEF SavedInv
<1>8. UsersInv'
  <2> SUFFICES ASSUME NEW x \in SavingSignals \ twice
               PROVE  /\ ActionWatches[x] \notin on => OwnKept(x)'
                      /\ ActionWatches[x] \in on =>
                           \/ users'[x] = "restart" \/ saved[x] = users'[x]
                           \/ /\ x \in {"ALRM", "PIPE"} /\ saved[x] = "none"
                              /\ Effective(x)' = users'[x]
    BY <1>1, <1>3 DEF UsersInv
  <2>1. CASE x = s
    BY <1>1, <1>4, <2>1
  <2>2. CASE x # s
    BY <1>2, <1>3, <1>4, <2>2, SignalFacts DEF WatchInv, UsersInv
  <2> QED  BY <2>1, <2>2
<1>9. AbortsInv'
  BY <1>1 DEF WatchInv, AbortsInv, WatchAborts
<1> QED  BY <1>3, <1>5, <1>6, <1>7, <1>8, <1>9 DEF WatchInv, TodoInv

\* A sequence of steps that ends watches.
EndsWatches(q) == q \in Seq(WatchSteps) /\ \A i \in 1 .. Len(q) : StepKept(q, i, FALSE)
\* Does it put back one of the actions that are forgotten then?
Forgets(q) == \E i \in 1 .. Len(q) : q[i][1] = "restore" /\ q[i][2] \in {"ALRM", "PIPE"}

LEMMA JoinedEnds ==
    ASSUME NEW q, NEW r, EndsWatches(q), EndsWatches(r), ~Forgets(q) \/ ~Forgets(r)
    PROVE  EndsWatches(q \o r) /\ (Forgets(q \o r) => Forgets(q) \/ Forgets(r))
<1> DEFINE z == q \o r
<1>1. /\ q \in Seq(WatchSteps) /\ r \in Seq(WatchSteps) /\ z \in Seq(WatchSteps)
      /\ Len(q) \in Nat /\ Len(r) \in Nat /\ Len(z) = Len(q) + Len(r)
      /\ \A i \in 1 .. Len(z) : z[i] = IF i <= Len(q) THEN q[i] ELSE r[i - Len(q)]
  BY ConcatProperties, LenProperties DEF EndsWatches
<1> HIDE DEF z
<1>2. \A i \in 1 .. Len(q) : z[i] = q[i] /\ i \in 1 .. Len(z)
  BY <1>1
<1>3. \A i \in 1 .. Len(r) : z[i + Len(q)] = r[i] /\ i + Len(q) \in 1 .. Len(z)
  BY <1>1
<1>4. \A i \in 1 .. Len(z) : i \in 1 .. Len(q) \/ \E k \in 1 .. Len(r) : i = k + Len(q)
  <2> SUFFICES ASSUME NEW i \in 1 .. Len(z), i \notin 1 .. Len(q)
               PROVE  \E k \in 1 .. Len(r) : i = k + Len(q)
    OBVIOUS
  <2>1. i - Len(q) \in 1 .. Len(r) /\ i = (i - Len(q)) + Len(q)
    BY <1>1
  <2> QED  BY <2>1
<1>5. Forgets(z) => Forgets(q) \/ Forgets(r)
  <2> SUFFICES ASSUME NEW i \in 1 .. Len(z), z[i][1] = "restore", z[i][2] \in {"ALRM", "PIPE"}
               PROVE  Forgets(q) \/ Forgets(r)
    BY DEF Forgets
  <2>1. CASE i \in 1 .. Len(q)
    BY <1>2, <2>1 DEF Forgets
  <2>2. ASSUME NEW k \in 1 .. Len(r), i = k + Len(q) PROVE Forgets(r)
    <3>1. z[i] = r[k]
      BY <1>3, <2>2
    <3> QED  BY <3>1 DEF Forgets
  <2> QED  BY <1>4, <2>1, <2>2
<1>6. ASSUME NEW i \in 1 .. Len(q) PROVE StepKept(z, i, FALSE)
  <2> DEFINE x == q[i][2]
  <2>1. StepKept(q, i, FALSE) /\ z[i] = q[i]
    BY <1>2 DEF EndsWatches
  <2>2. \A s : Given(q, i, s) => Given(z, i, s)
    <3> SUFFICES ASSUME NEW s, NEW j \in 1 .. i - 1, q[j][1] \in {"change", "restore"}, q[j][2] = s
                 PROVE  Given(z, i, s)
      BY DEF Given
    <3>1. j \in 1 .. Len(q)
      BY <1>1
    <3>2. z[j] = q[j]
      BY <1>2, <3>1
    <3> QED  BY <3>2 DEF Given
  <2>3. q[i][1] = "restore" /\ x = "ALRM" => i < Len(z) /\ z[i + 1] = SetMethod("clock", "nil")
    <3> SUFFICES ASSUME q[i][1] = "restore", x = "ALRM"
                 PROVE  i < Len(z) /\ z[i + 1] = SetMethod("clock", "nil")
      OBVIOUS
    <3>1. i < Len(q) /\ q[i + 1] = SetMethod("clock", "nil")
      BY <2>1 DEF StepKept
    <3>2. i + 1 \in 1 .. Len(q) /\ i < Len(z)
      BY <1>1, <3>1
    <3>3. z[i + 1] = q[i + 1]
      BY <1>2, <3>2
    <3> QED  BY <3>1, <3>2, <3>3
  <2>4. q[i][1] = "restore" /\ x \in {"ALRM", "PIPE"} =>
             \A j \in 1 .. Len(z) : z[j][1] = "restore" /\ z[j][2] = x => j = i
    <3> SUFFICES ASSUME q[i][1] = "restore", x \in {"ALRM", "PIPE"}, NEW j \in 1 .. Len(z),
                        z[j][1] = "restore", z[j][2] = x
                 PROVE  j = i
      OBVIOUS
    <3>1. ~Forgets(r)
      BY DEF Forgets
    <3>2. j \in 1 .. Len(q)
      <4> SUFFICES ASSUME NEW k \in 1 .. Len(r), j = k + Len(q) PROVE FALSE
        BY <1>4
      <4>1. r[k] = z[j]
        BY <1>3
      <4> QED  BY <3>1, <4>1 DEF Forgets
    <3>3. q[j] = z[j]
      BY <1>2, <3>2
    <3> QED  BY <2>1, <3>2, <3>3 DEF StepKept
  <2>5. i > 1 => z[i - 1] = q[i - 1]
    <3> SUFFICES ASSUME i > 1 PROVE z[i - 1] = q[i - 1]
      OBVIOUS
    <3>1. i - 1 \in 1 .. Len(q)
      BY <1>1
    <3> QED  BY <1>2, <3>1
  <2> QED  BY <2>1, <2>2, <2>3, <2>4, <2>5 DEF StepKept
<1>7. ASSUME NEW k \in 1 .. Len(r) PROVE StepKept(z, k + Len(q), FALSE)
  <2> DEFINE i == k + Len(q)
             x == r[k][2]
  <2>1. StepKept(r, k, FALSE) /\ z[i] = r[k] /\ i \in 1 .. Len(z)
    BY <1>3 DEF EndsWatches
  <2>2. \A s : Given(r, k, s) => Given(z, i, s)
    <3> SUFFICES ASSUME NEW s, NEW j \in 1 .. k - 1, r[j][1] \in {"change", "restore"}, r[j][2] = s
                 PROVE  Given(z, i, s)
      BY DEF Given
    <3>1. j \in 1 .. Len(r) /\ j + Len(q) \in 1 .. i - 1
      BY <1>1
    <3>2. z[j + Len(q)] = r[j]
      BY <1>3, <3>1
    <3> QED  BY <3>1, <3>2 DEF Given
  <2>3. r[k][1] = "restore" /\ x = "ALRM" => i < Len(z) /\ z[i + 1] = SetMethod("clock", "nil")
    <3> SUFFICES ASSUME r[k][1] = "restore", x = "ALRM"
                 PROVE  i < Len(z) /\ z[i + 1] = SetMethod("clock", "nil")
      OBVIOUS
    <3>1. k < Len(r) /\ r[k + 1] = SetMethod("clock", "nil")
      BY <2>1 DEF StepKept
    <3>2. k + 1 \in 1 .. Len(r) /\ i < Len(z) /\ (k + 1) + Len(q) = i + 1
      <4>1. /\ k \in 1 .. Len(r) /\ k < Len(r) /\ Len(r) \in Nat /\ Len(q) \in Nat
            /\ Len(z) = Len(q) + Len(r) /\ i = k + Len(q)
        BY <1>1, <3>1
      <4> HIDE DEF i
      <4> QED  BY ONLY <4>1
    <3>3. z[(k + 1) + Len(q)] = r[k + 1]
      BY <1>3, <3>2
    <3> QED  BY <3>1, <3>2, <3>3
  <2>4. r[k][1] = "restore" /\ x \in {"ALRM", "PIPE"} =>
             \A j \in 1 .. Len(z) : z[j][1] = "restore" /\ z[j][2] = x => j = i
    <3> SUFFICES ASSUME r[k][1] = "restore", x \in {"ALRM", "PIPE"}, NEW j \in 1 .. Len(z),
                        z[j][1] = "restore", z[j][2] = x
                 PROVE  j = i
      OBVIOUS
    <3>1. ~Forgets(q)
      BY DEF Forgets
    <3>2. j \notin 1 .. Len(q)
      BY <1>2, <3>1 DEF Forgets
    <3>3. PICK l \in 1 .. Len(r) : j = l + Len(q)
      BY <1>4, <3>2
    <3>4. r[l] = z[j]
      BY <1>3, <3>3
    <3>5. l = k
      BY <2>1, <3>4 DEF StepKept
    <3> QED  BY <3>3, <3>5
  <2>5. k > 1 => i > 1 /\ z[i - 1] = r[k - 1]
    <3> SUFFICES ASSUME k > 1 PROVE i > 1 /\ z[i - 1] = r[k - 1]
      OBVIOUS
    <3>1. k - 1 \in 1 .. Len(r) /\ (k - 1) + Len(q) = i - 1 /\ i > 1
      BY <1>1
    <3>2. z[(k - 1) + Len(q)] = r[k - 1]
      BY <1>3, <3>1
    <3> QED  BY <3>1, <3>2
  <2> HIDE DEF i
  <2>6. StepKept(z, i, FALSE)
    BY <2>1, <2>2, <2>3, <2>4, <2>5 DEF StepKept
  <2> QED  BY <2>6 DEF i
<1>8. \A i \in 1 .. Len(z) : StepKept(z, i, FALSE)
  BY <1>4, <1>6, <1>7
<1>9. EndsWatches(z) /\ (Forgets(z) => Forgets(q) \/ Forgets(r))
  BY <1>1, <1>5, <1>8 DEF EndsWatches
<1> QED  BY <1>9 DEF z

\* A step at the end of a call.
LEMMA ResultEnds ==
    ASSUME NEW do \in {"job", "check", "ensure", "closed"}, NEW x \in WatchNames
    PROVE  EndsWatches(<<<<do, x, "">>>>) /\ ~Forgets(<<<<do, x, "">>>>)
<1> DEFINE q == <<<<do, x, "">>>>
<1>1. q \in Seq(WatchSteps) /\ Len(q) = 1 /\ q[1][1] = do /\ q[1][2] = x
  <2> DEFINE e == <<do, x, "">>
  <2>1. e \in WatchSteps /\ e[1] = do /\ e[2] = x
    BY DEF WatchSteps, WatchNames
  <2> HIDE DEF e
  <2>2. <<e>> \in Seq(WatchSteps) /\ Len(<<e>>) = 1 /\ <<e>>[1] = e
    BY <2>1
  <2> QED  BY <2>1, <2>2 DEF e
<1> HIDE DEF q
<1>2. \A i \in 1 .. Len(q) : i = 1
  BY <1>1
<1>3. do \notin {"restore", "update", "change", "method", "ended"}
  OBVIOUS
<1>4. StepKept(q, 1, FALSE)
  BY <1>1, <1>3 DEF StepKept
<1>5. EndsWatches(q) /\ ~Forgets(q)
  BY <1>1, <1>2, <1>3, <1>4 DEF EndsWatches, Forgets
<1> QED  BY <1>5 DEF q

LEMMA StepFacts ==
    ASSUME NEW do \in {"update", "method", "change", "keep", "arm", "disarm", "restore", "ended",
                       "job", "check", "ensure", "closed"},
           NEW x \in WatchNames, NEW y \in Actions \cup {"nil", "user", "job", ""}
    PROVE  /\ <<do, x, y>> \in WatchSteps
           /\ <<do, x, y>>[1] = do /\ <<do, x, y>>[2] = x /\ <<do, x, y>>[3] = y
BY DEF WatchSteps, WatchNames

LEMMA NameFacts == \A w \in Watches \cup Signals \cup Actions : w \in WatchNames
BY DEF WatchNames

LEMMA ShortSeqs ==
    ASSUME NEW a \in WatchSteps, NEW b \in WatchSteps, NEW c \in WatchSteps, NEW d \in WatchSteps
    PROVE  /\ <<a>> \in Seq(WatchSteps) /\ Len(<<a>>) = 1 /\ <<a>>[1] = a
           /\ <<a, b>> \in Seq(WatchSteps) /\ Len(<<a, b>>) = 2 /\ <<a, b>>[1] = a /\ <<a, b>>[2] = b
           /\ <<a, b, c>> \in Seq(WatchSteps) /\ Len(<<a, b, c>>) = 3
           /\ <<a, b, c>>[1] = a /\ <<a, b, c>>[2] = b /\ <<a, b, c>>[3] = c
           /\ <<a, b, c, d>> \in Seq(WatchSteps) /\ Len(<<a, b, c, d>>) = 4
           /\ <<a, b, c, d>>[1] = a /\ <<a, b, c, d>>[2] = b
           /\ <<a, b, c, d>>[3] = c /\ <<a, b, c, d>>[4] = d
OBVIOUS

\* What ends a watch by itself.
LEMMA UnwatchEnds ==
    ASSUME WatchInv, todo = <<>>, Unbroken, NEW w \in Watches
    PROVE  EndsWatches(Unwatch(w)) /\ (Forgets(Unwatch(w)) => w \in {"clock", "pipe"})
<1> DEFINE e == Ended(w)
<1>1. e \in WatchSteps /\ e[1] = "ended" /\ e[2] = w
  BY StepFacts, NameFacts DEF Ended
<1>2. /\ (\A s : ~Pending(s)) /\ ~Arming /\ WatchTypeOK
  BY EmptyTodo DEF WatchInv
<1> HIDE DEF e
<1>3. CASE w \in LockedWatches
  <2> DEFINE a == Update(w, "nil")
             q == <<a, e>>
  <2>1. a \in WatchSteps /\ a[1] = "update" /\ a[2] = w /\ a[3] = "nil"
    BY StepFacts, NameFacts DEF Update
  <2> HIDE DEF a
  <2>2. q \in Seq(WatchSteps) /\ Len(q) = 2 /\ q[1] = a /\ q[2] = e
    BY <1>1, <2>1, ShortSeqs
  <2> HIDE DEF q
  <2>3. StepKept(q, 1, FALSE)
    BY <1>3, <2>1, <2>2 DEF StepKept
  <2>4. \A s \in Watched(w) : EndsWell(s)
    BY <1>3 DEF EndsWell, Watched
  <2>5. StepKept(q, 2, FALSE)
    BY <1>1, <2>2, <2>4 DEF StepKept
  <2>6. \A i \in 1 .. Len(q) : i \in {1, 2}
    BY <2>2
  <2>7. EndsWatches(q) /\ ~Forgets(q)
    BY <1>1, <2>1, <2>2, <2>3, <2>5, <2>6 DEF EndsWatches, Forgets
  <2>8. w = "cont" \/ w = "stop"
    BY <1>3, SignalFacts
  <2>9. Unwatch(w) = q
    BY <1>3, <2>8 DEF Unwatch, q, a, e
  <2> QED  BY <2>7, <2>9
<1>4. CASE w = "chld"
  <2> DEFINE a == Change("CHLD", "default")
             b == SetMethod(w, "nil")
             q == <<a, b, e>>
  <2>1. /\ a \in WatchSteps /\ a[1] = "change" /\ a[2] = "CHLD" /\ a[3] = "default"
        /\ b \in WatchSteps /\ b[1] = "method" /\ b[2] = w /\ b[3] = "nil"
    BY StepFacts, NameFacts, SignalFacts DEF Change, SetMethod, Actions
  <2> HIDE DEF a, b
  <2>2. q \in Seq(WatchSteps) /\ Len(q) = 3 /\ q[1] = a /\ q[2] = b /\ q[3] = e
    BY <1>1, <2>1, ShortSeqs
  <2> HIDE DEF q
  <2>3. StepKept(q, 1, FALSE)
    BY <2>1, <2>2 DEF StepKept
  <2>4. Given(q, 2, "CHLD") /\ Given(q, 3, "CHLD")
    BY <2>1, <2>2 DEF Given
  <2>5. StepKept(q, 2, FALSE)
    BY <1>4, <2>1, <2>2, <2>4, SignalFacts DEF StepKept
  <2>6. StepKept(q, 3, FALSE)
    BY <1>1, <1>4, <2>1, <2>2, <2>4, SignalFacts DEF StepKept
  <2>7. \A i \in 1 .. Len(q) : i \in {1, 2, 3}
    BY <2>2
  <2>8. EndsWatches(q) /\ ~Forgets(q)
    BY <1>1, <2>1, <2>2, <2>3, <2>5, <2>6, <2>7 DEF EndsWatches, Forgets
  <2> QED  BY <1>4, <2>8, SignalFacts DEF Unwatch, q, a, b, e
<1>5. CASE w = "signals"
  <2> DEFINE a == Restore("HUP")
             b == Restore("TERM")
             c == SetMethod(w, "nil")
             q == <<a, b, c, e>>
  <2>1. /\ a \in WatchSteps /\ a[1] = "restore" /\ a[2] = "HUP"
        /\ b \in WatchSteps /\ b[1] = "restore" /\ b[2] = "TERM"
        /\ c \in WatchSteps /\ c[1] = "method" /\ c[2] = w /\ c[3] = "nil"
    BY StepFacts, NameFacts, SignalFacts DEF Restore, SetMethod
  <2> HIDE DEF a, b, c
  <2>2. q \in Seq(WatchSteps) /\ Len(q) = 4 /\ q[1] = a /\ q[2] = b /\ q[3] = c /\ q[4] = e
    BY <1>1, <2>1, ShortSeqs
  <2> HIDE DEF q
  <2>3. StepKept(q, 1, FALSE) /\ StepKept(q, 2, FALSE)
    BY <2>1, <2>2, SignalFacts DEF StepKept
  <2>4. Given(q, 3, "HUP") /\ Given(q, 3, "TERM") /\ Given(q, 4, "HUP") /\ Given(q, 4, "TERM")
    BY <2>1, <2>2 DEF Given
  <2>5. StepKept(q, 3, FALSE)
    BY <1>5, <2>1, <2>2, <2>4, SignalFacts DEF StepKept
  <2>6. StepKept(q, 4, FALSE)
    BY <1>1, <1>5, <2>1, <2>2, <2>4, SignalFacts DEF StepKept
  <2>7. \A i \in 1 .. Len(q) : i \in {1, 2, 3, 4}
    BY <2>2
  <2>8. EndsWatches(q) /\ ~Forgets(q)
    BY <1>1, <2>1, <2>2, <2>3, <2>5, <2>6, <2>7 DEF EndsWatches, Forgets
  <2> QED  BY <1>5, <2>8, SignalFacts DEF Unwatch, q, a, b, c, e
<1>6. ASSUME NEW s \in {"ALRM", "PIPE"}, ActionWatches[s] = w, saved[s] = "none"
      PROVE  EndsWatches(<<e>>) /\ ~Forgets(<<e>>)
  <2> DEFINE q == <<e>>
  <2>1. q \in Seq(WatchSteps) /\ Len(q) = 1 /\ q[1] = e
    BY <1>1, ShortSeqs
  <2> HIDE DEF q
  <2>2. Stopped(s)
    BY <1>2, <1>6 DEF WatchInv, SavedInv, Unbroken
  <2>3. s \in twice \/ OwnKept(s)
    <3> SUFFICES ASSUME s \notin twice PROVE OwnKept(s)
      OBVIOUS
    <3>1. /\ s \in SavingSignals \ twice /\ s \in Signals
          /\ users[s] # "none"
      BY <1>2, SignalFacts DEF WatchTypeOK, Actions
    <3>2. /\ ActionWatches[s] \notin on => OwnKept(s)
          /\ ActionWatches[s] \in on =>
               \/ users[s] = "restart" \/ saved[s] = users[s] \/ Effective(s) = users[s]
      BY <1>2, <3>1 DEF WatchInv, UsersInv
    <3> QED  BY <1>6, <3>1, <3>2 DEF OwnKept
  <2>4. Watched(w) = {s} /\ EndsWell(s)
    BY <1>6, <2>2, <2>3, SignalFacts DEF EndsWell
  <2>5. StepKept(q, 1, FALSE)
    BY <1>1, <2>1, <2>4 DEF StepKept
  <2>6. \A i \in 1 .. Len(q) : i = 1
    BY <2>1
  <2>7. EndsWatches(q) /\ ~Forgets(q)
    BY <1>1, <2>1, <2>5, <2>6 DEF EndsWatches, Forgets
  <2> QED  BY <2>7 DEF q
<1>7. CASE w = "clock"
  <2>1. CASE saved["ALRM"] = "none"
    <3>1. Unwatch(w) = <<e>>
      BY <1>7, <2>1, SignalFacts DEF Unwatch, e
    <3> QED  BY <1>6, <1>7, <2>1, <3>1, SignalFacts
  <2>2. CASE saved["ALRM"] # "none"
    <3> DEFINE a == <<"disarm", w, "">>
               b == Restore("ALRM")
               c == SetMethod(w, "nil")
               q == <<a, b, c, e>>
    <3>1. /\ a \in WatchSteps /\ a[1] = "disarm"
          /\ b \in WatchSteps /\ b[1] = "restore" /\ b[2] = "ALRM"
          /\ c \in WatchSteps /\ c[1] = "method" /\ c[2] = w /\ c[3] = "nil"
      BY StepFacts, NameFacts, SignalFacts DEF Restore, SetMethod
    <3>2. b = Restore("ALRM") /\ c = SetMethod("clock", "nil")
      BY <1>7
    <3> HIDE DEF a, b, c
    <3>3. q \in Seq(WatchSteps) /\ Len(q) = 4 /\ q[1] = a /\ q[2] = b /\ q[3] = c /\ q[4] = e
      BY <1>1, <3>1, ShortSeqs
    <3> HIDE DEF q
    <3>4. \A i \in 1 .. Len(q) : i \in {1, 2, 3, 4}
      BY <3>3
    <3>5. StepKept(q, 1, FALSE)
      BY <3>1, <3>3 DEF StepKept
    <3>6. StepKept(q, 2, FALSE)
      <4>1. \A j \in 1 .. Len(q) : q[j][1] = "restore" => j = 2
        BY <1>1, <3>1, <3>3, <3>4
      <4> QED  BY <2>2, <3>1, <3>2, <3>3, <4>1, SignalFacts DEF StepKept
    <3>7. StepKept(q, 3, FALSE)
      BY <1>7, <3>1, <3>2, <3>3, SignalFacts DEF StepKept
    <3>8. Given(q, 4, "ALRM")
      BY <3>1, <3>3 DEF Given
    <3>9. StepKept(q, 4, FALSE)
      BY <1>1, <1>7, <3>3, <3>8, SignalFacts DEF StepKept
    <3>10. EndsWatches(q)
      BY <3>3, <3>4, <3>5, <3>6, <3>7, <3>9 DEF EndsWatches
    <3>11. Unwatch(w) = q
      BY <1>7, <2>2, SignalFacts DEF Unwatch, q, a, b, c, e
    <3> QED  BY <1>7, <3>10, <3>11
  <2> QED  BY <2>1, <2>2
<1>8. CASE w = "pipe"
  <2>1. CASE saved["PIPE"] = "none"
    <3>1. Unwatch(w) = <<e>>
      BY <1>8, <2>1, SignalFacts DEF Unwatch, e
    <3> QED  BY <1>6, <1>8, <2>1, <3>1, SignalFacts
  <2>2. CASE saved["PIPE"] # "none"
    <3> DEFINE a == Restore("PIPE")
               q == <<a, e>>
    <3>1. a \in WatchSteps /\ a[1] = "restore" /\ a[2] = "PIPE"
      BY StepFacts, NameFacts, SignalFacts DEF Restore
    <3> HIDE DEF a
    <3>2. q \in Seq(WatchSteps) /\ Len(q) = 2 /\ q[1] = a /\ q[2] = e
      BY <1>1, <3>1, ShortSeqs
    <3> HIDE DEF q
    <3>3. \A i \in 1 .. Len(q) : i \in {1, 2}
      BY <3>2
    <3>4. StepKept(q, 1, FALSE)
      <4>1. \A j \in 1 .. Len(q) : q[j][1] = "restore" => j = 1
        BY <1>1, <3>1, <3>2, <3>3
      <4> QED  BY <2>2, <3>1, <3>2, <4>1, SignalFacts DEF StepKept
    <3>5. Given(q, 2, "PIPE")
      BY <3>1, <3>2 DEF Given
    <3>6. StepKept(q, 2, FALSE)
      BY <1>1, <1>8, <3>2, <3>5, SignalFacts DEF StepKept
    <3>7. EndsWatches(q)
      BY <3>2, <3>3, <3>4, <3>6 DEF EndsWatches
    <3>8. Unwatch(w) = q
      BY <1>8, <2>2, SignalFacts DEF Unwatch, q, a, e
    <3> QED  BY <1>8, <3>7, <3>8
  <2> QED  BY <2>1, <2>2
<1> QED  BY <1>3, <1>4, <1>5, <1>7, <1>8, SignalFacts

\* A call that ends watches begins.
LEMMA EndingBegins ==
    ASSUME WatchInv, todo = <<>>, NEW q, EndsWatches(q), todo' = q, failed' = FALSE,
           broken = "", broken' = "", job' \subseteq JobWatches,
           UNCHANGED <<kernel, vector, methods, saved, marked, period, timer, running, on, twice, users>>
    PROVE  WatchInv'
<1>1. q \in Seq(WatchSteps) /\ \A i \in 1 .. Len(q) : StepKept(q, i, FALSE)
  BY DEF EndsWatches
<1>2. /\ \A s : (Refuses(s)' <=> Refuses(s)) /\ (Stopped(s)' <=> Stopped(s))
      /\ \A s : (OwnKept(s)' <=> OwnKept(s)) /\ Effective(s)' = Effective(s)
      /\ \A s : EndsWell(s)' <=> EndsWell(s)
      /\ \A w : InMethod(w)' = InMethod(w)
  BY DEF Refuses, Stopped, InAction, InMethod, OwnKept, Effective, EndsWell
<1>3. UnwatchLeft'
  <2> SUFFICES ASSUME NEW i \in 1 .. Len(todo') PROVE StepKept(todo, i, failed)'
    BY DEF UnwatchLeft
  <2>1. StepKept(q, i, FALSE)
    BY <1>1
  <2>2. \A s : Given(todo, i, s)' <=> Given(q, i, s)
    BY DEF Given
  <2> QED  BY <1>2, <2>1, <2>2 DEF StepKept
<1>4. (\A s : ~Pending(s)') /\ ~Arming' /\ (\A s : ~Pending(s)) /\ ~Arming
  <2>1. (\A s : ~Pending(s)) /\ ~Arming
    BY EmptyTodo
  <2>2. \A i \in 1 .. Len(todo') : todo'[i][1] \notin {"keep", "arm"}
    BY <1>1 DEF StepKept
  <2> QED  BY <2>1, <2>2 DEF Pending, Arming
<1>5. WatchTypeOK'
  BY <1>1 DEF WatchInv, WatchTypeOK
<1>6. MethodsInv'
  BY <1>2 DEF WatchInv, MethodsInv
<1>7. SavedInv'
  BY <1>2, <1>4 DEF WatchInv, SavedInv
<1>8. UsersInv'
  <2> SUFFICES ASSUME NEW s \in SavingSignals \ twice
               PROVE  /\ ActionWatches[s] \notin on => OwnKept(s)'
                      /\ ActionWatches[s] \in on =>
                           \/ users[s] = "restart" \/ saved[s] = users[s]
                           \/ /\ s \in {"ALRM", "PIPE"} /\ saved[s] = "none"
                              /\ Effective(s)' = users[s]
    BY <1>4 DEF UsersInv
  <2> QED  BY <1>2, <1>4 DEF WatchInv, UsersInv
<1>9. AbortsInv'
  BY DEF AbortsInv, WatchAborts
<1> QED  BY <1>3, <1>5, <1>6, <1>7, <1>8, <1>9 DEF WatchInv, TodoInv

LEMMA CallUnwatchInv ==
    ASSUME WatchInv, NEW w \in WatchesUsed, CallUnwatch(w)
    PROVE  WatchInv'
<1>1. /\ broken = "" /\ broken' = "" /\ todo = <<>> /\ todo' = Unwatch(w) /\ failed' = FALSE
      /\ UNCHANGED <<kernel, vector, methods, saved, marked, period, timer, job, running, on, twice, users>>
      /\ job' \subseteq JobWatches
  BY DEF CallUnwatch, Begin, WatchInv, WatchTypeOK
<1>2. w \in Watches
  BY WatchAssumption, SignalFacts
<1>3. EndsWatches(Unwatch(w))
  BY <1>1, <1>2, UnwatchEnds DEF Unbroken
<1> QED  BY <1>1, <1>3, EndingBegins

LEMMA CallJobUnwatchInv ==
    ASSUME WatchInv, NEW w \in WatchesUsed \cap JobWatches, CallJobUnwatch(w)
    PROVE  WatchInv'
<1> DEFINE r == <<<<"job", w, "">>>>
<1>1. /\ broken = "" /\ broken' = "" /\ todo = <<>> /\ todo' = Unwatch(w) \o r /\ failed' = FALSE
      /\ UNCHANGED <<kernel, vector, methods, saved, marked, period, timer, job, running, on, twice, users>>
      /\ job' \subseteq JobWatches
  BY DEF CallJobUnwatch, Begin, WatchInv, WatchTypeOK
<1>2. w \in Watches /\ w \in WatchNames
  BY WatchAssumption, SignalFacts, NameFacts
<1>3. EndsWatches(Unwatch(w)) /\ EndsWatches(r) /\ ~Forgets(r)
  BY <1>1, <1>2, UnwatchEnds, ResultEnds DEF Unbroken
<1> HIDE DEF r
<1>4. EndsWatches(Unwatch(w) \o r)
  BY <1>3, JoinedEnds
<1> QED  BY <1>1, <1>4, EndingBegins

LEMMA CallResetInv ==
    ASSUME WatchInv, CallReset
    PROVE  WatchInv'
<1>1. /\ broken = "" /\ broken' = "" /\ todo = <<>> /\ failed' = FALSE
      /\ todo' = CloseJobControl \/ todo' = ResetSignals
      /\ UNCHANGED <<kernel, vector, methods, saved, marked, period, timer, job, running, on, twice, users>>
      /\ job' \subseteq JobWatches
  BY DEF CallReset, Begin, WatchInv, WatchTypeOK
<1> DEFINE X(w) == Unwatch(w)
<1>2. /\ EndsWatches(X("cont")) /\ ~Forgets(X("cont")) /\ EndsWatches(X("stop")) /\ ~Forgets(X("stop"))
      /\ EndsWatches(X("signals")) /\ ~Forgets(X("signals")) /\ EndsWatches(X("chld"))
      /\ ~Forgets(X("chld")) /\ EndsWatches(X("clock"))
  BY <1>1, UnwatchEnds, SignalFacts DEF Unbroken
<1> HIDE DEF X
<1> DEFINE R(do, w) == <<<<do, w, "">>>>
<1>3. /\ EndsWatches(R("ensure", "signals")) /\ ~Forgets(R("ensure", "signals"))
      /\ EndsWatches(R("closed", "")) /\ ~Forgets(R("closed", ""))
      /\ EndsWatches(R("check", "clock")) /\ ~Forgets(R("check", "clock"))
      /\ EndsWatches(R("check", "signals")) /\ ~Forgets(R("check", "signals"))
  BY ResultEnds, NameFacts, SignalFacts DEF WatchNames
<1> HIDE DEF R
<1>4. CASE todo' = CloseJobControl
  <2> DEFINE a == X("cont") \o X("stop")
             b == a \o X("signals")
             c == b \o R("ensure", "signals")
             d == c \o X("chld")
             z == d \o R("closed", "")
  <2>1. EndsWatches(a) /\ ~Forgets(a)
    BY <1>2, JoinedEnds
  <2>2. EndsWatches(b) /\ ~Forgets(b)
    BY <1>2, <2>1, JoinedEnds
  <2>3. EndsWatches(c) /\ ~Forgets(c)
    BY <1>3, <2>2, JoinedEnds
  <2>4. EndsWatches(d) /\ ~Forgets(d)
    BY <1>2, <2>3, JoinedEnds
  <2>5. EndsWatches(z)
    BY <1>3, <2>4, JoinedEnds
  <2>6. CloseJobControl = z
    BY DEF CloseJobControl, X, R
  <2> QED  BY <1>1, <1>4, <2>5, <2>6, EndingBegins
<1>5. CASE todo' = ResetSignals
  <2> DEFINE a == X("stop") \o X("cont")
             b == a \o X("clock")
             c == b \o R("check", "clock")
             d == c \o X("signals")
             f == d \o R("check", "signals")
             z == f \o X("chld")
  <2>1. EndsWatches(a) /\ ~Forgets(a)
    BY <1>2, JoinedEnds
  <2>2. EndsWatches(b)
    BY <1>2, <2>1, JoinedEnds
  <2>3. EndsWatches(c)
    BY <1>3, <2>2, JoinedEnds
  <2>4. EndsWatches(d)
    BY <1>2, <2>3, JoinedEnds
  <2>5. EndsWatches(f)
    BY <1>3, <2>4, JoinedEnds
  <2>6. EndsWatches(z)
    BY <1>2, <2>5, JoinedEnds
  <2>7. ResetSignals = z
    BY DEF ResetSignals, X, R
  <2> QED  BY <1>1, <1>5, <2>6, <2>7, EndingBegins
<1> QED  BY <1>1, <1>4, <1>5

LEMMA TailFacts ==
    ASSUME WatchTypeOK, todo # <<>>
    PROVE  /\ todo \in Seq(WatchSteps) /\ Len(todo) \in Nat /\ 1 <= Len(todo)
           /\ Head(todo) = todo[1] /\ todo[1] \in WatchSteps
           /\ Tail(todo) \in Seq(WatchSteps) /\ Len(Tail(todo)) = Len(todo) - 1
           /\ \A i \in 1 .. Len(Tail(todo)) : Tail(todo)[i] = todo[i + 1]
<1>1. todo \in Seq(WatchSteps)
  BY WatchTypes
<1>2. Len(todo) \in Nat /\ Len(todo) # 0
  BY <1>1, LenProperties, EmptySeq
<1> QED  BY <1>1, <1>2, HeadTailProperties

\* The steps that a call which begins a watch may take next.
LEMMA BeginHeads ==
    ASSUME WatchTypeOK
    PROVE  /\ \A w : WatchLeft(w) => Head(todo)[1] \in {"update", "method", "change", "keep"}
           /\ ArmLeft => Head(todo)[1] = "arm"
           /\ UnwatchLeft /\ todo # <<>> => StepKept(todo, 1, failed) /\ Head(todo) = todo[1]
<1>1. \A w : WatchLeft(w) => Head(todo)[1] \in {"update", "method", "change", "keep"}
  BY DEF WatchLeft, Update, SetMethod, Change, ChangeKeeping
<1>2. ArmLeft => Head(todo)[1] = "arm"
  BY DEF ArmLeft
<1>3. UnwatchLeft /\ todo # <<>> => StepKept(todo, 1, failed) /\ Head(todo) = todo[1]
  BY TailFacts DEF UnwatchLeft
<1> QED  BY <1>1, <1>2, <1>3

\* Steps that neither keep an action nor start the timer.
LEMMA PendingKept ==
    ASSUME WatchTypeOK, todo # <<>>, Head(todo)[1] \notin {"keep", "arm"},
           todo' = Tail(todo)
    PROVE  (\A s : Pending(s)' <=> Pending(s)) /\ (Arming' <=> Arming)
<1>1. /\ Len(todo) \in Nat /\ Len(todo') = Len(todo) - 1 /\ todo[1][1] \notin {"keep", "arm"}
      /\ \A i \in 1 .. Len(todo') : todo'[i] = todo[i + 1]
  BY TailFacts
<1>2. \A i \in 1 .. Len(todo') : i + 1 \in 1 .. Len(todo)
  BY <1>1
<1>3. \A i \in 1 .. Len(todo) : i = 1 \/ (i - 1 \in 1 .. Len(todo') /\ todo'[i - 1] = todo[i])
  BY <1>1
<1>4. \A s : Pending(s)' <=> Pending(s)
  BY <1>1, <1>2, <1>3, SMTT(30) DEF Pending
<1>5. Arming' <=> Arming
  BY <1>1, <1>2, <1>3 DEF Arming
<1> QED  BY <1>4, <1>5

\* A step that changes no action and keeps none, and ends watches only where they may end.
LEMMA SameActions ==
    ASSUME WatchInv, todo # <<>>, Head(todo)[1] \notin {"keep", "arm"},
           UNCHANGED <<kernel, vector, saved, marked, failed, running, twice, users>>,
           (\A s : Pending(s)' <=> Pending(s)) /\ (Arming' <=> Arming),
           Unbroken, AbortsInv',
           \A s \in Signals : ActionWatches[s] \notin LockedWatches =>
              /\ ActionWatches[s] \in on' => ActionWatches[s] \in on
              /\ ActionWatches[s] \in on => ActionWatches[s] \in on' \/ EndsWell(s)
    PROVE  SavedInv' /\ UsersInv'
<1>1. /\ \A s \in Signals : (Refuses(s)' <=> Refuses(s)) /\ (Stopped(s)' <=> Stopped(s))
      /\ \A s \in Signals : (OwnKept(s)' <=> OwnKept(s)) /\ Effective(s)' = Effective(s)
  BY DEF Refuses, Stopped, InAction, OwnKept, Effective
<1>2. \A s \in SavingSignals : s \in Signals /\ ActionWatches[s] \notin LockedWatches
  BY SignalFacts
<1>3. SavedInv'
  <2>1. \A s \in {"HUP", "TERM"} :
         /\ s \notin marked => Stopped(s)' \/ Refuses(s)'
         /\ s \in marked => saved[s] # "none"
         /\ "signals" \in on' /\ ~Pending(s)' => s \in marked \/ saved[s] = "restart"
    BY <1>1, <1>2, SignalFacts, ZenonT(40) DEF WatchInv, SavedInv
  <2>2. (saved["ALRM"] = "none" => Stopped("ALRM")' \/ Arming') /\ Stopped("PIPE")'
    BY <1>1, SignalFacts DEF WatchInv, SavedInv, Unbroken
  <2>3. \A s \in {"ALRM", "PIPE"} : ActionWatches[s] \notin on' => saved[s] = "none"
    BY <1>2, SignalFacts DEF WatchInv, SavedInv, EndsWell
  <2> QED  BY <2>1, <2>2, <2>3 DEF WatchInv, SavedInv
<1>4. UsersInv'
  <2> SUFFICES ASSUME NEW s \in SavingSignals \ twice
               PROVE  /\ ActionWatches[s] \notin on' \/ Pending(s)' => OwnKept(s)'
                      /\ ActionWatches[s] \in on' /\ ~Pending(s)' /\ ~(s = "ALRM" /\ Arming') =>
                           \/ users[s] = "restart" \/ saved[s] = users[s]
                           \/ /\ s \in {"ALRM", "PIPE"} /\ saved[s] = "none"
                              /\ Effective(s)' = users[s]
    BY DEF UsersInv
  <2>1. /\ ActionWatches[s] \in on' => ActionWatches[s] \in on
        /\ ActionWatches[s] \in on => ActionWatches[s] \in on' \/ OwnKept(s)
    BY <1>2 DEF EndsWell
  <2>2. /\ ActionWatches[s] \notin on \/ Pending(s) => OwnKept(s)
        /\ ActionWatches[s] \in on /\ ~Pending(s) /\ ~(s = "ALRM" /\ Arming) =>
             \/ users[s] = "restart" \/ saved[s] = users[s]
             \/ s \in {"ALRM", "PIPE"} /\ saved[s] = "none" /\ Effective(s) = users[s]
    BY DEF WatchInv, UsersInv
  <2> QED  BY <1>1, <1>2, <2>1, <2>2
<1> QED  BY <1>3, <1>4

\* One step of a call that ends watches: it does nothing to the others.
LEMMA NextKept ==
    ASSUME WatchTypeOK, UnwatchLeft, todo # <<>>, todo' = Tail(todo),
           failed => failed',
           \A s \in Signals : ActionWatches[s] \notin LockedWatches =>
              (Stopped(s) \/ Refuses(s) => Stopped(s)' \/ Refuses(s)'),
           \A s \in Signals : EndsWell(s) => EndsWell(s)' \/ failed',
           \A s \in Signals : Head(todo)[1] \in {"change", "restore"} /\ Head(todo)[2] = s =>
                 (EndsWell(s)' \/ failed') /\ (Stopped(s)' \/ Refuses(s)'),
           \A s \in {"ALRM", "PIPE"} : saved[s] # "none" =>
              saved'[s] # "none" \/ (Head(todo)[1] = "restore" /\ Head(todo)[2] = s)
    PROVE  UnwatchLeft'
<1>1. /\ todo \in Seq(WatchSteps) /\ todo' \in Seq(WatchSteps)
      /\ Len(todo) \in Nat /\ 1 <= Len(todo) /\ Len(todo') = Len(todo) - 1 /\ Head(todo) = todo[1]
      /\ \A i \in 1 .. Len(todo') : todo'[i] = todo[i + 1]
  BY TailFacts
<1>2. 1 \in Nat /\ \A j \in 1 .. 1 : j = 1
  OBVIOUS
<1>3. \A s \in Signals : \A j \in 1 .. 1 :
              todo[j][1] \in {"change", "restore"} /\ todo[j][2] = s =>
                 /\ EndsWell(s)' \/ failed'
                 /\ s # "ALRM" \/ j = 1 => Stopped(s)' \/ Refuses(s)'
  BY <1>1, <1>2
<1>4. \A s \in {"ALRM", "PIPE"} : saved[s] # "none" =>
              saved'[s] # "none" \/ \E j \in 1 .. 1 : todo[j][1] = "restore" /\ todo[j][2] = s
  BY <1>1, <1>2
<1> QED  BY <1>1, <1>2, <1>3, <1>4, DropKept

LEMMA DisarmInv ==
    ASSUME WatchInv, Disarm
    PROVE  WatchInv'
<1>1. /\ broken = "" /\ todo # <<>> /\ Head(todo)[1] = "disarm" /\ timer' = FALSE
      /\ todo' = Tail(todo) /\ WatchTypeOK
      /\ UNCHANGED <<kernel, vector, methods, saved, marked, period, job, failed, running, broken,
                     on, twice, users>>
  BY DEF Disarm, Step, WatchInv
<1>2. UnwatchLeft
  BY <1>1, BeginHeads DEF WatchInv, TodoInv
<1>3. /\ \A s \in Signals : (Refuses(s)' <=> Refuses(s)) /\ (Stopped(s)' <=> Stopped(s))
      /\ \A s \in Signals : EndsWell(s)' <=> EndsWell(s)
      /\ \A w : InMethod(w)' = InMethod(w)
  BY <1>1 DEF Refuses, Stopped, InAction, InMethod, OwnKept, Effective, EndsWell
<1>4. UnwatchLeft'
  BY <1>1, <1>2, <1>3, NextKept
<1>5. WatchTypeOK'
  BY <1>1, TailFacts DEF WatchTypeOK
<1>6. MethodsInv'
  BY <1>1, <1>3 DEF WatchInv, MethodsInv
<1>7. AbortsInv'
  BY <1>1 DEF WatchInv, AbortsInv, WatchAborts
<1>8. (\A s : Pending(s)' <=> Pending(s)) /\ (Arming' <=> Arming)
  BY <1>1, PendingKept
<1>9. SavedInv' /\ UsersInv'
  BY <1>1, <1>7, <1>8, SameActions DEF Unbroken
<1> QED  BY <1>4, <1>5, <1>6, <1>7, <1>9 DEF WatchInv, TodoInv

LEMMA CheckResultInv ==
    ASSUME WatchInv, CheckResult
    PROVE  WatchInv'
<1> DEFINE do == Head(todo)[1]
<1>1. /\ broken = "" /\ todo # <<>> /\ do \in {"ended", "job", "check", "ensure", "closed"}
      /\ on' = IF do = "ended" /\ ~failed /\ On \notin LockedWatches THEN on \ {On} ELSE on
      /\ job' = CASE do = "job" /\ ~ failed -> job \ {On} [] do = "closed" -> {} [] OTHER -> job
      /\ broken' = IF do = "ensure" /\ failed THEN "close" ELSE broken
      /\ todo' = IF do = "check" /\ failed THEN <<>> ELSE Tail(todo)
      /\ UNCHANGED <<kernel, vector, methods, saved, marked, period, timer, failed, running,
                     twice, users>>
      /\ WatchTypeOK
  BY DEF CheckResult, Step, WatchInv
<1>2. UnwatchLeft
  BY <1>1, BeginHeads DEF WatchInv, TodoInv
<1>3. /\ \A s \in Signals : (Refuses(s)' <=> Refuses(s)) /\ (Stopped(s)' <=> Stopped(s))
      /\ \A s \in Signals : EndsWell(s)' <=> EndsWell(s)
      /\ \A w : InMethod(w)' = InMethod(w)
  BY <1>1 DEF Refuses, Stopped, InAction, InMethod, OwnKept, Effective, EndsWell
<1>4. (\A s : Pending(s)' <=> Pending(s)) /\ (Arming' <=> Arming) /\ UnwatchLeft'
  <2>1. CASE todo' = <<>>
    BY <1>2, <2>1, EmptyNext, NoKeep
  <2>2. CASE todo' = Tail(todo)
    BY <1>1, <1>2, <1>3, <2>2, PendingKept, NextKept
  <2> QED  BY <1>1, <2>1, <2>2
<1>5. \A s \in Signals : ActionWatches[s] \notin LockedWatches =>
              /\ ActionWatches[s] \in on' => ActionWatches[s] \in on
              /\ ActionWatches[s] \in on => ActionWatches[s] \in on' \/ EndsWell(s)
  <2>1. CASE do = "ended" /\ ~failed
    <3>1. \A s \in Watched(On) : Given(todo, 1, s) \/ EndsWell(s)
      BY <1>1, <1>2, <2>1, BeginHeads DEF StepKept, On
    <3>2. \A s : ~Given(todo, 1, s)
      BY DEF Given
    <3> QED  BY <1>1, <3>1, <3>2 DEF Watched
  <2> QED  BY <1>1, <2>1
<1>6. WatchTypeOK'
  <2>1. todo' \in Seq(WatchSteps)
    <3>1. Tail(todo) \in Seq(WatchSteps)
      BY <1>1, TailFacts
    <3>2. <<>> \in Seq(WatchSteps)
      OBVIOUS
    <3> QED  BY <1>1, <3>1, <3>2
  <2>2. on' \subseteq Watches /\ job' \subseteq JobWatches
    BY <1>1 DEF WatchTypeOK
  <2> QED  BY <1>1, <2>1, <2>2 DEF WatchTypeOK
<1>7. MethodsInv'
  <2>1. \A w \in LockedWatches : (methods[w] # "nil" => w \in on') /\ (InMethod(w)' # {} => methods[w] # "nil")
    BY <1>1, <1>3 DEF WatchInv, MethodsInv
  <2>2. \A s \in Signals : ActionWatches[s] \notin LockedWatches =>
            \/ Stopped(s)' \/ Refuses(s)'
            \/ (ActionWatches[s] \in on' /\ methods[ActionWatches[s]] # "nil")
    BY <1>3, <1>5 DEF WatchInv, MethodsInv, EndsWell
  <2> QED  BY <1>1, <2>1, <2>2 DEF MethodsInv
<1>8. AbortsInv'
  <2>1. CASE broken' = "close" /\ failed
    <3>1. PICK s \in SavingSignals : saved[s] = "restart"
      BY <2>1 DEF WatchInv, SavedInv
    <3>2. ActionWatches[s] \in Watches /\ Refused(ActionWatches[s])'
      BY <1>1, <3>1, SignalFacts DEF Refused
    <3> QED  BY <2>1, <3>2 DEF AbortsInv, WatchAborts
  <2>2. CASE broken' = ""
    BY <2>2 DEF AbortsInv, WatchAborts
  <2> QED  BY <1>1, <2>1, <2>2
<1>9. SavedInv' /\ UsersInv'
  BY <1>1, <1>4, <1>5, <1>8, SameActions DEF Unbroken
<1> QED  BY <1>4, <1>6, <1>7, <1>8, <1>9 DEF WatchInv, TodoInv

\* What setting a method may be part of.
LEMMA MethodCases ==
    ASSUME WatchInv, StoreMethod
    PROVE  \/ /\ ~failed /\ On \in on /\ With \in {"user", "job"} /\ WatchLeft(On)
              /\ (On \in LockedWatches <=> Head(todo)[1] = "update")
           \/ /\ UnwatchLeft /\ With = "nil" /\ On \in Watches
              /\ (On \in LockedWatches <=> Head(todo)[1] = "update")
              /\ \A s \in Watched(On) : On \in LockedWatches \/ Stopped(s) \/ Refuses(s)
<1>1. todo # <<>> /\ Head(todo)[1] \in {"method", "update"} /\ WatchTypeOK
  BY DEF StoreMethod, Step, WatchInv
<1>2. ASSUME ~failed, NEW w \in on, WatchLeft(w)
      PROVE  /\ On = w /\ With \in {"user", "job"}
             /\ (On \in LockedWatches <=> Head(todo)[1] = "update")
  BY <1>1, <1>2, SignalFacts DEF WatchLeft, Update, SetMethod, Change, ChangeKeeping, On, With
<1>3. CASE UnwatchLeft
  <2>1. StepKept(todo, 1, failed) /\ Head(todo) = todo[1]
    BY <1>1, <1>3, BeginHeads
  <2>2. \A s : ~Given(todo, 1, s)
    BY DEF Given
  <2>3. /\ With = "nil" /\ On \in Watches
        /\ (On \in LockedWatches <=> Head(todo)[1] = "update")
    BY <1>1, <2>1, SignalFacts DEF StepKept, On, With
  <2>4. \A s \in Watched(On) : On \in LockedWatches \/ Stopped(s) \/ Refuses(s)
    BY <1>1, <2>1, <2>2, <2>3 DEF StepKept, On
  <2> QED  BY <1>3, <2>3, <2>4
<1> QED  BY <1>1, <1>2, <1>3, BeginHeads DEF WatchInv, TodoInv

LEMMA TupleTails ==
    ASSUME NEW a, NEW b, NEW c
    PROVE  /\ Tail(<<a>>) = <<>> /\ Tail(<<a, b>>) = <<b>> /\ Tail(<<a, b, c>>) = <<b, c>>
           /\ Head(<<a>>) = a /\ Head(<<a, b>>) = a /\ Head(<<a, b, c>>) = a
OBVIOUS

LEMMA StoreMethodInv ==
    ASSUME WatchInv, StoreMethod
    PROVE  WatchInv'
<1>1. /\ broken = "" /\ todo # <<>> /\ Head(todo)[1] \in {"method", "update"}
      /\ Head(todo)[1] = "update" => InMethod(On) = {}
      /\ methods' = [methods EXCEPT ![On] = With]
      /\ on' = IF Head(todo) = <<"update", On, "nil">> THEN on \ {On} ELSE on
      /\ todo' = Tail(todo)
      /\ UNCHANGED <<kernel, vector, saved, marked, period, timer, job, failed, running, broken,
                     twice, users>>
      /\ WatchTypeOK
  BY DEF StoreMethod, Step, WatchInv
<1>2. /\ With \in {"nil", "user", "job"} /\ On \in Watches
      /\ (On \in LockedWatches <=> Head(todo)[1] = "update")
      /\ With # "nil" => On \in on
  BY <1>1, MethodCases DEF WatchTypeOK
<1>3. /\ methods' \in [Watches -> {"nil", "user", "job"}] /\ methods'[On] = With
      /\ \A w \in Watches : w # On => methods'[w] = methods[w]
  BY <1>1, <1>2 DEF WatchTypeOK
<1>4. /\ on' = on \/ (On \in LockedWatches /\ With = "nil" /\ on' = on \ {On})
      /\ \A w : w \notin LockedWatches => (w \in on' <=> w \in on)
  <2>1. Head(todo) = <<"update", On, "nil">> => With = "nil" /\ Head(todo)[1] = "update"
    BY DEF With
  <2> QED  BY <1>1, <1>2, <2>1
<1>5. /\ \A s \in Signals : (Refuses(s)' <=> Refuses(s)) /\ (Stopped(s)' <=> Stopped(s))
      /\ \A s \in Signals : EndsWell(s)' <=> EndsWell(s)
      /\ \A w : InMethod(w)' = InMethod(w)
  BY <1>1 DEF Refuses, Stopped, InAction, InMethod, OwnKept, Effective, EndsWell
<1>6. WatchTypeOK'
  <2>1. on' \subseteq Watches
    BY <1>4 DEF WatchInv, WatchTypeOK
  <2>2. todo' \in Seq(WatchSteps)
    BY <1>1, TailFacts
  <2> QED  BY <1>1, <1>3, <2>1, <2>2 DEF WatchTypeOK
<1>7. TodoInv'
  <2>1. CASE UnwatchLeft
    BY <1>1, <1>5, <2>1, NextKept DEF TodoInv
  <2>2. ASSUME NEW w \in on, On = w, ~failed, WatchLeft(w), With # "nil"
        PROVE  TodoInv'
    <3>1. w \in on' /\ methods'[w] # "nil"
      BY <1>1, <1>3, <1>4, <2>2
    <3>2. PICK m \in {"user", "job"}, old \in {"nil", "user", "job"} :
           \/ todo = <<Update(w, m)>>
           \/ w = "chld" /\ todo = <<SetMethod(w, m), Change("CHLD", "watch")>>
           \/ /\ w = "clock" /\ ("ALRM" \in twice \/ saved["ALRM"] = "none")
              /\ todo = <<SetMethod(w, m), ChangeKeeping("ALRM", "watch"), <<"arm", w, old>>>>
           \/ w = "signals" /\ todo = <<SetMethod(w, m), ChangeKeeping("HUP", "watch"),
                                        ChangeKeeping("TERM", "watch")>>
      <4>1. /\ todo # <<Change("CHLD", "watch")>> /\ todo # <<ChangeKeeping("PIPE", "ignore")>>
             /\ \A x : todo # <<ChangeKeeping("ALRM", "watch"), x>>
             /\ todo # <<ChangeKeeping("HUP", "watch"), ChangeKeeping("TERM", "watch")>>
             /\ todo # <<ChangeKeeping("TERM", "watch")>>
        <5>1. \A x, y, z : /\ todo = <<x>> \/ todo = <<x, y>> \/ todo = <<x, y, z>> => Head(todo) = x
          BY TupleTails
        <5>2. \A v, x, y, z : /\ x = <<"change", v, y>> => x[1] = "change"
                             /\ x = <<"keep", v, y>> => x[1] = "keep"
          OBVIOUS
        <5>3. \A x, y : ChangeKeeping(x, y)[1] = "keep" /\ Change(x, y)[1] = "change"
          BY <5>2 DEF Change, ChangeKeeping
        <5>4. \A x, y, z : /\ todo # <<ChangeKeeping(x, y)>> /\ todo # <<Change(x, y)>>
                          /\ todo # <<ChangeKeeping(x, y), z>>
          BY <1>1, <5>1, <5>3
        <5> QED  BY <5>4
      <4> QED  BY <2>2, <4>1 DEF WatchLeft
    <3>3. CASE todo = <<Update(w, m)>>
      <4>1. todo' = <<>>
        BY <1>1, <3>3, TupleTails
      <4> QED  BY <4>1, EmptyNext DEF TodoInv
    <3>4. CASE w = "chld" /\ todo = <<SetMethod(w, m), Change("CHLD", "watch")>>
      <4>1. todo' = <<Change("CHLD", "watch")>>
        BY <1>1, <3>4, TupleTails
      <4>2. WatchLeft(w)'
        BY <3>1, <3>4, <4>1 DEF WatchLeft, Change
      <4> QED  BY <1>1, <2>2, <3>1, <4>2 DEF TodoInv
    <3>5. CASE /\ w = "clock" /\ ("ALRM" \in twice \/ saved["ALRM"] = "none")
               /\ todo = <<SetMethod(w, m), ChangeKeeping("ALRM", "watch"), <<"arm", w, old>>>>
      <4>1. todo' = <<ChangeKeeping("ALRM", "watch"), <<"arm", w, old>>>>
        <5> DEFINE a == SetMethod(w, m)
                   b == ChangeKeeping("ALRM", "watch")
                   c == <<"arm", w, old>>
        <5>1. todo = <<a, b, c>>
          BY <3>5
        <5> HIDE DEF a, b, c
        <5>2. Tail(<<a, b, c>>) = <<b, c>>
          BY TupleTails
        <5>3. todo' = <<b, c>>
          BY <1>1, <5>1, <5>2
        <5> QED  BY <5>3 DEF b, c
      <4>2. WatchLeft(w)'
        BY <1>1, <3>1, <3>5, <4>1 DEF WatchLeft, ChangeKeeping
      <4> QED  BY <1>1, <2>2, <3>1, <4>2 DEF TodoInv
    <3>6. CASE w = "signals" /\ todo = <<SetMethod(w, m), ChangeKeeping("HUP", "watch"),
                                        ChangeKeeping("TERM", "watch")>>
      <4>1. todo' = <<ChangeKeeping("HUP", "watch"), ChangeKeeping("TERM", "watch")>>
        <5> DEFINE a == SetMethod(w, m)
                   b == ChangeKeeping("HUP", "watch")
                   c == ChangeKeeping("TERM", "watch")
        <5>1. todo = <<a, b, c>>
          BY <3>6
        <5> HIDE DEF a, b, c
        <5>2. Tail(<<a, b, c>>) = <<b, c>>
          BY TupleTails
        <5>3. todo' = <<b, c>>
          BY <1>1, <5>1, <5>2
        <5> QED  BY <5>3 DEF b, c
      <4>2. WatchLeft(w)'
        BY <3>1, <3>6, <4>1 DEF WatchLeft, ChangeKeeping
      <4> QED  BY <1>1, <2>2, <3>1, <4>2 DEF TodoInv
    <3> QED  BY <3>2, <3>3, <3>4, <3>5, <3>6
  <2>3. \/ UnwatchLeft
        \/ ~failed /\ On \in on /\ With # "nil" /\ WatchLeft(On)
    BY MethodCases
  <2> QED  BY <2>1, <2>2, <2>3
<1>8. MethodsInv'
  <2>1. ASSUME NEW w \in LockedWatches
        PROVE  (methods'[w] # "nil" => w \in on') /\ (InMethod(w)' # {} => methods'[w] # "nil")
    <3>1. w \in Watches
      BY SignalFacts
    <3> QED  BY <1>1, <1>2, <1>3, <1>4, <1>5, <3>1 DEF WatchInv, MethodsInv
  <2>2. ASSUME NEW s \in Signals, ActionWatches[s] \notin LockedWatches
        PROVE  \/ Stopped(s)' \/ Refuses(s)'
               \/ (ActionWatches[s] \in on' /\ methods'[ActionWatches[s]] # "nil")
    <3>1. ActionWatches[s] \in Watches
      BY SignalFacts
    <3>2. CASE ActionWatches[s] = On /\ With = "nil"
      <4>1. s \in Watched(On)
        BY <3>2 DEF Watched
      <4> QED  BY <1>5, <2>2, <3>2, <4>1, MethodCases
    <3> QED  BY <1>3, <1>4, <1>5, <2>2, <3>1, <3>2 DEF WatchInv, MethodsInv
  <2> QED  BY <2>1, <2>2 DEF MethodsInv
<1>9. AbortsInv'
  BY <1>1 DEF WatchInv, AbortsInv, WatchAborts
<1>10. (\A s : Pending(s)' <=> Pending(s)) /\ (Arming' <=> Arming)
  BY <1>1, PendingKept
<1>11. SavedInv' /\ UsersInv'
  BY <1>1, <1>4, <1>9, <1>10, SameActions DEF Unbroken
<1> QED  BY <1>6, <1>7, <1>8, <1>9, <1>11 DEF WatchInv

LEMMA ChangedFacts ==
    ASSUME WatchTypeOK, NEW s \in Signals, NEW a \in Actions \ {"restart"}, Changed(s, a),
           running' = running
    PROVE  /\ kernel' \in [Signals -> Actions \ {"watch"}]
           /\ vector' \in [Signals -> Actions \ {"restart"}]
           /\ kernel'[s] # "restart" /\ vector'[s] = a /\ Effective(s)' = a
           /\ a # "watch" => Stopped(s)'
           /\ \A x \in Signals : x # s => kernel'[x] = kernel[x] /\ vector'[x] = vector[x]
           /\ \A x \in Signals : x # s =>
                Effective(x)' = Effective(x) /\ (Stopped(x)' <=> Stopped(x))
           /\ \A w : InMethod(w)' = InMethod(w)
<1> DEFINE k == IF a \in {"default", "ignore"} THEN a ELSE "dispatch"
<1>1. k \in Actions \ {"watch"} /\ k # "restart" /\ (k = "dispatch" \/ k = a)
      /\ (a = "dispatch" => k = "dispatch")
  BY DEF Actions
<1>2. kernel' = [kernel EXCEPT ![s] = k] /\ vector' = [vector EXCEPT ![s] = a] /\ InAction(s) = {}
  BY DEF Changed
<1> HIDE DEF k
<1>3. /\ kernel' \in [Signals -> Actions \ {"watch"}]
      /\ vector' \in [Signals -> Actions \ {"restart"}]
      /\ kernel'[s] = k /\ vector'[s] = a
      /\ \A x \in Signals : x # s => kernel'[x] = kernel[x] /\ vector'[x] = vector[x]
  BY <1>1, <1>2 DEF WatchTypeOK
<1>4. \A x : InAction(x)' = InAction(x) /\ InMethod(x)' = InMethod(x)
  BY DEF InAction, InMethod
<1>5. Effective(s)' = a
  BY <1>1, <1>3 DEF Effective
<1>6. a # "watch" => Stopped(s)'
  BY <1>2, <1>3, <1>4 DEF Stopped
<1>7. \A x \in Signals : x # s =>
                Effective(x)' = Effective(x) /\ (Stopped(x)' <=> Stopped(x))
  BY <1>3, <1>4 DEF Effective, Stopped
<1> QED  BY <1>1, <1>3, <1>4, <1>5, <1>6, <1>7

\* What changing an action may be part of.
LEMMA ChangeCases ==
    ASSUME WatchInv, ChangeSignalAction
    PROVE  \/ UnwatchLeft
           \/ ~failed /\ "chld" \in on /\ methods["chld"] # "nil" /\ todo = <<Change("CHLD", "watch")>>
           \/ /\ ~failed /\ "clock" \in on /\ methods["clock"] # "nil"
              /\ "ALRM" \in twice \/ saved["ALRM"] = "none"
              /\ \E old \in {"nil", "user", "job"} :
                   todo = <<ChangeKeeping("ALRM", "watch"), <<"arm", "clock", old>>>>
           \/ /\ ~failed /\ "signals" \in on /\ methods["signals"] # "nil"
              /\ todo \in {<<ChangeKeeping("HUP", "watch"), ChangeKeeping("TERM", "watch")>>,
                           <<ChangeKeeping("TERM", "watch")>>}
           \/ ~failed /\ "pipe" \in on /\ todo = <<ChangeKeeping("PIPE", "ignore")>>
<1>1. todo # <<>> /\ Head(todo)[1] \in {"change", "keep"} /\ WatchTypeOK
  BY DEF ChangeSignalAction, Step, WatchInv
<1>2. ~ArmLeft
  BY <1>1, BeginHeads
<1>3. ASSUME ~failed, NEW w \in on, WatchLeft(w), ~UnwatchLeft
      PROVE  \/ w = "chld" /\ methods["chld"] # "nil" /\ todo = <<Change("CHLD", "watch")>>
             \/ /\ w = "clock" /\ methods["clock"] # "nil"
                /\ "ALRM" \in twice \/ saved["ALRM"] = "none"
                /\ \E old \in {"nil", "user", "job"} :
                     todo = <<ChangeKeeping("ALRM", "watch"), <<"arm", "clock", old>>>>
             \/ /\ w = "signals" /\ methods["signals"] # "nil"
                /\ todo \in {<<ChangeKeeping("HUP", "watch"), ChangeKeeping("TERM", "watch")>>,
                             <<ChangeKeeping("TERM", "watch")>>}
             \/ w = "pipe" /\ todo = <<ChangeKeeping("PIPE", "ignore")>>
  <2>1. \A x, y, z : todo = <<x>> \/ todo = <<x, y>> \/ todo = <<x, y, z>> => Head(todo) = x
    BY TupleTails
  <2>2. \A x, y, z : /\ x = <<"method", y, z>> => x[1] = "method"
                     /\ x = <<"update", y, z>> => x[1] = "update"
    OBVIOUS
  <2>3. \A y, z : SetMethod(y, z)[1] = "method" /\ Update(y, z)[1] = "update"
    BY <2>2 DEF SetMethod, Update
  <2>4. \A x, y, u, v : /\ todo # <<SetMethod(x, y)>> /\ todo # <<Update(x, y)>>
                        /\ todo # <<SetMethod(x, y), u>> /\ todo # <<SetMethod(x, y), u, v>>
    BY <1>1, <2>1, <2>3
  <2> QED  BY <1>3, <2>4 DEF WatchLeft
<1> QED  BY <1>2, <1>3 DEF WatchInv, TodoInv

\* The next step is to change an action without keeping the one before.
LEMMA ChangeAlone ==
    ASSUME WatchInv, ChangeSignalAction, Head(todo)[1] = "change"
    PROVE  /\ Unbroken /\ WatchTypeOK /\ todo # <<>>
           /\ Changed(On, With) /\ todo' = Tail(todo)
           /\ UNCHANGED <<methods, saved, marked, period, timer, job, failed, running, broken, on,
                          twice, users>>
BY DEF ChangeSignalAction, Step, WatchInv, Unbroken

\* SIGCHLD, which keeps no action.
LEMMA ChildChange ==
    ASSUME WatchInv, ChangeSignalAction, Head(todo)[1] = "change", On = "CHLD",
           With = "default" \/ (With = "watch" /\ "chld" \in on /\ methods["chld"] # "nil"),
           TodoInv'
    PROVE  WatchInv'
<1>1. /\ Unbroken /\ WatchTypeOK /\ todo # <<>>
      /\ Changed("CHLD", With) /\ todo' = Tail(todo)
      /\ UNCHANGED <<methods, saved, marked, period, timer, job, failed, running, broken, on,
                     twice, users>>
  BY ChangeAlone
<1>2. "CHLD" \in Signals /\ "CHLD" \notin SavingSignals /\ SavingSignals \subseteq Signals
      /\ With \in Actions \ {"restart"} /\ ActionWatches["CHLD"] = "chld" /\ With # "dispatch"
  BY SignalFacts DEF Actions
<1>3. /\ kernel' \in [Signals -> Actions \ {"watch"}]
      /\ vector' \in [Signals -> Actions \ {"restart"}]
      /\ kernel'["CHLD"] # "restart" /\ vector'["CHLD"] = With
      /\ With # "watch" => Stopped("CHLD")'
      /\ \A x \in Signals : x # "CHLD" => kernel'[x] = kernel[x] /\ vector'[x] = vector[x]
      /\ \A x \in Signals : x # "CHLD" =>
           Effective(x)' = Effective(x) /\ (Stopped(x)' <=> Stopped(x))
      /\ \A w : InMethod(w)' = InMethod(w)
  BY <1>1, <1>2, ChangedFacts
<1>4. /\ \A x : Refuses(x)' <=> Refuses(x)
      /\ \A x \in SavingSignals : OwnKept(x)' <=> OwnKept(x)
  BY <1>1, <1>2, <1>3 DEF Refuses, OwnKept
<1>5. (\A s : Pending(s)' <=> Pending(s)) /\ (Arming' <=> Arming)
  BY <1>1, PendingKept
<1>6. WatchTypeOK'
  BY <1>1, <1>3, TailFacts DEF WatchTypeOK
<1>7. MethodsInv'
  <2>1. ASSUME NEW s \in Signals, ActionWatches[s] \notin LockedWatches
        PROVE  \/ Stopped(s)' \/ Refuses(s)'
               \/ (ActionWatches[s] \in on /\ methods[ActionWatches[s]] # "nil")
    BY <1>2, <1>3, <1>4, <2>1 DEF WatchInv, MethodsInv
  <2> QED  BY <1>1, <1>3, <2>1 DEF WatchInv, MethodsInv
<1>8. SavedInv'
  <2>1. \A s \in Signals : /\ kernel'[s] = "restart" => users[s] = "restart"
                           /\ vector'[s] = "dispatch" => s \in twice
    BY <1>2, <1>3 DEF WatchInv, SavedInv
  <2>2. \A s \in {"HUP", "TERM"} :
         /\ s \notin marked => Stopped(s)' \/ Refuses(s)'
         /\ s \in marked => saved[s] # "none"
         /\ "signals" \in on /\ ~Pending(s)' => s \in marked \/ saved[s] = "restart"
    BY <1>2, <1>3, <1>4, <1>5, SignalFacts DEF WatchInv, SavedInv
  <2>3. (saved["ALRM"] = "none" => Stopped("ALRM")' \/ Arming') /\ Stopped("PIPE")'
    BY <1>1, <1>3, <1>5, SignalFacts DEF WatchInv, SavedInv, Unbroken
  <2> QED  BY <1>1, <2>1, <2>2, <2>3 DEF WatchInv, SavedInv
<1>9. UsersInv'
  <2> SUFFICES ASSUME NEW s \in SavingSignals \ twice
               PROVE  /\ ActionWatches[s] \notin on \/ Pending(s)' => OwnKept(s)'
                      /\ ActionWatches[s] \in on /\ ~Pending(s)' /\ ~(s = "ALRM" /\ Arming') =>
                           \/ users[s] = "restart" \/ saved[s] = users[s]
                           \/ /\ s \in {"ALRM", "PIPE"} /\ saved[s] = "none"
                              /\ Effective(s)' = users[s]
    BY <1>1 DEF UsersInv
  <2>1. /\ OwnKept(s)' <=> OwnKept(s)
        /\ Effective(s)' = Effective(s)
    BY <1>2, <1>3, <1>4
  <2> QED  BY <1>5, <2>1 DEF WatchInv, UsersInv
<1>10. AbortsInv'
  BY <1>1 DEF AbortsInv, WatchAborts, Unbroken
<1> QED  BY <1>6, <1>7, <1>8, <1>9, <1>10 DEF WatchInv

LEMMA ChildChangeInv ==
    ASSUME WatchInv, ChangeSignalAction, Head(todo)[1] = "change"
    PROVE  WatchInv'
<1>1. /\ Unbroken /\ WatchTypeOK /\ todo # <<>>
      /\ Changed(On, With) /\ todo' = Tail(todo)
      /\ UNCHANGED <<methods, saved, marked, period, timer, job, failed, running, broken, on,
                     twice, users>>
  BY ChangeAlone
<1>2. CASE UnwatchLeft
  <2>1. On = "CHLD" /\ With = "default"
    BY <1>1, <1>2, BeginHeads DEF StepKept, On, With
  <2>2. "CHLD" \in Signals /\ With \in Actions \ {"restart"} /\ With # "watch"
        /\ "CHLD" \notin SavingSignals
    BY <2>1, SignalFacts DEF Actions
  <2>3. Stopped("CHLD")' /\ \A x \in Signals : x # "CHLD" =>
           Effective(x)' = Effective(x) /\ (Stopped(x)' <=> Stopped(x))
    BY <1>1, <2>1, <2>2, ChangedFacts
  <2>4. EndsWell("CHLD")'
    BY <2>2, <2>3 DEF EndsWell
  <2>5. \A x \in Signals : x # "CHLD" => (EndsWell(x)' <=> EndsWell(x))
    BY <1>1, <2>3 DEF EndsWell, Refuses, OwnKept
  <2>6. \A x : Refuses(x)' <=> Refuses(x)
    BY <1>1 DEF Refuses
  <2>7. /\ \A s \in Signals : (Stopped(s) \/ Refuses(s) => Stopped(s)' \/ Refuses(s)')
        /\ \A s \in Signals : EndsWell(s) => EndsWell(s)'
        /\ \A s \in Signals : Head(todo)[2] = s => EndsWell(s)' /\ Stopped(s)'
    BY <2>1, <2>3, <2>4, <2>5, <2>6 DEF On
  <2>8. UnwatchLeft'
    BY <1>1, <1>2, <2>7, NextKept
  <2> QED  BY <2>1, <2>8, ChildChange DEF TodoInv
<1>3. CASE "chld" \in on /\ methods["chld"] # "nil" /\ todo = <<Change("CHLD", "watch")>>
  <2>1. Head(todo) = Change("CHLD", "watch") /\ todo' = <<>>
    BY <1>1, <1>3, TupleTails
  <2>2. On = "CHLD" /\ With = "watch"
    BY <2>1 DEF Change, On, With
  <2> QED  BY <1>3, <2>1, <2>2, EmptyNext, ChildChange DEF TodoInv
<1>4. ASSUME NEW x, NEW y, Head(todo) = ChangeKeeping(x, y) PROVE FALSE
  BY <1>4 DEF ChangeKeeping
<1>5. \A x, y, z : todo # <<ChangeKeeping(x, y)>> /\ todo # <<ChangeKeeping(x, y), z>>
  BY <1>4, TupleTails
<1> QED  BY <1>2, <1>3, <1>5, ChangeCases

\* The next step is to change an action and keep the one before.
LEMMA KeepStep ==
    ASSUME WatchInv, ChangeSignalAction, NEW s, NEW a, Head(todo) = ChangeKeeping(s, a)
    PROVE  /\ Unbroken /\ WatchTypeOK /\ todo # <<>> /\ Changed(s, a)
           /\ IF s # "ALRM"
              THEN /\ saved' = [saved EXCEPT ![s] = kernel[s]]
                   /\ marked' = IF s = "PIPE" THEN marked ELSE marked \cup {s}
              ELSE UNCHANGED <<saved, marked>>
           /\ todo' = IF s = "ALRM" THEN <<<<"arm", kernel[s], Head(Tail(todo))[3]>>>> ELSE Tail(todo)
           /\ twice' = IF kernel[s] = "dispatch" THEN twice \cup {s} ELSE twice
           /\ UNCHANGED <<methods, period, timer, job, failed, running, broken, on, users>>
<1>1. Head(todo)[1] = "keep" /\ On = s /\ With = a
  BY DEF ChangeKeeping, On, With
<1> QED  BY <1>1 DEF ChangeSignalAction, Step, WatchInv, Unbroken

\* What all the steps that keep an action have in common.
LEMMA KeepFacts ==
    ASSUME WatchInv, ChangeSignalAction, NEW s \in SavingSignals, NEW a \in {"watch", "ignore"},
           Head(todo) = ChangeKeeping(s, a), s = "PIPE" => a = "ignore",
           ActionWatches[s] \in on, a = "watch" => methods[ActionWatches[s]] # "nil",
           UnwatchLeft => FALSE, failed = FALSE
    PROVE  /\ kernel' \in [Signals -> Actions \ {"watch"}]
           /\ vector' \in [Signals -> Actions \ {"restart"}]
           /\ twice \subseteq twice' /\ twice' \subseteq Signals
           /\ \A x \in Signals : /\ kernel'[x] = "restart" => users[x] = "restart"
                                 /\ vector'[x] = "dispatch" => x \in twice'
           /\ \A x \in Signals : x # s =>
                /\ Effective(x)' = Effective(x) /\ (Stopped(x)' <=> Stopped(x))
                /\ x \in twice' => x \in twice
           /\ a # "watch" => Stopped(s)'
           /\ Stopped("PIPE")'
           /\ MethodsInv' /\ AbortsInv'
           /\ s \notin twice' => kernel[s] = users[s] \/ users[s] = "restart" \/ ~Pending(s)
           /\ kernel[s] \in Actions \ {"watch"} /\ (kernel[s] = "dispatch" => s \in twice')
<1>1. /\ Unbroken /\ WatchTypeOK /\ todo # <<>> /\ Changed(s, a)
      /\ twice' = IF kernel[s] = "dispatch" THEN twice \cup {s} ELSE twice
      /\ UNCHANGED <<methods, period, timer, job, failed, running, broken, on, users>>
      /\ s # "ALRM" => saved' = [saved EXCEPT ![s] = kernel[s]]
      /\ s = "ALRM" => UNCHANGED saved
  BY KeepStep
<1>2. s \in Signals /\ a \in Actions \ {"restart"} /\ a # "dispatch" /\ "PIPE" \in Signals
  BY SignalFacts DEF Actions
<1>3. /\ kernel' \in [Signals -> Actions \ {"watch"}]
      /\ vector' \in [Signals -> Actions \ {"restart"}]
      /\ kernel'[s] # "restart" /\ vector'[s] = a
      /\ a # "watch" => Stopped(s)'
      /\ \A x \in Signals : x # s => kernel'[x] = kernel[x] /\ vector'[x] = vector[x]
      /\ \A x \in Signals : x # s =>
           Effective(x)' = Effective(x) /\ (Stopped(x)' <=> Stopped(x))
      /\ \A w : InMethod(w)' = InMethod(w)
  BY <1>1, <1>2, ChangedFacts
<1>4. /\ twice \subseteq twice' /\ twice' \subseteq Signals
      /\ \A x \in Signals : x # s /\ x \in twice' => x \in twice
      /\ kernel[s] \in Actions \ {"watch"} /\ (kernel[s] = "dispatch" => s \in twice')
  BY <1>1, <1>2 DEF WatchTypeOK
<1>5. \A x \in Signals : /\ kernel'[x] = "restart" => users[x] = "restart"
                         /\ vector'[x] = "dispatch" => x \in twice'
  BY <1>2, <1>3, <1>4 DEF WatchInv, SavedInv
<1>6. Stopped("PIPE")'
  BY <1>2, <1>3 DEF WatchInv, SavedInv
<1>7. MethodsInv'
  <2>1. \A x \in Signals : x # s => (Refuses(x) => Refuses(x)')
    <3> SUFFICES ASSUME NEW x \in {"HUP", "TERM"}, x # s PROVE saved'[x] = saved[x]
      BY DEF Refuses
    <3> QED  BY <1>1, SignalFacts DEF WatchTypeOK
  <2>2. ASSUME NEW x \in Signals, ActionWatches[x] \notin LockedWatches
        PROVE  \/ Stopped(x)' \/ Refuses(x)'
               \/ (ActionWatches[x] \in on /\ methods[ActionWatches[x]] # "nil")
    BY <1>3, <2>1, <2>2 DEF WatchInv, MethodsInv
  <2> QED  BY <1>1, <1>3, <2>2 DEF WatchInv, MethodsInv
<1>8. AbortsInv'
  BY <1>1 DEF AbortsInv, WatchAborts, Unbroken
<1>9. s \notin twice' => kernel[s] = users[s] \/ users[s] = "restart" \/ ~Pending(s)
  <2> SUFFICES ASSUME s \notin twice', Pending(s) PROVE kernel[s] = users[s] \/ users[s] = "restart"
    OBVIOUS
  <2>1. OwnKept(s)
    BY <1>4 DEF WatchInv, UsersInv
  <2> QED  BY <1>1, <2>1 DEF OwnKept, Effective
<1> QED  BY <1>3, <1>4, <1>5, <1>6, <1>7, <1>8, <1>9

LEMMA KeepClock ==
    ASSUME WatchInv, ChangeSignalAction, ~failed, ~UnwatchLeft,
           "clock" \in on, methods["clock"] # "nil",
           "ALRM" \in twice \/ saved["ALRM"] = "none", NEW old \in {"nil", "user", "job"},
           todo = <<ChangeKeeping("ALRM", "watch"), <<"arm", "clock", old>>>>
    PROVE  WatchInv'
<1> DEFINE k == ChangeKeeping("ALRM", "watch")
           l == <<"arm", "clock", old>>
           a == kernel["ALRM"]
           m == <<"arm", a, old>>
<1>1. /\ k[1] = "keep" /\ k[2] = "ALRM" /\ l[1] = "arm" /\ l[3] = old
      /\ m[1] = "arm" /\ m[2] = a /\ m[3] = old
  BY DEF ChangeKeeping
<1>2. todo = <<k, l>>
  OBVIOUS
<1> HIDE DEF l, m
<1>3. Head(todo) = k /\ Head(Tail(todo)) = l
  BY <1>2, TupleTails
<1>4. /\ Unbroken /\ WatchTypeOK /\ UNCHANGED <<saved, marked>>
      /\ UNCHANGED <<methods, period, timer, job, failed, running, broken, on, users>>
      /\ todo' = <<m>>
  <2>1. Head(Tail(todo))[3] = old
    BY <1>1, <1>3
  <2> QED  BY <1>3, <2>1, KeepStep DEF m
<1>5. "ALRM" \in SavingSignals /\ ActionWatches["ALRM"] = "clock" /\ SavingSignals \subseteq Signals
  BY SignalFacts
<1>6. /\ kernel' \in [Signals -> Actions \ {"watch"}]
      /\ vector' \in [Signals -> Actions \ {"restart"}]
      /\ twice \subseteq twice' /\ twice' \subseteq Signals
      /\ \A x \in Signals : /\ kernel'[x] = "restart" => users[x] = "restart"
                            /\ vector'[x] = "dispatch" => x \in twice'
      /\ \A x \in Signals : x # "ALRM" =>
           /\ Effective(x)' = Effective(x) /\ (Stopped(x)' <=> Stopped(x))
           /\ x \in twice' => x \in twice
      /\ Stopped("PIPE")'
      /\ MethodsInv' /\ AbortsInv'
      /\ "ALRM" \notin twice' => a = users["ALRM"] \/ users["ALRM"] = "restart" \/ ~Pending("ALRM")
      /\ a \in Actions \ {"watch"} /\ (a = "dispatch" => "ALRM" \in twice')
  BY <1>3, <1>5, KeepFacts DEF WatchInv, WatchTypeOK
<1> HIDE DEF a, k
<1>7. /\ \A s : Pending(s) <=> s = "ALRM"
      /\ \A s : ~Pending(s)'
      /\ Arming'
  <2>1. Len(todo) = 2 /\ todo[1] = k /\ todo[2] = l /\ Len(todo') = 1 /\ todo'[1] = m
    BY <1>2, <1>4
  <2>2. \A i \in 1 .. 2 : i \in {1, 2}
    OBVIOUS
  <2>3. \A s : Pending(s) <=> s = "ALRM"
    BY <1>1, <2>1, <2>2 DEF Pending
  <2>4. \A i \in 1 .. 1 : i = 1
    OBVIOUS
  <2>5. (\A s : ~Pending(s)') /\ Arming'
    BY <1>1, <2>1, <2>4 DEF Pending, Arming
  <2> QED  BY <2>3, <2>5
<1>8. WatchTypeOK'
  <2>1. a \in WatchNames
    BY <1>6, NameFacts
  <2>2. m \in WatchSteps
    BY <2>1, StepFacts DEF m
  <2>3. todo' \in Seq(WatchSteps)
    BY <1>4, <2>2, ShortSeqs
  <2> QED  BY <1>4, <1>6, <2>3 DEF WatchTypeOK
<1>9. TodoInv'
  <2>1. a = "restart" => users["ALRM"] = "restart"
    BY <1>5 DEF WatchInv, SavedInv, a
  <2>2. "ALRM" \in twice' \/ users["ALRM"] = "restart"
            \/ (a = users["ALRM"] /\ saved["ALRM"] = "none")
    BY <1>6, <1>7
  <2>3. ArmLeft'
    BY <1>4, <1>6, <2>1, <2>2 DEF ArmLeft, m
  <2> QED  BY <1>4, <2>3 DEF TodoInv
<1>10. SavedInv'
  <2>1. \A s \in {"HUP", "TERM"} :
         /\ s \notin marked => Stopped(s)' \/ Refuses(s)'
         /\ s \in marked => saved[s] # "none"
         /\ "signals" \in on => s \in marked \/ saved[s] = "restart"
    BY <1>4, <1>6, <1>7, SignalFacts DEF WatchInv, SavedInv, Refuses
  <2> QED  BY <1>4, <1>6, <1>7, <2>1 DEF WatchInv, SavedInv
<1>11. UsersInv'
  <2> SUFFICES ASSUME NEW s \in SavingSignals \ twice'
               PROVE  /\ ActionWatches[s] \notin on => OwnKept(s)'
                      /\ ActionWatches[s] \in on /\ s # "ALRM" =>
                           \/ users[s] = "restart" \/ saved[s] = users[s]
                           \/ /\ s \in {"ALRM", "PIPE"} /\ saved[s] = "none"
                              /\ Effective(s)' = users[s]
    BY <1>4, <1>7 DEF UsersInv
  <2>1. CASE s = "ALRM"
    BY <1>5, <2>1
  <2>2. CASE s # "ALRM"
    <3>1. /\ Effective(s)' = Effective(s) /\ (OwnKept(s)' <=> OwnKept(s)) /\ ~Pending(s)
          /\ s \in SavingSignals \ twice
      BY <1>4, <1>5, <1>6, <1>7, <2>2 DEF OwnKept
    <3> QED  BY <2>2, <3>1 DEF WatchInv, UsersInv
  <2> QED  BY <2>1, <2>2
<1> QED  BY <1>6, <1>8, <1>9, <1>10, <1>11 DEF WatchInv

LEMMA KeepOther ==
    ASSUME WatchInv, ChangeSignalAction, ~failed, ~UnwatchLeft,
           NEW s \in {"HUP", "TERM", "PIPE"}, NEW a \in {"watch", "ignore"},
           Head(todo) = ChangeKeeping(s, a), s = "PIPE" => a = "ignore",
           ActionWatches[s] \in on, a = "watch" => methods[ActionWatches[s]] # "nil",
           Pending(s), ~Pending(s)', \A x : x # s => (Pending(x)' <=> Pending(x)),
           ~Arming, ~Arming', TodoInv'
    PROVE  WatchInv'
<1>1. /\ Unbroken /\ WatchTypeOK /\ todo # <<>>
      /\ saved' = [saved EXCEPT ![s] = kernel[s]]
      /\ marked' = IF s = "PIPE" THEN marked ELSE marked \cup {s}
      /\ todo' = Tail(todo)
      /\ UNCHANGED <<methods, period, timer, job, failed, running, broken, on, users>>
  BY KeepStep
<1>2. s \in SavingSignals /\ SavingSignals \subseteq Signals
  BY SignalFacts
<1>3. /\ kernel' \in [Signals -> Actions \ {"watch"}]
      /\ vector' \in [Signals -> Actions \ {"restart"}]
      /\ twice \subseteq twice' /\ twice' \subseteq Signals
      /\ \A x \in Signals : /\ kernel'[x] = "restart" => users[x] = "restart"
                            /\ vector'[x] = "dispatch" => x \in twice'
      /\ \A x \in Signals : x # s =>
           /\ Effective(x)' = Effective(x) /\ (Stopped(x)' <=> Stopped(x))
           /\ x \in twice' => x \in twice
      /\ Stopped("PIPE")'
      /\ MethodsInv' /\ AbortsInv'
      /\ s \notin twice' => kernel[s] = users[s] \/ users[s] = "restart"
      /\ kernel[s] \in Actions \ {"watch"} /\ (kernel[s] = "dispatch" => s \in twice')
  BY <1>2, KeepFacts DEF WatchInv, WatchTypeOK
<1>4. /\ saved' \in [SavingSignals -> (Actions \ {"watch"}) \cup {"none"}]
      /\ saved'[s] = kernel[s] /\ \A x \in SavingSignals : x # s => saved'[x] = saved[x]
      /\ kernel[s] # "none"
  BY <1>1, <1>2, <1>3 DEF WatchTypeOK, Actions
<1>5. WatchTypeOK'
  <2>1. todo' \in Seq(WatchSteps)
    BY <1>1, TailFacts
  <2>2. marked' \subseteq {"HUP", "TERM"}
    BY <1>1 DEF WatchTypeOK
  <2> QED  BY <1>1, <1>3, <1>4, <2>1, <2>2 DEF WatchTypeOK
<1>6. SavedInv'
  <2>1. ASSUME NEW x \in {"HUP", "TERM"}
        PROVE  /\ x \notin marked' => Stopped(x)' \/ Refuses(x)'
               /\ x \in marked' => saved'[x] # "none"
               /\ "signals" \in on /\ ~Pending(x)' => x \in marked' \/ saved'[x] = "restart"
    <3>1. CASE x = s
      BY <1>1, <1>4, <3>1
    <3>2. CASE x # s
      BY <1>1, <1>3, <1>4, <3>2, SignalFacts DEF WatchInv, SavedInv, Refuses
    <3> QED  BY <3>1, <3>2
  <2>2. \A x \in SavingSignals : saved'[x] = "dispatch" => x \in twice'
    BY <1>3, <1>4 DEF WatchInv, SavedInv
  <2>3. saved'["ALRM"] = "none" => Stopped("ALRM")'
    BY <1>1, <1>3, <1>4, SignalFacts DEF WatchInv, SavedInv, Unbroken
  <2>4. \A x \in {"ALRM", "PIPE"} : ActionWatches[x] \notin on => saved'[x] = "none"
    BY <1>4, SignalFacts, ZenonT(40) DEF WatchInv, SavedInv
  <2> QED  BY <1>1, <1>3, <2>1, <2>2, <2>3, <2>4 DEF SavedInv
<1>7. UsersInv'
  <2> SUFFICES ASSUME NEW x \in SavingSignals \ twice'
               PROVE  /\ ActionWatches[x] \notin on \/ Pending(x)' => OwnKept(x)'
                      /\ ActionWatches[x] \in on /\ ~Pending(x)' =>
                           \/ users[x] = "restart" \/ saved'[x] = users[x]
                           \/ /\ x \in {"ALRM", "PIPE"} /\ saved'[x] = "none"
                              /\ Effective(x)' = users[x]
    BY <1>1 DEF UsersInv
  <2>1. CASE x = s
    BY <1>3, <1>4, <2>1
  <2>2. CASE x # s
    <3>1. /\ Effective(x)' = Effective(x) /\ (OwnKept(x)' <=> OwnKept(x))
          /\ (Pending(x)' <=> Pending(x)) /\ saved'[x] = saved[x] /\ x \in SavingSignals \ twice
      BY <1>1, <1>2, <1>3, <1>4, <2>2 DEF OwnKept
    <3> QED  BY <2>2, <3>1 DEF WatchInv, UsersInv
  <2> QED  BY <2>1, <2>2
<1> QED  BY <1>3, <1>5, <1>6, <1>7 DEF WatchInv

LEMMA ChangeSignalActionInv ==
    ASSUME WatchInv, ChangeSignalAction
    PROVE  WatchInv'
<1>1. Head(todo)[1] \in {"change", "keep"} /\ WatchTypeOK
  BY DEF ChangeSignalAction, Step, WatchInv
<1>2. CASE Head(todo)[1] = "change"
  BY <1>2, ChildChangeInv
<1>3. CASE Head(todo)[1] = "keep"
  <2>1. ~UnwatchLeft
    <3>1. todo # <<>>
      BY DEF ChangeSignalAction, Step
    <3> QED  BY <1>1, <1>3, <3>1, BeginHeads DEF StepKept
  <2>2. todo # <<Change("CHLD", "watch")>>
    <3>1. Change("CHLD", "watch")[1] = "change"
      BY DEF Change
    <3> QED  BY <1>3, <3>1, TupleTails
  <2> DEFINE h == ChangeKeeping("HUP", "watch")
             t == ChangeKeeping("TERM", "watch")
             p == ChangeKeeping("PIPE", "ignore")
  <2>3. /\ h[1] = "keep" /\ h[2] = "HUP" /\ t[1] = "keep" /\ t[2] = "TERM"
        /\ p[1] = "keep" /\ p[2] = "PIPE"
    BY DEF ChangeKeeping
  <2>4. CASE ~failed /\ "signals" \in on /\ methods["signals"] # "nil" /\ todo = <<h, t>>
    <3>1. Head(todo) = h /\ todo' = <<t>>
      <4>1. Head(todo) = h /\ Tail(todo) = <<t>>
        BY <2>4, TupleTails
      <4>2. todo' = Tail(todo)
        BY <4>1, KeepStep
      <4> QED  BY <4>1, <4>2
    <3>2. /\ Pending("HUP") /\ ~Pending("HUP")' /\ ~Arming /\ ~Arming'
          /\ \A x : x # "HUP" => (Pending(x)' <=> Pending(x))
      <4> HIDE DEF h, t
      <4>1. Len(todo) = 2 /\ todo[1] = h /\ todo[2] = t /\ Len(todo') = 1 /\ todo'[1] = t
        BY <2>4, <3>1
      <4>2. (\A i \in 1 .. 2 : i \in {1, 2}) /\ (\A i \in 1 .. 1 : i = 1) /\ 1 \in 1 .. 2 /\ 2 \in 1 .. 2
        OBVIOUS
      <4>3. (\A x : Pending(x) <=> x \in {"HUP", "TERM"}) /\ ~Arming
        BY <2>3, <4>1, <4>2 DEF Pending, Arming
      <4>4. (\A x : Pending(x)' <=> x = "TERM") /\ ~Arming'
        BY <2>3, <4>1, <4>2 DEF Pending, Arming
      <4> QED  BY <4>3, <4>4
    <3>3. TodoInv'
      <4>1. failed' = failed /\ on' = on /\ methods' = methods
        BY <3>1, KeepStep
      <4>2. WatchLeft("signals")'
        BY <2>4, <3>1, <4>1 DEF WatchLeft
      <4> QED  BY <2>4, <4>1, <4>2 DEF TodoInv
    <3> QED  BY <2>1, <2>4, <3>1, <3>2, <3>3, KeepOther, SignalFacts
  <2>5. ASSUME ~failed, NEW s \in {"TERM", "PIPE"}, NEW a \in {"watch", "ignore"},
               s = "PIPE" => a = "ignore", ActionWatches[s] \in on,
               a = "watch" => methods[ActionWatches[s]] # "nil",
               todo = <<ChangeKeeping(s, a)>>
        PROVE  WatchInv'
    <3> DEFINE k == ChangeKeeping(s, a)
    <3>1. k[1] = "keep" /\ k[2] = s
      BY DEF ChangeKeeping
    <3>2. Head(todo) = k /\ todo' = <<>>
      <4>1. Head(todo) = k /\ Tail(todo) = <<>>
        BY <2>5, TupleTails
      <4>2. todo' = Tail(todo)
        BY <4>1, KeepStep
      <4> QED  BY <4>1, <4>2
    <3>3. TodoInv' /\ (\A x : ~Pending(x)') /\ ~Arming'
      BY <3>2, EmptyNext DEF TodoInv
    <3>4. (\A x : Pending(x) <=> x = s) /\ ~Arming
      <4> HIDE DEF k
      <4>1. Len(todo) = 1 /\ todo[1] = k
        BY <2>5 DEF k
      <4>2. \A i \in 1 .. 1 : i = 1
        OBVIOUS
      <4> QED  BY <3>1, <4>1, <4>2 DEF Pending, Arming
    <3> QED  BY <2>1, <2>5, <3>2, <3>3, <3>4, KeepOther, SignalFacts
  <2>6. CASE /\ ~failed /\ "signals" \in on /\ methods["signals"] # "nil"
             /\ todo \in {<<h, t>>, <<t>>}
    BY <2>4, <2>5, <2>6, SignalFacts
  <2>7. CASE ~failed /\ "pipe" \in on /\ todo = <<p>>
    BY <2>5, <2>7, SignalFacts
  <2> QED  BY <2>1, <2>2, <2>6, <2>7, ChangeCases, KeepClock
<1> QED  BY <1>1, <1>2, <1>3

\* The timer is about to be started.
LEMMA ArmCases ==
    ASSUME WatchInv, Step({"arm"})
    PROVE  /\ ~failed /\ WatchTypeOK /\ Unbroken /\ todo # <<>>
           /\ On \in Actions \ {"watch"} /\ With \in {"nil", "user", "job"}
           /\ methods["clock"] # "nil" /\ "clock" \in on
           /\ On = "dispatch" => "ALRM" \in twice
           /\ On = "restart" => users["ALRM"] = "restart"
           /\ "ALRM" \in twice \/ users["ALRM"] = "restart"
                 \/ (On = users["ALRM"] /\ saved["ALRM"] = "none")
           /\ \A s : ~Pending(s)
<1>1. Unbroken /\ todo # <<>> /\ Head(todo)[1] = "arm" /\ WatchTypeOK
  BY DEF Step, WatchInv, Unbroken
<1>2. ~failed /\ ArmLeft
  <2>1. ~UnwatchLeft
    BY <1>1, BeginHeads DEF StepKept
  <2>2. \A w : ~WatchLeft(w)
    BY <1>1, BeginHeads
  <2> QED  BY <2>1, <2>2 DEF WatchInv, TodoInv
<1>3. PICK a \in Actions \ {"watch"}, m \in {"nil", "user", "job"} :
       /\ todo = <<<<"arm", a, m>>>> /\ methods["clock"] # "nil" /\ "clock" \in on
       /\ a = "dispatch" => "ALRM" \in twice
       /\ a = "restart" => users["ALRM"] = "restart"
       /\ "ALRM" \in twice \/ users["ALRM"] = "restart"
            \/ (a = users["ALRM"] /\ saved["ALRM"] = "none")
  BY <1>2 DEF ArmLeft
<1> DEFINE k == <<"arm", a, m>>
<1>4. k[1] = "arm" /\ k[2] = a /\ k[3] = m
  OBVIOUS
<1>5. todo = <<k>>
  BY <1>3
<1> HIDE DEF k
<1>6. Head(todo) = k /\ Len(todo) = 1 /\ todo[1] = k
  BY <1>5
<1>7. On = a /\ With = m
  BY <1>4, <1>6 DEF On, With
<1>8. \A i \in 1 .. 1 : i = 1
  OBVIOUS
<1>9. \A s : ~Pending(s)
  BY <1>4, <1>6, <1>8 DEF Pending
<1> QED  BY <1>1, <1>2, <1>3, <1>7, <1>9

LEMMA ArmTimerInv ==
    ASSUME WatchInv, ArmTimer
    PROVE  WatchInv'
<1> DEFINE a == On
<1>1. /\ ~failed /\ WatchTypeOK /\ Unbroken /\ a \in Actions \ {"watch"}
      /\ methods["clock"] # "nil" /\ "clock" \in on
      /\ a = "dispatch" => "ALRM" \in twice
      /\ "ALRM" \in twice \/ users["ALRM"] = "restart" \/ a = users["ALRM"]
      /\ \A s : ~Pending(s)
  BY ArmCases DEF ArmTimer
<1>2. /\ timer' = period /\ period' = TRUE /\ saved' = [saved EXCEPT !["ALRM"] = a] /\ todo' = <<>>
      /\ UNCHANGED <<kernel, vector, methods, marked, job, failed, running, broken, on, twice, users>>
  BY DEF ArmTimer
<1> HIDE DEF a
<1>3. /\ saved' \in [SavingSignals -> (Actions \ {"watch"}) \cup {"none"}]
      /\ saved'["ALRM"] = a /\ \A x \in SavingSignals : x # "ALRM" => saved'[x] = saved[x]
      /\ a # "none"
  BY <1>1, <1>2, SignalFacts DEF WatchTypeOK, Actions
<1>4. UnwatchLeft' /\ (\A s : ~Pending(s)') /\ ~Arming'
  BY <1>2, EmptyNext
<1>5. /\ \A x \in Signals : (Refuses(x)' <=> Refuses(x)) /\ (Stopped(x)' <=> Stopped(x))
      /\ \A x : (OwnKept(x)' <=> OwnKept(x)) /\ Effective(x)' = Effective(x)
      /\ \A w : InMethod(w)' = InMethod(w)
  BY <1>2, <1>3, SignalFacts DEF Refuses, Stopped, InAction, InMethod, OwnKept, Effective
<1>6. WatchTypeOK'
  BY <1>1, <1>2, <1>3 DEF WatchTypeOK
<1>7. MethodsInv'
  BY <1>2, <1>5 DEF WatchInv, MethodsInv
<1>8. SavedInv'
  <2>1. \A x \in {"HUP", "TERM"} :
         /\ x \notin marked => Stopped(x)' \/ Refuses(x)'
         /\ x \in marked => saved'[x] # "none"
         /\ "signals" \in on => x \in marked \/ saved'[x] = "restart"
    <3> SUFFICES ASSUME NEW x \in {"HUP", "TERM"}
                 PROVE  /\ x \notin marked => Stopped(x)' \/ Refuses(x)'
                        /\ x \in marked => saved'[x] # "none"
                        /\ "signals" \in on => x \in marked \/ saved'[x] = "restart"
      OBVIOUS
    <3>1. saved'[x] = saved[x] /\ x \in Signals
      BY <1>3, SignalFacts
    <3> QED  BY <1>1, <1>5, <3>1 DEF WatchInv, SavedInv
  <2>2. \A x \in SavingSignals : saved'[x] = "dispatch" => x \in twice
    BY <1>1, <1>3 DEF WatchInv, SavedInv
  <2>3. Stopped("PIPE")'
    BY <1>5, SignalFacts DEF WatchInv, SavedInv
  <2>4. \A x \in {"ALRM", "PIPE"} : ActionWatches[x] \notin on => saved'[x] = "none"
    BY <1>1, <1>3, SignalFacts DEF WatchInv, SavedInv
  <2>5. \A x \in Signals : /\ kernel[x] = "restart" => users[x] = "restart"
                           /\ vector[x] = "dispatch" => x \in twice
    BY DEF WatchInv, SavedInv
  <2> QED  BY <1>1, <1>2, <1>3, <2>1, <2>2, <2>3, <2>4, <2>5 DEF SavedInv
<1>9. UsersInv'
  <2> SUFFICES ASSUME NEW x \in SavingSignals \ twice
               PROVE  /\ ActionWatches[x] \notin on => OwnKept(x)'
                      /\ ActionWatches[x] \in on =>
                           \/ users[x] = "restart" \/ saved'[x] = users[x]
                           \/ /\ x \in {"ALRM", "PIPE"} /\ saved'[x] = "none"
                              /\ Effective(x)' = users[x]
    BY <1>2, <1>4 DEF UsersInv
  <2>1. CASE x = "ALRM"
    BY <1>1, <1>3, <2>1, SignalFacts
  <2>2. CASE x # "ALRM"
    BY <1>1, <1>3, <1>5, <2>2 DEF WatchInv, UsersInv
  <2> QED  BY <2>1, <2>2
<1>10. AbortsInv'
  BY <1>1, <1>2 DEF AbortsInv, WatchAborts, Unbroken
<1> QED  BY <1>4, <1>6, <1>7, <1>8, <1>9, <1>10 DEF WatchInv, TodoInv

LEMMA ArmFailsInv ==
    ASSUME WatchInv, ArmFails
    PROVE  WatchInv'
<1> DEFINE a == On
           m == With
<1>1. /\ ~failed /\ WatchTypeOK /\ Unbroken /\ a \in Actions \ {"watch"} /\ m \in {"nil", "user", "job"}
      /\ methods["clock"] # "nil" /\ "clock" \in on
      /\ a = "dispatch" => "ALRM" \in twice
      /\ a = "restart" => users["ALRM"] = "restart"
      /\ "ALRM" \in twice \/ users["ALRM"] = "restart"
            \/ (a = users["ALRM"] /\ saved["ALRM"] = "none")
      /\ \A s : ~Pending(s)
  BY ArmCases DEF ArmFails
<1>2. /\ todo' = <<>>
      /\ UNCHANGED <<saved, marked, period, timer, job, failed, running, on, twice, users>>
      /\ IF a = "restart"
         THEN broken' = "revert" /\ UNCHANGED <<kernel, vector, methods>>
         ELSE Changed("ALRM", a) /\ methods' = [methods EXCEPT !["clock"] = m] /\ UNCHANGED broken
  BY DEF ArmFails
<1> HIDE DEF a, m
<1>3. UnwatchLeft' /\ (\A s : ~Pending(s)') /\ ~Arming' /\ todo' \in Seq(WatchSteps)
  <2>1. <<>> \in Seq(WatchSteps)
    OBVIOUS
  <2> QED  BY <1>2, <2>1, EmptyNext
<1>4. /\ "ALRM" \in SavingSignals /\ ActionWatches["ALRM"] = "clock" /\ SavingSignals \subseteq Signals
      /\ "clock" \in Watches /\ "clock" \notin LockedWatches
  BY SignalFacts
<1>5. CASE a = "restart"
  <2>1. /\ \A x : (Refuses(x)' <=> Refuses(x)) /\ (Stopped(x)' <=> Stopped(x))
        /\ \A x : (OwnKept(x)' <=> OwnKept(x)) /\ Effective(x)' = Effective(x)
        /\ \A w : InMethod(w)' = InMethod(w)
    BY <1>2, <1>5 DEF Refuses, Stopped, InAction, InMethod, OwnKept, Effective
  <2>2. WatchTypeOK'
    BY <1>1, <1>2, <1>3, <1>5 DEF WatchTypeOK
  <2>3. MethodsInv'
    BY <1>2, <1>5, <2>1 DEF WatchInv, MethodsInv
  <2>4. SavedInv'
    <3>1. \A x \in {"HUP", "TERM"} :
           /\ x \notin marked => Stopped(x)' \/ Refuses(x)'
           /\ x \in marked => saved[x] # "none"
           /\ "signals" \in on => x \in marked \/ saved[x] = "restart"
      BY <1>1, <2>1, SignalFacts DEF WatchInv, SavedInv
    <3> QED  BY <1>1, <1>2, <1>5, <2>1, <3>1 DEF WatchInv, SavedInv
  <2>5. UsersInv'
    <3> SUFFICES ASSUME NEW x \in SavingSignals \ twice
                 PROVE  /\ ActionWatches[x] \notin on => OwnKept(x)'
                        /\ ActionWatches[x] \in on =>
                             \/ users[x] = "restart" \/ saved[x] = users[x]
                             \/ /\ x \in {"ALRM", "PIPE"} /\ saved[x] = "none"
                                /\ Effective(x)' = users[x]
      BY <1>2, <1>3 DEF UsersInv
    <3>1. CASE x = "ALRM"
      BY <1>1, <1>4, <1>5, <3>1
    <3>2. CASE x # "ALRM"
      BY <1>1, <2>1, <3>2 DEF WatchInv, UsersInv
    <3> QED  BY <3>1, <3>2
  <2>6. AbortsInv'
    <3>1. Refused("clock")'
      BY <1>1, <1>2, <1>4, <1>5 DEF Refused
    <3> QED  BY <1>2, <1>4, <1>5, <3>1 DEF AbortsInv, WatchAborts
  <2> QED  BY <1>3, <2>2, <2>3, <2>4, <2>5, <2>6 DEF WatchInv, TodoInv
<1>6. CASE a # "restart"
  <2>1. /\ kernel' \in [Signals -> Actions \ {"watch"}]
        /\ vector' \in [Signals -> Actions \ {"restart"}]
        /\ kernel'["ALRM"] # "restart" /\ vector'["ALRM"] = a /\ Effective("ALRM")' = a
        /\ Stopped("ALRM")'
        /\ \A x \in Signals : x # "ALRM" => kernel'[x] = kernel[x] /\ vector'[x] = vector[x]
        /\ \A x \in Signals : x # "ALRM" =>
             Effective(x)' = Effective(x) /\ (Stopped(x)' <=> Stopped(x))
        /\ \A w : InMethod(w)' = InMethod(w)
    BY <1>1, <1>2, <1>4, <1>6, ChangedFacts
  <2>2. /\ methods' \in [Watches -> {"nil", "user", "job"}]
        /\ \A w \in Watches : w # "clock" => methods'[w] = methods[w]
    BY <1>1, <1>2, <1>6 DEF WatchTypeOK
  <2>3. \A x : Refuses(x)' <=> Refuses(x)
    BY <1>2 DEF Refuses
  <2>4. WatchTypeOK'
    BY <1>1, <1>2, <1>3, <1>6, <2>1, <2>2 DEF WatchTypeOK
  <2>5. MethodsInv'
    <3>1. \A w \in LockedWatches : methods'[w] = methods[w]
      BY <2>2, SignalFacts
    <3>2. ASSUME NEW x \in Signals, ActionWatches[x] \notin LockedWatches
          PROVE  \/ Stopped(x)' \/ Refuses(x)'
                 \/ (ActionWatches[x] \in on /\ methods'[ActionWatches[x]] # "nil")
      <4>1. CASE x = "ALRM"
        BY <2>1, <4>1
      <4>2. CASE x # "ALRM"
        <5>1. ActionWatches[x] \in Watches /\ ActionWatches[x] # "clock"
          BY <4>2, SignalFacts
        <5> QED  BY <2>1, <2>2, <2>3, <3>2, <4>2, <5>1 DEF WatchInv, MethodsInv
      <4> QED  BY <4>1, <4>2
    <3> QED  BY <1>2, <2>1, <3>1, <3>2 DEF WatchInv, MethodsInv
  <2>6. SavedInv'
    <3>1. \A x \in {"HUP", "TERM"} :
           /\ x \notin marked => Stopped(x)' \/ Refuses(x)'
           /\ x \in marked => saved[x] # "none"
           /\ "signals" \in on => x \in marked \/ saved[x] = "restart"
      BY <1>1, <2>1, <2>3, SignalFacts DEF WatchInv, SavedInv
    <3>2. Stopped("PIPE")'
      BY <2>1, SignalFacts DEF WatchInv, SavedInv
    <3>3. \A x \in Signals : /\ kernel'[x] = "restart" => users[x] = "restart"
                             /\ vector'[x] = "dispatch" => x \in twice
      BY <1>1, <2>1 DEF WatchInv, SavedInv
    <3> QED  BY <1>1, <1>2, <2>1, <3>1, <3>2, <3>3 DEF WatchInv, SavedInv
  <2>7. UsersInv'
    <3> SUFFICES ASSUME NEW x \in SavingSignals \ twice
                 PROVE  /\ ActionWatches[x] \notin on => OwnKept(x)'
                        /\ ActionWatches[x] \in on =>
                             \/ users[x] = "restart" \/ saved[x] = users[x]
                             \/ /\ x \in {"ALRM", "PIPE"} /\ saved[x] = "none"
                                /\ Effective(x)' = users[x]
      BY <1>2, <1>3 DEF UsersInv
    <3>1. CASE x = "ALRM"
      BY <1>1, <1>4, <2>1, <3>1
    <3>2. CASE x # "ALRM"
      <4>1. Effective(x)' = Effective(x) /\ (OwnKept(x)' <=> OwnKept(x))
        BY <1>2, <1>4, <2>1, <3>2 DEF OwnKept
      <4> QED  BY <1>1, <3>2, <4>1 DEF WatchInv, UsersInv
    <3> QED  BY <3>1, <3>2
  <2>8. AbortsInv'
    BY <1>1, <1>2, <1>6 DEF AbortsInv, WatchAborts, Unbroken
  <2> QED  BY <1>3, <2>4, <2>5, <2>6, <2>7, <2>8 DEF WatchInv, TodoInv
<1> QED  BY <1>5, <1>6

\* What is known where an action is restored.
LEMMA RestoreCases ==
    ASSUME WatchInv, RestoreAction
    PROVE  /\ WatchTypeOK /\ Unbroken /\ todo # <<>> /\ UnwatchLeft /\ On \in SavingSignals
           /\ Head(todo)[1] = "restore" /\ todo[1] = Head(todo)
           /\ On = "ALRM" => 1 < Len(todo) /\ todo[2] = SetMethod("clock", "nil")
           /\ On \in {"ALRM", "PIPE"} => saved[On] # "none"
           /\ (\A s : ~Pending(s)) /\ ~Arming
<1>1. WatchTypeOK /\ Unbroken /\ todo # <<>> /\ Head(todo)[1] = "restore"
  BY DEF RestoreAction, Step, WatchInv, Unbroken
<1>2. UnwatchLeft
  BY <1>1, BeginHeads DEF WatchInv, TodoInv
<1>3. StepKept(todo, 1, failed) /\ todo[1] = Head(todo)
  BY <1>1, <1>2, BeginHeads
<1>4. /\ On \in SavingSignals
      /\ On = "ALRM" => 1 < Len(todo) /\ todo[2] = SetMethod("clock", "nil")
      /\ On \in {"ALRM", "PIPE"} => saved[On] # "none"
  BY <1>1, <1>3 DEF StepKept, On
<1> QED  BY <1>1, <1>2, <1>3, <1>4, NoKeep

\* No previous action was kept, or it was never put in force: nothing to restore.
LEMMA RestoreSkipped ==
    ASSUME WatchInv, RestoreAction, NEW s, On = s, s \in {"HUP", "TERM"} \ marked
    PROVE  WatchInv'
<1>1. /\ WatchTypeOK /\ Unbroken /\ todo # <<>> /\ UnwatchLeft /\ Head(todo)[1] = "restore"
      /\ (\A x : ~Pending(x)) /\ ~Arming
  BY RestoreCases
<1>2. /\ todo' = Tail(todo)
      /\ UNCHANGED <<kernel, vector, saved, marked, period, failed, twice, methods, timer, job,
                     running, broken, on, users>>
  BY DEF RestoreAction
<1>3. /\ \A x : (Refuses(x)' <=> Refuses(x)) /\ (Stopped(x)' <=> Stopped(x))
      /\ \A x : (EndsWell(x)' <=> EndsWell(x))
      /\ \A w : InMethod(w)' = InMethod(w)
  BY <1>2 DEF Refuses, Stopped, InAction, InMethod, OwnKept, Effective, EndsWell
<1>4. Stopped(s) \/ Refuses(s)
  BY DEF WatchInv, SavedInv
<1>5. EndsWell(s)
  <2>1. s \in SavingSignals /\ ActionWatches[s] = "signals" /\ s \notin {"ALRM", "PIPE"}
    BY SignalFacts
  <2>2. ASSUME s \notin twice PROVE OwnKept(s)
    <3>1. CASE "signals" \in on
      <4>1. saved[s] = "restart"
        BY <1>1, <3>1 DEF WatchInv, SavedInv
      <4>2. users[s] = "restart" \/ saved[s] = users[s]
        BY <1>1, <2>1, <2>2, <3>1 DEF WatchInv, UsersInv
      <4> QED  BY <4>1, <4>2 DEF OwnKept
    <3>2. CASE "signals" \notin on
      BY <2>1, <2>2, <3>2 DEF WatchInv, UsersInv
    <3> QED  BY <3>1, <3>2
  <2> QED  BY <1>4, <2>1, <2>2 DEF EndsWell
<1>6. UnwatchLeft'
  BY <1>1, <1>2, <1>3, <1>4, <1>5, NextKept DEF On
<1>7. WatchTypeOK'
  BY <1>1, <1>2, TailFacts DEF WatchTypeOK
<1>8. MethodsInv'
  BY <1>2, <1>3 DEF WatchInv, MethodsInv
<1>9. AbortsInv'
  BY <1>1, <1>2 DEF AbortsInv, WatchAborts, Unbroken
<1>10. SavedInv' /\ UsersInv'
  BY <1>1, <1>2, <1>9, PendingKept, SameActions
<1> QED  BY <1>6, <1>7, <1>8, <1>9, <1>10 DEF WatchInv, TodoInv

\* The previous action restarts system calls: it is not put back.
LEMMA RestoreRefused ==
    ASSUME WatchInv, RestoreAction, NEW s, On = s, s \notin {"HUP", "TERM"} \ marked,
           saved[s] = "restart"
    PROVE  WatchInv'
<1>1. /\ WatchTypeOK /\ Unbroken /\ todo # <<>> /\ UnwatchLeft /\ s \in SavingSignals
      /\ Head(todo)[1] = "restore" /\ todo[1] = Head(todo)
      /\ s = "ALRM" => 1 < Len(todo) /\ todo[2] = SetMethod("clock", "nil")
      /\ (\A x : ~Pending(x)) /\ ~Arming
  BY RestoreCases
<1>2. /\ failed' = TRUE /\ marked' = marked \ {s}
      /\ todo' = IF s = "ALRM" THEN Tail(Tail(todo)) ELSE Tail(todo)
      /\ UNCHANGED <<kernel, vector, saved, period, twice, methods, timer, job, running, broken,
                     on, users>>
  BY DEF RestoreAction
<1>3. /\ \A x : (Refuses(x)' <=> Refuses(x)) /\ (Stopped(x)' <=> Stopped(x))
      /\ \A x : (OwnKept(x)' <=> OwnKept(x)) /\ Effective(x)' = Effective(x)
      /\ \A x : (EndsWell(x)' <=> EndsWell(x))
      /\ \A w : InMethod(w)' = InMethod(w)
  BY <1>2 DEF Refuses, Stopped, InAction, InMethod, OwnKept, Effective, EndsWell
<1>4. s # "ALRM" => Stopped(s) \/ Refuses(s)
  BY <1>1, SignalFacts DEF WatchInv, SavedInv, Refuses
<1>5. UnwatchLeft' /\ todo' \in Seq(WatchSteps)
  <2>1. CASE s # "ALRM"
    <3>1. todo' = Tail(todo)
      BY <1>2, <2>1
    <3> QED  BY <1>1, <1>2, <1>3, <1>4, <2>1, <3>1, NextKept, TailFacts DEF On
  <2>2. CASE s = "ALRM"
    <3>1. /\ todo \in Seq(WatchSteps) /\ Len(todo) \in Nat /\ 1 < Len(todo)
          /\ Tail(todo) \in Seq(WatchSteps) /\ Len(Tail(todo)) = Len(todo) - 1
          /\ \A i \in 1 .. Len(Tail(todo)) : Tail(todo)[i] = todo[i + 1]
      BY <1>1, <2>2, TailFacts
    <3> DEFINE r == Tail(todo)
    <3>2. /\ r \in Seq(WatchSteps) /\ Len(r) = Len(todo) - 1 /\ r # <<>>
          /\ \A i \in 1 .. Len(r) : r[i] = todo[i + 1]
          /\ todo' = Tail(r)
      <4>1. Len(r) # 0
        BY <3>1, SMTT(30)
      <4>2. Len(<<>>) = 0
        OBVIOUS
      <4>3. r # <<>>
        <5> HIDE DEF r
        <5> QED  BY <4>1, <4>2
      <4> QED  BY <1>2, <2>2, <3>1, <4>3
    <3> HIDE DEF r
    <3>3. /\ Tail(r) \in Seq(WatchSteps) /\ Len(Tail(r)) = Len(r) - 1
          /\ \A i \in 1 .. Len(Tail(r)) : Tail(r)[i] = r[i + 1]
      BY <3>2, HeadTailProperties
    <3>4. /\ todo' \in Seq(WatchSteps) /\ Len(todo') = Len(todo) - 2 /\ 2 <= Len(todo)
          /\ \A i \in 1 .. Len(todo') : todo'[i] = todo[i + 2]
      <4>1. todo' \in Seq(WatchSteps) /\ Len(todo') = Len(todo) - 2 /\ 2 <= Len(todo)
        <5>1. todo' \in Seq(WatchSteps)
          BY <3>2, <3>3
        <5>2. Len(todo') = Len(r) - 1 /\ Len(r) = Len(todo) - 1 /\ Len(todo) \in Nat /\ 1 < Len(todo)
          BY <3>1, <3>2, <3>3
        <5>3. Len(todo') = Len(todo) - 2 /\ 2 <= Len(todo)
          BY ONLY <5>2
        <5> QED  BY <5>1, <5>3
      <4>2. ASSUME NEW i \in 1 .. Len(todo') PROVE todo'[i] = todo[i + 2]
        <5>1. i + 1 \in 1 .. Len(r) /\ (i + 1) + 1 = i + 2 /\ i \in 1 .. Len(Tail(r))
          BY <3>1, <3>2, <3>3, <4>1
        <5> QED  BY <3>2, <3>3, <5>1
      <4> QED  BY <4>1, <4>2
    <3>5. todo[2][1] = "method" /\ todo[1][2] = "ALRM"
      <4>1. SetMethod("clock", "nil")[1] = "method"
        BY DEF SetMethod
      <4> QED  BY <1>1, <2>2, <4>1 DEF On
    <3>6. 2 \in Nat /\ \A j \in 1 .. 2 : j \in {1, 2}
      OBVIOUS
    <3>7. \A x \in Signals : \A j \in 1 .. 2 :
              todo[j][1] \in {"change", "restore"} /\ todo[j][2] = x =>
                 /\ EndsWell(x)' \/ failed'
                 /\ x # "ALRM" \/ j = 2 => Stopped(x)' \/ Refuses(x)'
      BY <1>2, <3>5, <3>6
    <3>8. \A x \in Signals : EndsWell(x) => EndsWell(x)' \/ failed'
      BY <1>2
    <3>9. \A x \in {"ALRM", "PIPE"} : saved[x] # "none" =>
              saved'[x] # "none" \/ \E j \in 1 .. 2 : todo[j][1] = "restore" /\ todo[j][2] = x
      BY <1>2
    <3>10. \A x \in Signals : ActionWatches[x] \notin LockedWatches =>
              (Stopped(x) \/ Refuses(x) => Stopped(x)' \/ Refuses(x)')
      BY <1>3
    <3>11. failed => failed'
      BY <1>2
    <3>12. UnwatchLeft'
      BY <1>1, <3>1, <3>4, <3>6, <3>7, <3>8, <3>9, <3>10, <3>11, DropKept
    <3> QED  BY <3>4, <3>12
  <2> QED  BY <2>1, <2>2
<1>6. WatchTypeOK'
  BY <1>1, <1>2, <1>5 DEF WatchTypeOK
<1>7. MethodsInv'
  BY <1>2, <1>3 DEF WatchInv, MethodsInv
<1>8. AbortsInv'
  BY <1>1, <1>2 DEF AbortsInv, WatchAborts, Unbroken
<1>9. (\A x : ~Pending(x)') /\ ~Arming'
  BY <1>5 DEF UnwatchLeft, StepKept, Pending, Arming
<1>10. SavedInv'
  <2>1. ASSUME NEW x \in {"HUP", "TERM"}
        PROVE  /\ x \notin marked' => Stopped(x)' \/ Refuses(x)'
               /\ x \in marked' => saved[x] # "none"
               /\ "signals" \in on => x \in marked' \/ saved[x] = "restart"
    <3>1. CASE x = s
      BY <1>2, <1>3, <3>1 DEF Refuses
    <3>2. CASE x # s
      BY <1>1, <1>2, <1>3, <3>2 DEF WatchInv, SavedInv
    <3> QED  BY <3>1, <3>2
  <2>2. (saved["ALRM"] = "none" => Stopped("ALRM")') /\ Stopped("PIPE")'
    BY <1>1, <1>3 DEF WatchInv, SavedInv, Unbroken
  <2> QED  BY <1>1, <1>2, <2>1, <2>2 DEF WatchInv, SavedInv
<1>11. UsersInv'
  <2> SUFFICES ASSUME NEW x \in SavingSignals \ twice
               PROVE  /\ ActionWatches[x] \notin on => OwnKept(x)'
                      /\ ActionWatches[x] \in on =>
                           \/ users[x] = "restart" \/ saved[x] = users[x]
                           \/ /\ x \in {"ALRM", "PIPE"} /\ saved[x] = "none"
                              /\ Effective(x)' = users[x]
    BY <1>2, <1>9 DEF UsersInv
  <2> QED  BY <1>1, <1>3 DEF WatchInv, UsersInv
<1> QED  BY <1>5, <1>6, <1>7, <1>8, <1>10, <1>11 DEF WatchInv, TodoInv

\* The previous action is put back.
LEMMA RestoreDone ==
    ASSUME WatchInv, RestoreAction, NEW s, On = s, s \notin {"HUP", "TERM"} \ marked,
           saved[s] # "restart"
    PROVE  WatchInv'
<1> DEFINE a == saved[s]
<1>1. /\ WatchTypeOK /\ Unbroken /\ todo # <<>> /\ UnwatchLeft /\ s \in SavingSignals
      /\ Head(todo)[1] = "restore"
      /\ s \in {"ALRM", "PIPE"} => saved[s] # "none"
      /\ (\A x : ~Pending(x)) /\ ~Arming
  BY RestoreCases
<1>2. /\ Changed(s, saved[s])
      /\ twice' = IF ActionWatches[s] \in on THEN twice ELSE twice \cup {s}
      /\ saved' = IF s \in {"ALRM", "PIPE"} THEN [saved EXCEPT ![s] = "none"] ELSE saved
      /\ period' = (period /\ s # "ALRM")
      /\ todo' = Tail(todo)
      /\ UNCHANGED <<marked, failed, methods, timer, job, running, broken, on, users>>
  BY DEF RestoreAction
<1>3. /\ a # "none" /\ a \in Actions \ {"watch", "restart"} /\ s \in Signals
      /\ a = "dispatch" => s \in twice
  <2>1. a # "none"
    BY <1>1, SignalFacts DEF WatchInv, SavedInv
  <2>2. a \in (Actions \ {"watch"}) \cup {"none"}
    BY <1>1 DEF WatchTypeOK
  <2> QED  BY <1>1, <2>1, <2>2, SignalFacts DEF WatchInv, SavedInv
<1>4. /\ kernel' \in [Signals -> Actions \ {"watch"}]
      /\ vector' \in [Signals -> Actions \ {"restart"}]
      /\ kernel'[s] # "restart" /\ vector'[s] = a /\ Effective(s)' = a
      /\ Stopped(s)'
      /\ \A x \in Signals : x # s => kernel'[x] = kernel[x] /\ vector'[x] = vector[x]
      /\ \A x \in Signals : x # s =>
           Effective(x)' = Effective(x) /\ (Stopped(x)' <=> Stopped(x))
      /\ \A w : InMethod(w)' = InMethod(w)
  BY <1>1, <1>2, <1>3, ChangedFacts
<1>5. /\ saved' \in [SavingSignals -> (Actions \ {"watch"}) \cup {"none"}]
      /\ \A x \in SavingSignals : x # s => saved'[x] = saved[x]
      /\ IF s \in {"ALRM", "PIPE"} THEN saved'[s] = "none" ELSE saved'[s] = a
      /\ twice \subseteq twice' /\ twice' \subseteq Signals
      /\ \A x : x # s => (x \in twice' <=> x \in twice)
      /\ s \notin twice' => s \notin twice /\ ActionWatches[s] \in on
  BY <1>1, <1>2, <1>3 DEF WatchTypeOK
<1> HIDE DEF a
<1>6. /\ \A x \in Signals : Refuses(x) => Refuses(x)'
      /\ \A x \in Signals : x # s => (Refuses(x)' <=> Refuses(x))
      /\ \A x \in Signals : x # s => (OwnKept(x)' <=> OwnKept(x))
      /\ \A x \in Signals : x # s => (EndsWell(x)' <=> EndsWell(x))
  <2>1. \A x \in {"HUP", "TERM"} : saved'[x] = saved[x]
    BY <1>2, <1>5, SignalFacts
  <2>2. \A x : Refuses(x)' <=> Refuses(x)
    BY <2>1 DEF Refuses
  <2>3. \A x \in Signals : x # s => (OwnKept(x)' <=> OwnKept(x))
    BY <1>2, <1>4 DEF OwnKept
  <2>4. \A x \in Signals : x # s => (EndsWell(x)' <=> EndsWell(x))
    BY <1>4, <1>5, <2>2, <2>3, SignalFacts DEF EndsWell
  <2> QED  BY <2>2, <2>3, <2>4
<1>7. s \notin twice' => users[s] = "restart" \/ a = users[s]
  <2> SUFFICES ASSUME s \notin twice' PROVE users[s] = "restart" \/ a = users[s]
    OBVIOUS
  <2>1. \/ users[s] = "restart" \/ saved[s] = users[s]
        \/ s \in {"ALRM", "PIPE"} /\ saved[s] = "none"
    BY <1>1, <1>5 DEF WatchInv, UsersInv
  <2> QED  BY <1>1, <2>1 DEF a
<1>8. EndsWell(s)'
  <2>1. s \notin twice' => OwnKept(s)'
    BY <1>2, <1>4, <1>7 DEF OwnKept
  <2> QED  BY <1>4, <1>5, <2>1 DEF EndsWell
<1>9. UnwatchLeft'
  <2>1. \A x \in Signals : Stopped(x) \/ Refuses(x) => Stopped(x)' \/ Refuses(x)'
    BY <1>4, <1>6
  <2>2. \A x \in Signals : EndsWell(x) => EndsWell(x)'
    BY <1>6, <1>8
  <2>3. \A x \in {"ALRM", "PIPE"} : saved[x] # "none" => saved'[x] # "none" \/ x = s
    BY <1>5, SignalFacts
  <2> QED  BY <1>1, <1>2, <1>4, <1>8, <2>1, <2>2, <2>3, NextKept DEF On
<1>10. WatchTypeOK'
  <2>1. todo' \in Seq(WatchSteps) /\ period' \in BOOLEAN
    BY <1>1, <1>2, TailFacts DEF WatchTypeOK
  <2> QED  BY <1>1, <1>2, <1>4, <1>5, <2>1 DEF WatchTypeOK
<1>11. MethodsInv'
  <2>1. ASSUME NEW x \in Signals, ActionWatches[x] \notin LockedWatches
        PROVE  \/ Stopped(x)' \/ Refuses(x)'
               \/ (ActionWatches[x] \in on /\ methods[ActionWatches[x]] # "nil")
    BY <1>4, <1>6, <2>1 DEF WatchInv, MethodsInv
  <2> QED  BY <1>2, <1>4, <2>1 DEF WatchInv, MethodsInv
<1>12. AbortsInv'
  BY <1>1, <1>2 DEF AbortsInv, WatchAborts, Unbroken
<1>13. (\A x : ~Pending(x)') /\ ~Arming'
  BY <1>9 DEF UnwatchLeft, StepKept, Pending, Arming
<1>14. SavedInv'
  <2>1. \A x \in Signals : /\ kernel'[x] = "restart" => users[x] = "restart"
                           /\ vector'[x] = "dispatch" => x \in twice'
    BY <1>3, <1>4, <1>5 DEF WatchInv, SavedInv
  <2>2. \A x \in SavingSignals : saved'[x] = "dispatch" => x \in twice'
    BY <1>3, <1>5 DEF WatchInv, SavedInv
  <2>3. ASSUME NEW x \in {"HUP", "TERM"}
        PROVE  /\ x \notin marked => Stopped(x)' \/ Refuses(x)'
               /\ x \in marked => saved'[x] # "none"
               /\ "signals" \in on => x \in marked \/ saved'[x] = "restart"
    <3>1. saved'[x] = saved[x] /\ x \in Signals
      BY <1>2, <1>5, SignalFacts
    <3>2. Stopped(x) \/ Refuses(x) => Stopped(x)' \/ Refuses(x)'
      BY <1>4, <1>6, <3>1
    <3> QED  BY <1>1, <3>1, <3>2 DEF WatchInv, SavedInv
  <2>4. Stopped("PIPE")' /\ (saved'["ALRM"] = "none" => Stopped("ALRM")')
    BY <1>1, <1>4, <1>5, SignalFacts, ZenonT(40) DEF WatchInv, SavedInv, Unbroken
  <2>5. \A x \in {"ALRM", "PIPE"} : ActionWatches[x] \notin on => saved'[x] = "none"
    <3> SUFFICES ASSUME NEW x \in {"ALRM", "PIPE"}, ActionWatches[x] \notin on
                 PROVE  saved'[x] = "none"
      OBVIOUS
    <3>1. x \in SavingSignals /\ saved[x] = "none"
      BY SignalFacts DEF WatchInv, SavedInv
    <3> QED  BY <1>5, <3>1
  <2>6. failed => \E x \in SavingSignals : saved'[x] = "restart"
    BY <1>5 DEF WatchInv, SavedInv
  <2> QED  BY <1>2, <2>1, <2>2, <2>3, <2>4, <2>5, <2>6 DEF SavedInv
<1>15. UsersInv'
  <2> SUFFICES ASSUME NEW x \in SavingSignals \ twice'
               PROVE  /\ ActionWatches[x] \notin on => OwnKept(x)'
                      /\ ActionWatches[x] \in on =>
                           \/ users[x] = "restart" \/ saved'[x] = users[x]
                           \/ /\ x \in {"ALRM", "PIPE"} /\ saved'[x] = "none"
                              /\ Effective(x)' = users[x]
    BY <1>2, <1>13 DEF UsersInv
  <2>1. CASE x = s
    BY <1>4, <1>5, <1>7, <2>1
  <2>2. CASE x # s
    <3>1. /\ x \in Signals /\ x \notin twice /\ saved'[x] = saved[x]
          /\ Effective(x)' = Effective(x) /\ (OwnKept(x)' <=> OwnKept(x))
      BY <1>4, <1>5, <1>6, <2>2, SignalFacts
    <3> QED  BY <1>1, <3>1 DEF WatchInv, UsersInv
  <2> QED  BY <2>1, <2>2
<1> QED  BY <1>9, <1>10, <1>11, <1>12, <1>14, <1>15 DEF WatchInv, TodoInv

LEMMA RestoreActionInv ==
    ASSUME WatchInv, RestoreAction
    PROVE  WatchInv'
BY RestoreSkipped, RestoreRefused, RestoreDone

\* The steps of a call that begins a watch.
LEMMA WatchCallKept ==
    ASSUME WatchTypeOK, NEW w \in Watches, NEW m \in {"user", "job"}, todo' = WatchCall(w, m)
    PROVE  /\ todo' \in Seq(WatchSteps)
           /\ \A s : Pending(s)' <=> s \in SavingSignals /\ ActionWatches[s] = w
           /\ Arming' => w = "clock"
<1> DEFINE ms == SetMethod(w, m)
<1>1. ms \in WatchSteps /\ ms[1] = "method"
  BY StepFacts, NameFacts DEF SetMethod
<1> HIDE DEF ms
<1>2. \A s \in SavingSignals, a \in {"watch", "ignore"} :
        /\ ChangeKeeping(s, a) \in WatchSteps
        /\ ChangeKeeping(s, a)[1] = "keep" /\ ChangeKeeping(s, a)[2] = s
  BY StepFacts, NameFacts, SignalFacts DEF ChangeKeeping, Actions
<1>3. /\ \A i \in 1 .. 1 : i = 1
      /\ \A i \in 1 .. 2 : i \in {1, 2}
      /\ \A i \in 1 .. 3 : i \in {1, 2, 3}
      /\ 1 \in 1 .. 1 /\ {1, 2} \subseteq 1 .. 2 /\ {1, 2, 3} \subseteq 1 .. 3
  OBVIOUS
<1>4. CASE w \in LockedWatches
  <2> DEFINE a == Update(w, m)
  <2>1. a \in WatchSteps /\ a[1] = "update"
    BY StepFacts, NameFacts DEF Update
  <2>2. todo' = <<a>>
    BY <1>4, SignalFacts DEF WatchCall
  <2> HIDE DEF a
  <2>3. todo' \in Seq(WatchSteps) /\ Len(todo') = 1 /\ todo'[1] = a
    BY <2>1, <2>2, ShortSeqs
  <2>4. ~Arming' /\ \A s : ~Pending(s)'
    BY <1>3, <2>1, <2>3 DEF Pending, Arming
  <2>5. \A s \in SavingSignals : ActionWatches[s] # w
    BY <1>4, SignalFacts
  <2> QED  BY <2>3, <2>4, <2>5
<1>5. CASE w = "chld"
  <2> DEFINE a == Change("CHLD", "watch")
  <2>1. a \in WatchSteps /\ a[1] = "change"
    BY StepFacts, NameFacts, SignalFacts DEF Change, Actions
  <2>2. todo' = <<ms, a>>
    BY <1>5 DEF WatchCall, LockedWatches, ms
  <2> HIDE DEF a
  <2>3. todo' \in Seq(WatchSteps) /\ Len(todo') = 2 /\ todo'[1] = ms /\ todo'[2] = a
    BY <1>1, <2>1, <2>2, ShortSeqs
  <2>4. ~Arming' /\ \A s : ~Pending(s)'
    BY <1>1, <1>3, <2>1, <2>3 DEF Pending, Arming
  <2>5. \A s \in SavingSignals : ActionWatches[s] # w
    BY <1>5, SignalFacts
  <2> QED  BY <2>3, <2>4, <2>5
<1>6. CASE w = "clock"
  <2> DEFINE a == ChangeKeeping("ALRM", "watch")
             b == <<"arm", w, methods[w]>>
  <2>1. a \in WatchSteps /\ a[1] = "keep" /\ a[2] = "ALRM"
    BY <1>2, SignalFacts
  <2>2. b \in WatchSteps /\ b[1] = "arm"
    <3>1. methods[w] \in {"nil", "user", "job"}
      BY DEF WatchTypeOK
    <3> QED  BY <3>1, StepFacts, NameFacts
  <2>3. todo' = <<ms, a, b>>
    BY <1>6 DEF WatchCall, LockedWatches, ms
  <2> HIDE DEF a, b
  <2>4. todo' \in Seq(WatchSteps) /\ Len(todo') = 3 /\ todo'[1] = ms /\ todo'[2] = a /\ todo'[3] = b
    BY <1>1, <2>1, <2>2, <2>3, ShortSeqs
  <2>5. \A s : Pending(s)' <=> s = "ALRM"
    BY <1>1, <1>3, <2>1, <2>2, <2>4 DEF Pending
  <2>6. \A s : s = "ALRM" <=> s \in SavingSignals /\ ActionWatches[s] = w
    BY <1>6, SignalFacts
  <2> QED  BY <1>6, <2>4, <2>5, <2>6
<1>7. CASE w = "signals"
  <2> DEFINE a == ChangeKeeping("HUP", "watch")
             b == ChangeKeeping("TERM", "watch")
  <2>1. /\ a \in WatchSteps /\ a[1] = "keep" /\ a[2] = "HUP"
        /\ b \in WatchSteps /\ b[1] = "keep" /\ b[2] = "TERM"
    BY <1>2, SignalFacts
  <2>3. todo' = <<ms, a, b>>
    BY <1>7 DEF WatchCall, LockedWatches, ms
  <2> HIDE DEF a, b
  <2>4. todo' \in Seq(WatchSteps) /\ Len(todo') = 3 /\ todo'[1] = ms /\ todo'[2] = a /\ todo'[3] = b
    BY <1>1, <2>1, <2>3, ShortSeqs
  <2>5. (\A s : Pending(s)' <=> s \in {"HUP", "TERM"}) /\ ~Arming'
    BY <1>1, <1>3, <2>1, <2>4 DEF Pending, Arming
  <2>6. \A s : s \in {"HUP", "TERM"} <=> s \in SavingSignals /\ ActionWatches[s] = w
    BY <1>7, SignalFacts
  <2> QED  BY <2>4, <2>5, <2>6
<1>8. CASE w = "pipe"
  <2> DEFINE a == ChangeKeeping("PIPE", "ignore")
  <2>1. a \in WatchSteps /\ a[1] = "keep" /\ a[2] = "PIPE"
    BY <1>2, SignalFacts
  <2>2. todo' = <<a>>
    BY <1>8 DEF WatchCall, LockedWatches
  <2> HIDE DEF a
  <2>3. todo' \in Seq(WatchSteps) /\ Len(todo') = 1 /\ todo'[1] = a
    BY <2>1, <2>2, ShortSeqs
  <2>4. (\A s : Pending(s)' <=> s = "PIPE") /\ ~Arming'
    BY <1>3, <2>1, <2>3 DEF Pending, Arming
  <2>5. \A s : s = "PIPE" <=> s \in SavingSignals /\ ActionWatches[s] = w
    BY <1>8, SignalFacts
  <2> QED  BY <2>3, <2>4, <2>5
<1> QED  BY <1>4, <1>5, <1>6, <1>7, <1>8, SignalFacts

\* A call that begins a watch begins.
LEMMA WatchBegins ==
    ASSUME WatchInv, NEW w \in Watches, NEW m \in {"user", "job"}, Begin(WatchCall(w, m)),
           BeginWatch(w), job' \subseteq JobWatches,
           UNCHANGED <<kernel, vector, methods, saved, marked, period, timer, running, broken, users>>
    PROVE  WatchInv'
<1>1. /\ Unbroken /\ todo = <<>> /\ todo' = WatchCall(w, m) /\ failed' = FALSE /\ WatchTypeOK
      /\ on' = on \cup {w} /\ twice' = twice \cup {s \in Signals : ActionWatches[s] = w /\ w \in on}
  BY DEF Begin, BeginWatch, WatchInv, Unbroken
<1>2. /\ todo' \in Seq(WatchSteps)
      /\ \A s : Pending(s)' <=> s \in SavingSignals /\ ActionWatches[s] = w
      /\ Arming' => w = "clock"
      /\ (\A s : ~Pending(s)) /\ ~Arming
  BY <1>1, WatchCallKept, EmptyTodo
<1>3. /\ \A x : (Refuses(x)' <=> Refuses(x)) /\ (Stopped(x)' <=> Stopped(x))
      /\ \A x : (OwnKept(x)' <=> OwnKept(x)) /\ Effective(x)' = Effective(x)
      /\ \A v : InMethod(v)' = InMethod(v)
  BY DEF Refuses, Stopped, InAction, InMethod, OwnKept, Effective
<1>4. WatchTypeOK'
  BY <1>1, <1>2 DEF WatchTypeOK
<1>5. TodoInv'
  <2>1. w = "clock" => "ALRM" \in twice' \/ saved["ALRM"] = "none"
    BY <1>1, SignalFacts DEF WatchInv, SavedInv
  <2>2. methods[w] \in {"nil", "user", "job"}
    BY <1>1 DEF WatchTypeOK
  <2>3. \/ w \in LockedWatches /\ todo' = <<Update(w, m)>>
        \/ w = "chld" /\ todo' = <<SetMethod(w, m), Change("CHLD", "watch")>>
        \/ w = "clock" /\ todo' = <<SetMethod(w, m), ChangeKeeping("ALRM", "watch"),
                                    <<"arm", w, methods[w]>>>>
        \/ w = "signals" /\ todo' = <<SetMethod(w, m), ChangeKeeping("HUP", "watch"),
                                      ChangeKeeping("TERM", "watch")>>
        \/ w = "pipe" /\ todo' = <<ChangeKeeping("PIPE", "ignore")>>
    <3> HIDE DEF WatchInv
    <3>1. w \in {"cont", "stop", "chld", "clock", "signals", "pipe"}
      BY SignalFacts
    <3> QED  BY <1>1, <3>1 DEF WatchCall, LockedWatches
  <2>4. WatchLeft(w)'
    BY <2>1, <2>2, <2>3 DEF WatchLeft, SetMethod, Change, ChangeKeeping, Update
  <2> QED  BY <1>1, <2>4 DEF TodoInv
<1>6. MethodsInv'
  BY <1>1, <1>3 DEF WatchInv, MethodsInv
<1>7. SavedInv'
  <2>1. ASSUME NEW x \in {"HUP", "TERM"}
        PROVE  /\ x \notin marked => Stopped(x)' \/ Refuses(x)'
               /\ x \in marked => saved[x] # "none"
               /\ "signals" \in on' /\ ~Pending(x)' => x \in marked \/ saved[x] = "restart"
    <3>1. x \in SavingSignals /\ ActionWatches[x] = "signals"
      BY SignalFacts
    <3> QED  BY <1>1, <1>2, <1>3, <3>1 DEF WatchInv, SavedInv
  <2>2. (saved["ALRM"] = "none" => Stopped("ALRM")') /\ Stopped("PIPE")'
    BY <1>1, <1>2, <1>3 DEF WatchInv, SavedInv, Unbroken
  <2>3. \A x \in {"ALRM", "PIPE"} : ActionWatches[x] \notin on' => saved[x] = "none"
    BY <1>1 DEF WatchInv, SavedInv
  <2>4. twice \subseteq twice'
    BY <1>1
  <2> QED  BY <1>1, <2>1, <2>2, <2>3, <2>4 DEF WatchInv, SavedInv
<1>8. UsersInv'
  <2> SUFFICES ASSUME NEW x \in SavingSignals \ twice'
               PROVE  /\ ActionWatches[x] \notin on' \/ Pending(x)' => OwnKept(x)'
                      /\ ActionWatches[x] \in on' /\ ~Pending(x)' /\ ~(x = "ALRM" /\ Arming') =>
                           \/ users[x] = "restart" \/ saved[x] = users[x]
                           \/ /\ x \in {"ALRM", "PIPE"} /\ saved[x] = "none"
                              /\ Effective(x)' = users[x]
    BY DEF UsersInv
  <2>1. x \in SavingSignals \ twice /\ x \in Signals
    BY <1>1, SignalFacts
  <2>2. /\ ActionWatches[x] \notin on => OwnKept(x)
        /\ ActionWatches[x] \in on =>
             \/ users[x] = "restart" \/ saved[x] = users[x]
             \/ x \in {"ALRM", "PIPE"} /\ saved[x] = "none" /\ Effective(x) = users[x]
    BY <1>2, <2>1 DEF WatchInv, UsersInv
  <2>3. CASE ActionWatches[x] = w
    <3>1. w \notin on
      BY <1>1, <2>1, <2>3
    <3> QED  BY <1>2, <1>3, <2>1, <2>2, <2>3, <3>1
  <2>4. CASE ActionWatches[x] # w
    BY <1>1, <1>2, <1>3, <2>2, <2>4
  <2> QED  BY <2>3, <2>4
<1>9. AbortsInv'
  BY <1>1 DEF AbortsInv, WatchAborts, Unbroken
<1> QED  BY <1>4, <1>5, <1>6, <1>7, <1>8, <1>9 DEF WatchInv

LEMMA CallWatchInv ==
    ASSUME WatchInv, NEW w \in WatchesUsed, CallWatch(w)
    PROVE  WatchInv'
<1>1. job' \subseteq JobWatches /\ w \in Watches
  BY WatchAssumption, SignalFacts DEF CallWatch, WatchInv, WatchTypeOK
<1> QED  BY <1>1, WatchBegins DEF CallWatch

LEMMA CallJobWatchInv ==
    ASSUME WatchInv, NEW w \in WatchesUsed \cap JobWatches, CallJobWatch(w)
    PROVE  WatchInv'
<1>1. job' \subseteq JobWatches /\ w \in Watches
  BY WatchAssumption, SignalFacts DEF CallJobWatch, WatchInv, WatchTypeOK
<1> QED  BY <1>1, WatchBegins DEF CallJobWatch

LEMMA WatchInitInv ==
    ASSUME WatchInit
    PROVE  WatchInv
<1>1. Nobody.stage = "none"
  BY DEF Nobody
<1>2. \A s \in Signals : vector[s] \in {"watch", "default"} /\ kernel[s] \in {"dispatch", "default"}
      /\ (ActionWatches[s] \notin LockedWatches => Effective(s) = "default" /\ vector[s] = "default")
      /\ users[s] = "default"
  BY DEF WatchInit, Effective
<1>3. \A s : InAction(s) = {} /\ InMethod(s) = {}
  BY <1>1 DEF WatchInit, InAction, InMethod
<1>4. \A s \in Signals : ActionWatches[s] \notin LockedWatches => Stopped(s)
  BY <1>2, <1>3 DEF Stopped
<1>5. UnwatchLeft /\ (\A s : ~Pending(s)) /\ ~Arming
  BY EmptyTodo DEF WatchInit
<1>6. WatchTypeOK
  <2>1. todo \in Seq(WatchSteps)
    <3>1. <<>> \in Seq(WatchSteps)
      OBVIOUS
    <3> QED  BY <3>1 DEF WatchInit
  <2>2. /\ kernel \in [Signals -> Actions \ {"watch"}]
        /\ vector \in [Signals -> Actions \ {"restart"}]
        /\ saved \in [SavingSignals -> (Actions \ {"watch"}) \cup {"none"}]
        /\ users \in [Signals -> Actions \ {"watch", "dispatch"}]
    BY DEF WatchInit, Actions
  <2>3. /\ methods \in [Watches -> {"nil", "user", "job"}]
        /\ marked \subseteq {"HUP", "TERM"} /\ period \in BOOLEAN /\ timer \in BOOLEAN
        /\ failed \in BOOLEAN /\ job \subseteq JobWatches /\ on \subseteq Watches /\ twice \subseteq Signals
        /\ running \in [WatchThreads ->
             {Nobody} \cup [signal : Signals, stage : {"entered", "action", "method"}]]
    BY DEF WatchInit
  <2> QED  BY <2>1, <2>2, <2>3, WatchTypes
<1>7. MethodsInv
  <2>1. \A w \in LockedWatches : methods[w] = "nil" /\ InMethod(w) = {}
    BY <1>3, SignalFacts DEF WatchInit
  <2> QED  BY <1>4, <2>1 DEF MethodsInv
<1>8. SavedInv
  <2>1. /\ marked = {} /\ on = {} /\ failed = FALSE
        /\ \A s \in SavingSignals : saved[s] = "none"
    BY DEF WatchInit
  <2>2. \A s \in SavingSignals : s \in Signals /\ Stopped(s)
    BY <1>4, SignalFacts
  <2>3. {"ALRM", "PIPE", "HUP", "TERM"} \subseteq SavingSignals
    BY SignalFacts
  <2> QED  BY <1>2, <2>1, <2>2, <2>3 DEF SavedInv
<1>9. UsersInv
  <2>1. \A s \in SavingSignals : OwnKept(s)
    BY <1>2, SignalFacts DEF OwnKept
  <2>2. on = {}
    BY DEF WatchInit
  <2> QED  BY <2>1, <2>2 DEF UsersInv
<1>10. AbortsInv
  BY DEF WatchInit, AbortsInv, WatchAborts
<1> QED  BY <1>5, <1>6, <1>7, <1>8, <1>9, <1>10 DEF WatchInv, TodoInv

LEMMA WatchNextInv ==
    ASSUME WatchInv, WatchNext
    PROVE  WatchInv'
BY CallWatchInv, CallUnwatchInv, CallJobWatchInv, CallJobUnwatchInv, CallResetInv, OwnActionInv,
   StoreMethodInv, ChangeSignalActionInv, ArmTimerInv, ArmFailsInv, DisarmInv, RestoreActionInv,
   CheckResultInv, DeliverWatchedInv, RunActionInv, LookUpMethodInv, RunMethodInv, MethodWatchesInv
   DEF WatchNext

LEMMA WatchStutterInv ==
    ASSUME WatchInv, UNCHANGED watchVars
    PROVE  WatchInv'
<1>1. /\ \A x : (Refuses(x)' <=> Refuses(x)) /\ (Stopped(x)' <=> Stopped(x))
      /\ \A x : (OwnKept(x)' <=> OwnKept(x)) /\ Effective(x)' = Effective(x)
      /\ \A x : (EndsWell(x)' <=> EndsWell(x))
      /\ \A w : InMethod(w)' = InMethod(w)
  BY DEF watchVars, Refuses, Stopped, InAction, InMethod, OwnKept, Effective, EndsWell
<1>2. (\A s : Pending(s)' <=> Pending(s)) /\ (Arming' <=> Arming)
  BY DEF watchVars, Pending, Arming
<1>3. TodoInv'
  <2>1. UnwatchLeft => UnwatchLeft'
    BY <1>1, StayKept, WatchTypes DEF watchVars, WatchInv
  <2>2. (\A w : WatchLeft(w) => WatchLeft(w)') /\ (ArmLeft => ArmLeft')
    BY DEF watchVars, WatchLeft, ArmLeft
  <2> QED  BY <2>1, <2>2 DEF watchVars, WatchInv, TodoInv
<1>4. WatchTypeOK'
  BY DEF watchVars, WatchInv, WatchTypeOK
<1>5. MethodsInv'
  BY <1>1 DEF watchVars, WatchInv, MethodsInv
<1>6. SavedInv'
  BY <1>1, <1>2 DEF watchVars, WatchInv, SavedInv
<1>7. UsersInv'
  BY <1>1, <1>2 DEF watchVars, WatchInv, UsersInv
<1>8. AbortsInv'
  BY DEF watchVars, WatchInv, AbortsInv, WatchAborts, Refused
<1> QED  BY <1>3, <1>4, <1>5, <1>6, <1>7, <1>8 DEF WatchInv

LEMMA WatchInvSays ==
    ASSUME WatchInv
    PROVE  NoCallOnceUnwatched /\ ActionsRestored /\ WatchAborts
<1>1. WatchTypeOK
  BY DEF WatchInv
<1>2. NoCallOnceUnwatched
  <2> SUFFICES ASSUME NEW t \in WatchThreads, running[t].stage = "method"
               PROVE  ActionWatches[running[t].signal] \in on \/ Refused(ActionWatches[running[t].signal])
    BY DEF NoCallOnceUnwatched
  <2> DEFINE s == running[t].signal
             w == ActionWatches[s]
  <2>1. s \in Signals /\ t \in InAction(s) /\ t \in InMethod(w)
    BY <1>1, FrameFacts DEF InAction, InMethod
  <2> HIDE DEF s
  <2>2. w \in LockedWatches => w \in on
    BY <2>1 DEF WatchInv, MethodsInv
  <2>3. w \notin LockedWatches => w \in on \/ Refused(w)
    <3>1. ~Stopped(s)
      BY <2>1 DEF Stopped
    <3>2. w \notin LockedWatches => Refuses(s) \/ w \in on
      BY <2>1, <3>1 DEF WatchInv, MethodsInv
    <3>3. Refuses(s) => Refused(w)
      BY SignalFacts DEF Refuses, Refused
    <3> QED  BY <3>2, <3>3
  <2> QED  BY <2>2, <2>3 DEF s
<1>3. ActionsRestored
  <2> SUFFICES ASSUME todo = <<>>, NEW s \in SavingSignals, ActionWatches[s] \notin on, s \notin twice
               PROVE  Refused(ActionWatches[s]) \/ Effective(s) = users[s]
    BY DEF ActionsRestored
  <2>1. OwnKept(s)
    BY DEF WatchInv, UsersInv
  <2> QED  BY <2>1 DEF OwnKept, Refused
<1> QED  BY <1>2, <1>3 DEF WatchInv, AbortsInv

----------------------------------------------------------------------------
\* The locks that a fork takes (ProcessLocks): what a frame has between its steps

\* The order in which locks are taken.
Rank(l) ==
    CASE l = "forkChild" -> 1 [] l = "fork" -> 2 [] l = "app" -> 3
      [] l \in {"reader", "writer"} -> 5 [] l = "signal" -> 6 [] l = "HUP" -> 7
      [] l = "CONT" -> 8 [] l = "watch" -> 9 [] l = "files" -> 10

\* What a frame has: locks, of which it has that of the application up to twice; the count of
\* the fork lock; in a parent, the child that it will wait for.  A child is marked as "foreign"
\* while its fork lock names the process it was forked from, as "forked" while it has to take
\* the region of the lock file from its parent.
SingleLocks == Locks \ {"app", "forkChild"}
LockStates ==
    [frame : {"call"} \cup WatchedSignals, locks : SUBSET SingleLocks, apps : 0 .. 2, count : 0 .. 2,
     marks : SUBSET {"foreign", "forked"}, child : LockProcesses]

\* What a frame has, written down.
FrameHas(f, s, n, c, m, k) ==
    [frame |-> f, locks |-> s, apps |-> n, count |-> c, marks |-> m, child |-> k]

\* What a frame can have.
Fit(a) ==
    /\ a \in LockStates
    /\ "fork" \in a.locks => a.count > 0
    /\ "writer" \in a.locks \/ "files" \in a.locks => a.apps > 0
    /\ ~("reader" \in a.locks /\ "writer" \in a.locks)
    /\ a.locks \cap WatchedSignals # {} => "reader" \in a.locks
    /\ "foreign" \in a.marks => a.count > 0
    /\ a.frame = "call" => "CONT" \notin a.locks
    /\ a.frame # "call" =>
         /\ a.count = 0 /\ a.marks = {} /\ a.child = 0 /\ a.apps <= 1
         /\ a.locks \subseteq {"reader", "watch", a.frame}

\* May a frame that has a ask for lock l.
Asks(a, l) ==
    CASE l = "fork" -> a.frame = "call"
      [] l = "app" -> IF a.frame = "call" THEN a.locks \subseteq {"fork"} ELSE a.apps = 0
      [] OTHER -> \A m \in a.locks : Rank(m) < Rank(l)

\* With everything that prepareFork_ takes, and the fork lock twice in a call that makes a
\* child; and what the parent has when it has completed the fork.
Prepared(a, kind) ==
    /\ a.frame = "call" /\ a.child = 0 /\ a.apps > 0 /\ a.marks = {}
    /\ a.locks = {"fork", "writer", "signal", "files"}
    /\ kind \in {"raw", "child"} /\ a.count = IF kind = "raw" THEN 1 ELSE 2

Completed(a) == FrameHas(a.frame, {}, a.apps - 1, 0, a.marks, a.child)

\* A step takes a frame from having a to having b.
Leads(s, a, b) ==
    LET do == s[1]
        x  == s[2]
    IN  /\ Fit(a) /\ Fit(b)
        /\ \/ do \in {"mask", "unlockRegion"} /\ b = a
           \/ /\ do = "lock" /\ x = "app" /\ Asks(a, x)
              /\ b = [a EXCEPT !.apps = @ + 1]
           \/ /\ do = "lock" /\ x \in SingleLocks \ a.locks /\ Asks(a, x)
              /\ b = [a EXCEPT !.locks = @ \cup {x}]
           \/ /\ do = "unlock" /\ x \in SUBSET (a.locks \cup {"app"}) /\ ("app" \in x => a.apps > 0)
              /\ b = FrameHas(a.frame, a.locks \ x, IF "app" \in x THEN a.apps - 1 ELSE a.apps,
                              a.count, a.marks, a.child)
           \/ /\ do = "lockFork" /\ x = "forkChild" /\ a.frame = "call" /\ "foreign" \notin a.marks /\ a.locks = {}
              /\ b = FrameHas(a.frame, a.locks, a.apps, a.count + 1, a.marks, a.child)
           \/ /\ do = "unlockFork" /\ a.count > 0 /\ "fork" \notin a.locks
              /\ b = FrameHas(a.frame, a.locks, a.apps, a.count - 1, a.marks \ {"foreign"}, a.child)
           \/ /\ do = "resetFork" /\ a.count > 0 /\ a.locks = {}
              /\ b = FrameHas(a.frame, a.locks, a.apps, 0, a.marks \ {"foreign"}, a.child)
           \/ /\ do = "lockRegion" /\ x = "app" /\ a.apps > 0 /\ b = a
              /\ a.frame = "call" => a.locks = {}
           \/ do = "forkRegion" /\ "forked" \in a.marks /\ b = [a EXCEPT !.marks = @ \ {"forked"}]
           \/ do = "waitBell" /\ x = a.child /\ x # 0 /\ a.locks = {} /\ b = [a EXCEPT !.child = 0]
           \/ do \in {"ringBell", "exit"} /\ a.frame = "call" /\ b = a
           \/ do = "fork" /\ Prepared(a, x) /\ b = Completed(a)

\* The steps of q take a frame from a to c.
Path(q, a, c) ==
    /\ \E S : q \in Seq(S)
    /\ \E h \in Seq(LockStates) :
         /\ Len(h) = Len(q) + 1 /\ h[1] = a /\ h[Len(h)] = c
         /\ \A i \in 1 .. Len(q) : Leads(q[i], h[i], h[i + 1])

\* No step leads nowhere else.
LEMMA PathNone ==
    ASSUME NEW a \in LockStates
    PROVE  Path(<<>>, a, a)
<1> DEFINE h == <<a>>
<1>1. h \in Seq(LockStates) /\ Len(h) = 1 /\ h[1] = a
  OBVIOUS
<1>2. <<>> \in Seq({}) /\ Len(<<>>) = 0
  OBVIOUS
<1> HIDE DEF h
<1> QED  BY <1>1, <1>2 DEF Path

LEMMA PathNoneOnly ==
    ASSUME NEW a, NEW c, Path(<<>>, a, c)
    PROVE  c = a
BY DEF Path

\* One step is a path, and so are two paths in a row.
LEMMA PathOne ==
    ASSUME NEW s, NEW a, NEW b, Leads(s, a, b)
    PROVE  Path(<<s>>, a, b)
<1> DEFINE h == <<a, b>>
           q == <<s>>
<1>1. a \in LockStates /\ b \in LockStates
  BY DEF Leads, Fit
<1>2. h \in Seq(LockStates) /\ Len(h) = 2 /\ h[1] = a /\ h[2] = b
  BY <1>1
<1>3. q \in Seq({s}) /\ Len(q) = 1 /\ q[1] = s
  OBVIOUS
<1> HIDE DEF h, q
<1>4. \A i \in 1 .. Len(q) : Leads(q[i], h[i], h[i + 1])
  <2> SUFFICES ASSUME NEW i \in 1 .. Len(q) PROVE Leads(q[i], h[i], h[i + 1])
    OBVIOUS
  <2>1. i = 1
    BY <1>3
  <2> QED  BY <2>1, <1>2, <1>3
<1>5. Path(q, a, b)
  BY <1>2, <1>3, <1>4 DEF Path
<1> QED  BY <1>5 DEF q

LEMMA PathJoin ==
    ASSUME NEW q, NEW r, NEW a, NEW b, NEW c, Path(q, a, b), Path(r, b, c)
    PROVE  Path(q \o r, a, c)
<1>1. PICK S, T : q \in Seq(S) /\ r \in Seq(T)
  BY DEF Path
<1>2. q \in Seq(S \cup T) /\ r \in Seq(S \cup T)
  BY <1>1, SeqDef, ElementOfSeq
<1>3. PICK h \in Seq(LockStates) :
         /\ Len(h) = Len(q) + 1 /\ h[1] = a /\ h[Len(h)] = b
         /\ \A i \in 1 .. Len(q) : Leads(q[i], h[i], h[i + 1])
  BY DEF Path
<1>4. PICK g \in Seq(LockStates) :
         /\ Len(g) = Len(r) + 1 /\ g[1] = b /\ g[Len(g)] = c
         /\ \A i \in 1 .. Len(r) : Leads(r[i], g[i], g[i + 1])
  BY DEF Path
<1>5. Len(q) \in Nat /\ Len(r) \in Nat /\ Len(h) \in Nat /\ Len(g) \in Nat
  BY <1>2, LenProperties
<1> DEFINE n == Len(q)
           f == [i \in 1 .. n + Len(r) + 1 |-> IF i <= n THEN h[i] ELSE g[i - n]]
           z == q \o r
<1>6. z \in Seq(S \cup T) /\ Len(z) = n + Len(r)
      /\ \A i \in 1 .. Len(z) : z[i] = IF i <= n THEN q[i] ELSE r[i - n]
  BY <1>2, ConcatProperties
<1>7. f \in Seq(LockStates) /\ Len(f) = Len(z) + 1
  <2>1. \A i \in 1 .. n + Len(r) + 1 : f[i] \in LockStates
    <3> SUFFICES ASSUME NEW i \in 1 .. n + Len(r) + 1 PROVE f[i] \in LockStates
      OBVIOUS
    <3>1. CASE i <= n
      <4>1. i \in 1 .. Len(h)
        BY <3>1, <1>3, <1>5
      <4> QED  BY <3>1, <4>1, <1>3, ElementOfSeq
    <3>2. CASE i > n
      <4>1. i - n \in 1 .. Len(g)
        BY <3>2, <1>4, <1>5
      <4> QED  BY <3>2, <4>1, <1>4, <1>5, ElementOfSeq
    <3> QED  BY <3>1, <3>2, <1>5
  <2>2. n + Len(r) + 1 \in Nat
    BY <1>5
  <2> QED  BY <2>1, <2>2, <1>6, <1>5, IsASeq
<1>8. f[1] = a /\ f[Len(f)] = c
  <2>1. 1 \in 1 .. n + Len(r) + 1 /\ Len(f) \in 1 .. n + Len(r) + 1 /\ Len(f) = n + Len(r) + 1
    BY <1>5, <1>6, <1>7
  <2>2. f[1] = a
    <3>1. CASE n = 0
      BY <2>1, <3>1, <1>3, <1>4
    <3>2. CASE n > 0
      BY <2>1, <3>2, <1>3, <1>5
    <3> QED  BY <3>1, <3>2, <1>5
  <2>3. ~(Len(f) <= n) /\ Len(f) - n = Len(g)
    BY <2>1, <1>5, <1>4
  <2>4. f[Len(f)] = g[Len(f) - n]
    BY <2>1, <2>3
  <2> QED  BY <2>2, <2>3, <2>4, <1>4
<1>9. ASSUME NEW i \in 1 .. Len(z) PROVE Leads(z[i], f[i], f[i + 1])
  <2>1. i \in Nat /\ i >= 1 /\ i <= n + Len(r) /\ i \in 1 .. n + Len(r) + 1
        /\ i + 1 \in 1 .. n + Len(r) + 1
    BY <1>5, <1>6
  <2>2. CASE i + 1 <= n
    <3>1. f[i] = h[i] /\ f[i + 1] = h[i + 1] /\ z[i] = q[i] /\ i \in 1 .. Len(q)
      BY <2>1, <2>2, <1>5, <1>6
    <3> QED  BY <3>1, <1>3
  <2>3. CASE i = n
    <3>1. f[i] = h[i] /\ f[i + 1] = g[1] /\ z[i] = q[i] /\ i \in 1 .. Len(q) /\ i + 1 = Len(h)
      BY <2>1, <2>3, <1>3, <1>5, <1>6
    <3> QED  BY <3>1, <1>3, <1>4
  <2>4. CASE i > n
    <3>1. i - n \in 1 .. Len(r) /\ (i + 1) - n = (i - n) + 1
      BY <2>1, <2>4, <1>5
    <3>2. f[i] = g[i - n] /\ f[i + 1] = g[(i + 1) - n] /\ z[i] = r[i - n]
      BY <2>1, <2>4, <1>5, <1>6
    <3> QED  BY <3>1, <3>2, <1>4
  <2> QED  BY <2>1, <2>2, <2>3, <2>4, <1>5
<1> HIDE DEF f
<1>10. Path(z, a, c)
  BY <1>6, <1>7, <1>8, <1>9 DEF Path
<1> QED  BY <1>10

\* The first step of a path is followed by a path.
LEMMA PathStep ==
    ASSUME NEW q, NEW a, NEW c, Path(q, a, c), q # <<>>
    PROVE  \E b : Leads(Head(q), a, b) /\ Path(Tail(q), b, c)
<1>1. PICK S : q \in Seq(S)
  BY DEF Path
<1>2. PICK h \in Seq(LockStates) :
         /\ Len(h) = Len(q) + 1 /\ h[1] = a /\ h[Len(h)] = c
         /\ \A i \in 1 .. Len(q) : Leads(q[i], h[i], h[i + 1])
  BY DEF Path
<1>3. Len(q) \in Nat \ {0} /\ Len(h) \in Nat
  BY <1>1, EmptySeq, LenProperties
<1> DEFINE r == Tail(q)
           g == Tail(h)
<1>4. r \in Seq(S) /\ Len(r) = Len(q) - 1 /\ \A i \in 1 .. Len(r) : r[i] = q[i + 1]
  BY <1>1, <1>3, HeadTailProperties
<1>5. g \in Seq(LockStates) /\ Len(g) = Len(h) - 1 /\ \A i \in 1 .. Len(g) : g[i] = h[i + 1]
  <2>1. h # <<>>
    BY <1>2, <1>3
  <2> QED  BY <2>1, <1>2, <1>3, HeadTailProperties
<1>6. Head(q) = q[1] /\ 1 \in 1 .. Len(q)
  BY <1>1, <1>3
<1> HIDE DEF r, g
<1>7. Leads(Head(q), a, h[2])
  BY <1>2, <1>6
<1>8. g[1] = h[2] /\ g[Len(g)] = c /\ Len(g) = Len(r) + 1
  BY <1>2, <1>3, <1>4, <1>5
<1>9. ASSUME NEW i \in 1 .. Len(r) PROVE Leads(r[i], g[i], g[i + 1])
  <2>1. i + 1 \in 1 .. Len(q) /\ i \in 1 .. Len(g) /\ i + 1 \in 1 .. Len(g) /\ i \in 1 .. Len(r)
    BY <1>2, <1>3, <1>4, <1>5
  <2>2. r[i] = q[i + 1] /\ g[i] = h[i + 1] /\ g[i + 1] = h[(i + 1) + 1]
    BY <2>1, <1>4, <1>5
  <2> QED  BY <2>1, <2>2, <1>2
<1>10. Path(r, h[2], c)
  BY <1>4, <1>5, <1>8, <1>9 DEF Path
<1> QED  BY <1>7, <1>10 DEF r

\* The locks by name.
LEMMA LockNames ==
    /\ Locks = {"app", "signal", "watch", "CONT", "HUP", "forkChild", "fork", "reader", "writer",
                "files"}
    /\ SingleLocks = {"signal", "watch", "CONT", "HUP", "fork", "reader", "writer", "files"}
    /\ 0 \in LockProcesses
BY LockAssumption DEF Locks, SigMutexes, WatchedSignals, SingleLocks, LockProcesses

\* What a call, or a handler, can have.
LEMMA CallFit ==
    ASSUME NEW s \in SUBSET {"signal", "fork", "writer", "files", "watch", "reader", "HUP"},
           NEW n \in 0 .. 2, NEW c \in 0 .. 2, NEW m \in SUBSET {"foreign", "forked"},
           NEW k \in LockProcesses,
           "fork" \in s => c > 0,
           "writer" \in s \/ "files" \in s => n > 0,
           ~("reader" \in s /\ "writer" \in s), "HUP" \in s => "reader" \in s,
           "foreign" \in m => c > 0
    PROVE  Fit(FrameHas("call", s, n, c, m, k))
BY LockNames DEF Fit, FrameHas, LockStates, WatchedSignals

LEMMA ActionFit ==
    ASSUME NEW sig \in WatchedSignals, NEW s \in SUBSET {"reader", "watch", sig}, NEW n \in 0 .. 1,
           sig \in s => "reader" \in s
    PROVE  Fit(FrameHas(sig, s, n, 0, {}, 0))
BY LockNames DEF Fit, FrameHas, LockStates, WatchedSignals

\* The path of each kind of step, for the frames that it leads between.
LEMMA LockStep ==
    ASSUME NEW f, NEW s, NEW n, NEW c, NEW m, NEW k,
           NEW l \in SingleLocks \ s,
           IF l = "fork" THEN f = "call" ELSE \A i \in s : Rank(i) < Rank(l),
           Fit(FrameHas(f, s, n, c, m, k)),
           Fit(FrameHas(f, s \cup {l}, n, c, m, k))
    PROVE  Path(LockFor(l), FrameHas(f, s, n, c, m, k), FrameHas(f, s \cup {l}, n, c, m, k))
<1> DEFINE a == FrameHas(f, s, n, c, m, k)
           b == FrameHas(f, s \cup {l}, n, c, m, k)
           step == <<"lock", l>>
<1>1. l \in SingleLocks \ a.locks /\ Asks(a, l) /\ b = [a EXCEPT !.locks = @ \cup {l}]
  BY LockNames DEF Asks, FrameHas
<1>2. step[1] = "lock" /\ step[2] = l
  OBVIOUS
<1> HIDE DEF a, b, step
<1>3. Leads(step, a, b)
  BY <1>1, <1>2 DEF Leads, a, b
<1>4. Path(<<step>>, a, b)
  BY <1>3, PathOne
<1> QED  BY <1>4 DEF a, b, step, LockFor, Unlock, Mask

LEMMA AppStep ==
    ASSUME NEW f, NEW s, NEW n, NEW c, NEW m, NEW k,
           n \in Nat, IF f = "call" THEN s \subseteq {"fork"} ELSE n = 0,
           Fit(FrameHas(f, s, n, c, m, k)),
           Fit(FrameHas(f, s, n + 1, c, m, k))
    PROVE  Path(LockFor("app"), FrameHas(f, s, n, c, m, k), FrameHas(f, s, n + 1, c, m, k))
<1> DEFINE a == FrameHas(f, s, n, c, m, k)
           b == FrameHas(f, s, n + 1, c, m, k)
           step == <<"lock", "app">>
<1>1. Asks(a, "app") /\ b = [a EXCEPT !.apps = @ + 1]
  BY LockNames DEF Asks, FrameHas
<1>2. step[1] = "lock" /\ step[2] = "app"
  OBVIOUS
<1> HIDE DEF a, b, step
<1>3. Leads(step, a, b)
  BY <1>1, <1>2 DEF Leads, a, b
<1>4. Path(<<step>>, a, b)
  BY <1>3, PathOne
<1> QED  BY <1>4 DEF a, b, step, LockFor, Unlock, Mask

LEMMA MaskStep ==
    ASSUME NEW l, NEW a, Fit(a)
    PROVE  Path(Mask(l), a, a)
<1> DEFINE step == <<"mask", l>>
<1>1. step[1] = "mask"
  OBVIOUS
<1> HIDE DEF step
<1>2. Leads(step, a, a)
  BY <1>1 DEF Leads
<1>3. Path(<<step>>, a, a)
  BY <1>2, PathOne
<1> QED  BY <1>3 DEF step, Mask

LEMMA UnlockStep ==
    ASSUME NEW f, NEW s, NEW n, NEW c, NEW m, NEW k,
           NEW x \in SUBSET s, "app" \notin x,
           Fit(FrameHas(f, s, n, c, m, k)),
           Fit(FrameHas(f, s \ x, n, c, m, k))
    PROVE  Path(Unlock(x), FrameHas(f, s, n, c, m, k), FrameHas(f, s \ x, n, c, m, k))
<1> DEFINE a == FrameHas(f, s, n, c, m, k)
           b == FrameHas(f, s \ x, n, c, m, k)
           step == <<"unlock", x>>
<1>1. /\ x \in SUBSET (a.locks \cup {"app"})
      /\ b = FrameHas(a.frame, a.locks \ x, a.apps, a.count, a.marks, a.child)
  BY LockNames DEF Asks, FrameHas
<1>2. step[1] = "unlock" /\ step[2] = x
  OBVIOUS
<1> HIDE DEF a, b, step
<1>3. Leads(step, a, b)
  BY <1>1, <1>2 DEF Leads, a, b
<1>4. Path(<<step>>, a, b)
  BY <1>3, PathOne
<1> QED  BY <1>4 DEF a, b, step, LockFor, Unlock, Mask

LEMMA UnlockAppStep ==
    ASSUME NEW f, NEW s, NEW n, NEW c, NEW m, NEW k,
           NEW x \in SUBSET (s \cup {"app"}), "app" \in x, n \in Nat \ {0},
           Fit(FrameHas(f, s, n, c, m, k)),
           Fit(FrameHas(f, s \ x, n - 1, c, m, k))
    PROVE  Path(Unlock(x), FrameHas(f, s, n, c, m, k), FrameHas(f, s \ x, n - 1, c, m, k))
<1> DEFINE a == FrameHas(f, s, n, c, m, k)
           b == FrameHas(f, s \ x, n - 1, c, m, k)
           step == <<"unlock", x>>
<1>1. /\ x \in SUBSET (a.locks \cup {"app"}) /\ a.apps > 0
      /\ b = FrameHas(a.frame, a.locks \ x, a.apps - 1, a.count, a.marks, a.child)
  BY LockNames DEF Asks, FrameHas
<1>2. step[1] = "unlock" /\ step[2] = x
  OBVIOUS
<1> HIDE DEF a, b, step
<1>3. Leads(step, a, b)
  BY <1>1, <1>2 DEF Leads, a, b
<1>4. Path(<<step>>, a, b)
  BY <1>3, PathOne
<1> QED  BY <1>4 DEF a, b, step, LockFor, Unlock, Mask

LEMMA LockForkStep ==
    ASSUME NEW f, NEW s, NEW n, NEW c, NEW m, NEW k,
           f = "call", s = {}, "foreign" \notin m, c \in Nat,
           Fit(FrameHas(f, s, n, c, m, k)),
           Fit(FrameHas(f, s, n, c + 1, m, k))
    PROVE  Path(<<<<"lockFork", "forkChild">>>>, FrameHas(f, s, n, c, m, k), FrameHas(f, s, n, c + 1, m, k))
<1> DEFINE a == FrameHas(f, s, n, c, m, k)
           b == FrameHas(f, s, n, c + 1, m, k)
           step == <<"lockFork", "forkChild">>
<1>1. /\ a.frame = "call" /\ "foreign" \notin a.marks /\ a.locks = {}
      /\ b = FrameHas(a.frame, a.locks, a.apps, a.count + 1, a.marks, a.child)
  BY DEF FrameHas
<1>2. step[1] = "lockFork" /\ step[2] = "forkChild"
  OBVIOUS
<1> HIDE DEF a, b, step
<1>3. Leads(step, a, b)
  BY <1>1, <1>2 DEF Leads, a, b
<1>4. Path(<<step>>, a, b)
  BY <1>3, PathOne
<1> QED  BY <1>4 DEF a, b, step, LockFor, Unlock, Mask

LEMMA UnlockForkStep ==
    ASSUME NEW f, NEW s, NEW n, NEW c, NEW m, NEW k,
           c \in Nat \ {0}, "fork" \notin s,
           Fit(FrameHas(f, s, n, c, m, k)),
           Fit(FrameHas(f, s, n, c - 1, m \ {"foreign"}, k))
    PROVE  Path(<<<<"unlockFork", "forkChild">>>>, FrameHas(f, s, n, c, m, k), FrameHas(f, s, n, c - 1, m \ {"foreign"}, k))
<1> DEFINE a == FrameHas(f, s, n, c, m, k)
           b == FrameHas(f, s, n, c - 1, m \ {"foreign"}, k)
           step == <<"unlockFork", "forkChild">>
<1>1. /\ a.count > 0 /\ "fork" \notin a.locks
      /\ b = FrameHas(a.frame, a.locks, a.apps, a.count - 1, a.marks \ {"foreign"}, a.child)
  BY LockNames DEF Asks, FrameHas
<1>2. step[1] = "unlockFork" /\ step[2] = "forkChild"
  OBVIOUS
<1> HIDE DEF a, b, step
<1>3. Leads(step, a, b)
  BY <1>1, <1>2 DEF Leads, a, b
<1>4. Path(<<step>>, a, b)
  BY <1>3, PathOne
<1> QED  BY <1>4 DEF a, b, step, LockFor, Unlock, Mask

LEMMA ResetForkStep ==
    ASSUME NEW f, NEW s, NEW n, NEW c, NEW m, NEW k,
           c \in Nat \ {0}, s = {},
           Fit(FrameHas(f, s, n, c, m, k)),
           Fit(FrameHas(f, s, n, 0, m \ {"foreign"}, k))
    PROVE  Path(<<<<"resetFork", "forkChild">>>>, FrameHas(f, s, n, c, m, k), FrameHas(f, s, n, 0, m \ {"foreign"}, k))
<1> DEFINE a == FrameHas(f, s, n, c, m, k)
           b == FrameHas(f, s, n, 0, m \ {"foreign"}, k)
           step == <<"resetFork", "forkChild">>
<1>1. /\ a.count > 0 /\ a.locks = {}
      /\ b = FrameHas(a.frame, a.locks, a.apps, 0, a.marks \ {"foreign"}, a.child)
  BY LockNames DEF Asks, FrameHas
<1>2. step[1] = "resetFork" /\ step[2] = "forkChild"
  OBVIOUS
<1> HIDE DEF a, b, step
<1>3. Leads(step, a, b)
  BY <1>1, <1>2 DEF Leads, a, b
<1>4. Path(<<step>>, a, b)
  BY <1>3, PathOne
<1> QED  BY <1>4 DEF a, b, step, LockFor, Unlock, Mask

LEMMA LockRegionStep ==
    ASSUME NEW f, NEW s, NEW n, NEW c, NEW m, NEW k,
           n \in Nat \ {0}, f = "call" => s = {},
           Fit(FrameHas(f, s, n, c, m, k))
    PROVE  Path(<<<<"lockRegion", "app">>>>, FrameHas(f, s, n, c, m, k), FrameHas(f, s, n, c, m, k))
<1> DEFINE a == FrameHas(f, s, n, c, m, k)
           step == <<"lockRegion", "app">>
<1>1. a.apps > 0 /\ (a.frame = "call" => a.locks = {})
  BY DEF FrameHas
<1>2. step[1] = "lockRegion" /\ step[2] = "app"
  OBVIOUS
<1> HIDE DEF a, step
<1>3. Leads(step, a, a)
  BY <1>1, <1>2 DEF Leads, a
<1>4. Path(<<step>>, a, a)
  BY <1>3, PathOne
<1> QED  BY <1>4 DEF a, step

LEMMA UnlockRegionStep ==
    ASSUME NEW a, Fit(a)
    PROVE  Path(<<<<"unlockRegion", "app">>>>, a, a)
<1> DEFINE step == <<"unlockRegion", "app">>
<1>1. step[1] = "unlockRegion"
  OBVIOUS
<1> HIDE DEF step
<1>2. Leads(step, a, a)
  BY <1>1 DEF Leads
<1>3. Path(<<step>>, a, a)
  BY <1>2, PathOne
<1> QED  BY <1>3 DEF step

LEMMA ForkRegionStep ==
    ASSUME NEW f, NEW s, NEW n, NEW c, NEW m, NEW k,
           "forked" \in m,
           Fit(FrameHas(f, s, n, c, m, k)),
           Fit(FrameHas(f, s, n, c, m \ {"forked"}, k))
    PROVE  Path(<<<<"forkRegion", "app">>>>, FrameHas(f, s, n, c, m, k), FrameHas(f, s, n, c, m \ {"forked"}, k))
<1> DEFINE a == FrameHas(f, s, n, c, m, k)
           b == FrameHas(f, s, n, c, m \ {"forked"}, k)
           step == <<"forkRegion", "app">>
<1>1. /\ "forked" \in a.marks
      /\ b = [a EXCEPT !.marks = @ \ {"forked"}]
  BY LockNames DEF Asks, FrameHas
<1>2. step[1] = "forkRegion" /\ step[2] = "app"
  OBVIOUS
<1> HIDE DEF a, b, step
<1>3. Leads(step, a, b)
  BY <1>1, <1>2 DEF Leads, a, b
<1>4. Path(<<step>>, a, b)
  BY <1>3, PathOne
<1> QED  BY <1>4 DEF a, b, step, LockFor, Unlock, Mask

LEMMA WaitBellStep ==
    ASSUME NEW f, NEW s, NEW n, NEW c, NEW m, NEW k,
           k # 0, s = {},
           Fit(FrameHas(f, s, n, c, m, k)),
           Fit(FrameHas(f, s, n, c, m, 0))
    PROVE  Path(<<<<"waitBell", k>>>>, FrameHas(f, s, n, c, m, k), FrameHas(f, s, n, c, m, 0))
<1> DEFINE a == FrameHas(f, s, n, c, m, k)
           b == FrameHas(f, s, n, c, m, 0)
           step == <<"waitBell", k>>
<1>1. k = a.child /\ a.locks = {} /\ b = [a EXCEPT !.child = 0]
  BY LockNames DEF Asks, FrameHas
<1>2. step[1] = "waitBell" /\ step[2] = k
  OBVIOUS
<1> HIDE DEF a, b, step
<1>3. Leads(step, a, b)
  BY <1>1, <1>2 DEF Leads, a, b
<1>4. Path(<<step>>, a, b)
  BY <1>3, PathOne
<1> QED  BY <1>4 DEF a, b, step, LockFor, Unlock, Mask

LEMMA PlainStep ==
    ASSUME NEW a, NEW do \in {"ringBell", "exit"}, a.frame = "call", Fit(a)
    PROVE  Path(<<<<do, "child">>>>, a, a)
<1> DEFINE step == <<do, "child">>
<1>1. step[1] = do
  OBVIOUS
<1> HIDE DEF step
<1>2. Leads(step, a, a)
  BY <1>1 DEF Leads
<1>3. Path(<<step>>, a, a)
  BY <1>2, PathOne
<1> QED  BY <1>3 DEF step

LEMMA ForkStep ==
    ASSUME NEW a, NEW kind, Prepared(a, kind), Fit(a), Fit(Completed(a))
    PROVE  Path(<<<<"fork", kind>>>>, a, Completed(a))
<1> DEFINE step == <<"fork", kind>>
<1>1. step[1] = "fork" /\ step[2] = kind
  OBVIOUS
<1> HIDE DEF step
<1>2. Leads(step, a, Completed(a))
  BY <1>1 DEF Leads
<1>3. Path(<<step>>, a, Completed(a))
  BY <1>2, PathOne
<1> QED  BY <1>3 DEF step

----------------------------------------------------------------------------
\* What the calls of the program and the handlers do.

\* What a call has outside a fork, and in the middle of one.
CallHas(s, n, c) == FrameHas("call", s, n, c, {}, 0)

\* prepareFork_.
LEMMA PreparePath ==
    ASSUME NEW n \in 0 .. 1, NEW c \in 0 .. 1
    PROVE  Path(PrepareFork, CallHas({}, n, c),
                CallHas({"fork", "writer", "signal", "files"}, n + 1, c + 1))
<1> DEFINE s1 == {} \cup {"fork"}
           s2 == s1 \cup {"writer"}
           s3 == s2 \cup {"signal"}
           s4 == s3 \cup {"files"}
           a0 == CallHas({}, n, c)
           a1 == CallHas({}, n, c + 1)
           a2 == CallHas(s1, n, c + 1)
           a3 == CallHas(s1, n + 1, c + 1)
           a4 == CallHas(s2, n + 1, c + 1)
           a5 == CallHas(s3, n + 1, c + 1)
           a6 == CallHas(s4, n + 1, c + 1)
<1>0. n \in 0 .. 2 /\ c \in 0 .. 2 /\ c + 1 \in 0 .. 2 /\ {} \in SUBSET {"foreign", "forked"} /\ 0 \in LockProcesses
  BY LockNames
<1>1. Fit(a0) /\ Fit(a1)
  <2>1. Fit(a0)
    BY <1>0, CallFit DEF CallHas
  <2>2. Fit(a1)
    BY <1>0, CallFit DEF CallHas
  <2> QED  BY <2>1, <2>2
<1>2. Fit(a2) /\ Fit(a3) /\ Fit(a4) /\ Fit(a5) /\ Fit(a6)
  BY CallFit, LockNames DEF CallHas
<1>3. Path(<<<<"lockFork", "forkChild">>>>, a0, a1)
  <2>1. c \in Nat /\ "foreign" \notin {}
    OBVIOUS
  <2> QED  BY <1>1, <2>1, LockForkStep DEF CallHas
<1>4. Path(LockFor("fork"), a1, a2)
  BY <1>1, <1>2, LockStep, LockNames DEF CallHas
<1>5. Path(Mask("app"), a2, a2)
  BY <1>2, MaskStep
<1>6. Path(LockFor("app"), a2, a3)
  <2>1. n \in Nat /\ s1 \subseteq {"fork"}
    OBVIOUS
  <2> QED  BY <1>2, <2>1, AppStep DEF CallHas
<1>7. Path(LockFor("writer"), a3, a4)
  BY <1>2, LockStep, LockNames DEF CallHas, Rank
<1>8. Path(LockFor("signal"), a4, a5)
  BY <1>2, LockStep, LockNames DEF CallHas, Rank
<1>9. Path(LockFor("files"), a5, a6)
  BY <1>2, LockStep, LockNames DEF CallHas, Rank
<1>10. s4 = {"fork", "writer", "signal", "files"}
  OBVIOUS
<1> HIDE DEF a0, a1, a2, a3, a4, a5, a6
<1>11. Path(PrepareFork, a0, a6)
  BY <1>3, <1>4, <1>5, <1>6, <1>7, <1>8, <1>9, PathJoin DEF PrepareFork
<1> QED  BY <1>10, <1>11 DEF a0, a6

\* changeSigAction_, from outside its locks back to there.
LEMMA ChangeSigActionPath ==
    ASSUME NEW n \in 0 .. 1, NEW c \in 0 .. 1
    PROVE  Path(ChangeSigAction("HUP"), CallHas({}, n, c), CallHas({}, n, c))
<1> DEFINE s1 == {} \cup {"signal"}
           s2 == {} \cup {"reader"}
           s3 == s2 \cup {"HUP"}
           a0 == CallHas({}, n, c)
           a1 == CallHas(s1, n, c)
           a2 == CallHas(s2, n, c)
           a3 == CallHas(s3, n, c)
<1> USE DEF CallHas
<1>0. n \in 0 .. 2 /\ c \in 0 .. 2 /\ {} \in SUBSET {"foreign", "forked"} /\ 0 \in LockProcesses
  BY LockNames
<1>1. Fit(a0) /\ Fit(a1) /\ Fit(a2) /\ Fit(a3)
  <2>1. Fit(a0)
    BY <1>0, CallFit
  <2>2. Fit(a1)
    BY <1>0, CallFit
  <2>3. Fit(a2)
    BY <1>0, CallFit
  <2>4. Fit(a3)
    BY <1>0, CallFit
  <2> QED  BY <2>1, <2>2, <2>3, <2>4
<1>2. Path(LockFor("signal"), a0, a1)
  BY <1>1, LockStep, LockNames DEF CallHas
<1>3. Path(Unlock({"signal"}), a1, a0)
  <2>1. s1 \ {"signal"} = {}
    OBVIOUS
  <2> QED  BY <1>1, <2>1, UnlockStep DEF CallHas
<1>4. Path(LockFor("reader"), a0, a2)
  BY <1>1, LockStep, LockNames DEF CallHas
<1>5. Path(Mask("HUP"), a2, a2)
  BY <1>1, MaskStep
<1>6. Path(LockFor("HUP"), a2, a3)
  BY <1>1, LockStep, LockNames DEF CallHas, Rank
<1>7. Path(Unlock({"HUP", "reader"}), a3, a0)
  <2>1. s3 \ {"HUP", "reader"} = {}
    OBVIOUS
  <2> QED  BY <1>1, <2>1, UnlockStep DEF CallHas
<1> HIDE DEF a0, a1, a2, a3
<1>8. Path(ChangeSigAction("HUP"), a0, a0)
  BY <1>2, <1>3, <1>4, <1>5, <1>6, <1>7, PathJoin DEF ChangeSigAction
<1> QED  BY <1>8 DEF a0

\* The lock of the watch methods, from outside other locks.
LEMMA UpdateWatchMethodPath ==
    ASSUME NEW n \in 0 .. 1, NEW c \in 0 .. 1
    PROVE  Path(UpdateWatchMethod, CallHas({}, n, c), CallHas({}, n, c))
<1> DEFINE s1 == {} \cup {"watch"}
           a0 == CallHas({}, n, c)
           a1 == CallHas(s1, n, c)
<1> USE DEF CallHas
<1>0. n \in 0 .. 2 /\ c \in 0 .. 2 /\ {} \in SUBSET {"foreign", "forked"} /\ 0 \in LockProcesses
  BY LockNames
<1>1. Fit(a0) /\ Fit(a1)
  <2>1. Fit(a0)
    BY <1>0, CallFit
  <2>2. Fit(a1)
    BY <1>0, CallFit
  <2> QED  BY <2>1, <2>2
<1>2. Path(LockFor("watch"), a0, a1)
  BY <1>1, LockStep, LockNames DEF CallHas
<1>3. Path(Unlock({"watch"}), a1, a0)
  <2>1. s1 \ {"watch"} = {}
    OBVIOUS
  <2> QED  BY <1>1, <2>1, UnlockStep DEF CallHas
<1> HIDE DEF a0, a1
<1>4. Path(UpdateWatchMethod, a0, a0)
  BY <1>2, <1>3, PathJoin DEF UpdateWatchMethod
<1> QED  BY <1>4 DEF a0

\* The application lock with its region, taken by a call or by a handler.
LEMMA AppPath ==
    ASSUME NEW f, NEW s, Fit(FrameHas(f, s, 0, 0, {}, 0)), f = "call" => s = {},
           f \in {"call"} \cup WatchedSignals
    PROVE  /\ Path(AcquireApp, FrameHas(f, s, 0, 0, {}, 0), FrameHas(f, s, 1, 0, {}, 0))
           /\ Path(ReleaseApp, FrameHas(f, s, 1, 0, {}, 0), FrameHas(f, s, 0, 0, {}, 0))
<1> DEFINE a0 == FrameHas(f, s, 0, 0, {}, 0)
           a1 == FrameHas(f, s, 1, 0, {}, 0)
<1>1. Fit(a0) /\ Fit(a1)
  BY LockNames DEF Fit, FrameHas, LockStates, WatchedSignals
<1>2. s \ {"app"} = s
  BY <1>1, LockNames DEF Fit, FrameHas, LockStates
<1>3. Path(LockFor("app"), a0, a1)
  BY <1>1, AppStep
<1>4. Path(<<<<"lockRegion", "app">>>>, a1, a1)
  <2>1. 1 \in Nat \ {0}
    OBVIOUS
  <2> QED  BY <1>1, <2>1, LockRegionStep
<1>5. Path(<<<<"unlockRegion", "app">>>>, a1, a1)
  BY <1>1, UnlockRegionStep
<1>6. Path(Unlock({"app"}), a1, a0)
  <2>1. {"app"} \in SUBSET (s \cup {"app"}) /\ "app" \in {"app"} /\ 1 \in Nat \ {0} /\ 1 - 1 = 0
    OBVIOUS
  <2> QED  BY <1>1, <1>2, <2>1, UnlockAppStep
<1> HIDE DEF a0, a1
<1>7. Path(AcquireApp, a0, a1) /\ Path(ReleaseApp, a1, a0)
  BY <1>3, <1>4, <1>5, <1>6, PathJoin DEF AcquireApp, ReleaseApp
<1> QED  BY <1>7 DEF a0, a1

\* runSigHandler_, with the reports of ert_debug().
LEMMA RunSigHandlerPath ==
    ASSUME NEW sig \in WatchedSignals
    PROVE  Path(RunSigHandler(sig), FrameHas(sig, {}, 0, 0, {}, 0), FrameHas(sig, {}, 0, 0, {}, 0))
<1> DEFINE s1 == {} \cup {"reader"}
           s2 == s1 \cup {sig}
           s3 == s2 \cup {"watch"}
           a0 == FrameHas(sig, {}, 0, 0, {}, 0)
           a1 == FrameHas(sig, s1, 0, 0, {}, 0)
           a2 == FrameHas(sig, s2, 0, 0, {}, 0)
           a3 == FrameHas(sig, s3, 0, 0, {}, 0)
           inner == IF sig = "CONT" THEN LockFor("watch") \o Report \o Unlock({"watch"}) ELSE <<>>
<1>1. Fit(a0) /\ Fit(a1) /\ Fit(a2) /\ Fit(a3)
  BY ActionFit DEF WatchedSignals
<1>2. sig \in {"CONT", "HUP"}
  BY DEF WatchedSignals
<1>3. Path(LockFor("reader"), a0, a1)
  BY <1>1, <1>2, LockStep, LockNames
<1>4. Path(LockFor(sig), a1, a2)
  BY <1>1, <1>2, LockStep, LockNames DEF Rank
<1>5. sig = "CONT" => Path(LockFor("watch"), a2, a3)
  BY <1>1, <1>2, LockStep, LockNames DEF Rank
<1>6. Path(Unlock({"watch"}), a3, a2)
  <2>1. s3 \ {"watch"} = s2
    BY <1>2
  <2> QED  BY <1>1, <2>1, UnlockStep
<1>7. Path(Unlock({sig, "reader"}), a2, a0)
  <2>1. s2 \ {sig, "reader"} = {} /\ "app" \notin {sig, "reader"}
    BY <1>2
  <2> QED  BY <1>1, <2>1, UnlockStep
<1>8. ASSUME NEW s, Fit(FrameHas(sig, s, 0, 0, {}, 0))
      PROVE  Path(Report, FrameHas(sig, s, 0, 0, {}, 0), FrameHas(sig, s, 0, 0, {}, 0))
  <2>1. FrameHas(sig, s, 0, 0, {}, 0) \in LockStates
    BY <1>8 DEF Fit
  <2>2. sig # "call"
    BY <1>2
  <2>3. CASE HandlersReport
    BY <2>2, <2>3, <1>8, AppPath, PathJoin DEF Report
  <2>4. CASE ~HandlersReport
    BY <2>1, <2>4, PathNone DEF Report
  <2> QED  BY <2>3, <2>4
<1>9. Path(Report, a1, a1) /\ Path(Report, a3, a3) /\ Path(<<>>, a2, a2)
  BY <1>1, <1>8, PathNone DEF Fit
<1> HIDE DEF a0, a1, a2, a3
<1>10. Path(inner, a2, a2)
  BY <1>5, <1>6, <1>9, PathJoin
<1> HIDE DEF inner
<1>11. Path(LockFor("reader") \o Report \o LockFor(sig) \o inner \o Unlock({sig, "reader"}), a0, a0)
  BY <1>3, <1>4, <1>7, <1>9, <1>10, PathJoin
<1> QED  BY <1>11 DEF RunSigHandler, inner, a0

\* What prepareFork_ takes; what a call has before it begins and when it is over.
Taken == {"fork", "writer", "signal", "files"}
Idle == CallHas({}, 0, 0)

\* The forks, with what the parent does after them.
LEMMA ForkPath ==
    ASSUME NEW n \in 0 .. 1
    PROVE  /\ Path(Fork, CallHas({}, n, 0), CallHas({}, n, 0))
           /\ Path(ForkProcessChild, CallHas({}, n, 0), CallHas({}, n, 0))
<1> USE DEF CallHas
<1>0. n + 1 \in 0 .. 2 /\ n \in 0 .. 2 /\ 1 \in 0 .. 2 /\ 2 \in 0 .. 2 /\ {} \in SUBSET {"foreign", "forked"}
      /\ 0 \in LockProcesses /\ (n + 1) - 1 = n /\ n + 1 > 0 /\ 0 + 1 = 1 /\ 1 + 1 = 2 /\ 0 \in 0 .. 1
      /\ 1 \in 0 .. 1 /\ 0 \in 0 .. 2
  BY LockNames
<1> DEFINE a0 == CallHas({}, n, 0)
           a1 == CallHas({}, n, 1)
           a2 == CallHas(Taken, n + 1, 1)
           a3 == CallHas(Taken, n + 1, 2)
<1>1. Fit(a0) /\ Fit(a1) /\ Fit(a2) /\ Fit(a3)
  <2>1. Fit(a0)
    BY <1>0, CallFit
  <2>2. Fit(a1)
    BY <1>0, CallFit
  <2>3. Fit(a2)
    BY <1>0, CallFit DEF Taken
  <2>4. Fit(a3)
    BY <1>0, CallFit DEF Taken
  <2> QED  BY <2>1, <2>2, <2>3, <2>4
<1>2. Path(PrepareFork, a0, a2) /\ Path(PrepareFork, a1, a3)
  BY <1>0, PreparePath DEF Taken
<1>3. Path(<<<<"lockFork", "forkChild">>>>, a0, a1)
  <2>1. 0 \in Nat /\ "foreign" \notin {}
    OBVIOUS
  <2> QED  BY <1>0, <1>1, <2>1, LockForkStep
<1>4. Path(<<<<"fork", "raw">>>>, a2, a0)
  <2>1. Prepared(a2, "raw") /\ Completed(a2) = a0
    BY <1>0 DEF Prepared, Completed, FrameHas, Taken
  <2> QED  BY <1>1, <2>1, ForkStep
<1>5. Path(<<<<"fork", "child">>>>, a3, a0)
  <2>1. Prepared(a3, "child") /\ Completed(a3) = a0
    BY <1>0 DEF Prepared, Completed, FrameHas, Taken
  <2> QED  BY <1>1, <2>1, ForkStep
<1> HIDE DEF a0, a1, a2, a3
<1>6. Path(Fork, a0, a0) /\ Path(ForkProcessChild, a0, a0)
  BY <1>2, <1>3, <1>4, <1>5, PathJoin DEF Fork, ForkProcessChild
<1> QED  BY <1>6 DEF a0

\* Every call ends with nothing taken.
LEMMA CallPath ==
    ASSUME NEW c \in LockCalls
    PROVE  Path(c, Idle, Idle)
<1> DEFINE a1 == CallHas({}, 1, 0)
<1>1. 0 \in 0 .. 1 /\ 1 \in 0 .. 1
  OBVIOUS
<1>2. Path(Fork, Idle, Idle) /\ Path(ForkProcessChild, Idle, Idle)
      /\ Path(Fork, a1, a1) /\ Path(ForkProcessChild, a1, a1)
  BY <1>1, ForkPath DEF Idle
<1>3. Path(ChangeSigAction("HUP"), Idle, Idle) /\ Path(ChangeSigAction("HUP"), a1, a1)
  BY <1>1, ChangeSigActionPath DEF Idle
<1>4. Path(UpdateWatchMethod, Idle, Idle) /\ Path(UpdateWatchMethod, a1, a1)
  BY <1>1, UpdateWatchMethodPath DEF Idle
<1>5. Path(AcquireApp, Idle, a1) /\ Path(ReleaseApp, a1, Idle)
  <2>0. 0 \in 0 .. 2 /\ {} \in SUBSET {"foreign", "forked"} /\ 0 \in LockProcesses
    BY LockNames
  <2>1. Fit(FrameHas("call", {}, 0, 0, {}, 0))
    BY <2>0, CallFit
  <2> QED  BY <2>1, AppPath DEF Idle, CallHas
<1> HIDE DEF a1
<1> QED  BY <1>2, <1>3, <1>4, <1>5, PathJoin DEF LockCalls

\* Whom completeFork_ finds with the locks, in the parent and in the child.
LEMMA CompleteForkPath ==
    ASSUME NEW n \in 0 .. 1, NEW c \in {1, 2}, NEW m \in SUBSET {"foreign"}, NEW k \in LockProcesses
    PROVE  Path(CompleteFork, FrameHas("call", Taken \ {"files"}, n + 1, c, m, k),
                FrameHas("call", {}, n, c - 1, {}, k))
<1> DEFINE s == Taken \ {"files"}
           x == {"signal", "writer", "app", "fork"}
           a0 == FrameHas("call", s, n + 1, c, m, k)
           a1 == FrameHas("call", {}, n, c, m, k)
           a2 == FrameHas("call", {}, n, c - 1, {}, k)
<1>1. /\ n \in 0 .. 2 /\ n + 1 \in 0 .. 2 /\ c \in 0 .. 2 /\ c - 1 \in 0 .. 2 /\ n + 1 \in Nat \ {0}
      /\ (n + 1) - 1 = n /\ c > 0 /\ n + 1 > 0 /\ c \in Nat \ {0}
      /\ m \in SUBSET {"foreign", "forked"} /\ {} \in SUBSET {"foreign", "forked"}
      /\ "foreign" \notin {} /\ m \ {"foreign"} = {} /\ "fork" \notin {}
  OBVIOUS
<1>2. s \ x = {} /\ x \in SUBSET (s \cup {"app"}) /\ "app" \in x
  BY DEF Taken
<1>3. /\ s \in SUBSET {"signal", "fork", "writer", "files", "watch", "reader", "HUP"}
      /\ "reader" \notin s /\ "HUP" \notin s
  BY DEF Taken
<1> HIDE DEF s, x
<1>4. Fit(a0)
  BY <1>1, <1>3, CallFit
<1>5. Fit(a1)
  BY <1>1, CallFit
<1>6. Fit(a2)
  BY <1>1, CallFit
<1>7. Path(Unlock(x), a0, a1)
  BY <1>1, <1>2, <1>4, <1>5, UnlockAppStep
<1>8. Path(<<<<"unlockFork", "forkChild">>>>, a1, a2)
  BY <1>1, <1>5, <1>6, UnlockForkStep
<1> HIDE DEF a0, a1, a2
<1>9. Path(Unlock(x) \o <<<<"unlockFork", "forkChild">>>>, a0, a2)
  BY <1>7, <1>8, PathJoin
<1> QED  BY <1>9 DEF CompleteFork, a0, a2, s, x

\* Both begin with the lock of the file list, which is taken last.
LEMMA FilesPath ==
    ASSUME NEW n \in 0 .. 1, NEW c \in {1, 2}, NEW m \in SUBSET {"foreign", "forked"}, NEW k \in LockProcesses
    PROVE  /\ Fit(FrameHas("call", Taken, n + 1, c, m, k))
           /\ Fit(FrameHas("call", Taken \ {"files"}, n + 1, c, m, k))
           /\ Path(Unlock({"files"}), FrameHas("call", Taken, n + 1, c, m, k),
                   FrameHas("call", Taken \ {"files"}, n + 1, c, m, k))
<1> DEFINE s == Taken \ {"files"}
<1>1. n + 1 \in 0 .. 2 /\ c \in 0 .. 2 /\ c > 0 /\ n + 1 > 0
  OBVIOUS
<1>2. /\ s \in SUBSET {"signal", "fork", "writer", "files", "watch", "reader", "HUP"}
      /\ "reader" \notin s /\ "HUP" \notin s
  BY DEF Taken
<1>3. /\ Taken \in SUBSET {"signal", "fork", "writer", "files", "watch", "reader", "HUP"}
      /\ "reader" \notin Taken /\ "HUP" \notin Taken
  BY DEF Taken
<1>4. Fit(FrameHas("call", Taken, n + 1, c, m, k))
  BY <1>1, <1>3, CallFit
<1>5. Fit(FrameHas("call", s, n + 1, c, m, k))
  <2> HIDE DEF s
  <2> QED  BY <1>1, <1>2, CallFit
<1>6. {"files"} \in SUBSET Taken /\ "app" \notin {"files"}
  BY DEF Taken
<1>7. Path(Unlock({"files"}), FrameHas("call", Taken, n + 1, c, m, k), FrameHas("call", s, n + 1, c, m, k))
  BY <1>4, <1>5, <1>6, UnlockStep
<1> QED  BY <1>4, <1>5, <1>7

\* What the parent of a fork goes on with.
LEMMA ParentPathLeads ==
    ASSUME NEW n \in 0 .. 1, NEW k \in LockProcesses \ {0}, NEW kind \in {"raw", "child"}
    PROVE  Path(ParentPath(kind, k),
                FrameHas("call", Taken, n + 1, IF kind = "raw" THEN 1 ELSE 2, {}, IF kind = "raw" THEN 0 ELSE k),
                CallHas({}, n, 0))
<1> DEFINE c == IF kind = "raw" THEN 1 ELSE 2
           j == IF kind = "raw" THEN 0 ELSE k
           a0 == FrameHas("call", Taken, n + 1, c, {}, j)
           a1 == FrameHas("call", Taken \ {"files"}, n + 1, c, {}, j)
           a2 == FrameHas("call", {}, n, c - 1, {}, j)
           b1 == FrameHas("call", {}, n, 1, {}, k)
           b2 == FrameHas("call", {}, n, 1, {}, 0)
           b3 == CallHas({}, n, 0)
           wait == <<<<"waitBell", k>>, <<"unlockFork", "forkChild">>>>
           unlock == <<<<"unlockFork", "forkChild">>>>
<1>1. c \in {1, 2} /\ j \in LockProcesses /\ {} \in SUBSET {"foreign"} /\ {} \in SUBSET {"foreign", "forked"}
  BY LockNames
<1>2. /\ n \in 0 .. 2 /\ 1 \in 0 .. 2 /\ 0 \in 0 .. 2 /\ 1 \in Nat \ {0} /\ 1 > 0 /\ 1 - 1 = 0 /\ 2 - 1 = 1
      /\ "fork" \notin {} /\ {} \ {"foreign"} = {} /\ "foreign" \notin {} /\ k # 0 /\ 0 \in LockProcesses
  BY LockNames
<1>3. kind = "raw" => a2 = b3
  BY <1>2 DEF CallHas
<1>4. kind = "child" => a2 = b1
  BY <1>2
<1>5. Fit(b1)
  BY <1>1, <1>2, CallFit
<1>6. Fit(b2)
  BY <1>1, <1>2, CallFit
<1>7. Fit(b3)
  BY <1>1, <1>2, CallFit DEF CallHas
<1>8. Path(<<<<"waitBell", k>>>>, b1, b2)
  BY <1>2, <1>5, <1>6, WaitBellStep
<1>9. Path(unlock, b2, b3)
  BY <1>2, <1>6, <1>7, UnlockForkStep DEF CallHas
<1>10. wait = <<<<"waitBell", k>>>> \o unlock
  OBVIOUS
<1> HIDE DEF c, j
<1>11. Path(Unlock({"files"}), a0, a1)
  BY <1>1, FilesPath
<1>12. Path(CompleteFork, a1, a2)
  BY <1>1, CompleteForkPath
<1> HIDE DEF a0, a1, a2, b1, b2, b3, wait, unlock
<1>13. Path(Unlock({"files"}) \o CompleteFork, a0, a2)
  BY <1>11, <1>12, PathJoin
<1>14. Path(wait, b1, b3)
  BY <1>8, <1>9, <1>10, PathJoin
<1>15. Path(IF kind = "child" THEN wait ELSE <<>>, a2, b3)
  <2>1. b3 \in LockStates
    BY <1>7 DEF Fit
  <2>2. CASE kind = "raw"
    BY <2>1, <2>2, <1>3, PathNone
  <2>3. CASE kind = "child"
    BY <2>3, <1>4, <1>14
  <2> QED  BY <2>2, <2>3
<1>16. Path(ParentPath(kind, k), a0, b3)
  BY <1>13, <1>15, PathJoin DEF ParentPath, wait
<1> QED  BY <1>16 DEF a0, b3, c, j

\* And the child.
LEMMA ChildPathLeads ==
    ASSUME NEW n \in 0 .. 1, NEW kind \in {"raw", "child"}
    PROVE  Path(ChildPath(kind),
                FrameHas("call", Taken, n + 1, IF kind = "raw" THEN 1 ELSE 2, {"foreign", "forked"}, 0),
                CallHas({}, n, 0))
<1> DEFINE c == IF kind = "raw" THEN 1 ELSE 2
           a0 == FrameHas("call", Taken, n + 1, c, {"foreign", "forked"}, 0)
           a1 == FrameHas("call", Taken \ {"files"}, n + 1, c, {"foreign", "forked"}, 0)
           a2 == FrameHas("call", Taken \ {"files"}, n + 1, c, {"foreign", "forked"} \ {"forked"}, 0)
           a3 == FrameHas("call", {}, n, c - 1, {}, 0)
           b1 == CallHas({}, n, 1)
           b2 == CallHas({}, n, 0)
           reset == <<<<"resetFork", "forkChild">>>>
           lock == <<<<"lockFork", "forkChild">>>>
           ring == <<<<"ringBell", "child">>>>
           unlock == <<<<"unlockFork", "forkChild">>>>
           exit == <<<<"exit", "child">>>>
           first == <<<<"resetFork", "forkChild">>, <<"lockFork", "forkChild">>>>
           last == <<<<"ringBell", "child">>, <<"unlockFork", "forkChild">>, <<"exit", "child">>>>
<1>1. /\ c \in {1, 2} /\ 0 \in LockProcesses /\ {"foreign"} \in SUBSET {"foreign"}
      /\ {"foreign", "forked"} \in SUBSET {"foreign", "forked"} /\ {"foreign", "forked"} \ {"forked"} = {"foreign"}
      /\ {"foreign"} \in SUBSET {"foreign", "forked"} /\ "forked" \in {"foreign", "forked"}
  BY LockNames
<1>2. /\ n \in 0 .. 2 /\ 1 \in 0 .. 2 /\ 0 \in 0 .. 2 /\ 1 \in Nat \ {0} /\ 1 > 0 /\ 1 - 1 = 0 /\ 2 - 1 = 1 /\ 0 + 1 = 1
      /\ "fork" \notin {} /\ {} \ {"foreign"} = {} /\ "foreign" \notin {} /\ 0 \in LockProcesses /\ 0 \in Nat
      /\ {} \in SUBSET {"foreign", "forked"} /\ 1 \in 0 .. 1
  BY LockNames
<1>3. kind = "raw" => a3 = b2
  BY <1>2 DEF CallHas
<1>4. kind = "child" => a3 = b1
  BY <1>2 DEF CallHas
<1>5. Fit(b1) /\ b1.frame = "call"
  <2>1. b1.frame = "call"
    BY DEF CallHas, FrameHas
  <2> QED  BY <2>1, <1>1, <1>2, CallFit DEF CallHas
<1>6. Fit(b2) /\ b2.frame = "call"
  <2>1. b2.frame = "call"
    BY DEF CallHas, FrameHas
  <2> QED  BY <2>1, <1>1, <1>2, CallFit DEF CallHas
<1>7. Path(reset, b1, b2)
  BY <1>2, <1>5, <1>6, ResetForkStep DEF CallHas
<1>8. Path(lock, b2, b1)
  BY <1>2, <1>5, <1>6, LockForkStep DEF CallHas
<1>9. Path(unlock, b1, b2)
  BY <1>2, <1>5, <1>6, UnlockForkStep DEF CallHas
<1>10. Path(ring, b1, b1) /\ Path(exit, b2, b2)
  BY <1>5, <1>6, PlainStep
<1>11. Path(UpdateWatchMethod, b1, b1) /\ Path(ChangeSigAction("HUP"), b1, b1)
  BY <1>2, UpdateWatchMethodPath, ChangeSigActionPath
<1>12. first = reset \o lock /\ last = ring \o unlock \o exit
  OBVIOUS
<1> HIDE DEF c
<1>13. Path(Unlock({"files"}), a0, a1)
  BY <1>1, FilesPath
<1>14. Path(<<<<"forkRegion", "app">>>>, a1, a2)
  <2>1. Fit(a1) /\ Fit(a2)
    BY <1>1, FilesPath
  <2> QED  BY <1>1, <2>1, ForkRegionStep
<1>15. Path(CompleteFork, a2, a3)
  BY <1>1, CompleteForkPath
<1> HIDE DEF a0, a1, a2, a3, b1, b2, reset, lock, ring, unlock, exit, first, last
<1>16. Path(Unlock({"files"}) \o <<<<"forkRegion", "app">>>> \o CompleteFork, a0, a3)
  BY <1>13, <1>14, <1>15, PathJoin
<1>17. Path(first, b1, b1) /\ Path(last, b1, b2)
  BY <1>7, <1>8, <1>9, <1>10, <1>12, PathJoin
<1>18. Path(first \o UpdateWatchMethod \o ChangeSigAction("HUP") \o last, b1, b2)
  BY <1>11, <1>17, PathJoin
<1>19. Path(IF kind = "child" THEN first \o UpdateWatchMethod \o ChangeSigAction("HUP") \o last ELSE <<>>, a3, b2)
  <2>1. b2 \in LockStates
    BY <1>6 DEF Fit
  <2>2. CASE kind = "raw"
    BY <2>1, <2>2, <1>3, PathNone
  <2>3. CASE kind = "child"
    BY <2>3, <1>4, <1>18
  <2> QED  BY <2>2, <2>3
<1>20. Path(ChildPath(kind), a0, b2)
  BY <1>16, <1>19, PathJoin DEF ChildPath, first, last
<1> QED  BY <1>20 DEF a0, b2, c

----------------------------------------------------------------------------
\* The invariant.

\* f has a value for each thread of each process.
TableOf(f) == f = [p \in LockProcesses |-> [t \in LockThreads |-> f[p][t]]]

\* How often a frame that has a has lock l.
Own(a, l) ==
    IF l = "app" THEN a.apps
    ELSE IF l = "forkChild" THEN (IF a.count > 0 THEN 1 ELSE 0)
    ELSE IF l \in a.locks THEN 1 ELSE 0

\* What is left of a handler that is over.
Rest(sig) == FrameHas(sig, {}, 0, 0, {}, 0)

\* A call that has a, and a handler that has h.
ThreadHas(p, t, a, h) ==
    /\ Fit(a) /\ a.frame = "call" /\ \E e : Path(calls[p][t], a, e)
    /\ Fit(h) /\ h.frame \in WatchedSignals /\ Path(handlers[p][t], h, Rest(h.frame))
    /\ InHandler(p, t) => a.apps = 0 /\ a.locks \cap (SigMutexes \cup {h.frame}) = {}
    /\ \A l \in Locks : held[p][l][t] = Own(a, l) + Own(h, l)
    /\ a.child # 0 => a.child > p /\ a.child <= forks
    /\ a.marks # {} => p # 0

\* The fork lock names the thread that counts, or in a child the parent.
ForkLockNames(p, has) ==
    /\ \A t \in living[p] : has[t].count > 0 =>
         /\ forkLock[p].count = has[t].count
         /\ IF "foreign" \in has[t].marks THEN forkLock[p].process # p
            ELSE forkLock[p].process = p /\ forkLock[p].thread = <<p, t>>
    /\ living[p] # {} /\ (\A t \in living[p] : has[t].count = 0) =>
         /\ forkLock[p].count = 0 /\ forkLock[p].thread = <<>>
         /\ forkLock[p].process \in {NoProcess, p}

\* What the type invariant leaves out.
LockShape ==
    /\ TableOf(calls) /\ TableOf(handlers)
    /\ forkLock \in [LockProcesses -> [process : LockProcesses \cup {NoProcess},
                                       thread : {<<>>} \cup (LockProcesses \X LockThreads),
                                       count : 0 .. 2]]

\* No two threads of a process have locks that exclude each other.
Excluded(p) ==
    \A t, u \in living[p] : t # u =>
        \A l \in Locks : \A m \in Excludes(l) : ~(Has(p, t, l) /\ Has(p, u, m))

\* Those that live have all the locks of their process but those of the watch methods.
NotOrphaned(p) ==
    living[p] # {} => \A t \in LockThreads \ living[p] : \A l \in Locks \ {"watch"} : ~Has(p, t, l)

\* A child has one thread, and none before it was forked.
ProcessBorn(p) ==
    /\ p > 0 /\ living[p] # {} => \E t \in LockThreads : living[p] = {t}
    /\ p > forks => living[p] = {} /\ \A t \in LockThreads : handlers[p][t] = <<>>

\* The invariant, for what the calls have and what the handlers have.
LockInvOf(st, ht) ==
    /\ LockTypeOK /\ LockShape /\ TableOf(st) /\ TableOf(ht)
    /\ \A p \in LockProcesses : \A t \in living[p] : ThreadHas(p, t, st[p][t], ht[p][t])
    /\ \A p \in LockProcesses :
         Excluded(p) /\ NotOrphaned(p) /\ ForkLockNames(p, st[p]) /\ ProcessBorn(p)
    /\ \A t \in living[0] \ called : calls[0][t] = <<>> /\ st[0][t] = Idle

LockInv == \E st, ht : LockInvOf(st, ht)

----------------------------------------------------------------------------
\* What a step changes in a frame.

\* Only the forks and the steps of the fork lock change the count.
LEMMA LeadsKeeps ==
    ASSUME NEW s, NEW a, NEW b, Leads(s, a, b), s[1] # "fork"
    PROVE  /\ Fit(a) /\ Fit(b) /\ b.frame = a.frame
           /\ b.marks \subseteq a.marks /\ b.child \in {a.child, 0}
           /\ s[1] \notin {"lockFork", "unlockFork", "resetFork"} =>
                b.count = a.count /\ ("foreign" \in b.marks <=> "foreign" \in a.marks)
<1>1. Fit(a) /\ Fit(b) /\ a \in LockStates
  BY DEF Leads, Fit
<1> QED  BY <1>1 DEF Leads, FrameHas, LockStates

\* How often a frame has each lock, and how each kind of step changes it.
LEMMA OwnRange ==
    ASSUME NEW a, Fit(a), NEW l \in Locks
    PROVE  Own(a, l) \in 0 .. 2 /\ (a.frame # "call" => Own(a, l) \in 0 .. 1) /\ (l # "app" => Own(a, l) \in 0 .. 1)
BY DEF Own, Fit, LockStates

LEMMA OwnSame ==
    ASSUME NEW s, NEW a, NEW b, Leads(s, a, b),
           s[1] \in {"mask", "waitBell", "lockRegion", "unlockRegion", "forkRegion", "ringBell", "exit"},
           NEW l \in Locks
    PROVE  Own(b, l) = Own(a, l)
<1>1. a \in LockStates
  BY DEF Leads, Fit
<1> QED  BY <1>1 DEF Leads, Own, LockStates

LEMMA OwnLock ==
    ASSUME NEW s, NEW a, NEW b, Leads(s, a, b), s[1] = "lock"
    PROVE  /\ s[2] \in Locks \ {"forkChild"}
           /\ \A l \in Locks : Own(b, l) = IF l = s[2] THEN Own(a, l) + 1 ELSE Own(a, l)
<1>1. a \in LockStates
  BY DEF Leads, Fit
<1>2. s[2] \in Locks \ {"forkChild"}
  BY LockNames DEF Leads
<1>3. ASSUME NEW l \in Locks PROVE Own(b, l) = IF l = s[2] THEN Own(a, l) + 1 ELSE Own(a, l)
  BY <1>1, <1>2, LockNames DEF Leads, Own, LockStates
<1> QED  BY <1>2, <1>3

LEMMA OwnUnlock ==
    ASSUME NEW s, NEW a, NEW b, Leads(s, a, b), s[1] = "unlock"
    PROVE  /\ s[2] \subseteq Locks \ {"forkChild"}
           /\ \A l \in Locks : IF l \in s[2] THEN Own(b, l) = Own(a, l) - 1 ELSE Own(b, l) = Own(a, l)
<1>1. a \in LockStates
  BY DEF Leads, Fit
<1>2. s[2] \subseteq Locks \ {"forkChild"}
  BY <1>1, LockNames DEF Leads, LockStates
<1>3. b = FrameHas(a.frame, a.locks \ s[2], IF "app" \in s[2] THEN a.apps - 1 ELSE a.apps,
                   a.count, a.marks, a.child)
      /\ s[2] \in SUBSET (a.locks \cup {"app"})
  BY DEF Leads
<1>4. ASSUME NEW l \in Locks
      PROVE  IF l \in s[2] THEN Own(b, l) = Own(a, l) - 1 ELSE Own(b, l) = Own(a, l)
  BY <1>1, <1>2, <1>3, LockNames DEF FrameHas, Own, LockStates
<1> QED  BY <1>2, <1>4

LEMMA OwnForkLock ==
    ASSUME NEW s, NEW a, NEW b, Leads(s, a, b), s[1] \in {"lockFork", "unlockFork", "resetFork"}
    PROVE  /\ \A l \in Locks \ {"forkChild"} : Own(b, l) = Own(a, l)
           /\ a.frame = "call" /\ a.count \in 0 .. 2 /\ b.count \in 0 .. 2
           /\ "foreign" \notin b.marks
           /\ s[1] = "lockFork" => "foreign" \notin a.marks /\ b.count = a.count + 1 /\ a.locks = {}
           /\ s[1] # "lockFork" => a.count > 0
           /\ s[1] = "unlockFork" => b.count = a.count - 1
           /\ s[1] = "resetFork" => b.count = 0
<1>1. a \in LockStates /\ b \in LockStates
  BY DEF Leads, Fit
<1>2. a.count \in 0 .. 2 /\ b.count \in 0 .. 2
  BY <1>1 DEF LockStates
<1>3. a.frame = "call"
  BY <1>1 DEF Leads, Fit
<1>4. \A l \in Locks \ {"forkChild"} : Own(b, l) = Own(a, l)
  BY <1>1 DEF Leads, FrameHas, Own, LockStates
<1>5. "foreign" \notin b.marks
  BY <1>1 DEF Leads, FrameHas
<1>6. /\ s[1] = "lockFork" => "foreign" \notin a.marks /\ b.count = a.count + 1 /\ a.locks = {}
      /\ s[1] # "lockFork" => a.count > 0
      /\ s[1] = "unlockFork" => b.count = a.count - 1
      /\ s[1] = "resetFork" => b.count = 0
  BY <1>1 DEF Leads, FrameHas
<1> QED  BY <1>2, <1>3, <1>4, <1>5, <1>6

\* A table with one value changed.
LEMMA TableSet ==
    ASSUME NEW f, TableOf(f), NEW p \in LockProcesses, NEW t \in LockThreads, NEW v,
           NEW g, g = [f EXCEPT ![p][t] = v]
    PROVE  /\ TableOf(g)
           /\ g[p][t] = v
           /\ \A q \in LockProcesses, u \in LockThreads :
                q # p \/ u # t => g[q][u] = f[q][u]
<1> DEFINE F == [q \in LockProcesses |-> [u \in LockThreads |-> f[q][u]]]
<1>1. f = F
  BY DEF TableOf
<1>2. \A q \in LockProcesses : f[q] = [u \in LockThreads |-> f[q][u]]
  BY <1>1
<1>3. g = [q \in LockProcesses |-> IF q = p THEN [f[p] EXCEPT ![t] = v] ELSE f[q]]
  BY <1>1
<1>4. \A q \in LockProcesses : g[q] = IF q = p THEN [f[p] EXCEPT ![t] = v] ELSE f[q]
  BY <1>3
<1>5. [f[p] EXCEPT ![t] = v] = [u \in LockThreads |-> IF u = t THEN v ELSE f[p][u]]
  BY <1>2
<1>6. \A q \in LockProcesses, u \in LockThreads :
         g[q][u] = IF q = p /\ u = t THEN v ELSE f[q][u]
  BY <1>4, <1>5
<1>7. \A q \in LockProcesses : g[q] = [u \in LockThreads |-> g[q][u]]
  <2> SUFFICES ASSUME NEW q \in LockProcesses PROVE g[q] = [u \in LockThreads |-> g[q][u]]
    OBVIOUS
  <2>1. CASE q = p
    BY <2>1, <1>4, <1>5, <1>6
  <2>2. CASE q # p
    BY <2>2, <1>2, <1>4, <1>6
  <2> QED  BY <2>1, <2>2
<1>8. g = [q \in LockProcesses |-> g[q]]
  BY <1>3
<1>9. TableOf(g)
  BY <1>7, <1>8 DEF TableOf
<1> QED  BY <1>6, <1>9

----------------------------------------------------------------------------
\* Steps keep the invariant.

\* The step that t takes next leads its frame from a to b.
Moves(p, t, st, ht, a, b, st2, ht2) ==
    /\ Leads(Head(Frame(p, t)), a, b)
    /\ IF InHandler(p, t)
       THEN /\ a = ht[p][t] /\ st2 = st /\ ht2 = [ht EXCEPT ![p][t] = b]
            /\ Path(Tail(handlers[p][t]), b, Rest(a.frame))
       ELSE /\ a = st[p][t] /\ ht2 = ht /\ st2 = [st EXCEPT ![p][t] = b]
            /\ \E e : Path(Tail(calls[p][t]), b, e)

\* A running thread has a next step.
LEMMA MovesNext ==
    ASSUME NEW st, NEW ht, LockInvOf(st, ht), NEW p \in LockProcesses, NEW t \in LockThreads,
           LockRunning(p, t)
    PROVE  \E a, b, st2, ht2 : Moves(p, t, st, ht, a, b, st2, ht2)
<1>1. ThreadHas(p, t, st[p][t], ht[p][t])
  BY DEF LockInvOf, LockRunning
<1>2. CASE InHandler(p, t)
  <2>1. handlers[p][t] # <<>> /\ Path(handlers[p][t], ht[p][t], Rest(ht[p][t].frame))
    BY <1>1, <1>2 DEF ThreadHas, InHandler
  <2>2. PICK b : Leads(Head(handlers[p][t]), ht[p][t], b) /\ Path(Tail(handlers[p][t]), b, Rest(ht[p][t].frame))
    BY <2>1, PathStep
  <2>3. Moves(p, t, st, ht, ht[p][t], b, st, [ht EXCEPT ![p][t] = b])
    BY <1>2, <2>2 DEF Moves, Frame
  <2> QED  BY <2>3
<1>3. CASE ~InHandler(p, t)
  <2>1. PICK e : calls[p][t] # <<>> /\ Path(calls[p][t], st[p][t], e)
    BY <1>1, <1>3 DEF ThreadHas, InHandler, LockRunning, Frame
  <2>2. PICK b : Leads(Head(calls[p][t]), st[p][t], b) /\ Path(Tail(calls[p][t]), b, e)
    BY <2>1, PathStep
  <2>3. Moves(p, t, st, ht, st[p][t], b, [st EXCEPT ![p][t] = b], ht)
    BY <1>3, <2>2 DEF Moves, Frame
  <2> QED  BY <2>3
<1> QED  BY <1>2, <1>3

\* What keeps others from m keeps its holder from theirs.
LEMMA ExcludesEach ==
    ASSUME NEW l \in Locks, NEW m \in Excludes(l)
    PROVE  m \in Locks /\ l \in Excludes(m)
BY LockNames DEF Excludes

\* A thread that does nothing has what it had.
LEMMA OthersHave ==
    ASSUME NEW p \in LockProcesses, NEW t \in LockThreads, NEW a, NEW h, ThreadHas(p, t, a, h),
           calls'[p][t] = calls[p][t], handlers'[p][t] = handlers[p][t],
           \A l \in Locks : held'[p][l][t] = held[p][l][t],
           forks \in Nat, forks' \in {forks, forks + 1}
    PROVE  ThreadHas(p, t, a, h)'
<1>1. a.child # 0 => a.child > p /\ a.child <= forks'
  <2>1. a.child \in Nat
    BY LockAssumption DEF ThreadHas, Fit, LockStates, LockProcesses
  <2> QED  BY <2>1 DEF ThreadHas
<1> QED  BY <1>1 DEF ThreadHas, InHandler

\* What a step does to the locks: t takes what b has more than a, if nobody keeps it from that.
Changes(p, t, a, b) ==
    /\ forks' = forks /\ called' = called /\ lockSignals' = lockSignals
    /\ living' \in [LockProcesses -> SUBSET LockThreads]
    /\ \A q \in LockProcesses : living'[q] \in {living[q], {}}
    /\ held' \in [LockProcesses -> [Locks -> [LockThreads -> Int]]]
    /\ \A q \in LockProcesses, l \in Locks, u \in LockThreads :
         q # p \/ u # t => held'[q][l][u] = held[q][l][u]
    /\ \A l \in Locks : held'[p][l][t] = held[p][l][t] + (Own(b, l) - Own(a, l))
    /\ \A u \in living[p] \ {t}, l \in Locks :
         Own(b, l) > Own(a, l) => \A m \in Excludes(l) : ~Has(p, u, m)
    /\ LockShape'
    /\ \A q \in LockProcesses \ {p} : forkLock'[q] = forkLock[q]
    /\ region' \in LockProcesses \cup {NoProcess} /\ regionKept' \in [LockProcesses -> BOOLEAN]
    /\ rung' \subseteq LockProcesses

\* How often a frame has a lock is a number.
LEMMA OwnInt ==
    ASSUME NEW a, Fit(a), NEW l \in Locks
    PROVE  Own(a, l) \in Int
<1>1. Own(a, l) \in 0 .. 2
  BY OwnRange
<1> QED  BY <1>1

\* Any step but a fork keeps the invariant if it changes the locks as it should.
LEMMA StepKeeps ==
    ASSUME NEW st, NEW ht, LockInvOf(st, ht), NEW p \in LockProcesses, NEW t \in LockThreads,
           LockRunning(p, t), Do(p, t) # "fork", Advance(p, t),
           NEW a, NEW b, NEW st2, NEW ht2, Moves(p, t, st, ht, a, b, st2, ht2),
           Changes(p, t, a, b), ForkLockNames(p, st2[p])'
    PROVE  LockInvOf(st2, ht2)'
<1>1. /\ LockTypeOK /\ LockShape /\ TableOf(st) /\ TableOf(ht) /\ t \in living[p]
      /\ \A q \in LockProcesses : \A u \in living[q] : ThreadHas(q, u, st[q][u], ht[q][u])
      /\ \A q \in LockProcesses : Excluded(q) /\ NotOrphaned(q) /\ ForkLockNames(q, st[q]) /\ ProcessBorn(q)
  BY DEF LockInvOf, LockRunning
<1>01. /\ forks' = forks /\ called' = called /\ lockSignals' = lockSignals
       /\ living' \in [LockProcesses -> SUBSET LockThreads]
       /\ \A q \in LockProcesses : living'[q] \in {living[q], {}}
       /\ LockShape' /\ \A q \in LockProcesses \ {p} : forkLock'[q] = forkLock[q]
  BY DEF Changes
<1>02. /\ held' \in [LockProcesses -> [Locks -> [LockThreads -> Int]]]
       /\ \A q \in LockProcesses, l \in Locks, u \in LockThreads :
            q # p \/ u # t => held'[q][l][u] = held[q][l][u]
       /\ \A l \in Locks : held'[p][l][t] = held[p][l][t] + (Own(b, l) - Own(a, l))
       /\ \A u \in living[p] \ {t}, l \in Locks :
            Own(b, l) > Own(a, l) => \A m \in Excludes(l) : ~Has(p, u, m)
  BY DEF Changes
<1>2. forks \in Nat /\ \A q \in LockProcesses : living[q] \subseteq LockThreads /\ living'[q] \subseteq living[q]
  <2>1. forks \in 0 .. MaxLockForks /\ living \in [LockProcesses -> SUBSET LockThreads]
    BY <1>1 DEF LockTypeOK
  <2>2. MaxLockForks \in Nat
    BY LockAssumption
  <2> QED  BY <2>1, <2>2, <1>01
<1>3. ThreadHas(p, t, st[p][t], ht[p][t])
  BY <1>1
<1>4. /\ Fit(a) /\ Fit(b) /\ b.frame = a.frame
      /\ b.marks \subseteq a.marks /\ b.child \in {a.child, 0}
  BY LeadsKeeps DEF Moves, Do
<1>5. TableOf(st2) /\ TableOf(ht2)
  <2>1. CASE InHandler(p, t)
    <3>1. ht2 = [ht EXCEPT ![p][t] = b] /\ st2 = st
      BY <2>1 DEF Moves
    <3> QED  BY <1>1, <3>1, TableSet
  <2>2. CASE ~InHandler(p, t)
    <3>1. st2 = [st EXCEPT ![p][t] = b] /\ ht2 = ht
      BY <2>2 DEF Moves
    <3> QED  BY <1>1, <3>1, TableSet
  <2> QED  BY <2>1, <2>2
<1>6. \A q \in LockProcesses, u \in LockThreads :
        q # p \/ u # t => /\ st2[q][u] = st[q][u] /\ ht2[q][u] = ht[q][u]
                         /\ calls'[q][u] = calls[q][u] /\ handlers'[q][u] = handlers[q][u]
  <2>1. TableOf(calls) /\ TableOf(handlers)
    BY <1>1 DEF LockShape
  <2>2. CASE InHandler(p, t)
    <3>1. ht2 = [ht EXCEPT ![p][t] = b] /\ st2 = st
      BY <2>2 DEF Moves
    <3>2. handlers' = [handlers EXCEPT ![p][t] = Tail(handlers[p][t])] /\ calls' = calls
      BY <2>2 DEF Advance
    <3>3. \A q \in LockProcesses, u \in LockThreads : q # p \/ u # t => ht2[q][u] = ht[q][u]
      BY <1>1, <3>1, TableSet
    <3>4. \A q \in LockProcesses, u \in LockThreads : q # p \/ u # t => handlers'[q][u] = handlers[q][u]
      BY <2>1, <3>2, TableSet
    <3> QED  BY <3>1, <3>2, <3>3, <3>4
  <2>3. CASE ~InHandler(p, t)
    <3>1. st2 = [st EXCEPT ![p][t] = b] /\ ht2 = ht
      BY <2>3 DEF Moves
    <3>2. calls' = [calls EXCEPT ![p][t] = Tail(calls[p][t])] /\ handlers' = handlers
      BY <2>3 DEF Advance
    <3>3. \A q \in LockProcesses, u \in LockThreads : q # p \/ u # t => st2[q][u] = st[q][u]
      BY <1>1, <3>1, TableSet
    <3>4. \A q \in LockProcesses, u \in LockThreads : q # p \/ u # t => calls'[q][u] = calls[q][u]
      BY <2>1, <3>2, TableSet
    <3> QED  BY <3>1, <3>2, <3>3, <3>4
  <2> QED  BY <2>2, <2>3
<1>7. ThreadHas(p, t, st2[p][t], ht2[p][t])'
  <2>1. TableOf(calls) /\ TableOf(handlers)
    BY <1>1 DEF LockShape
  <2>2. CASE InHandler(p, t)
    <3>1. st2[p][t] = st[p][t] /\ ht2[p][t] = b /\ a = ht[p][t]
      <4>1. ht2 = [ht EXCEPT ![p][t] = b] /\ st2 = st /\ a = ht[p][t]
        BY <2>2 DEF Moves
      <4>2. TableOf(ht)
        BY <1>1
      <4>3. ht2[p][t] = b
        BY <4>1, <4>2 DEF TableOf
      <4> QED  BY <4>1, <4>3
    <3>2. calls'[p][t] = calls[p][t] /\ handlers'[p][t] = Tail(handlers[p][t])
      <4>1. handlers' = [handlers EXCEPT ![p][t] = Tail(handlers[p][t])] /\ calls' = calls
        BY <2>2 DEF Advance
      <4>2. handlers'[p][t] = Tail(handlers[p][t])
        BY <2>1, <4>1 DEF TableOf
      <4> QED  BY <4>1, <4>2
    <3>3. Path(handlers'[p][t], b, Rest(b.frame))
      BY <2>2, <3>2, <1>4 DEF Moves
    <3>4. ASSUME NEW l \in Locks PROVE held'[p][l][t] = Own(st[p][t], l) + Own(b, l)
      <4>1. Own(a, l) \in Int /\ Own(b, l) \in Int /\ Own(st[p][t], l) \in Int
        <5>1. Fit(st[p][t])
          BY <1>3 DEF ThreadHas
        <5> QED  BY <5>1, <1>4, OwnInt
      <4>2. held[p][l][t] = Own(st[p][t], l) + Own(a, l)
        BY <3>1, <1>3 DEF ThreadHas
      <4>3. held'[p][l][t] = held[p][l][t] + (Own(b, l) - Own(a, l))
        BY <1>02
      <4> QED  BY <4>1, <4>2, <4>3
    <3>5. InHandler(p, t) => st[p][t].apps = 0 /\ st[p][t].locks \cap (SigMutexes \cup {a.frame}) = {}
      BY <3>1, <1>3 DEF ThreadHas
    <3>6. (\E e : Path(calls[p][t], st[p][t], e)) /\ a.frame \in WatchedSignals
      BY <3>1, <1>3 DEF ThreadHas
    <3>7. Fit(st[p][t]) /\ st[p][t].frame = "call" /\ (st[p][t].child # 0 => st[p][t].child > p /\ st[p][t].child <= forks)
          /\ (st[p][t].marks # {} => p # 0)
      BY <1>3 DEF ThreadHas
    <3> QED  BY <2>2, <3>1, <3>2, <3>3, <3>4, <3>5, <3>6, <3>7, <1>4, <1>01 DEF ThreadHas
  <2>3. CASE ~InHandler(p, t)
    <3>1. st2[p][t] = b /\ ht2[p][t] = ht[p][t] /\ a = st[p][t]
      <4>1. st2 = [st EXCEPT ![p][t] = b] /\ ht2 = ht /\ a = st[p][t]
        BY <2>3 DEF Moves
      <4>2. TableOf(st)
        BY <1>1
      <4>3. st2[p][t] = b
        BY <4>1, <4>2 DEF TableOf
      <4> QED  BY <4>1, <4>3
    <3>2. calls'[p][t] = Tail(calls[p][t]) /\ handlers'[p][t] = handlers[p][t]
      <4>1. calls' = [calls EXCEPT ![p][t] = Tail(calls[p][t])] /\ handlers' = handlers
        BY <2>3 DEF Advance
      <4>2. calls'[p][t] = Tail(calls[p][t])
        BY <2>1, <4>1 DEF TableOf
      <4> QED  BY <4>1, <4>2
    <3>3. \E e : Path(calls'[p][t], b, e)
      BY <2>3, <3>2 DEF Moves
    <3>4. ASSUME NEW l \in Locks PROVE held'[p][l][t] = Own(b, l) + Own(ht[p][t], l)
      <4>1. Own(a, l) \in Int /\ Own(b, l) \in Int /\ Own(ht[p][t], l) \in Int
        <5>1. Fit(ht[p][t])
          BY <1>3 DEF ThreadHas
        <5> QED  BY <5>1, <1>4, OwnInt
      <4>2. held[p][l][t] = Own(a, l) + Own(ht[p][t], l)
        BY <3>1, <1>3 DEF ThreadHas
      <4>3. held'[p][l][t] = held[p][l][t] + (Own(b, l) - Own(a, l))
        BY <1>02
      <4> QED  BY <4>1, <4>2, <4>3
    <3>5. handlers'[p][t] = <<>>
      BY <2>3, <3>2 DEF InHandler
    <3>6. Fit(ht[p][t]) /\ ht[p][t].frame \in WatchedSignals /\ Path(handlers[p][t], ht[p][t], Rest(ht[p][t].frame))
      BY <1>3 DEF ThreadHas
    <3>7. /\ b.frame = "call" /\ (b.child # 0 => b.child > p /\ b.child <= forks)
          /\ (b.marks # {} => p # 0)
      BY <3>1, <1>3, <1>4 DEF ThreadHas
    <3> QED  BY <3>1, <3>2, <3>3, <3>4, <3>5, <3>6, <3>7, <1>4, <1>01 DEF ThreadHas, InHandler
  <2> QED  BY <2>2, <2>3
<1>8. ASSUME NEW q \in LockProcesses, NEW u \in living'[q] PROVE ThreadHas(q, u, st2[q][u], ht2[q][u])'
  <2>0. u \in living[q] /\ u \in LockThreads
    BY <1>2
  <2>1. CASE q = p /\ u = t
    BY <2>1, <1>7
  <2>2. CASE q # p \/ u # t
    <3>1. ThreadHas(q, u, st[q][u], ht[q][u])
      BY <2>0, <1>1
    <3>2. ThreadHas(q, u, st[q][u], ht[q][u])'
      BY <3>1, <2>0, <2>2, <1>2, <1>6, <1>01, <1>02, OthersHave
    <3>3. st2[q][u] = st[q][u] /\ ht2[q][u] = ht[q][u]
      BY <2>0, <2>2, <1>6
    <3> QED  BY <3>2, <3>3
  <2> QED  BY <2>1, <2>2
<1>9. ASSUME NEW l \in Locks, ~Has(p, t, l), Has(p, t, l)' PROVE Own(b, l) > Own(a, l)
  <2>1. Own(a, l) \in Int /\ Own(b, l) \in Int /\ held[p][l][t] \in Int
    <3>1. Own(a, l) \in Int /\ Own(b, l) \in Int
      BY <1>4, OwnInt
    <3>2. held[p][l][t] \in 0 .. 3
      BY <1>1 DEF LockTypeOK
    <3> QED  BY <3>1, <3>2, <1>4
  <2>2. held'[p][l][t] = held[p][l][t] + (Own(b, l) - Own(a, l))
    BY <1>02
  <2>3. held[p][l][t] <= 0 /\ held'[p][l][t] > 0
    BY <1>9, <2>1 DEF Has
  <2> QED  BY <2>1, <2>2, <2>3
<1>10. ASSUME NEW q \in LockProcesses PROVE Excluded(q)'
  <2> SUFFICES ASSUME NEW u \in living'[q], NEW v \in living'[q], u # v, NEW l \in Locks, NEW m \in Excludes(l),
                      Has(q, u, l)', Has(q, v, m)'
               PROVE  FALSE
    BY DEF Excluded, Excludes, Has
  <2>1. u \in living[q] /\ v \in living[q] /\ u \in LockThreads /\ v \in LockThreads /\ m \in Locks /\ l \in Excludes(m)
    BY <1>2, ExcludesEach
  <2>2. ~(Has(q, u, l) /\ Has(q, v, m))
    BY <2>1, <1>1 DEF Excluded
  <2>3. CASE q # p \/ (u # t /\ v # t)
    <3>1. Has(q, u, l) /\ Has(q, v, m)
      BY <2>1, <2>3, <1>02 DEF Has
    <3> QED  BY <2>2, <3>1
  <2>4. CASE q = p /\ u = t
    <3>1. Has(p, v, m)
      BY <2>1, <2>4, <1>02 DEF Has
    <3>2. ~Has(p, t, l) /\ Has(p, t, l)'
      BY <2>2, <2>4, <3>1
    <3>3. Own(b, l) > Own(a, l)
      BY <3>2, <1>9
    <3> QED  BY <2>1, <2>4, <3>1, <3>3, <1>02
  <2>5. CASE q = p /\ v = t
    <3>1. Has(p, u, l)
      BY <2>1, <2>5, <1>02 DEF Has
    <3>2. ~Has(p, t, m) /\ Has(p, t, m)'
      BY <2>2, <2>5, <3>1
    <3>3. Own(b, m) > Own(a, m)
      BY <2>1, <3>2, <1>9
    <3> QED  BY <2>1, <2>5, <3>1, <3>3, <1>02
  <2> QED  BY <2>3, <2>4, <2>5
<1>11. ASSUME NEW q \in LockProcesses PROVE NotOrphaned(q)'
  <2> SUFFICES ASSUME living'[q] # {}, NEW u \in LockThreads \ living'[q], NEW l \in Locks \ {"watch"}, Has(q, u, l)'
               PROVE  FALSE
    BY DEF NotOrphaned, Has
  <2>1. living'[q] = living[q]
    BY <1>01
  <2>2. q # p \/ u # t
    BY <1>1, <2>1
  <2>3. Has(q, u, l)
    BY <2>2, <1>02 DEF Has
  <2> QED  BY <1>1, <2>1, <2>3 DEF NotOrphaned
<1>12. ASSUME NEW q \in LockProcesses PROVE ForkLockNames(q, st2[q])'
  <2>1. CASE q # p
    <3>0. TableOf(st2) /\ TableOf(st)
      BY <1>1, <1>5
    <3>1. ForkLockNames(q, st[q]) /\ forkLock'[q] = forkLock[q] /\ living'[q] \in {living[q], {}}
      BY <2>1, <1>1, <1>01
    <3>2. \A u \in living[q] : st2[q][u] = st[q][u]
      BY <2>1, <1>2, <1>6
    <3> QED  BY <3>1, <3>2 DEF ForkLockNames
  <2> QED  BY <2>1
<1>13. ASSUME NEW q \in LockProcesses PROVE ProcessBorn(q)'
  <2>1. p <= forks
    BY <1>1, <1>2, LockAssumption DEF ProcessBorn, LockProcesses
  <2>2. q > forks => q # p /\ \A u \in LockThreads : handlers'[q][u] = handlers[q][u]
    BY <2>1, <1>2, <1>6, <1>01, LockAssumption DEF LockProcesses
  <2>3. ProcessBorn(q) /\ living'[q] \in {living[q], {}} /\ forks' = forks
    BY <1>1, <1>01
  <2> QED  BY <2>2, <2>3 DEF ProcessBorn
<1>14. ASSUME NEW u \in living'[0] \ called' PROVE calls'[0][u] = <<>> /\ st2[0][u] = Idle
  <2>1. u \in living[0] \ called /\ u \in LockThreads /\ 0 \in LockProcesses
    BY <1>2, <1>01, LockNames
  <2>2. calls[0][u] = <<>> /\ st[0][u] = Idle
    BY <2>1 DEF LockInvOf
  <2>3. CASE p # 0 \/ u # t
    BY <2>1, <2>2, <2>3, <1>6
  <2>4. CASE p = 0 /\ u = t
    <3>1. InHandler(p, t)
      BY <2>2, <2>4 DEF LockRunning, Frame
    <3>2. calls' = calls /\ st2 = st
      BY <3>1 DEF Advance, Moves
    <3> QED  BY <2>2, <2>4, <3>2
  <2> QED  BY <2>3, <2>4
<1>15. LockTypeOK'
  <2>1. ASSUME NEW q \in LockProcesses, NEW l \in Locks, NEW u \in LockThreads PROVE held'[q][l][u] \in 0 .. 3
    <3>1. CASE q # p \/ u # t
      BY <3>1, <1>1, <1>02 DEF LockTypeOK
    <3>2. CASE q = p /\ u = t
      <4>1. held'[p][l][t] = Own(st2[p][t], l) + Own(ht2[p][t], l)
        BY <1>7 DEF ThreadHas
      <4>2. Fit(st2[p][t]) /\ Fit(ht2[p][t]) /\ ht2[p][t].frame # "call"
        BY <1>7 DEF ThreadHas, WatchedSignals
      <4>3. Own(st2[p][t], l) \in 0 .. 2 /\ Own(ht2[p][t], l) \in 0 .. 1
        BY <4>2, OwnRange
      <4> QED  BY <3>2, <4>1, <4>3
    <3> QED  BY <3>1, <3>2
  <2>2. held' \in [LockProcesses -> [Locks -> [LockThreads -> 0 .. 3]]]
    BY <2>1, <1>02
  <2>3. \A q \in LockProcesses : forkLock'[q].process \in LockProcesses \cup {NoProcess} /\ forkLock'[q].count \in 0 .. 2
    BY <1>01 DEF LockShape
  <2>4. forks \in 0 .. MaxLockForks /\ lockSignals \in 0 .. MaxLockSignals /\ called \subseteq LockThreads
    BY <1>1 DEF LockTypeOK
  <2>5. region' \in LockProcesses \cup {NoProcess} /\ regionKept' \in [LockProcesses -> BOOLEAN] /\ rung' \subseteq LockProcesses
    BY DEF Changes
  <2> QED  BY <2>2, <2>3, <2>4, <2>5, <1>01 DEF LockTypeOK
<1> QED  BY <1>01, <1>5, <1>8, <1>10, <1>11, <1>12, <1>13, <1>14, <1>15 DEF LockInvOf

\* Steps taken off a frame keep its shape.
LEMMA AdvanceShape ==
    ASSUME LockShape, NEW p \in LockProcesses, NEW t \in LockThreads, Advance(p, t),
           forkLock' \in [LockProcesses -> [process : LockProcesses \cup {NoProcess},
                                          thread : {<<>>} \cup (LockProcesses \X LockThreads),
                                          count : 0 .. 2]]
    PROVE  LockShape'
<1>1. TableOf(calls) /\ TableOf(handlers)
  BY DEF LockShape
<1>2. TableOf(calls') /\ TableOf(handlers')
  <2>1. CASE InHandler(p, t)
    <3>1. handlers' = [handlers EXCEPT ![p][t] = Tail(handlers[p][t])] /\ calls' = calls
      BY <2>1 DEF Advance
    <3> QED  BY <1>1, <3>1, TableSet
  <2>2. CASE ~InHandler(p, t)
    <3>1. calls' = [calls EXCEPT ![p][t] = Tail(calls[p][t])] /\ handlers' = handlers
      BY <2>2 DEF Advance
    <3> QED  BY <1>1, <3>1, TableSet
  <2> QED  BY <2>1, <2>2
<1> QED  BY <1>2 DEF LockShape, TableOf

\* A step changes what one frame of one thread has.
LEMMA MovesOther ==
    ASSUME NEW st, NEW ht, LockInvOf(st, ht), NEW p \in LockProcesses, NEW t \in LockThreads,
           NEW a, NEW b, NEW st2, NEW ht2, Moves(p, t, st, ht, a, b, st2, ht2)
    PROVE  /\ \A u \in LockThreads : u # t => st2[p][u] = st[p][u]
           /\ IF InHandler(p, t) THEN a = ht[p][t] /\ st2[p][t] = st[p][t] ELSE a = st[p][t] /\ st2[p][t] = b
<1>1. TableOf(st)
  BY DEF LockInvOf
<1>2. CASE InHandler(p, t)
  BY <1>2 DEF Moves
<1>3. CASE ~InHandler(p, t)
  <2>1. st2 = [st EXCEPT ![p][t] = b] /\ a = st[p][t]
    BY <1>3 DEF Moves
  <2>2. st2[p][t] = b
    BY <1>1, <2>1 DEF TableOf
  <2>3. \A u \in LockThreads : u # t => st2[p][u] = st[p][u]
    BY <1>1, <2>1 DEF TableOf
  <2> QED  BY <1>3, <2>1, <2>2, <2>3
<1> QED  BY <1>2, <1>3

\* Most steps leave the fork lock alone.
LEMMA SameForkLock ==
    ASSUME NEW st, NEW ht, LockInvOf(st, ht), NEW p \in LockProcesses, NEW t \in LockThreads,
           NEW a, NEW b, NEW st2, NEW ht2, Moves(p, t, st, ht, a, b, st2, ht2),
           Do(p, t) \notin {"fork", "lockFork", "unlockFork", "resetFork"},
           forkLock' = forkLock, living'[p] \in {living[p], {}}
    PROVE  ForkLockNames(p, st2[p])'
<1>1. ForkLockNames(p, st[p]) /\ living[p] \subseteq LockThreads
  BY DEF LockInvOf, LockTypeOK
<1>2. b.count = a.count /\ ("foreign" \in b.marks <=> "foreign" \in a.marks)
  BY LeadsKeeps DEF Moves, Do
<1>3. ASSUME NEW u \in living[p]
      PROVE  st2[p][u].count = st[p][u].count /\ ("foreign" \in st2[p][u].marks <=> "foreign" \in st[p][u].marks)
  BY <1>1, <1>2, MovesOther
<1> QED  BY <1>1, <1>3 DEF ForkLockNames

\* The locks held are counted with numbers.
LEMMA HeldInt ==
    ASSUME NEW f \in [LockProcesses -> [Locks -> [LockThreads -> 0 .. 3]]]
    PROVE  f \in [LockProcesses -> [Locks -> [LockThreads -> Int]]]
<1>1. ASSUME NEW q \in LockProcesses PROVE f[q] \in [Locks -> [LockThreads -> Int]]
  <2>1. ASSUME NEW l \in Locks PROVE f[q][l] \in [LockThreads -> Int]
    <3>1. f[q][l] \in [LockThreads -> 0 .. 3]
      OBVIOUS
    <3>2. \A t \in LockThreads : f[q][l][t] \in Int
      BY <3>1
    <3> QED  BY <3>1, <3>2
  <2>2. f[q] \in [Locks -> [LockThreads -> 0 .. 3]]
    OBVIOUS
  <2> QED  BY <2>1, <2>2
<1> QED  BY <1>1

\* TakeLock, with the locks that it waits for or gives back.
LEMMA TakeLockKeeps ==
    ASSUME LockInv, NEW p \in LockProcesses, NEW t \in LockThreads, TakeLock(p, t)
    PROVE  LockInv'
<1>1. PICK st, ht : LockInvOf(st, ht)
  BY DEF LockInv
<1>2. /\ LockRunning(p, t) /\ Blockers(p, t) = {} /\ Do(p, t) \in {"mask", "lock", "unlock", "waitBell"}
      /\ Advance(p, t)
      /\ UNCHANGED <<forkLock, region, regionKept, living, rung, forks, called, lockSignals>>
  BY DEF TakeLock, Free
<1>3. PICK a, b, st2, ht2 : Moves(p, t, st, ht, a, b, st2, ht2)
  BY <1>1, <1>2, MovesNext
<1>4. Leads(Head(Frame(p, t)), a, b) /\ Head(Frame(p, t))[1] = Do(p, t) /\ Head(Frame(p, t))[2] = Lock(p, t)
  BY <1>3 DEF Moves, Do, Lock
<1>5. LockTypeOK /\ LockShape /\ t \in living[p] /\ living[p] \subseteq LockThreads
  BY <1>1, <1>2 DEF LockInvOf, LockRunning, LockTypeOK
<1>6. Fit(a) /\ Fit(b)
  BY <1>4 DEF Leads
<1>7. held \in [LockProcesses -> [Locks -> [LockThreads -> 0 .. 3]]]
  BY <1>5 DEF LockTypeOK
<1>70. held \in [LockProcesses -> [Locks -> [LockThreads -> Int]]]
  BY <1>7, HeldInt
<1>8. /\ held' \in [LockProcesses -> [Locks -> [LockThreads -> Int]]]
      /\ \A q \in LockProcesses, l \in Locks, u \in LockThreads :
           q # p \/ u # t => held'[q][l][u] = held[q][l][u]
      /\ \A l \in Locks : held'[p][l][t] = held[p][l][t] + (Own(b, l) - Own(a, l))
      /\ \A u \in living[p] \ {t}, l \in Locks :
           Own(b, l) > Own(a, l) => \A m \in Excludes(l) : ~Has(p, u, m)
  <2>0. \A l \in Locks : Own(a, l) \in Int /\ Own(b, l) \in Int
    BY <1>6, OwnInt
  <2>1. CASE Do(p, t) = "lock"
    <3>1. /\ Lock(p, t) \in Locks \ {"forkChild"}
          /\ \A l \in Locks : Own(b, l) = IF l = Lock(p, t) THEN Own(a, l) + 1 ELSE Own(a, l)
      BY <1>4, <2>1, OwnLock
    <3>2. held' = [held EXCEPT ![p][Lock(p, t)][t] = held[p][Lock(p, t)][t] + 1]
      BY <2>1 DEF TakeLock
    <3> DEFINE x == Lock(p, t)
    <3>3. x \in Locks /\ held' = [held EXCEPT ![p][x][t] = held[p][x][t] + 1]
      BY <3>1, <3>2
    <3>4. \A u \in LockThreads \ {t} : \A m \in Excludes(x) : ~Has(p, u, m)
      <4> SUFFICES ASSUME NEW u \in LockThreads \ {t}, NEW m \in Excludes(x), Has(p, u, m) PROVE FALSE
        OBVIOUS
      <4>1. u \in Holders(p, m)
        BY DEF Holders
      <4>2. <<p, u>> # <<p, t>>
        OBVIOUS
      <4>3. <<p, u>> \in Blockers(p, t)
        BY <4>1, <4>2, <2>1 DEF Blockers
      <4> QED  BY <4>3, <1>2
    <3> HIDE DEF x
    <3>5. held' \in [LockProcesses -> [Locks -> [LockThreads -> Int]]]
      <4> DEFINE v == held[p][x][t] + 1
      <4>1. v \in Int /\ held' = [held EXCEPT ![p][x][t] = v]
        BY <3>3, <1>70
      <4> HIDE DEF v
      <4> QED  BY <3>3, <4>1, <1>70
    <3>6. \A q \in LockProcesses, l \in Locks, u \in LockThreads :
             held'[q][l][u] = IF q = p /\ u = t /\ l = x THEN held[p][x][t] + 1 ELSE held[q][l][u]
      BY <3>3, <1>7
    <3>7. \A l \in Locks : held'[p][l][t] = held[p][l][t] + (Own(b, l) - Own(a, l))
      <4> SUFFICES ASSUME NEW l \in Locks PROVE held'[p][l][t] = held[p][l][t] + (Own(b, l) - Own(a, l))
        OBVIOUS
      <4>1. held[p][l][t] \in 0 .. 3 /\ Own(a, l) \in Int
        BY <1>7, <2>0
      <4> QED  BY <4>1, <3>6, <3>1 DEF x
    <3>8. \A l \in Locks : Own(b, l) > Own(a, l) => l = x
      BY <3>1, <2>0 DEF x
    <3> QED  BY <3>4, <3>5, <3>6, <3>7, <3>8, <1>5
  <2>2. CASE Do(p, t) = "unlock"
    <3> DEFINE x == Lock(p, t)
    <3>1. /\ x \subseteq Locks \ {"forkChild"}
          /\ \A l \in Locks : IF l \in x THEN Own(b, l) = Own(a, l) - 1 ELSE Own(b, l) = Own(a, l)
      BY <1>4, <2>2, OwnUnlock
    <3>2. held' = [held EXCEPT ![p] = [l \in Locks |->
                        IF l \in x THEN [held[p][l] EXCEPT ![t] = held[p][l][t] - 1] ELSE held[p][l]]]
      <4>1. Do(p, t) # "lock"
        BY <2>2
      <4> QED  BY <4>1, <2>2 DEF TakeLock
    <3> HIDE DEF x
    <3>3. held'[p] = [l \in Locks |->
                        IF l \in x THEN [held[p][l] EXCEPT ![t] = held[p][l][t] - 1] ELSE held[p][l]]
          /\ \A q \in LockProcesses \ {p} : held'[q] = held[q]
      BY <3>2, <1>7
    <3>4. ASSUME NEW l \in Locks
          PROVE  /\ held'[p][l] \in [LockThreads -> Int]
                 /\ \A u \in LockThreads \ {t} : held'[p][l][u] = held[p][l][u]
                 /\ held'[p][l][t] = IF l \in x THEN held[p][l][t] - 1 ELSE held[p][l][t]
      <4>1. held[p][l] \in [LockThreads -> 0 .. 3]
        BY <1>7
      <4>2. held'[p][l] = IF l \in x THEN [held[p][l] EXCEPT ![t] = held[p][l][t] - 1] ELSE held[p][l]
        BY <3>3
      <4> QED  BY <4>1, <4>2
    <3>5. held' \in [LockProcesses -> [Locks -> [LockThreads -> Int]]]
      <4>1. held'[p] \in [Locks -> [LockThreads -> Int]]
        BY <3>3, <3>4
      <4>2. \A q \in LockProcesses \ {p} : held'[q] \in [Locks -> [LockThreads -> Int]]
        BY <3>3, <1>70
      <4>3. held' = [q \in LockProcesses |-> held'[q]]
        BY <3>2, <1>7
      <4> QED  BY <4>1, <4>2, <4>3
    <3>6. \A l \in Locks : held'[p][l][t] = held[p][l][t] + (Own(b, l) - Own(a, l))
      <4> SUFFICES ASSUME NEW l \in Locks PROVE held'[p][l][t] = held[p][l][t] + (Own(b, l) - Own(a, l))
        OBVIOUS
      <4>1. held[p][l][t] \in 0 .. 3 /\ Own(a, l) \in Int
        BY <1>7, <2>0
      <4> QED  BY <4>1, <3>4, <3>1
    <3>7. \A l \in Locks : ~(Own(b, l) > Own(a, l))
      BY <3>1, <2>0
    <3> QED  BY <3>3, <3>4, <3>5, <3>6, <3>7
  <2>3. CASE Do(p, t) \in {"mask", "waitBell"}
    <3>1. held' = held
      BY <2>3 DEF TakeLock
    <3>2. \A l \in Locks : Own(b, l) = Own(a, l)
      BY <1>4, <2>3, OwnSame
    <3>3. \A l \in Locks : held[p][l][t] \in 0 .. 3
      BY <1>7
    <3>4. \A l \in Locks : ~(Own(b, l) > Own(a, l)) /\ held[p][l][t] = held[p][l][t] + (Own(b, l) - Own(a, l))
      BY <2>0, <3>2, <3>3
    <3> QED  BY <1>70, <3>1, <3>4
  <2> QED  BY <1>2, <2>1, <2>2, <2>3
<1>9. LockShape'
  BY <1>2, <1>5, AdvanceShape DEF LockShape
<1>10. Changes(p, t, a, b)
  BY <1>2, <1>5, <1>8, <1>9 DEF Changes, LockTypeOK
<1>11. ForkLockNames(p, st2[p])'
  BY <1>1, <1>2, <1>3, SameForkLock
<1>12. LockInvOf(st2, ht2)'
  BY <1>1, <1>2, <1>3, <1>10, <1>11, StepKeeps
<1> QED  BY <1>12 DEF LockInv

\* Steps that take no lock and leave the fork lock as it is.
LEMMA FreeStepKeeps ==
    ASSUME LockInv, NEW p \in LockProcesses, NEW t \in LockThreads, LockRunning(p, t), Advance(p, t),
           Do(p, t) \in {"lockRegion", "unlockRegion", "forkRegion", "ringBell", "exit"},
           UNCHANGED <<held, forkLock, forks, called, lockSignals>>,
           living' \in [LockProcesses -> SUBSET LockThreads],
           \A q \in LockProcesses : living'[q] \in {living[q], {}},
           region' \in LockProcesses \cup {NoProcess}, regionKept' \in [LockProcesses -> BOOLEAN],
           rung' \subseteq LockProcesses
    PROVE  LockInv'
<1>1. PICK st, ht : LockInvOf(st, ht)
  BY DEF LockInv
<1>2. PICK a, b, st2, ht2 : Moves(p, t, st, ht, a, b, st2, ht2)
  BY <1>1, MovesNext
<1>3. Leads(Head(Frame(p, t)), a, b) /\ Head(Frame(p, t))[1] = Do(p, t)
  BY <1>2 DEF Moves, Do
<1>4. LockTypeOK /\ LockShape
  BY <1>1 DEF LockInvOf
<1>5. held \in [LockProcesses -> [Locks -> [LockThreads -> 0 .. 3]]]
  BY <1>4 DEF LockTypeOK
<1>6. held \in [LockProcesses -> [Locks -> [LockThreads -> Int]]]
  BY <1>5, HeldInt
<1>7. ASSUME NEW l \in Locks
      PROVE  ~(Own(b, l) > Own(a, l)) /\ held[p][l][t] = held[p][l][t] + (Own(b, l) - Own(a, l))
  <2>1. Own(b, l) = Own(a, l)
    BY <1>3, OwnSame
  <2>2. Own(a, l) \in Int
    BY <1>3, OwnInt DEF Leads
  <2>3. held[p][l][t] \in Int
    BY <1>6
  <2> QED  BY <2>1, <2>2, <2>3
<1>8. LockShape'
  BY <1>4, AdvanceShape DEF LockShape
<1>9. Changes(p, t, a, b)
  BY <1>6, <1>7, <1>8 DEF Changes
<1>10. ForkLockNames(p, st2[p])'
  BY <1>1, <1>2, SameForkLock
<1>11. LockInvOf(st2, ht2)'
  BY <1>1, <1>2, <1>9, <1>10, StepKeeps
<1> QED  BY <1>11 DEF LockInv

\* The steps of the region, of the bell, and the exit.
LEMMA LockRegionKeeps ==
    ASSUME LockInv, NEW p \in LockProcesses, NEW t \in LockThreads, LockRegion(p, t)
    PROVE  LockInv'
<1>1. LockTypeOK
  BY DEF LockInv, LockInvOf
<1>2. region' \in LockProcesses \cup {NoProcess} /\ regionKept' \in [LockProcesses -> BOOLEAN]
  BY <1>1 DEF LockRegion, LockTypeOK
<1> QED  BY <1>1, <1>2, FreeStepKeeps DEF LockRegion, Free, LockTypeOK

LEMMA RingBellKeeps ==
    ASSUME LockInv, NEW p \in LockProcesses, NEW t \in LockThreads, RingBell(p, t)
    PROVE  LockInv'
<1>1. LockTypeOK
  BY DEF LockInv, LockInvOf
<1> QED  BY <1>1, FreeStepKeeps DEF RingBell, Free, LockTypeOK

LEMMA ExitProcessKeeps ==
    ASSUME LockInv, NEW p \in LockProcesses, NEW t \in LockThreads, ExitProcess(p, t)
    PROVE  LockInv'
<1>1. LockTypeOK
  BY DEF LockInv, LockInvOf
<1>2. living' \in [LockProcesses -> SUBSET LockThreads] /\ \A q \in LockProcesses : living'[q] \in {living[q], {}}
  BY <1>1 DEF ExitProcess, LockTypeOK
<1>3. region' \in LockProcesses \cup {NoProcess}
  BY <1>1 DEF ExitProcess, LockTypeOK
<1> QED  BY <1>1, <1>2, <1>3, FreeStepKeeps DEF ExitProcess, Free, LockTypeOK

\* Only one thread of a process counts.
LEMMA OneCounts ==
    ASSUME NEW st, NEW ht, LockInvOf(st, ht), NEW p \in LockProcesses, NEW t \in living[p]
    PROVE  /\ st[p][t].count \in 0 .. 2
           /\ st[p][t].count > 0 <=> Has(p, t, "forkChild")
           /\ st[p][t].count > 0 => \A u \in living[p] \ {t} : st[p][u].count = 0
<1>1. ASSUME NEW u \in living[p]
      PROVE  st[p][u].count \in 0 .. 2 /\ (st[p][u].count > 0 <=> Has(p, u, "forkChild"))
  <2>1. ThreadHas(p, u, st[p][u], ht[p][u])
    BY DEF LockInvOf
  <2>2. st[p][u] \in LockStates /\ ht[p][u] \in LockStates /\ ht[p][u].count = 0
    BY <2>1 DEF ThreadHas, Fit, WatchedSignals
  <2>3. st[p][u].count \in 0 .. 2
    BY <2>2 DEF LockStates
  <2>4. held[p]["forkChild"][u] = Own(st[p][u], "forkChild") + Own(ht[p][u], "forkChild")
    BY <2>1, LockNames DEF ThreadHas
  <2>5. Own(ht[p][u], "forkChild") = 0 /\ Own(st[p][u], "forkChild") = IF st[p][u].count > 0 THEN 1 ELSE 0
    BY <2>2 DEF Own
  <2> QED  BY <2>3, <2>4, <2>5 DEF Has
<1>2. ASSUME st[p][t].count > 0, NEW u \in living[p] \ {t} PROVE st[p][u].count = 0
  <2>1. "forkChild" \in Locks /\ "forkChild" \in Excludes("forkChild")
    BY LockNames DEF Excludes
  <2>2. Excluded(p)
    BY DEF LockInvOf
  <2>3. ~Has(p, u, "forkChild")
    BY <1>1, <1>2, <2>1, <2>2 DEF Excluded
  <2> QED  BY <1>1, <2>3
<1> QED  BY <1>1, <1>2

\* The fork lock is taken by one that has it, or when nobody has.
LEMMA AcquireForkLockKeeps ==
    ASSUME LockInv, NEW p \in LockProcesses, NEW t \in LockThreads, AcquireForkLock(p, t)
    PROVE  LockInv'
<1>1. PICK st, ht : LockInvOf(st, ht)
  BY DEF LockInv
<1>2. /\ LockRunning(p, t) /\ Blockers(p, t) = {} /\ Do(p, t) = "lockFork" /\ Advance(p, t)
      /\ UNCHANGED <<region, regionKept, living, rung, forks, called, lockSignals>>
  BY DEF AcquireForkLock, Free
<1>3. PICK a, b, st2, ht2 : Moves(p, t, st, ht, a, b, st2, ht2)
  BY <1>1, <1>2, MovesNext
<1>4. Leads(Head(Frame(p, t)), a, b) /\ Head(Frame(p, t))[1] = Do(p, t)
  BY <1>3 DEF Moves, Do
<1>5. LockTypeOK /\ LockShape /\ t \in living[p] /\ living[p] \subseteq LockThreads
  BY <1>1, <1>2 DEF LockInvOf, LockRunning, LockTypeOK
<1>6. /\ held \in [LockProcesses -> [Locks -> [LockThreads -> Int]]]
      /\ held \in [LockProcesses -> [Locks -> [LockThreads -> 0 .. 3]]]
  BY <1>5, HeldInt DEF LockTypeOK
<1>7. /\ \A l \in Locks \ {"forkChild"} : Own(b, l) = Own(a, l)
      /\ a.frame = "call" /\ a.count \in 0 .. 2 /\ b.count \in 0 .. 2
      /\ "foreign" \notin a.marks /\ "foreign" \notin b.marks /\ b.count = a.count + 1
  BY <1>2, <1>4, OwnForkLock
<1>8. a = st[p][t] /\ st2[p][t] = b /\ \A u \in LockThreads : u # t => st2[p][u] = st[p][u]
  <2>1. ThreadHas(p, t, st[p][t], ht[p][t])
    BY <1>1, <1>5 DEF LockInvOf
  <2>2. ht[p][t].frame # "call"
    BY <2>1 DEF ThreadHas, WatchedSignals
  <2> QED  BY <1>1, <1>3, <1>7, <2>2, MovesOther
<1>9. /\ forkLock[p] \in [process : LockProcesses \cup {NoProcess}, thread : {<<>>} \cup (LockProcesses \X LockThreads), count : 0 .. 2]
      /\ ForkLockNames(p, st[p]) /\ ProcessBorn(p)
  BY <1>1, <1>5 DEF LockInvOf, LockShape
<1>10. ASSUME forkLock[p].thread = <<p, t>>
       PROVE  a.count > 0 /\ forkLock[p].count = a.count /\ forkLock[p].process = p
  <2>1. a.count > 0
    <3> SUFFICES ASSUME a.count = 0 PROVE FALSE
      BY <1>7
    <3>1. forkLock[p].thread # <<>>
      BY <1>10
    <3>2. PICK u \in living[p] : st[p][u].count # 0
      BY <1>5, <1>9, <3>1 DEF ForkLockNames
    <3>3. st[p][u].count > 0 /\ u # t
      BY <1>1, <1>8, <3>2, OneCounts
    <3>4. CASE "foreign" \in st[p][u].marks
      <4>1. p # 0
        BY <1>1, <3>4 DEF LockInvOf, ThreadHas
      <4>2. p > 0
        BY <4>1, LockAssumption DEF LockProcesses
      <4> QED  BY <4>2, <1>5, <1>9, <3>3 DEF ProcessBorn
    <3>5. CASE "foreign" \notin st[p][u].marks
      <4>1. forkLock[p].thread = <<p, u>>
        BY <1>9, <3>3, <3>5 DEF ForkLockNames
      <4> QED  BY <4>1, <1>10, <3>3
    <3> QED  BY <3>4, <3>5
  <2> QED  BY <2>1, <1>5, <1>7, <1>8, <1>9 DEF ForkLockNames
<1>11. ASSUME forkLock[p].thread # <<p, t>>
       PROVE  a.count = 0 /\ forkLock[p].count = 0 /\ \A u \in living[p] : ~Has(p, u, "forkChild")
  <2>1. \A u \in LockThreads : ~Has(p, u, "forkChild")
    BY <1>2, <1>11 DEF Blockers, Holders
  <2>2. \A u \in living[p] : st[p][u].count = 0
    <3> SUFFICES ASSUME NEW u \in living[p] PROVE st[p][u].count = 0
      OBVIOUS
    <3>1. st[p][u].count \in 0 .. 2 /\ ~(st[p][u].count > 0)
      BY <1>1, <1>5, <2>1, OneCounts
    <3> QED  BY <3>1
  <2> QED  BY <2>1, <2>2, <1>5, <1>8, <1>9 DEF ForkLockNames
<1>12. /\ forkLock'[p] = [process |-> p, thread |-> <<p, t>>, count |-> b.count]
       /\ \A q \in LockProcesses \ {p} : forkLock'[q] = forkLock[q]
       /\ forkLock' \in [LockProcesses -> [process : LockProcesses \cup {NoProcess},
                                          thread : {<<>>} \cup (LockProcesses \X LockThreads),
                                          count : 0 .. 2]]
  <2>0. forkLock \in [LockProcesses -> [process : LockProcesses \cup {NoProcess},
                                          thread : {<<>>} \cup (LockProcesses \X LockThreads),
                                          count : 0 .. 2]]
    BY <1>5 DEF LockShape
  <2> DEFINE v == [process |-> p, thread |-> <<p, t>>, count |-> b.count]
  <2>1. CASE forkLock[p].thread = <<p, t>>
    <3>1. forkLock' = [forkLock EXCEPT ![p].count = forkLock[p].count + 1]
      BY <2>1 DEF AcquireForkLock
    <3>2. [forkLock[p] EXCEPT !.count = forkLock[p].count + 1] = v
      BY <1>7, <1>9, <1>10, <2>1
    <3>3. forkLock' = [forkLock EXCEPT ![p] = v]
      BY <2>0, <3>1, <3>2
    <3>4. v \in [process : LockProcesses \cup {NoProcess}, thread : {<<>>} \cup (LockProcesses \X LockThreads), count : 0 .. 2]
      BY <1>7
    <3> HIDE DEF v
    <3>5. forkLock'[p] = v
      BY <2>0, <3>3
    <3>6. \A q \in LockProcesses \ {p} : forkLock'[q] = forkLock[q]
      BY <2>0, <3>3
    <3>7. forkLock' \in [LockProcesses -> [process : LockProcesses \cup {NoProcess},
                                          thread : {<<>>} \cup (LockProcesses \X LockThreads),
                                          count : 0 .. 2]]
      BY <2>0, <3>3, <3>4
    <3> QED  BY <3>5, <3>6, <3>7 DEF v
  <2>2. CASE forkLock[p].thread # <<p, t>>
    <3>1. forkLock' = [forkLock EXCEPT ![p] = [process |-> p, thread |-> <<p, t>>, count |-> forkLock[p].count + 1]]
      BY <2>2 DEF AcquireForkLock
    <3>2. forkLock[p].count + 1 = b.count
      BY <1>7, <1>11, <2>2
    <3>3. forkLock' = [forkLock EXCEPT ![p] = v]
      BY <3>1, <3>2
    <3>4. v \in [process : LockProcesses \cup {NoProcess}, thread : {<<>>} \cup (LockProcesses \X LockThreads), count : 0 .. 2]
      BY <1>7
    <3> HIDE DEF v
    <3>5. forkLock'[p] = v
      BY <2>0, <3>3
    <3>6. \A q \in LockProcesses \ {p} : forkLock'[q] = forkLock[q]
      BY <2>0, <3>3
    <3>7. forkLock' \in [LockProcesses -> [process : LockProcesses \cup {NoProcess},
                                          thread : {<<>>} \cup (LockProcesses \X LockThreads),
                                          count : 0 .. 2]]
      BY <2>0, <3>3, <3>4
    <3> QED  BY <3>5, <3>6, <3>7 DEF v
  <2> QED  BY <2>1, <2>2
<1>13. /\ held' \in [LockProcesses -> [Locks -> [LockThreads -> Int]]]
       /\ \A q \in LockProcesses, l \in Locks, u \in LockThreads :
            q # p \/ u # t => held'[q][l][u] = held[q][l][u]
       /\ \A l \in Locks : held'[p][l][t] = held[p][l][t] + (Own(b, l) - Own(a, l))
       /\ \A u \in living[p] \ {t}, l \in Locks :
            Own(b, l) > Own(a, l) => \A m \in Excludes(l) : ~Has(p, u, m)
  <2>0. /\ \A l \in Locks : Own(a, l) \in Int /\ Own(b, l) \in Int /\ held[p][l][t] \in Int
        /\ "forkChild" \in Locks /\ Excludes("forkChild") = {"forkChild"}
    <3>1. \A l \in Locks : Own(a, l) \in Int /\ Own(b, l) \in Int
      BY <1>4, OwnInt DEF Leads
    <3>2. \A l \in Locks : held[p][l][t] \in Int
      BY <1>6
    <3> QED  BY <3>1, <3>2, LockNames DEF Excludes
  <2>1. CASE forkLock[p].thread = <<p, t>>
    <3>1. held' = held
      BY <2>1 DEF AcquireForkLock
    <3>2. Own(b, "forkChild") = Own(a, "forkChild")
      BY <1>7, <1>10, <2>1 DEF Own
    <3>3. \A l \in Locks : Own(b, l) = Own(a, l)
      BY <1>7, <3>2
    <3>4. \A l \in Locks : ~(Own(b, l) > Own(a, l)) /\ held[p][l][t] = held[p][l][t] + (Own(b, l) - Own(a, l))
      BY <2>0, <3>3
    <3> QED  BY <1>6, <3>1, <3>4
  <2>2. CASE forkLock[p].thread # <<p, t>>
    <3> DEFINE v == held[p]["forkChild"][t] + 1
    <3>1. held' = [held EXCEPT ![p]["forkChild"][t] = v]
      BY <2>2 DEF AcquireForkLock
    <3>2. Own(b, "forkChild") = 1 /\ Own(a, "forkChild") = 0
      BY <1>7, <1>11, <2>2 DEF Own
    <3>3. v \in Int
      BY <2>0
    <3>4. v = held[p]["forkChild"][t] + (Own(b, "forkChild") - Own(a, "forkChild"))
      BY <2>0, <3>2
    <3> HIDE DEF v
    <3>5. held' \in [LockProcesses -> [Locks -> [LockThreads -> Int]]]
      BY <1>6, <2>0, <3>1, <3>3
    <3>6. \A q \in LockProcesses, l \in Locks, u \in LockThreads :
             held'[q][l][u] = IF q = p /\ u = t /\ l = "forkChild" THEN v ELSE held[q][l][u]
      BY <1>6, <2>0, <3>1
    <3>7. \A l \in Locks : held'[p][l][t] = held[p][l][t] + (Own(b, l) - Own(a, l))
      BY <2>0, <3>4, <3>6, <1>7
    <3>8. \A l \in Locks : Own(b, l) > Own(a, l) => l = "forkChild"
      BY <2>0, <1>7
    <3>9. \A u \in living[p] : ~Has(p, u, "forkChild")
      BY <1>11, <2>2
    <3> QED  BY <2>0, <3>5, <3>6, <3>7, <3>8, <3>9, <1>5
  <2> QED  BY <2>1, <2>2
<1>14. LockShape'
  BY <1>2, <1>5, <1>12, AdvanceShape
<1>15. Changes(p, t, a, b)
  BY <1>2, <1>5, <1>12, <1>13, <1>14 DEF Changes, LockTypeOK
<1>16. ForkLockNames(p, st2[p])'
  <2>1. \A u \in living[p] \ {t} : st2[p][u].count = 0
    <3> SUFFICES ASSUME NEW u \in living[p] \ {t} PROVE st[p][u].count = 0
      BY <1>5, <1>8
    <3>1. CASE forkLock[p].thread = <<p, t>>
      BY <1>1, <1>5, <1>8, <1>10, <3>1, OneCounts
    <3>2. CASE forkLock[p].thread # <<p, t>>
      <4>1. st[p][u].count \in 0 .. 2 /\ ~(st[p][u].count > 0)
        BY <1>1, <1>11, <3>2, OneCounts
      <4> QED  BY <4>1
    <3> QED  BY <3>1, <3>2
  <2>2. b.count > 0 /\ living' = living
    BY <1>2, <1>7
  <2>3. forkLock'[p].count = b.count /\ forkLock'[p].process = p /\ forkLock'[p].thread = <<p, t>>
    BY <1>12
  <2> QED  BY <2>1, <2>2, <2>3, <1>5, <1>7, <1>8 DEF ForkLockNames
<1>17. LockInvOf(st2, ht2)'
  BY <1>1, <1>2, <1>3, <1>15, <1>16, StepKeeps
<1> QED  BY <1>17 DEF LockInv

\* It is given back by one that has it, for itself or for the parent it was forked from.
LEMMA RelinquishForkLockKeeps ==
    ASSUME LockInv, NEW p \in LockProcesses, NEW t \in LockThreads, RelinquishForkLock(p, t)
    PROVE  LockInv'
<1>1. PICK st, ht : LockInvOf(st, ht)
  BY DEF LockInv
<1>2. /\ LockRunning(p, t) /\ Do(p, t) \in {"unlockFork", "resetFork"} /\ Advance(p, t)
      /\ UNCHANGED <<region, regionKept, living, rung, forks, called, lockSignals>>
  BY DEF RelinquishForkLock, Free
<1>3. PICK a, b, st2, ht2 : Moves(p, t, st, ht, a, b, st2, ht2)
  BY <1>1, <1>2, MovesNext
<1>4. Leads(Head(Frame(p, t)), a, b) /\ Head(Frame(p, t))[1] = Do(p, t)
  BY <1>3 DEF Moves, Do
<1>5. LockTypeOK /\ LockShape /\ t \in living[p] /\ living[p] \subseteq LockThreads
  BY <1>1, <1>2 DEF LockInvOf, LockRunning, LockTypeOK
<1>6. /\ held \in [LockProcesses -> [Locks -> [LockThreads -> Int]]]
      /\ held \in [LockProcesses -> [Locks -> [LockThreads -> 0 .. 3]]]
  BY <1>5, HeldInt DEF LockTypeOK
<1>7. /\ \A l \in Locks \ {"forkChild"} : Own(b, l) = Own(a, l)
      /\ a.frame = "call" /\ a.count \in 0 .. 2 /\ b.count \in 0 .. 2
      /\ a.count > 0 /\ "foreign" \notin b.marks
      /\ b.count = IF Do(p, t) = "unlockFork" THEN a.count - 1 ELSE 0
  BY <1>2, <1>4, OwnForkLock
<1>8. a = st[p][t] /\ st2[p][t] = b /\ \A u \in LockThreads : u # t => st2[p][u] = st[p][u]
  <2>1. ThreadHas(p, t, st[p][t], ht[p][t])
    BY <1>1, <1>5 DEF LockInvOf
  <2>2. ht[p][t].frame # "call"
    BY <2>1 DEF ThreadHas, WatchedSignals
  <2> QED  BY <1>1, <1>3, <1>7, <2>2, MovesOther
<1>9. ForkLockNames(p, st[p])
  BY <1>1 DEF LockInvOf
<1>10. forkLock[p].count = a.count
  BY <1>5, <1>7, <1>8, <1>9 DEF ForkLockNames
<1> DEFINE v == [process |-> p, thread |-> IF b.count = 0 THEN <<>> ELSE <<p, t>>, count |-> b.count]
<1>11. /\ forkLock' = [forkLock EXCEPT ![p] = v]
       /\ held' = IF b.count = 0 THEN [held EXCEPT ![p]["forkChild"][t] = held[p]["forkChild"][t] - 1] ELSE held
  BY <1>7, <1>10 DEF RelinquishForkLock
<1>12. /\ v \in [process : LockProcesses \cup {NoProcess}, thread : {<<>>} \cup (LockProcesses \X LockThreads), count : 0 .. 2]
       /\ v.process = p /\ v.count = b.count /\ v.thread = IF b.count = 0 THEN <<>> ELSE <<p, t>>
  BY <1>7
<1> HIDE DEF v
<1>13. /\ forkLock'[p] = v
       /\ \A q \in LockProcesses \ {p} : forkLock'[q] = forkLock[q]
       /\ forkLock' \in [LockProcesses -> [process : LockProcesses \cup {NoProcess},
                                          thread : {<<>>} \cup (LockProcesses \X LockThreads),
                                          count : 0 .. 2]]
  BY <1>5, <1>11, <1>12 DEF LockShape
<1>14. /\ held' \in [LockProcesses -> [Locks -> [LockThreads -> Int]]]
       /\ \A q \in LockProcesses, l \in Locks, u \in LockThreads :
            q # p \/ u # t => held'[q][l][u] = held[q][l][u]
       /\ \A l \in Locks : held'[p][l][t] = held[p][l][t] + (Own(b, l) - Own(a, l))
       /\ \A u \in living[p] \ {t}, l \in Locks :
            Own(b, l) > Own(a, l) => \A m \in Excludes(l) : ~Has(p, u, m)
  <2>0. /\ \A l \in Locks : Own(a, l) \in Int /\ Own(b, l) \in Int /\ held[p][l][t] \in Int
        /\ "forkChild" \in Locks
    <3>1. \A l \in Locks : Own(a, l) \in Int /\ Own(b, l) \in Int
      BY <1>4, OwnInt DEF Leads
    <3>2. \A l \in Locks : held[p][l][t] \in Int
      BY <1>6
    <3> QED  BY <3>1, <3>2, LockNames
  <2>1. Own(a, "forkChild") = 1 /\ Own(b, "forkChild") = IF b.count = 0 THEN 0 ELSE 1
    BY <1>7 DEF Own
  <2>2. \A l \in Locks : ~(Own(b, l) > Own(a, l))
    BY <1>7, <2>0, <2>1
  <2>3. CASE b.count # 0
    <3>1. \A l \in Locks : held[p][l][t] = held[p][l][t] + (Own(b, l) - Own(a, l))
      BY <1>7, <2>0, <2>1, <2>3
    <3> QED  BY <1>6, <1>11, <2>2, <2>3, <3>1
  <2>4. CASE b.count = 0
    <3> DEFINE w == held[p]["forkChild"][t] - 1
    <3>1. held' = [held EXCEPT ![p]["forkChild"][t] = w]
      BY <1>11, <2>4
    <3>2. w \in Int /\ w = held[p]["forkChild"][t] + (Own(b, "forkChild") - Own(a, "forkChild"))
      BY <2>0, <2>1, <2>4
    <3> HIDE DEF w
    <3>3. held' \in [LockProcesses -> [Locks -> [LockThreads -> Int]]]
      BY <1>6, <2>0, <3>1, <3>2
    <3>4. \A q \in LockProcesses, l \in Locks, u \in LockThreads :
             held'[q][l][u] = IF q = p /\ u = t /\ l = "forkChild" THEN w ELSE held[q][l][u]
      BY <1>6, <2>0, <3>1
    <3>5. \A l \in Locks : held'[p][l][t] = held[p][l][t] + (Own(b, l) - Own(a, l))
      BY <2>0, <3>2, <3>4, <1>7
    <3> QED  BY <2>2, <3>3, <3>4, <3>5
  <2> QED  BY <2>3, <2>4
<1>15. LockShape'
  BY <1>2, <1>5, <1>13, AdvanceShape
<1>16. Changes(p, t, a, b)
  BY <1>2, <1>5, <1>13, <1>14, <1>15 DEF Changes, LockTypeOK
<1>17. ForkLockNames(p, st2[p])'
  <2>1. \A u \in living[p] \ {t} : st2[p][u].count = 0
    BY <1>1, <1>5, <1>7, <1>8, OneCounts
  <2>2. living' = living
    BY <1>2
  <2> QED  BY <2>1, <2>2, <1>5, <1>7, <1>8, <1>12, <1>13 DEF ForkLockNames
<1>18. LockInvOf(st2, ht2)'
  BY <1>1, <1>2, <1>3, <1>16, <1>17, StepKeeps
<1> QED  BY <1>18 DEF LockInv

\* The beginning of a call or of a handler: nothing is taken.
LEMMA BeginKeeps ==
    ASSUME NEW st, NEW ht, LockInvOf(st, ht), NEW p \in LockProcesses, NEW t \in LockThreads, NEW ht2,
           TableOf(ht2), \A q \in LockProcesses, u \in LockThreads : q # p \/ u # t => ht2[q][u] = ht[q][u],
           LockShape', \A q \in LockProcesses, u \in LockThreads :
                q # p \/ u # t => calls'[q][u] = calls[q][u] /\ handlers'[q][u] = handlers[q][u],
           UNCHANGED <<held, forkLock, region, regionKept, living, rung, forks>>,
           t \in living[p] => ThreadHas(p, t, st[p][t], ht2[p][t])',
           p > forks => handlers'[p][t] = <<>>,
           called \subseteq called', called' \subseteq LockThreads, p = 0 /\ t \in living[0] \ called' => calls'[0][t] = <<>>,
           lockSignals' \in 0 .. MaxLockSignals
    PROVE  LockInvOf(st, ht2)'
<1>1. /\ LockTypeOK /\ TableOf(st)
      /\ \A q \in LockProcesses : \A u \in living[q] : ThreadHas(q, u, st[q][u], ht[q][u])
      /\ \A q \in LockProcesses : Excluded(q) /\ NotOrphaned(q) /\ ForkLockNames(q, st[q]) /\ ProcessBorn(q)
      /\ \A q \in LockProcesses : living[q] \subseteq LockThreads
  BY DEF LockInvOf, LockTypeOK
<1>2. forks \in Nat
  BY <1>1, LockAssumption DEF LockTypeOK
<1>3. LockTypeOK'
  BY <1>1 DEF LockTypeOK
<1>4. ASSUME NEW q \in LockProcesses, NEW u \in living'[q] PROVE ThreadHas(q, u, st[q][u], ht2[q][u])'
  <2>1. CASE q = p /\ u = t
    BY <2>1
  <2>2. CASE q # p \/ u # t
    <3>1. ThreadHas(q, u, st[q][u], ht[q][u]) /\ u \in LockThreads
      BY <1>1
    <3>2. ThreadHas(q, u, st[q][u], ht[q][u])'
      BY <3>1, <2>2, <1>2, OthersHave
    <3>3. ht2[q][u] = ht[q][u]
      BY <3>1, <2>2
    <3> QED  BY <3>2, <3>3
  <2> QED  BY <2>1, <2>2
<1>5. ASSUME NEW q \in LockProcesses PROVE (Excluded(q) /\ NotOrphaned(q) /\ ForkLockNames(q, st[q]))'
  BY <1>1 DEF Excluded, NotOrphaned, ForkLockNames, Has
<1>6. ASSUME NEW q \in LockProcesses PROVE ProcessBorn(q)'
  BY <1>1 DEF ProcessBorn
<1>7. ASSUME NEW u \in living'[0] \ called' PROVE calls'[0][u] = <<>> /\ st[0][u] = Idle
  <2>1. u \in living[0] \ called /\ u \in LockThreads /\ 0 \in LockProcesses
    BY <1>1, LockNames
  <2>2. calls[0][u] = <<>> /\ st[0][u] = Idle
    BY <2>1 DEF LockInvOf
  <2> QED  BY <2>1, <2>2
<1> QED  BY <1>1, <1>3, <1>4, <1>5, <1>6, <1>7 DEF LockInvOf

\* A call begins with nothing taken.
LEMMA CallLockKeeps ==
    ASSUME LockInv, NEW t \in LockThreads, CallLock(t)
    PROVE  LockInv'
<1>1. PICK st, ht : LockInvOf(st, ht)
  BY DEF LockInv
<1>2. PICK c \in LockCalls : calls' = [calls EXCEPT ![0][t] = c]
  BY DEF CallLock
<1>3. /\ t \notin called /\ called' = called \cup {t} /\ 0 \in LockProcesses
      /\ UNCHANGED <<handlers, held, forkLock, region, regionKept, living, rung, forks, lockSignals>>
  BY LockNames DEF CallLock
<1>4. LockTypeOK /\ LockShape /\ TableOf(ht) /\ TableOf(calls)
  BY <1>1 DEF LockInvOf, LockShape
<1>5. TableOf(calls') /\ \A q \in LockProcesses, u \in LockThreads : q # 0 \/ u # t => calls'[q][u] = calls[q][u]
  <2>1. TableOf(calls) /\ 0 \in LockProcesses /\ calls' = [calls EXCEPT ![0][t] = c]
    BY <1>2, <1>3, <1>4
  <2>2. TableOf(calls')
    BY <2>1, TableSet
  <2>3. \A q \in LockProcesses, u \in LockThreads : q # 0 \/ u # t => calls'[q][u] = calls[q][u]
    BY <2>1, TableSet
  <2> QED  BY <2>2, <2>3
<1>6. calls'[0][t] = c
  BY <1>2, <1>3, <1>4 DEF TableOf
<1>7. LockShape'
  BY <1>3, <1>4, <1>5 DEF LockShape, TableOf
<1>8. ASSUME t \in living[0] PROVE ThreadHas(0, t, st[0][t], ht[0][t])'
  <2>1. ThreadHas(0, t, st[0][t], ht[0][t]) /\ st[0][t] = Idle
    BY <1>1, <1>3, <1>8 DEF LockInvOf
  <2>2. \E e : Path(calls'[0][t], st[0][t], e)
    BY <2>1, <1>6, CallPath
  <2> QED  BY <2>1, <2>2, <1>3 DEF ThreadHas, InHandler
<1>9. ProcessBorn(0) /\ called \subseteq LockThreads /\ lockSignals \in 0 .. MaxLockSignals /\ ~(0 > forks)
  BY <1>1, <1>3, <1>4, LockAssumption DEF LockInvOf, LockTypeOK
<1>10. LockInvOf(st, ht)'
  BY <1>1, <1>3, <1>4, <1>5, <1>6, <1>7, <1>8, <1>9, BeginKeeps
<1> QED  BY <1>10 DEF LockInv

\* A handler begins over a call that has none of what it blocks signals for.
LEMMA DeliverLockKeeps ==
    ASSUME LockInv, NEW p \in LockProcesses, NEW t \in LockThreads, NEW sig \in WatchedSignals,
           DeliverLock(p, t, sig)
    PROVE  LockInv'
<1>1. PICK st, ht : LockInvOf(st, ht)
  BY DEF LockInv
<1>2. /\ lockSignals < MaxLockSignals /\ lockSignals' = lockSignals + 1 /\ t \in living[p] /\ ~Masked(p, t, sig)
      /\ handlers' = [handlers EXCEPT ![p][t] = RunSigHandler(sig)]
      /\ UNCHANGED <<calls, held, forkLock, region, regionKept, living, rung, forks, called>>
  BY DEF DeliverLock
<1>3. LockTypeOK /\ LockShape /\ TableOf(ht) /\ TableOf(handlers)
  BY <1>1 DEF LockInvOf, LockShape
<1>4. TableOf(handlers') /\ \A q \in LockProcesses, u \in LockThreads : q # p \/ u # t => handlers'[q][u] = handlers[q][u]
  <2>1. TableOf(handlers) /\ handlers' = [handlers EXCEPT ![p][t] = RunSigHandler(sig)]
    BY <1>2, <1>3
  <2>2. TableOf(handlers')
    BY <2>1, TableSet
  <2>3. \A q \in LockProcesses, u \in LockThreads : q # p \/ u # t => handlers'[q][u] = handlers[q][u]
    BY <2>1, TableSet
  <2> QED  BY <2>2, <2>3
<1>5. handlers'[p][t] = RunSigHandler(sig)
  BY <1>2, <1>3 DEF TableOf
<1>6. LockShape'
  BY <1>2, <1>3, <1>4 DEF LockShape, TableOf
<1> DEFINE ht2 == [ht EXCEPT ![p][t] = Rest(sig)]
<1>7. ht2[p][t] = Rest(sig)
  BY <1>3 DEF TableOf
<1>8. TableOf(ht2) /\ \A q \in LockProcesses, u \in LockThreads : q # p \/ u # t => ht2[q][u] = ht[q][u]
  BY <1>3, TableSet
<1> HIDE DEF ht2
<1>9. ThreadHas(p, t, st[p][t], ht2[p][t])'
  <2>1. ThreadHas(p, t, st[p][t], ht[p][t])
    BY <1>1, <1>2 DEF LockInvOf
  <2>2. ~InHandler(p, t) /\ handlers[p][t] = <<>> /\ \A l \in SigMutexes \cup {sig} : ~Has(p, t, l)
    BY <1>2 DEF Masked, InHandler
  <2>3. ht[p][t] = Rest(ht[p][t].frame)
    BY <2>1, <2>2, PathNoneOnly DEF ThreadHas
  <2>4. \A f, l : Own(Rest(f), l) = 0
    BY DEF Own, Rest, FrameHas
  <2>5. \A l \in Locks : held[p][l][t] = Own(st[p][t], l) + 0
    BY <2>1, <2>3, <2>4 DEF ThreadHas
  <2>6. SigMutexes \cup {sig} \subseteq Locks /\ sig # "forkChild" /\ sig # "app" /\ "forkChild" \notin SigMutexes
    BY LockNames DEF SigMutexes, WatchedSignals
  <2>7. \A l \in Locks : Own(st[p][t], l) \in 0 .. 2
    BY <2>1, OwnRange DEF ThreadHas
  <2>8. \A l \in SigMutexes \cup {sig} : Own(st[p][t], l) = 0
    BY <2>2, <2>5, <2>6, <2>7 DEF Has
  <2>9. st[p][t].apps = 0 /\ st[p][t].locks \cap (SigMutexes \cup {sig}) = {}
    <3>1. st[p][t].apps = 0
      BY <2>8 DEF Own, SigMutexes
    <3>2. "app" \notin st[p][t].locks
      BY <2>1 DEF ThreadHas, Fit, LockStates, SingleLocks
    <3>3. \A l \in (SigMutexes \cup {sig}) \ {"app"} : l \notin st[p][t].locks
      BY <2>6, <2>8 DEF Own
    <3> QED  BY <3>1, <3>2, <3>3
  <2>10. Path(RunSigHandler(sig), Rest(sig), Rest(sig)) /\ Rest(sig).frame = sig
    BY RunSigHandlerPath DEF Rest, FrameHas
  <2>11. Fit(Rest(sig))
    <3>1. 0 \in 0 .. 1 /\ {} \in SUBSET {"reader", "watch", sig} /\ sig \notin {}
      OBVIOUS
    <3> QED  BY <3>1, ActionFit DEF Rest
  <2>12. \A l \in Locks : held'[p][l][t] = Own(st[p][t], l) + Own(Rest(sig), l)
    BY <1>2, <2>4, <2>5
  <2> QED  BY <1>2, <1>5, <1>7, <2>1, <2>9, <2>10, <2>11, <2>12 DEF ThreadHas
<1>10. p > forks => handlers'[p][t] = <<>>
  BY <1>1, <1>2 DEF LockInvOf, ProcessBorn
<1>11. called \subseteq LockThreads /\ lockSignals' \in 0 .. MaxLockSignals
  BY <1>2, <1>3, LockAssumption DEF LockTypeOK
<1>12. p = 0 /\ t \in living[0] \ called => calls'[0][t] = <<>>
  BY <1>1, <1>2 DEF LockInvOf
<1>13. LockInvOf(st, ht2)'
  BY <1>1, <1>2, <1>4, <1>6, <1>8, <1>9, <1>10, <1>11, <1>12, BeginKeeps
<1> QED  BY <1>13 DEF LockInv

\* A thread that makes a process has prepared.
LEMMA ForkMoves ==
    ASSUME NEW s, NEW a, NEW b, Leads(s, a, b), s[1] = "fork"
    PROVE  /\ s[2] \in {"raw", "child"} /\ a.apps - 1 \in 0 .. 1 /\ a.frame = "call" /\ a.marks = {}
           /\ a = FrameHas("call", Taken, (a.apps - 1) + 1, IF s[2] = "raw" THEN 1 ELSE 2, {}, 0)
           /\ b = CallHas({}, a.apps - 1, 0)
<1>1. Prepared(a, s[2]) /\ b = Completed(a) /\ a \in LockStates
  BY DEF Leads, Fit
<1>2. a.apps \in 1 .. 2
  BY <1>1 DEF Prepared, LockStates
<1>3. /\ a.frame = "call" /\ a.locks = Taken /\ (a.apps - 1) + 1 = a.apps /\ a.marks = {} /\ a.child = 0
      /\ a.count = IF s[2] = "raw" THEN 1 ELSE 2
  BY <1>1, <1>2 DEF Prepared, Taken
<1>4. a = FrameHas("call", Taken, (a.apps - 1) + 1, IF s[2] = "raw" THEN 1 ELSE 2, {}, 0)
  BY <1>1, <1>3 DEF LockStates, FrameHas
<1> QED  BY <1>1, <1>2, <1>3, <1>4 DEF Prepared, Completed, CallHas

\* What a child keeps from another thread of its parent.
LEMMA NobodyElseHas ==
    ASSUME NEW st, NEW ht, LockInvOf(st, ht), NEW p \in LockProcesses, NEW t \in living[p],
           st[p][t].locks = Taken, st[p][t].apps > 0, st[p][t].count > 0,
           NEW u \in LockThreads \ {t}, NEW l \in Locks \ {"watch"}
    PROVE  ~Has(p, u, l)
<1> SUFFICES ASSUME Has(p, u, l) PROVE FALSE
  OBVIOUS
<1>1. Excluded(p) /\ NotOrphaned(p) /\ ThreadHas(p, t, st[p][t], ht[p][t])
  BY DEF LockInvOf
<1>2. u \in living[p]
  BY <1>1 DEF NotOrphaned
<1>3. ThreadHas(p, u, st[p][u], ht[p][u])
  BY <1>2 DEF LockInvOf
<1>4. ASSUME NEW m \in {"app", "forkChild", "fork", "writer", "signal", "files"} PROVE Has(p, t, m)
  <2>1. m \in Locks /\ Own(st[p][t], m) > 0
    BY LockNames DEF Own, Taken
  <2>2. Own(ht[p][t], m) \in 0 .. 2 /\ Own(st[p][t], m) \in 0 .. 2
    BY <1>1, <2>1, OwnRange DEF ThreadHas
  <2>3. held[p][m][t] = Own(st[p][t], m) + Own(ht[p][t], m)
    BY <1>1, <2>1 DEF ThreadHas
  <2> QED  BY <2>1, <2>2, <2>3 DEF Has
<1>5. \A m \in Excludes(l) : ~Has(p, t, m)
  BY <1>1, <1>2 DEF Excluded
<1>6. l \in WatchedSignals
  BY <1>4, <1>5, LockNames DEF Excludes, WatchedSignals
<1>7. l # "app" /\ l # "forkChild"
  BY <1>6 DEF WatchedSignals
<1>8. held[p][l][u] = Own(st[p][u], l) + Own(ht[p][u], l)
  BY <1>3 DEF ThreadHas
<1>9. l \in st[p][u].locks \/ l \in ht[p][u].locks
  BY <1>7, <1>8 DEF Has, Own
<1>10. "reader" \in st[p][u].locks \/ "reader" \in ht[p][u].locks
  BY <1>3, <1>6, <1>9 DEF ThreadHas, Fit
<1>11. /\ held[p]["reader"][u] = Own(st[p][u], "reader") + Own(ht[p][u], "reader")
       /\ Own(st[p][u], "reader") \in 0 .. 2 /\ Own(ht[p][u], "reader") \in 0 .. 2
  BY <1>3, LockNames, OwnRange DEF ThreadHas
<1>12. Has(p, u, "reader")
  BY <1>10, <1>11 DEF Has, Own
<1>13. "writer" \in Excludes("reader") /\ "reader" \in Locks /\ "writer" \in Locks
  BY LockNames DEF Excludes
<1>14. Has(p, t, "writer")
  BY <1>4
<1> QED  BY <1>1, <1>2, <1>12, <1>13, <1>14 DEF Excluded

\* The parent and its child share what was prepared, and go on from it.
LEMMA MakeProcessKeeps ==
    ASSUME LockInv, NEW p \in LockProcesses, NEW t \in LockThreads, MakeProcess(p, t)
    PROVE  LockInv'
<1>1. PICK st, ht : LockInvOf(st, ht)
  BY DEF LockInv
<1>0. PICK k, kind, rest : k = forks + 1 /\ kind = Lock(p, t) /\ rest = Tail(calls[p][t])
  OBVIOUS
<1> DEFINE more == IF kind = "raw" THEN rest ELSE <<>>
           c == IF kind = "raw" THEN 1 ELSE 2
<1>2. /\ LockRunning(p, t) /\ Do(p, t) = "fork" /\ forks < MaxLockForks /\ forks' = k
      /\ calls' = [calls EXCEPT ![p][t] = ParentPath(kind, k) \o rest, ![k][t] = ChildPath(kind) \o more]
      /\ held' = [held EXCEPT ![k] = held[p]] /\ forkLock' = [forkLock EXCEPT ![k] = forkLock[p]]
      /\ regionKept' = [regionKept EXCEPT ![k] = regionKept[p]] /\ living' = [living EXCEPT ![k] = {t}]
      /\ UNCHANGED <<handlers, region, rung, called, lockSignals>>
  BY <1>0 DEF MakeProcess, Free
<1>3. /\ LockTypeOK /\ LockShape /\ TableOf(st) /\ TableOf(ht) /\ t \in living[p]
      /\ \A q \in LockProcesses : living[q] \subseteq LockThreads
      /\ \A q \in LockProcesses : \A u \in living[q] : ThreadHas(q, u, st[q][u], ht[q][u])
      /\ \A q \in LockProcesses : Excluded(q) /\ NotOrphaned(q) /\ ForkLockNames(q, st[q]) /\ ProcessBorn(q)
  BY <1>1, <1>2 DEF LockInvOf, LockRunning, LockTypeOK
<1>4. /\ forks \in Nat /\ k \in LockProcesses \ {0} /\ k > forks /\ k # p /\ p <= forks /\ k > p /\ p \in Nat /\ k \in Nat
      /\ living[k] = {} /\ \A u \in LockThreads : handlers[k][u] = <<>>
  <2>1. forks \in Nat /\ MaxLockForks \in Nat
    BY <1>3, LockAssumption DEF LockTypeOK
  <2>2. p <= forks /\ p \in Nat
    BY <1>3, <2>1, LockAssumption DEF ProcessBorn, LockProcesses
  <2>3. k \in LockProcesses \ {0} /\ k > forks /\ k # p /\ k > p /\ k \in Nat
    BY <1>0, <1>2, <2>1, <2>2 DEF LockProcesses
  <2>4. living[k] = {} /\ \A u \in LockThreads : handlers[k][u] = <<>>
    BY <1>3, <2>3 DEF ProcessBorn
  <2> QED  BY <2>1, <2>2, <2>3, <2>4
<1>5. PICK a, b, st0, ht0 : Moves(p, t, st, ht, a, b, st0, ht0)
  BY <1>1, <1>2, MovesNext
<1>6. Leads(Head(Frame(p, t)), a, b) /\ Head(Frame(p, t))[1] = "fork" /\ Head(Frame(p, t))[2] = kind
  BY <1>0, <1>2, <1>5 DEF Moves, Do, Lock
<1> DEFINE n == a.apps - 1
<1>7. /\ kind \in {"raw", "child"} /\ n \in 0 .. 1 /\ a.frame = "call" /\ a.marks = {}
      /\ a = FrameHas("call", Taken, n + 1, c, {}, 0) /\ b = CallHas({}, n, 0)
  BY <1>6, ForkMoves
<1>8. ThreadHas(p, t, st[p][t], ht[p][t])
  BY <1>3
<1>9. ~InHandler(p, t) /\ a = st[p][t] /\ \E e : Path(rest, b, e)
  <2>1. ht[p][t].frame # "call"
    BY <1>8 DEF ThreadHas, WatchedSignals
  <2> QED  BY <1>0, <1>5, <1>7, <2>1 DEF Moves
<1>10. handlers[p][t] = <<>> /\ ht[p][t] = Rest(ht[p][t].frame)
  BY <1>8, <1>9, PathNoneOnly DEF ThreadHas, InHandler
<1> HIDE DEF more, n
<1>11. k \in LockProcesses /\ p \in LockProcesses /\ "raw" # "child" /\ c \in {1, 2}
  BY <1>4
<1> DEFINE pa == FrameHas("call", Taken, n + 1, c, {}, IF kind = "raw" THEN 0 ELSE k)
           ca == FrameHas("call", Taken, n + 1, c, {"foreign", "forked"}, 0)
           st1 == [st EXCEPT ![p][t] = pa]
           st2 == [st1 EXCEPT ![k][t] = ca]
           ht2 == [ht EXCEPT ![k][t] = Rest("HUP")]
           calls1 == [calls EXCEPT ![p][t] = ParentPath(kind, k) \o rest]
<1>12. /\ TableOf(st2) /\ st2[p][t] = pa /\ st2[k][t] = ca
       /\ \A q \in LockProcesses, u \in LockThreads :
            ~(q = p /\ u = t) /\ ~(q = k /\ u = t) => st2[q][u] = st[q][u]
  <2> HIDE DEF pa, ca
  <2>1. TableOf(st1)
    BY <1>3, TableSet
  <2>2. st1[p][t] = pa
    BY <1>3 DEF TableOf
  <2>3. \A q \in LockProcesses, u \in LockThreads : q # p \/ u # t => st1[q][u] = st[q][u]
    BY <1>3, TableSet
  <2> HIDE DEF st1
  <2>4. TableOf(st2)
    BY <1>11, <2>1, TableSet
  <2>5. st2[k][t] = ca
    BY <1>11, <2>1 DEF TableOf
  <2>6. \A q \in LockProcesses, u \in LockThreads : q # k \/ u # t => st2[q][u] = st1[q][u]
    BY <1>11, <2>1, TableSet
  <2> HIDE DEF st2
  <2> QED  BY <1>4, <1>11, <2>2, <2>3, <2>4, <2>5, <2>6
<1>13. /\ TableOf(ht2) /\ ht2[k][t] = Rest("HUP")
       /\ \A q \in LockProcesses, u \in LockThreads : ~(q = k /\ u = t) => ht2[q][u] = ht[q][u]
  <2>1. TableOf(ht2)
    BY <1>3, <1>11, TableSet
  <2>2. ht2[k][t] = Rest("HUP")
    BY <1>3, <1>11 DEF TableOf
  <2>3. \A q \in LockProcesses, u \in LockThreads : q # k \/ u # t => ht2[q][u] = ht[q][u]
    BY <1>3, <1>11, TableSet
  <2> QED  BY <2>1, <2>2, <2>3
<1>14. /\ TableOf(calls') /\ calls'[p][t] = ParentPath(kind, k) \o rest /\ calls'[k][t] = ChildPath(kind) \o more
       /\ \A q \in LockProcesses, u \in LockThreads :
            ~(q = p /\ u = t) /\ ~(q = k /\ u = t) => calls'[q][u] = calls[q][u]
  <2> DEFINE v == ParentPath(kind, k) \o rest
             w == ChildPath(kind) \o more
  <2>0. calls' = [calls EXCEPT ![p][t] = v, ![k][t] = w] /\ TableOf(calls) /\ calls1 = [calls EXCEPT ![p][t] = v]
    BY <1>2, <1>3 DEF LockShape, more
  <2> HIDE DEF v, w, calls1
  <2>1. TableOf(calls1)
    BY <2>0, TableSet
  <2>2. calls1[p][t] = v
    BY <2>0 DEF TableOf
  <2>3. \A q \in LockProcesses, u \in LockThreads : q # p \/ u # t => calls1[q][u] = calls[q][u]
    BY <2>0, TableSet
  <2>00. calls' = [calls1 EXCEPT ![k][t] = w]
    BY <2>0
  <2>4. TableOf(calls')
    BY <1>11, <2>1, <2>00, TableSet
  <2>5. calls'[k][t] = w
    BY <1>11, <2>1, <2>00 DEF TableOf
  <2>6. \A q \in LockProcesses, u \in LockThreads : q # k \/ u # t => calls'[q][u] = calls1[q][u]
    BY <1>11, <2>1, <2>00, TableSet
  <2>7. calls'[p][t] = v
    BY <1>4, <1>11, <2>2, <2>6
  <2>8. \A q \in LockProcesses, u \in LockThreads :
            ~(q = p /\ u = t) /\ ~(q = k /\ u = t) => calls'[q][u] = calls[q][u]
    BY <2>3, <2>6
  <2> QED  BY <2>4, <2>5, <2>7, <2>8 DEF v, w
<1>15. /\ held'[k] = held[p] /\ forkLock'[k] = forkLock[p] /\ living'[k] = {t}
       /\ \A q \in LockProcesses \ {k} : held'[q] = held[q] /\ forkLock'[q] = forkLock[q] /\ living'[q] = living[q]
  BY <1>2, <1>3, <1>11 DEF LockTypeOK, LockShape
<1>16. /\ forks' = k /\ forks' = forks + 1 /\ handlers' = handlers /\ called' = called
  BY <1>0, <1>2
<1>17. /\ Path(ParentPath(kind, k), pa, b) /\ Path(ChildPath(kind), ca, b) /\ Fit(pa) /\ Fit(ca)
  <2>1. Path(ParentPath(kind, k), pa, b)
    BY <1>4, <1>7, ParentPathLeads
  <2>2. Path(ChildPath(kind), ca, b)
    BY <1>7, ChildPathLeads
  <2>3. Fit(pa)
    <3>1. (IF kind = "raw" THEN 0 ELSE k) \in LockProcesses /\ {} \in SUBSET {"foreign", "forked"}
      BY <1>11, LockNames
    <3> QED  BY <1>7, <1>11, <3>1, FilesPath
  <2>4. Fit(ca)
    <3>1. {"foreign", "forked"} \in SUBSET {"foreign", "forked"} /\ 0 \in LockProcesses
      BY LockNames
    <3> QED  BY <1>7, <1>11, <3>1, FilesPath
  <2> QED  BY <2>1, <2>2, <2>3, <2>4
<1>18. \A l \in Locks : Own(pa, l) = Own(a, l) /\ Own(ca, l) = Own(a, l)
  BY <1>7 DEF Own, FrameHas
<1>19. /\ pa.frame = "call" /\ ca.frame = "call" /\ pa.marks = {} /\ ca.marks = {"foreign", "forked"} /\ ca.child = 0
       /\ pa.child = (IF kind = "raw" THEN 0 ELSE k) /\ pa.count = c /\ ca.count = c /\ a.count = c /\ a.locks = Taken
       /\ a.apps = n + 1
  BY <1>7 DEF FrameHas
<1> HIDE DEF pa, ca, st1, st2, ht2, calls1
<1>20. ThreadHas(p, t, st2[p][t], ht2[p][t])'
  <2>1. \E e : Path(calls'[p][t], pa, e)
    <3>1. PICK e : Path(rest, b, e)
      BY <1>9
    <3>2. Path(ParentPath(kind, k) \o rest, pa, e)
      BY <1>17, <3>1, PathJoin
    <3> QED  BY <1>14, <3>2
  <2>2. ht2[p][t] = ht[p][t] /\ handlers'[p][t] = <<>> /\ handlers[p][t] = <<>>
    BY <1>4, <1>10, <1>11, <1>13, <1>16
  <2>3. \A l \in Locks : held'[p][l][t] = Own(pa, l) + Own(ht[p][t], l)
    BY <1>4, <1>8, <1>9, <1>15, <1>18 DEF ThreadHas
  <2>4. pa.child # 0 => pa.child > p /\ pa.child <= forks'
    <3>1. k > p /\ k <= forks'
      BY <1>4, <1>16
    <3> QED  BY <3>1, <1>19
  <2>5. Fit(ht[p][t]) /\ ht[p][t].frame \in WatchedSignals /\ Path(handlers'[p][t], ht[p][t], Rest(ht[p][t].frame))
    BY <1>8, <2>2 DEF ThreadHas
  <2> QED  BY <1>12, <1>17, <1>19, <2>1, <2>2, <2>3, <2>4, <2>5 DEF ThreadHas, InHandler
<1>21. ThreadHas(k, t, st2[k][t], ht2[k][t])'
  <2>1. \E e : Path(calls'[k][t], ca, e)
    <3>1. PICK e : Path(more, b, e)
      <4>1. CASE kind = "raw"
        BY <4>1, <1>9 DEF more
      <4>2. CASE kind # "raw"
        <5>1. b \in LockStates
          BY <1>6 DEF Leads, Fit
        <5> QED  BY <4>2, <5>1, PathNone DEF more
      <4> QED  BY <4>1, <4>2
    <3>2. Path(ChildPath(kind) \o more, ca, e)
      BY <1>17, <3>1, PathJoin
    <3> QED  BY <1>14, <3>2
  <2>2. handlers'[k][t] = <<>>
    BY <1>4, <1>16
  <2>3. Fit(Rest("HUP")) /\ Rest("HUP").frame = "HUP" /\ "HUP" \in WatchedSignals
    <3>1. 0 \in 0 .. 1 /\ {} \in SUBSET {"reader", "watch", "HUP"} /\ "HUP" \notin {} /\ "HUP" \in WatchedSignals
      BY DEF WatchedSignals
    <3>2. Rest("HUP").frame = "HUP"
      BY DEF Rest, FrameHas
    <3> QED  BY <3>1, <3>2, ActionFit DEF Rest
  <2>4. Path(handlers'[k][t], Rest("HUP"), Rest("HUP"))
    BY <2>2, <2>3, PathNone DEF Fit
  <2>5. \A l \in Locks : held'[k][l][t] = Own(ca, l) + Own(Rest("HUP"), l)
    <3>1. \A f, l : Own(Rest(f), l) = 0
      BY DEF Own, Rest, FrameHas
    <3>2. \A l \in Locks : held[p][l][t] = Own(a, l) + 0
      BY <1>8, <1>9, <1>10, <3>1 DEF ThreadHas
    <3> QED  BY <1>15, <1>18, <3>1, <3>2
  <2> QED  BY <1>4, <1>12, <1>13, <1>17, <1>19, <2>1, <2>2, <2>3, <2>4, <2>5 DEF ThreadHas, InHandler
<1>22. ASSUME NEW q \in LockProcesses, NEW u \in living'[q] PROVE ThreadHas(q, u, st2[q][u], ht2[q][u])'
  <2>1. CASE q = k
    <3>1. u = t
      BY <1>15, <2>1
    <3> QED  BY <1>21, <2>1, <3>1
  <2>2. CASE q # k /\ q = p /\ u = t
    BY <1>20, <2>2
  <2>3. CASE q # k /\ ~(q = p /\ u = t)
    <3>1. u \in living[q] /\ u \in LockThreads
      BY <1>3, <1>15, <2>3
    <3>2. st2[q][u] = st[q][u] /\ ht2[q][u] = ht[q][u] /\ calls'[q][u] = calls[q][u] /\ held'[q] = held[q]
      BY <1>12, <1>13, <1>14, <1>15, <2>3, <3>1
    <3>3. ThreadHas(q, u, st[q][u], ht[q][u])
      BY <1>3, <3>1
    <3>4. ThreadHas(q, u, st[q][u], ht[q][u])'
      BY <1>4, <1>16, <3>1, <3>2, <3>3, OthersHave
    <3> QED  BY <3>2, <3>4
  <2> QED  BY <2>1, <2>2, <2>3
<1>23. ASSUME NEW q \in LockProcesses PROVE Excluded(q)'
  <2>1. CASE q = k
    BY <1>15, <2>1 DEF Excluded
  <2>2. CASE q # k
    BY <1>3, <1>15, <2>2 DEF Excluded, Has
  <2> QED  BY <2>1, <2>2
<1>24. ASSUME NEW q \in LockProcesses PROVE NotOrphaned(q)'
  <2>1. CASE q = k
    <3> SUFFICES ASSUME NEW u \in LockThreads \ {t}, NEW l \in Locks \ {"watch"} PROVE ~Has(k, u, l)'
      BY <1>15, <2>1 DEF NotOrphaned, Has
    <3>1. st[p][t].apps > 0 /\ st[p][t].count > 0 /\ st[p][t].locks = Taken
      BY <1>7, <1>9, <1>11, <1>19
    <3>2. ~Has(p, u, l)
      BY <1>1, <1>3, <3>1, NobodyElseHas
    <3> QED  BY <1>15, <3>2 DEF Has
  <2>2. CASE q # k
    BY <1>3, <1>15, <2>2 DEF NotOrphaned, Has
  <2> QED  BY <2>1, <2>2
<1>25. ASSUME NEW q \in LockProcesses PROVE ForkLockNames(q, st2[q])'
  <2>0. forkLock[p].count = c /\ forkLock[p].process = p /\ forkLock[p].thread = <<p, t>>
    BY <1>3, <1>7, <1>9, <1>11, <1>19 DEF ForkLockNames
  <2>1. CASE q = k
    BY <1>4, <1>11, <1>12, <1>15, <1>19, <2>0, <2>1 DEF ForkLockNames
  <2>2. CASE q # k
    <3>1. \A u \in living[q] : st2[q][u].count = st[q][u].count /\ st2[q][u].marks = st[q][u].marks
      <4> SUFFICES ASSUME NEW u \in living[q] PROVE st2[q][u].count = st[q][u].count /\ st2[q][u].marks = st[q][u].marks
        OBVIOUS
      <4>1. CASE q = p /\ u = t
        BY <4>1, <1>7, <1>9, <1>12, <1>19
      <4>2. CASE ~(q = p /\ u = t)
        BY <4>2, <2>2, <1>3, <1>12
      <4> QED  BY <4>1, <4>2
    <3>2. forkLock'[q] = forkLock[q] /\ living'[q] = living[q] /\ ForkLockNames(q, st[q])
      BY <1>3, <1>15, <2>2
    <3> QED  BY <3>1, <3>2 DEF ForkLockNames
  <2> QED  BY <2>1, <2>2
<1>26. ASSUME NEW q \in LockProcesses PROVE ProcessBorn(q)'
  <2>1. CASE q = k
    <3>1. living'[q] = {t} /\ ~(q > forks')
      <4>1. k \in Nat /\ forks' = k
        BY <1>4, <1>16
      <4>2. ~(k > k)
        BY <4>1
      <4> QED  BY <4>1, <4>2, <1>15, <2>1
    <3> QED  BY <3>1 DEF ProcessBorn
  <2>2. CASE q # k
    <3>1. ProcessBorn(q) /\ living'[q] = living[q]
      BY <1>3, <1>15, <2>2
    <3>2. q > forks' => q > forks
      BY <1>4, <1>16 DEF LockProcesses
    <3> QED  BY <1>16, <3>1, <3>2 DEF ProcessBorn
  <2> QED  BY <2>1, <2>2
<1>27. ASSUME NEW u \in living'[0] \ called' PROVE calls'[0][u] = <<>> /\ st2[0][u] = Idle
  <2>1. u \in living[0] \ called /\ u \in LockThreads /\ 0 \in LockProcesses /\ 0 # k
    BY <1>3, <1>4, <1>15, <1>16, LockNames
  <2>2. calls[0][u] = <<>> /\ st[0][u] = Idle
    BY <1>1, <2>1 DEF LockInvOf
  <2>3. ~(0 = p /\ u = t)
    BY <1>2, <1>9, <2>2 DEF LockRunning, Frame
  <2> QED  BY <1>12, <1>14, <2>1, <2>2, <2>3
<1>28. LockTypeOK'
  <2>1. /\ held \in [LockProcesses -> [Locks -> [LockThreads -> 0 .. 3]]]
        /\ regionKept \in [LockProcesses -> BOOLEAN] /\ living \in [LockProcesses -> SUBSET LockThreads]
        /\ region \in LockProcesses \cup {NoProcess} /\ rung \subseteq LockProcesses /\ called \subseteq LockThreads
        /\ lockSignals \in 0 .. MaxLockSignals
        /\ \A q \in LockProcesses : forkLock[q].process \in LockProcesses \cup {NoProcess} /\ forkLock[q].count \in 0 .. 2
    BY <1>3 DEF LockTypeOK
  <2>2. held' \in [LockProcesses -> [Locks -> [LockThreads -> 0 .. 3]]]
    <3>1. held[p] \in [Locks -> [LockThreads -> 0 .. 3]] /\ held' = [held EXCEPT ![k] = held[p]]
      BY <1>0, <1>2, <2>1
    <3> QED  BY <1>11, <2>1, <3>1
  <2>3. regionKept' \in [LockProcesses -> BOOLEAN]
    <3>1. regionKept[p] \in BOOLEAN /\ regionKept' = [regionKept EXCEPT ![k] = regionKept[p]]
      BY <1>0, <1>2, <2>1
    <3> QED  BY <1>11, <2>1, <3>1
  <2>4. living' \in [LockProcesses -> SUBSET LockThreads]
    BY <1>0, <1>2, <1>11, <2>1
  <2>5. forks' \in 0 .. MaxLockForks
    BY <1>0, <1>2, <1>4, LockAssumption
  <2>6. \A q \in LockProcesses : forkLock'[q].process \in LockProcesses \cup {NoProcess} /\ forkLock'[q].count \in 0 .. 2
    BY <1>15, <2>1
  <2>7. region' = region /\ rung' = rung /\ called' = called /\ lockSignals' = lockSignals
    BY <1>2
  <2> QED  BY <2>1, <2>2, <2>3, <2>4, <2>5, <2>6, <2>7 DEF LockTypeOK
<1>29. LockShape'
  <2>1. TableOf(handlers)'
    BY <1>3, <1>16 DEF LockShape, TableOf
  <2>2. TableOf(calls)'
    BY <1>14 DEF TableOf
  <2>3. forkLock' = [forkLock EXCEPT ![k] = forkLock[p]]
    BY <1>0, <1>2
  <2> QED  BY <1>3, <1>11, <2>1, <2>2, <2>3 DEF LockShape
<1>30. LockInvOf(st2, ht2)'
  BY <1>12, <1>13, <1>22, <1>23, <1>24, <1>25, <1>26, <1>27, <1>28, <1>29 DEF LockInvOf
<1> QED  BY <1>30 DEF LockInv

\* Every step of the locks keeps the invariant.
LEMMA LockNextKeeps ==
    ASSUME LockInv, LockNext
    PROVE  LockInv'
BY CallLockKeeps, DeliverLockKeeps, TakeLockKeeps, AcquireForkLockKeeps, RelinquishForkLockKeeps,
   LockRegionKeeps, MakeProcessKeeps, RingBellKeeps, ExitProcessKeeps DEF LockNext

\* It holds in the beginning.
LEMMA LockInitKeeps ==
    ASSUME LockInit
    PROVE  LockInv
<1> DEFINE st == [p \in LockProcesses |-> [t \in LockThreads |-> Idle]]
           ht == [p \in LockProcesses |-> [t \in LockThreads |-> Rest("HUP")]]
<1>1. /\ \A p \in LockProcesses, t \in LockThreads :
           /\ calls[p][t] = <<>> /\ handlers[p][t] = <<>> /\ st[p][t] = Idle /\ ht[p][t] = Rest("HUP")
           /\ \A l \in Locks : held[p][l][t] = 0
      /\ \A p \in LockProcesses : forkLock[p] = NoForkLock /\ living[p] = IF p = 0 THEN LockThreads ELSE {}
      /\ forks = 0 /\ called = {} /\ rung = {} /\ lockSignals = 0 /\ region = NoProcess
  BY DEF LockInit
<1>2. /\ MaxLockForks \in Nat /\ MaxLockSignals \in Nat /\ 0 \in LockProcesses
      /\ \A p \in LockProcesses : p \in Nat
  BY LockAssumption DEF LockProcesses
<1>3. LockTypeOK
  <2>1. held \in [LockProcesses -> [Locks -> [LockThreads -> 0 .. 3]]]
    BY DEF LockInit
  <2>2. regionKept \in [LockProcesses -> BOOLEAN] /\ living \in [LockProcesses -> SUBSET LockThreads]
    BY DEF LockInit
  <2>3. \A p \in LockProcesses : forkLock[p].process \in LockProcesses \cup {NoProcess} /\ forkLock[p].count \in 0 .. 2
    BY <1>1 DEF NoForkLock
  <2> QED  BY <1>1, <1>2, <2>1, <2>2, <2>3 DEF LockTypeOK
<1>4. LockShape
  <2>1. TableOf(calls) /\ TableOf(handlers)
    BY DEF LockInit, TableOf
  <2>2. NoForkLock \in [process : LockProcesses \cup {NoProcess}, thread : {<<>>} \cup (LockProcesses \X LockThreads),
                        count : 0 .. 2]
    BY DEF NoForkLock
  <2> QED  BY <2>1, <2>2 DEF LockInit, LockShape
<1>5. TableOf(st) /\ TableOf(ht)
  BY DEF TableOf
<1> HIDE DEF st, ht
<1>6. Fit(Idle) /\ Fit(Rest("HUP")) /\ "HUP" \in WatchedSignals
      /\ Idle.frame = "call" /\ Idle.child = 0 /\ Idle.marks = {} /\ Idle.count = 0 /\ Idle.apps = 0 /\ Idle.locks = {}
      /\ Rest("HUP").frame = "HUP"
  <2>0. 0 \in 0 .. 2 /\ 0 \in 0 .. 1 /\ {} \in SUBSET {"foreign", "forked"} /\ 0 \in LockProcesses
        /\ {} \in SUBSET {"reader", "watch", "HUP"} /\ "HUP" \notin {} /\ "HUP" \in WatchedSignals
    BY LockNames DEF WatchedSignals
  <2>1. Fit(Idle)
    BY <2>0, CallFit DEF Idle, CallHas
  <2>2. Fit(Rest("HUP"))
    BY <2>0, ActionFit DEF Rest
  <2> QED  BY <2>0, <2>1, <2>2 DEF Idle, CallHas, Rest, FrameHas
<1>7. \A l \in Locks : Own(Idle, l) = 0 /\ Own(Rest("HUP"), l) = 0
  BY DEF Own, Idle, CallHas, Rest, FrameHas
<1>8. ASSUME NEW p \in LockProcesses, NEW t \in living[p] PROVE ThreadHas(p, t, st[p][t], ht[p][t])
  <2>1. t \in LockThreads
    BY <1>1
  <2>2. Path(calls[p][t], Idle, Idle) /\ Path(handlers[p][t], Rest("HUP"), Rest("HUP"))
    BY <1>1, <1>6, <2>1, PathNone DEF Fit
  <2>3. \A l \in Locks : held[p][l][t] = Own(Idle, l) + Own(Rest("HUP"), l)
    BY <1>1, <1>7, <2>1
  <2> QED  BY <1>1, <1>6, <2>1, <2>2, <2>3 DEF ThreadHas, InHandler
<1>9. ASSUME NEW p \in LockProcesses PROVE Excluded(p) /\ NotOrphaned(p) /\ ForkLockNames(p, st[p]) /\ ProcessBorn(p)
  <2>1. \A t \in LockThreads, l \in Locks : ~Has(p, t, l)
    BY <1>1 DEF Has
  <2>2. Excluded(p) /\ NotOrphaned(p)
    BY <1>1, <2>1 DEF Excluded, NotOrphaned
  <2>3. ForkLockNames(p, st[p])
    BY <1>1, <1>6 DEF ForkLockNames, NoForkLock
  <2>4. ProcessBorn(p)
    BY <1>1, <1>2 DEF ProcessBorn
  <2> QED  BY <2>2, <2>3, <2>4
<1>10. \A t \in living[0] \ called : calls[0][t] = <<>> /\ st[0][t] = Idle
  BY <1>1, <1>2
<1>11. LockInvOf(st, ht)
  BY <1>3, <1>4, <1>5, <1>8, <1>9, <1>10 DEF LockInvOf
<1> QED  BY <1>11 DEF LockInv

----------------------------------------------------------------------------
\* What the invariant implies.

\* A running thread does the next step of one of its frames.
LEMMA RunsFrom ==
    ASSUME NEW st, NEW ht, LockInvOf(st, ht), NEW p \in LockProcesses, NEW t \in LockThreads,
           LockRunning(p, t)
    PROVE  /\ t \in living[p] /\ ThreadHas(p, t, st[p][t], ht[p][t])
           /\ \E a, b : /\ Leads(Head(Frame(p, t)), a, b)
                        /\ IF InHandler(p, t) THEN a = ht[p][t] /\ a.frame \in WatchedSignals
                           ELSE a = st[p][t] /\ a.frame = "call" /\ ht[p][t] = Rest(ht[p][t].frame)
<1>1. t \in living[p] /\ ThreadHas(p, t, st[p][t], ht[p][t])
  BY DEF LockInvOf, LockRunning
<1>2. PICK a, b, st2, ht2 : Moves(p, t, st, ht, a, b, st2, ht2)
  BY MovesNext
<1>3. CASE InHandler(p, t)
  BY <1>1, <1>2, <1>3 DEF Moves, ThreadHas
<1>4. CASE ~InHandler(p, t)
  <2>1. ht[p][t] = Rest(ht[p][t].frame)
    BY <1>1, <1>4, PathNoneOnly DEF ThreadHas, InHandler
  <2> QED  BY <1>1, <1>2, <1>4, <2>1 DEF Moves, ThreadHas
<1> QED  BY <1>3, <1>4

\* A thread has what its frames have.
LEMMA HasOfFrames ==
    ASSUME NEW p \in LockProcesses, NEW t \in LockThreads, NEW a, NEW h, ThreadHas(p, t, a, h)
    PROVE  /\ \A l \in SingleLocks : Has(p, t, l) <=> l \in a.locks \/ l \in h.locks
           /\ Has(p, t, "app") <=> a.apps > 0 \/ h.apps > 0
<1>1. a \in LockStates /\ h \in LockStates /\ \A l \in Locks : held[p][l][t] = Own(a, l) + Own(h, l)
  BY DEF ThreadHas, Fit
<1>2. a.apps \in 0 .. 2 /\ h.apps \in 0 .. 2
  BY <1>1 DEF LockStates
<1>3. Has(p, t, "app") <=> a.apps > 0 \/ h.apps > 0
  BY <1>1, <1>2, LockNames DEF Has, Own
<1>4. ASSUME NEW l \in SingleLocks PROVE Has(p, t, l) <=> l \in a.locks \/ l \in h.locks
  <2>1. l \in Locks /\ l # "app" /\ l # "forkChild"
    BY DEF SingleLocks
  <2> QED  BY <1>1, <2>1 DEF Has, Own
<1> QED  BY <1>3, <1>4

\* What a child finds locked is its own.
LEMMA OwnedForkLock ==
    ASSUME LockInv
    PROVE  ForkedLocksOwned
<1>1. PICK st, ht : LockInvOf(st, ht)
  BY DEF LockInv
<1>2. /\ \A p \in LockProcesses : NotOrphaned(p) /\ ForkLockNames(p, st[p]) /\ ProcessBorn(p) /\ living[p] \subseteq LockThreads
      /\ \A p \in LockProcesses : \A t \in living[p] : ThreadHas(p, t, st[p][t], ht[p][t])
  BY <1>1 DEF LockInvOf, LockTypeOK
<1>3. ASSUME NEW p \in LockProcesses, NEW l \in Locks, Orphaned(p, l) PROVE l = "watch"
  BY <1>2, <1>3 DEF NotOrphaned, Orphaned
<1>4. ASSUME NEW p \in LockProcesses, NEW t \in living[p], LockRunning(p, t), Do(p, t) = "lockFork"
      PROVE  forkLock[p].process \in {NoProcess, p}
  <2>0. t \in LockThreads
    BY <1>2
  <2>1. PICK a, b : /\ Leads(Head(Frame(p, t)), a, b)
                    /\ IF InHandler(p, t) THEN a = ht[p][t] /\ a.frame \in WatchedSignals
                       ELSE a = st[p][t] /\ a.frame = "call" /\ ht[p][t] = Rest(ht[p][t].frame)
    BY <1>1, <1>4, <2>0, RunsFrom
  <2>2. a.frame = "call" /\ "foreign" \notin a.marks
    BY <1>4, <2>1, OwnForkLock DEF Do
  <2>3. a = st[p][t]
    BY <2>1, <2>2 DEF WatchedSignals
  <2>4. CASE \A u \in living[p] : st[p][u].count = 0
    BY <1>2, <2>4 DEF ForkLockNames
  <2>5. CASE \E u \in living[p] : st[p][u].count # 0
    <3>1. PICK u \in living[p] : st[p][u].count # 0
      BY <2>5
    <3>2. st[p][u].count > 0
      BY <1>1, <3>1, OneCounts
    <3>3. CASE "foreign" \in st[p][u].marks
      <4>1. p # 0
        BY <1>2, <3>3 DEF ThreadHas
      <4>2. p > 0
        BY <4>1, LockAssumption DEF LockProcesses
      <4>3. u = t
        BY <1>2, <4>2 DEF ProcessBorn
      <4> QED  BY <2>2, <2>3, <3>3, <4>3
    <3>4. CASE "foreign" \notin st[p][u].marks
      BY <1>2, <3>2, <3>4 DEF ForkLockNames
    <3> QED  BY <3>3, <3>4
  <2> QED  BY <2>4, <2>5
<1>5. ASSUME NEW p \in LockProcesses, NEW t \in living[p], LockRunning(p, t), Do(p, t) \in {"unlockFork", "resetFork"}
      PROVE  /\ forkLock[p].count > 0 /\ Has(p, t, "forkChild")
             /\ forkLock[p].process = p => forkLock[p].thread = <<p, t>>
  <2>0. t \in LockThreads
    BY <1>2
  <2>1. PICK a, b : /\ Leads(Head(Frame(p, t)), a, b)
                    /\ IF InHandler(p, t) THEN a = ht[p][t] /\ a.frame \in WatchedSignals
                       ELSE a = st[p][t] /\ a.frame = "call" /\ ht[p][t] = Rest(ht[p][t].frame)
    BY <1>1, <1>5, <2>0, RunsFrom
  <2>2. a.frame = "call" /\ a.count > 0
    BY <1>5, <2>1, OwnForkLock DEF Do
  <2>3. a = st[p][t]
    BY <2>1, <2>2 DEF WatchedSignals
  <2>4. Has(p, t, "forkChild")
    BY <1>1, <2>2, <2>3, OneCounts
  <2>5. /\ forkLock[p].count = st[p][t].count
        /\ IF "foreign" \in st[p][t].marks THEN forkLock[p].process # p
           ELSE forkLock[p].process = p /\ forkLock[p].thread = <<p, t>>
    BY <1>2, <2>2, <2>3 DEF ForkLockNames
  <2> QED  BY <2>2, <2>3, <2>4, <2>5
<1> QED  BY <1>3, <1>4, <1>5 DEF ForkedLocksOwned

----------------------------------------------------------------------------
\* Who waits for whom.

\* The rank of what a thread waits for: the fork lock, its child, the region, a lock.
WaitsFor(p, t) ==
    IF Do(p, t) = "lockFork" THEN 0
    ELSE IF Do(p, t) = "waitBell" THEN Lock(p, t)
    ELSE IF Do(p, t) = "lock" THEN MaxLockForks + Rank(Lock(p, t))
    ELSE MaxLockForks + 4

\* Locks have ranks, and the region is between them.
LEMMA RankRange ==
    ASSUME NEW l \in Locks
    PROVE  Rank(l) \in 1 .. 10 /\ Rank(l) # 4
<1>1. CASE l \in {"reader", "writer"}
  <2>1. Rank(l) = 5
    BY <1>1 DEF Rank
  <2> QED  BY <2>1
<1>2. CASE l \in {"forkChild", "fork", "app"}
  <2>1. Rank(l) \in 1 .. 3
    BY <1>2 DEF Rank
  <2> QED  BY <2>1
<1>3. CASE l \in {"signal", "HUP", "CONT", "watch", "files"}
  <2>1. Rank(l) \in 6 .. 10
    BY <1>3 DEF Rank
  <2> QED  BY <2>1
<1> QED  BY <1>1, <1>2, <1>3, LockNames

\* A thread that waits does one of five things.
LEMMA WaitingDoes ==
    ASSUME NEW p \in LockProcesses, NEW t \in LockThreads, NEW x \in Blockers(p, t)
    PROVE  /\ Do(p, t) \in {"lock", "lockFork", "lockRegion", "forkRegion", "waitBell"}
           /\ Do(p, t) = "lockFork" => /\ forkLock[p].thread # <<p, t>>
                                      /\ x \in {<<p, u>> : u \in Holders(p, "forkChild")}
           /\ Do(p, t) \in {"lockRegion", "forkRegion"} => x \in RegionTaken(p)
           /\ Do(p, t) = "waitBell" => x \in {<<Lock(p, t), u>> : u \in living[Lock(p, t)]}
<1>1. CASE Do(p, t) = "lock"
  BY <1>1 DEF Blockers
<1>2. CASE Do(p, t) = "lockFork"
  BY <1>2 DEF Blockers
<1>3. CASE Do(p, t) = "lockRegion"
  BY <1>3 DEF Blockers
<1>4. CASE Do(p, t) = "forkRegion"
  BY <1>4 DEF Blockers
<1>5. CASE Do(p, t) = "waitBell"
  BY <1>5 DEF Blockers
<1>6. CASE Do(p, t) \notin {"lock", "lockFork", "lockRegion", "forkRegion", "waitBell"}
  BY <1>6 DEF Blockers
<1> QED  BY <1>1, <1>2, <1>3, <1>4, <1>5, <1>6

\* The thread u of process q, which runs, keeps t of p from its next step.
Blocks(p, t, q, u) ==
    /\ p \in LockProcesses /\ t \in LockThreads /\ q \in LockProcesses /\ u \in LockThreads
    /\ LockRunning(p, t) /\ LockRunning(q, u) /\ <<q, u>> \in Blockers(p, t)

\* One that waits for a lock waits for another that has it.
LEMMA BlocksAtLock ==
    ASSUME NEW st, NEW ht, LockInvOf(st, ht), NEW p, NEW t, NEW q, NEW u, Blocks(p, t, q, u),
           Do(p, t) = "lock"
    PROVE  /\ q = p /\ u # t /\ Lock(p, t) \in Locks \ {"forkChild", "fork"}
           /\ \E m \in Excludes(Lock(p, t)) : Has(p, u, m)
<1>1. /\ p \in LockProcesses /\ t \in LockThreads /\ q \in LockProcesses /\ u \in LockThreads
      /\ LockRunning(p, t) /\ LockRunning(q, u) /\ <<q, u>> \in Blockers(p, t)
  BY DEF Blocks
<1> DEFINE l == Lock(p, t)
<1>2. PICK a, b : /\ Leads(Head(Frame(p, t)), a, b)
                  /\ IF InHandler(p, t) THEN a = ht[p][t] /\ a.frame \in WatchedSignals
                     ELSE a = st[p][t] /\ a.frame = "call" /\ ht[p][t] = Rest(ht[p][t].frame)
  BY <1>1, RunsFrom
<1>3. Head(Frame(p, t))[1] = "lock" /\ Head(Frame(p, t))[2] = l
  BY DEF Do, Lock
<1>4. l \in Locks \ {"forkChild"}
  BY <1>2, <1>3, OwnLock
<1>5. /\ \E m \in Excludes(l) : \E w \in Holders(p, m) : <<q, u>> = <<p, w>>
      /\ l \in SigMutexes => <<q, u>> # <<p, t>>
  <2> HIDE DEF l
  <2>1. Lock(p, t) = l
    BY DEF l
  <2>2. <<q, u>> \in {<<p, w>> : w \in UNION {Holders(p, m) : m \in Excludes(l)}}
                       \ (IF l \in SigMutexes THEN {<<p, t>>} ELSE {})
    BY <1>1, <2>1 DEF Blockers
  <2> QED  BY <2>2
<1>6. q = p /\ (l \in SigMutexes => u # t) /\ \E m \in Excludes(l) : Has(p, u, m)
  BY <1>5 DEF Holders
<1>7. ThreadHas(p, t, st[p][t], ht[p][t]) /\ ThreadHas(p, u, st[p][u], ht[p][u]) /\ t \in living[p] /\ u \in living[p]
  BY <1>1, <1>6, RunsFrom
<1>8. l # "app" => /\ l \in SingleLocks /\ l \notin a.locks
                   /\ b = [a EXCEPT !.locks = a.locks \cup {l}] /\ Fit(a) /\ Fit(b)
  BY <1>2, <1>3 DEF Leads
<1>9. l # "app" => b.locks = a.locks \cup {l} /\ b.count = a.count /\ b.frame = a.frame /\ b.apps = a.apps
  BY <1>8 DEF Fit, LockStates
<1> HIDE DEF l
<1>10. ASSUME u = t PROVE FALSE
  <2>1. l \notin SigMutexes /\ l # "app"
    BY <1>6, <1>10 DEF SigMutexes
  <2>2. PICK m \in Excludes(l) : Has(p, t, m)
    BY <1>6, <1>10
  <2>3. m \in SingleLocks
    BY <1>4, <2>1, LockNames DEF Excludes
  <2>4. m \in st[p][t].locks \/ m \in ht[p][t].locks
    BY <1>1, <1>7, <2>2, <2>3, HasOfFrames
  <2>5. Fit(st[p][t]) /\ Fit(ht[p][t]) /\ st[p][t].frame = "call"
    BY <1>7 DEF ThreadHas
  <2>6. CASE InHandler(p, t)
    <3>1. a = ht[p][t] /\ a.frame \in WatchedSignals /\ st[p][t].apps = 0
          /\ st[p][t].locks \cap (SigMutexes \cup {a.frame}) = {}
      BY <1>2, <1>7, <2>6 DEF ThreadHas
    <3>2. l \in {"reader", "watch", a.frame} /\ a.locks \subseteq {"reader", "watch", a.frame}
      BY <1>8, <1>9, <2>1, <3>1 DEF Fit, WatchedSignals
    <3>3. "writer" \notin st[p][t].locks
      BY <2>5, <3>1 DEF Fit
    <3>4. CASE l = "reader"
      <4>1. m = "writer"
        BY <3>4 DEF Excludes
      <4> QED  BY <2>4, <3>1, <3>2, <3>3, <4>1 DEF WatchedSignals
    <3>5. CASE l = a.frame
      <4>1. m = l
        BY <3>1, <3>5 DEF Excludes, WatchedSignals
      <4> QED  BY <1>8, <2>1, <2>4, <3>1, <3>5, <4>1
    <3> QED  BY <2>1, <3>2, <3>4, <3>5 DEF SigMutexes
  <2>7. CASE ~InHandler(p, t)
    <3>1. a = st[p][t] /\ ht[p][t].locks = {}
      <4>1. a = st[p][t] /\ ht[p][t] = Rest(ht[p][t].frame)
        BY <1>2, <2>7
      <4>2. \A f : Rest(f).locks = {}
        BY DEF Rest, FrameHas
      <4> QED  BY <4>1, <4>2
    <3>2. m \in a.locks
      BY <2>4, <3>1
    <3>3. ~("reader" \in b.locks /\ "writer" \in b.locks)
      BY <1>8, <2>1 DEF Fit
    <3> QED  BY <1>8, <1>9, <2>1, <3>2, <3>3 DEF Excludes
  <2> QED  BY <2>6, <2>7
<1>11. ASSUME l = "fork" PROVE FALSE
  <2>1. b.frame = "call" /\ b.count > 0 /\ a.frame = "call" /\ a.count > 0
    <3>1. "fork" \in b.locks /\ b.count > 0
      BY <1>8, <1>9, <1>11 DEF Fit
    <3>2. b.frame = "call"
      BY <1>8, <1>11, <3>1 DEF Fit
    <3> QED  BY <1>9, <1>11, <3>1, <3>2
  <2>2. a = st[p][t]
    BY <1>2, <2>1 DEF WatchedSignals
  <2>3. Has(p, u, "fork") /\ "fork" \in SingleLocks
    BY <1>6, <1>11, LockNames DEF Excludes
  <2>4. "fork" \in st[p][u].locks \/ "fork" \in ht[p][u].locks
    BY <1>1, <1>6, <1>7, <2>3, HasOfFrames
  <2>5. st[p][u].count > 0
    BY <1>7, <2>4 DEF ThreadHas, Fit, WatchedSignals
  <2>6. st[p][t].count = 0
    BY <1>1, <1>7, <1>10, <2>5, OneCounts
  <2> QED  BY <2>1, <2>2, <2>6
<1> QED  BY <1>4, <1>6, <1>10, <1>11 DEF l

\* And so does one that waits for the fork lock.
LEMMA BlocksAtForkLock ==
    ASSUME NEW st, NEW ht, LockInvOf(st, ht), NEW p, NEW t, NEW q, NEW u, Blocks(p, t, q, u),
           Do(p, t) = "lockFork"
    PROVE  q = p /\ u # t /\ Has(p, u, "forkChild") /\ ~Has(p, t, "forkChild")
<1>1. /\ p \in LockProcesses /\ t \in LockThreads /\ q \in LockProcesses /\ u \in LockThreads
      /\ LockRunning(p, t) /\ LockRunning(q, u) /\ <<q, u>> \in Blockers(p, t)
  BY DEF Blocks
<1>2. PICK a, b : /\ Leads(Head(Frame(p, t)), a, b)
                  /\ IF InHandler(p, t) THEN a = ht[p][t] /\ a.frame \in WatchedSignals
                     ELSE a = st[p][t] /\ a.frame = "call" /\ ht[p][t] = Rest(ht[p][t].frame)
  BY <1>1, RunsFrom
<1>3. a.frame = "call" /\ "foreign" \notin a.marks
  BY <1>2, OwnForkLock DEF Do
<1>4. a = st[p][t]
  BY <1>2, <1>3 DEF WatchedSignals
<1>5. forkLock[p].thread # <<p, t>> /\ q = p /\ Has(p, u, "forkChild")
  BY <1>1, WaitingDoes DEF Holders
<1>6. t \in living[p] /\ ForkLockNames(p, st[p])
  BY <1>1 DEF LockInvOf, LockRunning
<1>7. ~(st[p][t].count > 0)
  BY <1>3, <1>4, <1>5, <1>6 DEF ForkLockNames
<1>8. ~Has(p, t, "forkChild")
  BY <1>1, <1>6, <1>7, OneCounts
<1> QED  BY <1>5, <1>8

\* What a thread waits for has a rank; for its child it waits with nothing else taken.
LEMMA WaitsForRange ==
    ASSUME NEW st, NEW ht, LockInvOf(st, ht), NEW p, NEW t, NEW q, NEW u, Blocks(p, t, q, u)
    PROVE  /\ WaitsFor(p, t) \in 0 .. MaxLockForks + 10
           /\ Do(p, t) \in {"lock", "lockFork", "lockRegion", "forkRegion", "waitBell"}
           /\ Do(p, t) = "waitBell" => /\ st[p][t].child = Lock(p, t) /\ Lock(p, t) > p /\ Lock(p, t) \in 1 .. MaxLockForks
                                      /\ ~InHandler(p, t) /\ st[p][t].locks = {} /\ ht[p][t].locks = {}
<1>1. /\ p \in LockProcesses /\ t \in LockThreads /\ q \in LockProcesses /\ u \in LockThreads
      /\ LockRunning(p, t) /\ LockRunning(q, u) /\ <<q, u>> \in Blockers(p, t)
  BY DEF Blocks
<1>2. MaxLockForks \in Nat
  BY LockAssumption
<1>3. Do(p, t) \in {"lock", "lockFork", "lockRegion", "forkRegion", "waitBell"}
  BY <1>1, WaitingDoes
<1>4. ASSUME Do(p, t) = "waitBell"
      PROVE  /\ st[p][t].child = Lock(p, t) /\ Lock(p, t) > p /\ Lock(p, t) \in 1 .. MaxLockForks
             /\ ~InHandler(p, t) /\ st[p][t].locks = {} /\ ht[p][t].locks = {}
  <2>1. PICK a, b : /\ Leads(Head(Frame(p, t)), a, b)
                    /\ IF InHandler(p, t) THEN a = ht[p][t] /\ a.frame \in WatchedSignals
                       ELSE a = st[p][t] /\ a.frame = "call" /\ ht[p][t] = Rest(ht[p][t].frame)
    BY <1>1, RunsFrom
  <2>2. Lock(p, t) = a.child /\ a.child # 0 /\ a.locks = {} /\ Fit(a)
    BY <1>4, <2>1 DEF Leads, Do, Lock
  <2>3. a.frame = "call"
    BY <2>2 DEF Fit
  <2>4. ~InHandler(p, t) /\ a = st[p][t] /\ ht[p][t] = Rest(ht[p][t].frame)
    BY <2>1, <2>3 DEF WatchedSignals
  <2>5. \A f : Rest(f).locks = {}
    BY DEF Rest, FrameHas
  <2>6. a.child > p /\ a.child \in LockProcesses
    BY <1>1, <2>2, <2>4, RunsFrom DEF ThreadHas, Fit, LockStates
  <2>7. a.child \in 1 .. MaxLockForks
    BY <1>2, <2>2, <2>6 DEF LockProcesses
  <2>8. ht[p][t].locks = {}
    BY <2>4, <2>5
  <2> QED  BY <2>2, <2>4, <2>6, <2>7, <2>8
<1>5. CASE Do(p, t) = "lock"
  <2>1. Rank(Lock(p, t)) \in 1 .. 10
    BY <1>5, BlocksAtLock, RankRange
  <2> QED  BY <1>2, <1>3, <1>5, <2>1 DEF WaitsFor
<1>6. CASE Do(p, t) = "waitBell"
  BY <1>2, <1>3, <1>4, <1>6 DEF WaitsFor
<1>7. CASE Do(p, t) \in {"lockFork", "lockRegion", "forkRegion"}
  BY <1>2, <1>3, <1>7 DEF WaitsFor
<1> QED  BY <1>3, <1>5, <1>6, <1>7

\* What the frames have of a thread that waits for a lock: the frame that asks has less.
LEMMA LockAsked ==
    ASSUME NEW st, NEW ht, LockInvOf(st, ht), NEW p, NEW t, NEW q, NEW u, Blocks(p, t, q, u),
           Do(p, t) = "lock", ~ReportsInHandler(p, t)
    PROVE  /\ Lock(p, t) = "app" => st[p][t].locks \subseteq {"fork"} /\ ht[p][t].locks = {}
           /\ Lock(p, t) # "app" /\ ~InHandler(p, t) =>
                ht[p][t].locks = {} /\ \A m \in st[p][t].locks : Rank(m) < Rank(Lock(p, t))
           /\ Lock(p, t) # "app" /\ InHandler(p, t) =>
                /\ \A m \in ht[p][t].locks : Rank(m) < Rank(Lock(p, t))
                /\ Lock(p, t) \in {"reader", "watch", ht[p][t].frame}
<1>1. /\ p \in LockProcesses /\ t \in LockThreads /\ LockRunning(p, t)
  BY DEF Blocks
<1>2. PICK a, b : /\ Leads(Head(Frame(p, t)), a, b)
                  /\ IF InHandler(p, t) THEN a = ht[p][t] /\ a.frame \in WatchedSignals
                     ELSE a = st[p][t] /\ a.frame = "call" /\ ht[p][t] = Rest(ht[p][t].frame)
  BY <1>1, RunsFrom
<1>3. Head(Frame(p, t))[1] = "lock" /\ Head(Frame(p, t))[2] = Lock(p, t)
  BY DEF Do, Lock
<1>4. \A f : Rest(f).locks = {}
  BY DEF Rest, FrameHas
<1>5. Lock(p, t) \in Locks \ {"forkChild", "fork"}
  BY BlocksAtLock
<1>6. ASSUME Lock(p, t) = "app" PROVE st[p][t].locks \subseteq {"fork"} /\ ht[p][t].locks = {}
  <2>1. ~InHandler(p, t)
    BY <1>6 DEF ReportsInHandler
  <2>2. a = st[p][t] /\ a.frame = "call" /\ ht[p][t] = Rest(ht[p][t].frame)
    BY <1>2, <2>1
  <2>3. "app" \notin SingleLocks
    BY LockNames
  <2>4. Asks(a, "app")
    BY <1>2, <1>3, <1>6, <2>3 DEF Leads
  <2>5. a.locks \subseteq {"fork"}
    BY <2>2, <2>4 DEF Asks
  <2> QED  BY <1>4, <2>2, <2>5
<1>7. ASSUME Lock(p, t) # "app"
      PROVE  /\ \A m \in a.locks : Rank(m) < Rank(Lock(p, t))
             /\ Lock(p, t) \in b.locks /\ Fit(b) /\ b.frame = a.frame
  <2>1. /\ Lock(p, t) \in SingleLocks \ a.locks /\ Asks(a, Lock(p, t)) /\ Fit(a) /\ Fit(b)
        /\ b = [a EXCEPT !.locks = @ \cup {Lock(p, t)}]
    BY <1>2, <1>3, <1>7 DEF Leads
  <2>2. Lock(p, t) \in b.locks /\ b.frame = a.frame
    BY <2>1 DEF Fit, LockStates
  <2>3. Lock(p, t) # "fork"
    BY <1>5
  <2>4. \A m \in a.locks : Rank(m) < Rank(Lock(p, t))
    BY <1>7, <2>1, <2>3 DEF Asks
  <2> QED  BY <2>1, <2>2, <2>4
<1>8. ASSUME Lock(p, t) # "app", InHandler(p, t)
      PROVE  Lock(p, t) \in {"reader", "watch", ht[p][t].frame}
  <2>1. a = ht[p][t] /\ a.frame # "call"
    BY <1>2, <1>8 DEF WatchedSignals
  <2>2. b.locks \subseteq {"reader", "watch", b.frame}
    BY <1>7, <1>8, <2>1 DEF Fit
  <2> QED  BY <1>7, <1>8, <2>1, <2>2
<1> QED  BY <1>2, <1>4, <1>6, <1>7, <1>8

\* The owner of the application lock waits for the region or for a lock that is taken later.
LEMMA AppHolder ==
    ASSUME NEW st, NEW ht, LockInvOf(st, ht), NEW p, NEW t, NEW q, NEW u, Blocks(p, t, q, u),
           ~OwnerForks(p, t), Has(p, t, "app")
    PROVE  /\ WaitsFor(p, t) \in Int /\ WaitsFor(p, t) >= MaxLockForks + 4
           /\ region = p => WaitsFor(p, t) >= MaxLockForks + 5
<1>1. MaxLockForks \in Nat
  BY LockAssumption
<1>2. /\ p \in LockProcesses /\ t \in LockThreads /\ q \in LockProcesses /\ u \in LockThreads
      /\ LockRunning(p, t) /\ LockRunning(q, u) /\ <<q, u>> \in Blockers(p, t)
  BY DEF Blocks
<1>3. Do(p, t) \in {"lock", "lockRegion", "forkRegion"}
  BY <1>2, WaitingDoes DEF OwnerForks
<1>4. CASE Do(p, t) = "lock"
  <2>1. /\ q = p /\ u # t /\ Lock(p, t) \in Locks \ {"forkChild", "fork"}
        /\ \E m \in Excludes(Lock(p, t)) : Has(p, u, m)
    BY <1>4, BlocksAtLock
  <2>2. Lock(p, t) # "app"
    <3> SUFFICES ASSUME Lock(p, t) = "app" PROVE FALSE
      OBVIOUS
    <3>1. Has(p, u, "app")
      BY <2>1 DEF Excludes
    <3>2. t \in living[p] /\ u \in living[p] /\ Excluded(p)
      BY <1>2, <2>1 DEF LockInvOf, LockRunning
    <3>3. "app" \in Locks /\ "app" \in Excludes("app")
      BY LockNames DEF Excludes
    <3> QED  BY <2>1, <3>1, <3>2, <3>3 DEF Excluded
  <2>3. Rank(Lock(p, t)) \in 5 .. 10
    <3>1. CASE Lock(p, t) \in {"reader", "writer"}
      BY <3>1 DEF Rank
    <3>2. CASE Lock(p, t) \in {"signal", "HUP", "CONT", "watch", "files"}
      BY <3>2 DEF Rank
    <3> QED  BY <2>1, <2>2, <3>1, <3>2, LockNames
  <2>4. WaitsFor(p, t) = MaxLockForks + Rank(Lock(p, t))
    BY <1>4 DEF WaitsFor
  <2> QED  BY <1>1, <2>3, <2>4
<1>5. CASE Do(p, t) \in {"lockRegion", "forkRegion"}
  <2>1. PICK x \in Blockers(p, t) : x = <<q, u>>
    BY <1>2
  <2>2. x \in RegionTaken(p)
    BY <1>2, <1>5, <2>1, WaitingDoes
  <2>3. region # p
    BY <2>2 DEF RegionTaken
  <2>4. WaitsFor(p, t) = MaxLockForks + 4
    BY <1>5 DEF WaitsFor
  <2> QED  BY <1>1, <2>3, <2>4
<1> QED  BY <1>3, <1>4, <1>5

\* Which locks a frame has under a signal handler: it has not blocked the signal.
LEMMA CallUnderHandler ==
    ASSUME NEW p \in LockProcesses, NEW t \in LockThreads, NEW a, NEW h, ThreadHas(p, t, a, h),
           InHandler(p, t), NEW m \in a.locks \ {"fork"}
    PROVE  /\ m \in {"reader", "HUP"} /\ m # h.frame /\ h.frame \in {"CONT", "HUP"}
           /\ "reader" \in a.locks
<1>1. /\ Fit(a) /\ a.frame = "call" /\ h.frame \in WatchedSignals
      /\ a.apps = 0 /\ a.locks \cap (SigMutexes \cup {h.frame}) = {}
  BY DEF ThreadHas
<1>2. a.locks \subseteq SingleLocks
  BY <1>1 DEF Fit, LockStates
<1>3. m \notin {"writer", "files", "CONT"} /\ (m = "HUP" => "reader" \in a.locks)
  BY <1>1, <1>2 DEF Fit, WatchedSignals
<1>4. m \notin {"signal", "watch"} /\ m # h.frame
  BY <1>1 DEF SigMutexes
<1>5. m \in {"reader", "HUP"}
  BY <1>2, <1>3, <1>4, LockNames
<1> QED  BY <1>1, <1>3, <1>4, <1>5 DEF WatchedSignals

\* And so does one that keeps another thread of its process from a lock.
LEMMA LockHolder ==
    ASSUME NEW st, NEW ht, LockInvOf(st, ht), NEW p, NEW t, NEW q, NEW u, Blocks(p, t, q, u),
           ~ReportsInHandler(p, t), NEW w \in living[p], w # t,
           NEW m \in SingleLocks \ {"fork"}, Has(p, t, m)
    PROVE  WaitsFor(p, t) \in Int /\ WaitsFor(p, t) > MaxLockForks + Rank(m)
<1>1. MaxLockForks \in Nat
  BY LockAssumption
<1>2. /\ p \in LockProcesses /\ t \in LockThreads /\ q \in LockProcesses /\ u \in LockThreads
      /\ LockRunning(p, t) /\ LockRunning(q, u) /\ <<q, u>> \in Blockers(p, t)
  BY DEF Blocks
<1>3. PICK a, b : /\ Leads(Head(Frame(p, t)), a, b)
                  /\ IF InHandler(p, t) THEN a = ht[p][t] /\ a.frame \in WatchedSignals
                     ELSE a = st[p][t] /\ a.frame = "call" /\ ht[p][t] = Rest(ht[p][t].frame)
  BY <1>2, RunsFrom
<1>4. t \in living[p] /\ ThreadHas(p, t, st[p][t], ht[p][t])
  BY <1>2, RunsFrom
<1>5. m \in st[p][t].locks \/ m \in ht[p][t].locks
  BY <1>2, <1>4, HasOfFrames
<1>6. \A f : Rest(f).locks = {}
  BY DEF Rest, FrameHas
<1>7. Head(Frame(p, t))[1] = Do(p, t) /\ Head(Frame(p, t))[2] = Lock(p, t)
  BY DEF Do, Lock
<1>8. Do(p, t) = "lock"
  <2>1. Do(p, t) \in {"lock", "lockFork", "lockRegion", "forkRegion", "waitBell"}
    BY <1>2, WaitingDoes
  <2>2. ASSUME Do(p, t) = "lockFork" PROVE FALSE
    <3>1. a.frame = "call" /\ a.locks = {}
      BY <1>3, <1>7, <2>2, OwnForkLock
    <3>2. a = st[p][t] /\ ht[p][t] = Rest(ht[p][t].frame)
      BY <1>3, <3>1 DEF WatchedSignals
    <3> QED  BY <1>5, <1>6, <3>1, <3>2
  <2>3. ASSUME Do(p, t) = "lockRegion" PROVE FALSE
    <3>1. Lock(p, t) = "app" /\ (a.frame = "call" => a.locks = {})
      BY <1>3, <1>7, <2>3 DEF Leads
    <3>2. ~InHandler(p, t)
      BY <2>3, <3>1 DEF ReportsInHandler
    <3> QED  BY <1>3, <1>5, <1>6, <3>1, <3>2
  <2>4. ASSUME Do(p, t) = "forkRegion" PROVE FALSE
    <3>1. a.marks # {} /\ Fit(a)
      BY <1>3, <1>7, <2>4 DEF Leads
    <3>2. a.frame = "call"
      BY <3>1 DEF Fit
    <3>3. a = st[p][t]
      BY <1>3, <3>2 DEF WatchedSignals
    <3>4. p > 0
      BY <1>2, <1>4, <3>1, <3>3 DEF ThreadHas, LockProcesses
    <3>5. \E z \in LockThreads : living[p] = {z}
      BY <1>2, <1>4, <3>4 DEF LockInvOf, ProcessBorn
    <3> QED  BY <1>4, <3>5
  <2>5. ASSUME Do(p, t) = "waitBell" PROVE FALSE
    <3>1. st[p][t].locks = {} /\ ht[p][t].locks = {}
      BY <2>5, WaitsForRange
    <3> QED  BY <1>5, <3>1
  <2> QED  BY <2>1, <2>2, <2>3, <2>4, <2>5
<1>9. /\ Lock(p, t) = "app" => st[p][t].locks \subseteq {"fork"} /\ ht[p][t].locks = {}
      /\ Lock(p, t) # "app" /\ ~InHandler(p, t) =>
           ht[p][t].locks = {} /\ \A n \in st[p][t].locks : Rank(n) < Rank(Lock(p, t))
      /\ Lock(p, t) # "app" /\ InHandler(p, t) =>
           /\ \A n \in ht[p][t].locks : Rank(n) < Rank(Lock(p, t))
           /\ Lock(p, t) \in {"reader", "watch", ht[p][t].frame}
  BY <1>8, LockAsked
<1>10. Lock(p, t) # "app"
  BY <1>5, <1>9
<1>11. Rank(m) < Rank(Lock(p, t))
  <2>1. CASE ~InHandler(p, t)
    BY <1>5, <1>9, <1>10, <2>1
  <2>2. CASE InHandler(p, t) /\ m \in ht[p][t].locks
    BY <1>9, <1>10, <2>2
  <2>3. CASE InHandler(p, t) /\ m \in st[p][t].locks
    <3>1. /\ m \in {"reader", "HUP"} /\ m # ht[p][t].frame /\ ht[p][t].frame \in {"CONT", "HUP"}
          /\ "reader" \in st[p][t].locks
      BY <1>2, <1>4, <2>3, CallUnderHandler
    <3>2. Lock(p, t) # "reader"
      <4> SUFFICES ASSUME Lock(p, t) = "reader" PROVE FALSE
        OBVIOUS
      <4>1. q = p /\ u # t /\ \E n \in Excludes("reader") : Has(p, u, n)
        BY <1>8, BlocksAtLock
      <4>2. Has(p, u, "writer")
        BY <4>1 DEF Excludes
      <4>3. Has(p, t, "reader")
        BY <1>2, <1>4, <3>1, HasOfFrames, LockNames
      <4>4. u \in living[p] /\ Excluded(p)
        BY <1>2, <4>1 DEF LockInvOf, LockRunning
      <4>5. "reader" \in Locks /\ "writer" \in Excludes("reader")
        BY LockNames DEF Excludes
      <4> QED  BY <1>4, <4>1, <4>2, <4>3, <4>4, <4>5 DEF Excluded
    <3>3. Rank("reader") = 5 /\ Rank("HUP") = 7 /\ Rank("CONT") = 8 /\ Rank("watch") = 9
      BY DEF Rank
    <3>4. Lock(p, t) \in {"watch", ht[p][t].frame}
      BY <1>9, <1>10, <2>3, <3>2
    <3>5. CASE m = "reader"
      <4>1. Lock(p, t) \in {"watch", "CONT", "HUP"}
        BY <3>1, <3>4
      <4> QED  BY <3>3, <3>5, <4>1
    <3>6. CASE m = "HUP"
      <4>1. Lock(p, t) \in {"watch", "CONT"}
        BY <3>1, <3>4, <3>6
      <4> QED  BY <3>3, <3>6, <4>1
    <3> QED  BY <3>1, <3>5, <3>6
  <2> QED  BY <1>5, <2>1, <2>2, <2>3
<1>12. Rank(m) \in 1 .. 10 /\ Rank(Lock(p, t)) \in 1 .. 10
  <2>1. m \in Locks /\ Lock(p, t) \in Locks
    BY <1>8, BlocksAtLock DEF SingleLocks
  <2> QED  BY <2>1, RankRange
<1>13. WaitsFor(p, t) = MaxLockForks + Rank(Lock(p, t))
  BY <1>8 DEF WaitsFor
<1> QED  BY <1>1, <1>11, <1>12, <1>13

\* A thread that keeps another waiting waits for something of a higher rank.
LEMMA HigherWaits ==
    ASSUME NEW st, NEW ht, LockInvOf(st, ht), NEW p, NEW t, NEW q, NEW u, NEW r, NEW v,
           Blocks(p, t, q, u), Blocks(q, u, r, v),
           ~ReportsInHandler(p, t), ~ReportsInHandler(q, u), ~OwnerForks(q, u)
    PROVE  WaitsFor(q, u) > WaitsFor(p, t)
<1>1. /\ p \in LockProcesses /\ t \in LockThreads /\ q \in LockProcesses /\ u \in LockThreads
      /\ r \in LockProcesses /\ v \in LockThreads /\ LockRunning(p, t) /\ LockRunning(q, u)
      /\ LockRunning(r, v) /\ <<q, u>> \in Blockers(p, t) /\ <<r, v>> \in Blockers(q, u)
  BY DEF Blocks
<1>2. MaxLockForks \in Nat /\ q \in 0 .. MaxLockForks
  BY <1>1, LockAssumption DEF LockProcesses
<1>3. t \in living[p] /\ u \in living[q] /\ v \in living[r]
  BY <1>1 DEF LockRunning
<1>4. Do(p, t) \in {"lock", "lockFork", "lockRegion", "forkRegion", "waitBell"}
  BY WaitsForRange
<1>5. /\ WaitsFor(q, u) \in 0 .. MaxLockForks + 10
      /\ Do(q, u) \in {"lock", "lockFork", "lockRegion", "forkRegion", "waitBell"}
      /\ Do(q, u) = "waitBell" => Lock(q, u) > q /\ Lock(q, u) \in 1 .. MaxLockForks
  BY WaitsForRange
<1>6. Do(q, u) = "waitBell" => WaitsFor(q, u) = Lock(q, u)
  BY DEF WaitsFor
<1>7. Do(q, u) \in {"lockRegion", "forkRegion"} => WaitsFor(q, u) = MaxLockForks + 4
  BY DEF WaitsFor
<1>8. Do(q, u) = "lock" => WaitsFor(q, u) > MaxLockForks
  <2> SUFFICES ASSUME Do(q, u) = "lock" PROVE WaitsFor(q, u) > MaxLockForks
    OBVIOUS
  <2>1. Rank(Lock(q, u)) \in 1 .. 10
    BY BlocksAtLock, RankRange
  <2>2. WaitsFor(q, u) = MaxLockForks + Rank(Lock(q, u))
    BY DEF WaitsFor
  <2> QED  BY <1>2, <2>1, <2>2
<1>9. CASE Do(p, t) = "lockFork"
  <2>1. q = p /\ u # t /\ Has(p, u, "forkChild")
    BY <1>9, BlocksAtForkLock
  <2>2. Do(q, u) # "lockFork"
    BY <2>1, BlocksAtForkLock
  <2>3. WaitsFor(p, t) = 0
    BY <1>9 DEF WaitsFor
  <2> QED  BY <1>2, <1>5, <1>6, <1>7, <1>8, <2>2, <2>3
<1>10. CASE Do(p, t) = "waitBell"
  <2>1. PICK x \in Blockers(p, t) : x = <<q, u>>
    BY <1>1
  <2>2. x \in {<<Lock(p, t), w>> : w \in living[Lock(p, t)]}
    BY <1>1, <1>10, <2>1, WaitingDoes
  <2>3. Lock(p, t) = q
    BY <2>1, <2>2
  <2>4. q > 0
    <3>1. Lock(p, t) \in 1 .. MaxLockForks
      BY <1>10, WaitsForRange
    <3> QED  BY <2>3, <3>1
  <2>5. PICK w \in LockThreads : living[q] = {w}
    BY <1>1, <1>3, <2>4 DEF LockInvOf, ProcessBorn
  <2>6. Do(q, u) # "lock"
    <3> SUFFICES ASSUME Do(q, u) = "lock" PROVE FALSE
      OBVIOUS
    <3>1. r = q /\ v # u
      BY BlocksAtLock
    <3> QED  BY <1>3, <2>5, <3>1
  <2>7. Do(q, u) # "lockFork"
    <3> SUFFICES ASSUME Do(q, u) = "lockFork" PROVE FALSE
      OBVIOUS
    <3>1. r = q /\ v # u
      BY BlocksAtForkLock
    <3> QED  BY <1>3, <2>5, <3>1
  <2>8. WaitsFor(p, t) = q
    BY <1>10, <2>3 DEF WaitsFor
  <2> QED  BY <1>2, <1>5, <1>6, <1>7, <2>6, <2>7, <2>8
<1>11. CASE Do(p, t) \in {"lockRegion", "forkRegion"}
  <2>1. PICK x \in Blockers(p, t) : x = <<q, u>>
    BY <1>1
  <2>2. x \in RegionTaken(p)
    BY <1>1, <1>11, <2>1, WaitingDoes
  <2>3. q = region /\ Has(q, u, "app")
    BY <2>1, <2>2 DEF RegionTaken, Holders
  <2>4. WaitsFor(q, u) >= MaxLockForks + 5
    BY <2>3, AppHolder
  <2>5. WaitsFor(p, t) = MaxLockForks + 4
    BY <1>11 DEF WaitsFor
  <2> QED  BY <1>2, <1>5, <2>4, <2>5
<1>12. CASE Do(p, t) = "lock"
  <2>1. /\ q = p /\ u # t /\ Lock(p, t) \in Locks \ {"forkChild", "fork"}
        /\ \E m \in Excludes(Lock(p, t)) : Has(p, u, m)
    BY <1>12, BlocksAtLock
  <2>2. WaitsFor(p, t) = MaxLockForks + Rank(Lock(p, t))
    BY <1>12 DEF WaitsFor
  <2>3. CASE Lock(p, t) = "app"
    <3>1. Has(q, u, "app")
      BY <2>1, <2>3 DEF Excludes
    <3>2. WaitsFor(q, u) >= MaxLockForks + 4
      BY <3>1, AppHolder
    <3>3. WaitsFor(p, t) = MaxLockForks + 3
      BY <2>2, <2>3 DEF Rank
    <3> QED  BY <1>2, <1>5, <3>2, <3>3
  <2>4. CASE Lock(p, t) # "app"
    <3>1. PICK m \in Excludes(Lock(p, t)) : Has(q, u, m)
      BY <2>1
    <3>2. m \in SingleLocks \ {"fork"} /\ Rank(m) = Rank(Lock(p, t))
      <4>1. CASE Lock(p, t) \in {"reader", "writer"}
        <5>1. m \in {"reader", "writer"}
          BY <3>1, <4>1 DEF Excludes
        <5>2. Rank("reader") = 5 /\ Rank("writer") = 5
          BY DEF Rank
        <5> QED  BY <4>1, <5>1, <5>2, LockNames
      <4>2. CASE Lock(p, t) \notin {"reader", "writer"}
        <5>1. m = Lock(p, t)
          BY <3>1, <4>2 DEF Excludes
        <5> QED  BY <2>1, <2>4, <5>1 DEF SingleLocks
      <4> QED  BY <4>1, <4>2
    <3>3. t \in living[q] /\ t # u
      BY <1>3, <2>1
    <3>4. WaitsFor(q, u) > MaxLockForks + Rank(m)
      BY <3>1, <3>2, <3>3, LockHolder
    <3> QED  BY <2>2, <3>2, <3>4
  <2> QED  BY <2>3, <2>4
<1> QED  BY <1>4, <1>9, <1>10, <1>11, <1>12

----------------------------------------------------------------------------
\* The threads that wait for one another.

\* A set of numbers with a bound has a greatest.
LEMMA GreatestNumber ==
    ASSUME NEW S, NEW B \in Nat, S \subseteq 0 .. B, S # {}
    PROVE  \E m \in S : \A n \in S : n <= m
<1> DEFINE T == {B - n : n \in S}
           R == OpToRel(<, Nat)
<1>1. \A n \in S : n \in Int /\ B - n \in Nat
  OBVIOUS
<1>2. T \in SUBSET Nat /\ T # {}
  BY <1>1
<1>3. \A x, y \in Nat : y < x => <<y, x>> \in R
  BY DEF OpToRel
<1>4. IsWellFoundedOn(R, Nat)
  BY NatLessThanWellFounded
<1>5. \A n \in S : B - n \in T
  OBVIOUS
<1>6. ASSUME NEW k \in T PROVE \E m \in S : k = B - m
  OBVIOUS
<1> HIDE DEF R, T
<1>7. PICK k \in T : \A j \in T : ~(<<j, k>> \in R)
  BY <1>2, <1>4, WFMin
<1>8. PICK m \in S : k = B - m
  BY <1>6
<1>9. ASSUME NEW n \in S PROVE n <= m
  <2>1. B - n \in Nat /\ B - m \in Nat /\ n \in Int /\ m \in Int
    BY <1>1
  <2>2. ~(B - n < B - m)
    BY <1>3, <1>5, <1>7, <1>8, <2>1
  <2> QED  BY <2>1, <2>2
<1> QED  BY <1>9

\* Threads that wait for one another have one of the two reasons.
LEMMA CausedDeadlock ==
    ASSUME LockInv
    PROVE  DeadlockCauses
<1>1. PICK st, ht : LockInvOf(st, ht)
  BY DEF LockInv
<1> SUFFICES ASSUME NEW s \in Knots,
                    \A x \in s : ~ReportsInHandler(x[1], x[2]) /\ ~OwnerForks(x[1], x[2])
             PROVE  FALSE
  BY DEF DeadlockCauses
<1>2. s # {} /\ s \subseteq LockProcesses \X LockThreads /\ \A x \in s : LockRunning(x[1], x[2])
  BY DEF Knots, LiveThreads
<1>3. ASSUME NEW x \in s PROVE \E y \in s : Blocks(x[1], x[2], y[1], y[2])
  <2>1. PICK y \in s : y \in Blockers(x[1], x[2])
    BY DEF Knots
  <2>2. y = <<y[1], y[2]>>
    BY <1>2
  <2>3. <<y[1], y[2]>> \in Blockers(x[1], x[2])
    BY <2>1, <2>2
  <2> QED  BY <1>2, <2>3 DEF Blocks
<1> DEFINE W == {WaitsFor(x[1], x[2]) : x \in s}
           B == MaxLockForks + 10
<1>4. W # {} /\ B \in Nat
  BY <1>2, LockAssumption
<1>5. W \subseteq 0 .. B
  <2> SUFFICES ASSUME NEW x \in s PROVE WaitsFor(x[1], x[2]) \in 0 .. B
    OBVIOUS
  <2>1. PICK y \in s : Blocks(x[1], x[2], y[1], y[2])
    BY <1>3
  <2> QED  BY <1>1, <2>1, WaitsForRange
<1>6. PICK m \in W : \A n \in W : n <= m
  <2> HIDE DEF W, B
  <2> QED  BY <1>4, <1>5, GreatestNumber
<1>7. PICK x \in s : WaitsFor(x[1], x[2]) = m
  BY <1>6
<1>8. PICK y \in s : Blocks(x[1], x[2], y[1], y[2])
  BY <1>3
<1>9. PICK z \in s : Blocks(y[1], y[2], z[1], z[2])
  BY <1>3
<1>10. WaitsFor(y[1], y[2]) > WaitsFor(x[1], x[2])
  BY <1>1, <1>8, <1>9, HigherWaits
<1>11. WaitsFor(y[1], y[2]) \in W /\ WaitsFor(x[1], x[2]) \in W
  OBVIOUS
<1>12. \A n \in W : n \in Int
  BY <1>5
<1> HIDE DEF W, B
<1>13. WaitsFor(y[1], y[2]) <= WaitsFor(x[1], x[2])
  BY <1>6, <1>7, <1>11
<1> QED  BY <1>10, <1>11, <1>12, <1>13

\* A step of another part leaves it alone.
LEMMA LockStutterKeeps ==
    ASSUME LockInv, UNCHANGED lockVars
    PROVE  LockInv'
<1>1. PICK st, ht : LockInvOf(st, ht)
  BY DEF LockInv
<1>2. /\ calls' = calls /\ handlers' = handlers /\ held' = held /\ forkLock' = forkLock /\ region' = region
      /\ regionKept' = regionKept /\ living' = living /\ rung' = rung /\ forks' = forks /\ called' = called
      /\ lockSignals' = lockSignals
  BY DEF lockVars
<1>3. LockTypeOK' /\ LockShape'
  BY <1>1, <1>2 DEF LockInvOf, LockTypeOK, LockShape, TableOf
<1>4. \A p \in LockProcesses : \A t \in living[p] : ThreadHas(p, t, st[p][t], ht[p][t])'
  BY <1>1, <1>2 DEF LockInvOf, ThreadHas, InHandler
<1>5. \A p \in LockProcesses : Excluded(p)' /\ NotOrphaned(p)'
  BY <1>1, <1>2 DEF LockInvOf, Excluded, NotOrphaned, Has
<1>6. \A p \in LockProcesses : ForkLockNames(p, st[p])' /\ ProcessBorn(p)'
  BY <1>1, <1>2 DEF LockInvOf, ForkLockNames, ProcessBorn
<1>7. /\ TableOf(st) /\ TableOf(ht)
      /\ \A t \in living'[0] \ called' : calls'[0][t] = <<>> /\ st[0][t] = Idle
  BY <1>1, <1>2 DEF LockInvOf
<1>8. LockInvOf(st, ht)'
  BY <1>2, <1>3, <1>4, <1>5, <1>6, <1>7 DEF LockInvOf
<1> QED  BY <1>8 DEF LockInv

\* The invariant implies what the runs check.
LEMMA LockInvKept ==
    ASSUME LockInv
    PROVE  LockTypeOK /\ DeadlockCauses /\ ForkedLocksOwned
BY CausedDeadlock, OwnedForkLock DEF LockInv, LockInvOf

----------------------------------------------------------------------------
\* A daemon and its processes (Daemon)

\* The caller goes on once its server is gone, and has returned when it has answered.
DaemonInv ==
    /\ DaemonTypeOK
    /\ caller \in {"receiving", "sending", "returned"} => ServerGone
    /\ answered => caller = "returned"

LEMMA DaemonInitInv == DaemonInit => DaemonInv
BY DEF DaemonInit, DaemonInv, DaemonTypeOK

LEMMA CallerStepInv ==
    ASSUME DaemonInv, CallerStep
    PROVE  DaemonInv'
<1> USE DEF DaemonInv, DaemonTypeOK, ServerGone, DaemonGone
<1>1. CASE ForkServer
  BY <1>1 DEF ForkServer
<1>2. CASE EndFork
  BY <1>2 DEF EndFork
<1>3. CASE ForkFails
  BY <1>3 DEF ForkFails
<1>4. CASE ReapServer
  BY <1>4 DEF ReapServer
<1>5. CASE RecvPid
  BY <1>5 DEF RecvPid
<1>6. CASE SendAnswer
  BY <1>6 DEF SendAnswer
<1> QED  BY <1>1, <1>2, <1>3, <1>4, <1>5, <1>6 DEF CallerStep

LEMMA ServerStepInv ==
    ASSUME DaemonInv, ServerStep
    PROVE  DaemonInv'
<1> USE DEF DaemonInv, DaemonTypeOK, ServerGone, DaemonGone, CallerGone
<1>1. CASE ForkDaemon
  BY <1>1 DEF ForkDaemon
<1>2. CASE StopDaemon
  BY <1>2 DEF StopDaemon
<1>3. CASE LookAtDaemon
  BY <1>3 DEF LookAtDaemon
<1>4. CASE LeaveServer
  BY <1>4 DEF LeaveServer, Orphan
<1> QED  BY <1>1, <1>2, <1>3, <1>4 DEF ServerStep

LEMMA DaemonStepInv ==
    ASSUME DaemonInv, DaemonStep \/ EndDaemon
    PROVE  DaemonInv'
<1> USE DEF DaemonInv, DaemonTypeOK, ServerGone, DaemonGone, CallerGone
<1>1. CASE TakeStop
  BY <1>1 DEF TakeStop
<1>2. CASE WatchHangUp
  BY <1>2 DEF WatchHangUp
<1>3. CASE WaitHangUp
  BY <1>3 DEF WaitHangUp
<1>4. CASE SendPid
  BY <1>4 DEF SendPid
<1>5. CASE RecvAnswer
  BY <1>5 DEF RecvAnswer
<1>6. CASE EndDaemon
  BY <1>6 DEF EndDaemon
<1> QED  BY <1>1, <1>2, <1>3, <1>4, <1>5, <1>6 DEF DaemonStep

LEMMA DaemonSignalInv ==
    ASSUME DaemonInv, KillProcess \/ ContinueDaemon \/ HangUpDaemon
    PROVE  DaemonInv'
<1> USE DEF DaemonInv, DaemonTypeOK, ServerGone, DaemonGone, CallerGone
<1>1. CASE KillProcess
  BY <1>1 DEF KillProcess, Orphan
<1>2. CASE ContinueDaemon
  BY <1>2 DEF ContinueDaemon
<1>3. CASE HangUpDaemon
  BY <1>3 DEF HangUpDaemon
<1> QED  BY <1>1, <1>2, <1>3

LEMMA DaemonNextInv ==
    ASSUME DaemonInv, DaemonNext
    PROVE  DaemonInv'
BY CallerStepInv, ServerStepInv, DaemonStepInv, DaemonSignalInv DEF DaemonNext

LEMMA DaemonStutterInv ==
    ASSUME DaemonInv, UNCHANGED daemonVars
    PROVE  DaemonInv'
BY DEF DaemonInv, DaemonTypeOK, ServerGone, daemonVars

----------------------------------------------------------------------------
\* Threads that abort their process (Abort)

\* A thread that raises the signal has attempts left before the last.
AbortInv ==
    /\ AbortTypeOK
    /\ \A t \in AbortThreads :
         doing[t] \in {"unmask", "default", "raise"} /\ ~ended => tries[t] < MaxRaises

LEMMA AbortInitInv == AbortInit => AbortInv
<1> SUFFICES ASSUME AbortInit PROVE AbortInv
  OBVIOUS
<1>1. \A t \in AbortThreads : doing[t] = "work"
  BY DEF AbortInit
<1>2. doing \in [AbortThreads -> {"work"}] /\ tries \in [AbortThreads -> {0}]
  BY DEF AbortInit
<1>3. 0 \in 0 .. MaxRaises
  BY AbortAssumption
<1>4. /\ reading \cup writing \cup acting \cup masked \subseteq AbortThreads
      /\ action \in {"default", "ignore", "dispatch"} /\ {trigger, unable, ended} \subseteq BOOLEAN
  BY DEF AbortInit
<1>5. AbortTypeOK
  BY <1>2, <1>3, <1>4 DEF AbortTypeOK
<1> QED  BY <1>1, <1>5 DEF AbortInv

\* The threads that work, and those that change the action or fork.
LEMMA AbortWorkInv ==
    ASSUME AbortInv, NEW t \in AbortThreads,
           BeginAction(t) \/ EndAction(t) \/ BeginFork(t) \/ EndForking(t) \/ TakeSignal(t)
             \/ LeaveAction(t)
    PROVE  AbortInv'
<1> USE DEF AbortInv, AbortTypeOK, At, Goes, Killing, Entering
<1>1. CASE BeginAction(t)
  BY <1>1 DEF BeginAction
<1>2. CASE EndAction(t)
  BY <1>2 DEF EndAction
<1>3. CASE BeginFork(t)
  BY <1>3 DEF BeginFork
<1>4. CASE EndForking(t)
  BY <1>4 DEF EndForking
<1>5. CASE TakeSignal(t)
  BY <1>5 DEF TakeSignal
<1>6. CASE LeaveAction(t)
  BY <1>6 DEF LeaveAction
<1> QED  BY <1>1, <1>2, <1>3, <1>4, <1>5, <1>6

\* The dispatcher, which begins anew with the attempts, and the abort.
LEMMA AbortKillInv ==
    ASSUME AbortInv, NEW t \in AbortThreads, CallAbort(t) \/ KillStep(t)
    PROVE  AbortInv'
<1> USE AbortAssumption DEF AbortInv, AbortTypeOK, At, Goes, Killing, Entering
<1>1. CASE CallAbort(t)
  BY <1>1 DEF CallAbort
<1>2. CASE ShareVector(t)
  BY <1>2 DEF ShareVector
<1>3. CASE LockAction(t)
  BY <1>3 DEF LockAction
<1>4. CASE LookAtTrigger(t)
  BY <1>4 DEF LookAtTrigger
<1>5. CASE Unmask(t)
  BY <1>5 DEF Unmask
<1>6. CASE ResetAction(t)
  BY <1>6 DEF ResetAction, SetDefault
<1>7. CASE RaiseSignal(t)
  <2>1. tries[t] \in 0 .. MaxRaises /\ tries[t] < MaxRaises /\ MaxRaises \in Nat
    BY <1>7 DEF RaiseSignal
  <2>2. tries' = [tries EXCEPT ![t] = tries[t] + 1] /\ tries' \in [AbortThreads -> 0 .. MaxRaises]
    BY <1>7, <2>1 DEF RaiseSignal
  <2>3. ~LastTry(t) => tries[t] + 1 < MaxRaises
    BY <2>1 DEF LastTry
  <2>4. CASE t \in masked \/ action = "ignore"
    <3>1. doing' = [doing EXCEPT ![t] = IF LastTry(t) THEN "last" ELSE "default"] /\ UNCHANGED <<masked, ended>>
      BY <1>7, <2>4 DEF RaiseSignal, Raised
    <3> QED  BY <1>7, <2>2, <2>3, <3>1 DEF RaiseSignal
  <2>5. CASE t \notin masked /\ action = "default"
    <3>1. ended' = TRUE /\ UNCHANGED <<doing, masked>>
      BY <1>7, <2>5 DEF RaiseSignal, Raised
    <3> QED  BY <1>7, <2>2, <3>1 DEF RaiseSignal
  <2>6. CASE t \notin masked /\ action = "dispatch"
    <3>1. doing' = [doing EXCEPT ![t] = "enter"] /\ masked' = masked \cup {t} /\ UNCHANGED ended
      BY <1>7, <2>6 DEF RaiseSignal, Raised
    <3> QED  BY <1>7, <2>2, <3>1 DEF RaiseSignal
  <2> QED  BY <2>4, <2>5, <2>6
<1>8. CASE RaiseLast(t)
  BY <1>8 DEF RaiseLast, Raised
<1>9. CASE RaiseKill(t)
  BY <1>9 DEF RaiseKill
<1> QED  BY <1>1, <1>2, <1>3, <1>4, <1>5, <1>6, <1>7, <1>8, <1>9 DEF KillStep

LEMMA AbortNextInv ==
    ASSUME AbortInv, AbortNext
    PROVE  AbortInv'
BY AbortWorkInv, AbortKillInv DEF AbortNext

LEMMA AbortStutterInv ==
    ASSUME AbortInv, UNCHANGED abortVars
    PROVE  AbortInv'
BY DEF AbortInv, AbortTypeOK, abortVars

----------------------------------------------------------------------------
\* The parts together (MCProcesses)

\* The part in focus keeps its invariant.
PartsInv ==
    /\ focus = "shared" => SharedInv
    /\ focus = "threads" => LifeInv
    /\ focus = "children" => ChildInv
    /\ focus = "watches" => WatchInv
    /\ focus = "locks" => LockInv
    /\ focus = "daemon" => DaemonInv
    /\ focus = "abort" => AbortInv

LEMMA ProcessesInitInv == ProcessesInit => PartsInv
BY SharedInitInv, LifeInitInv, ChildInitInv, WatchInitInv, LockInitKeeps, DaemonInitInv,
   AbortInitInv DEF ProcessesInit, PartsInv

LEMMA ProcessesNextInv == PartsInv /\ [ProcessesNext]_processesVars => PartsInv'
<1> SUFFICES ASSUME PartsInv, [ProcessesNext]_processesVars PROVE PartsInv'
  OBVIOUS
<1>1. UNCHANGED focus
  BY DEF ProcessesNext, processesVars, LockRun, WatchRun, SharedRun, ThreadRun,
         DaemonRun, AbortRun, ChildRun, Others
<1>2. CASE focus = "shared"
  <2>1. SharedNext \/ UNCHANGED sharedVars
    BY <1>2 DEF ProcessesNext, processesVars, LockRun, WatchRun, SharedRun,
                ThreadRun, DaemonRun, AbortRun, ChildRun
  <2> QED  BY <1>1, <1>2, <2>1, SharedNextInv, SharedStutterInv DEF PartsInv
<1>3. CASE focus = "threads"
  <2>1. LifeNext \/ UNCHANGED threadVars
    BY <1>3 DEF ProcessesNext, processesVars, LockRun, WatchRun, SharedRun,
                ThreadRun, DaemonRun, AbortRun, ChildRun
  <2> QED  BY <1>1, <1>3, <2>1, LifeNextInv, LifeStutterInv DEF PartsInv
<1>4. CASE focus = "children"
  <2>1. ChildNext \/ UNCHANGED childVars
    BY <1>4 DEF ProcessesNext, processesVars, LockRun, WatchRun, SharedRun,
                ThreadRun, DaemonRun, AbortRun, ChildRun
  <2> QED  BY <1>1, <1>4, <2>1, ChildNextInv, ChildStutterInv DEF PartsInv
<1>5. CASE focus = "watches"
  <2>1. WatchNext \/ UNCHANGED watchVars
    BY <1>5 DEF ProcessesNext, processesVars, LockRun, WatchRun, SharedRun,
                ThreadRun, DaemonRun, AbortRun, ChildRun
  <2> QED  BY <1>1, <1>5, <2>1, WatchNextInv, WatchStutterInv DEF PartsInv
<1>6. CASE focus = "locks"
  <2>1. LockNext \/ UNCHANGED lockVars
    BY <1>6 DEF ProcessesNext, processesVars, LockRun, WatchRun, SharedRun,
                ThreadRun, DaemonRun, AbortRun, ChildRun
  <2> QED  BY <1>1, <1>6, <2>1, LockNextKeeps, LockStutterKeeps DEF PartsInv
<1>7. CASE focus = "daemon"
  <2>1. DaemonNext \/ UNCHANGED daemonVars
    BY <1>7 DEF ProcessesNext, processesVars, LockRun, WatchRun, SharedRun,
                ThreadRun, DaemonRun, AbortRun, ChildRun
  <2> QED  BY <1>1, <1>7, <2>1, DaemonNextInv, DaemonStutterInv DEF PartsInv
<1>8. CASE focus = "abort"
  <2>1. AbortNext \/ UNCHANGED abortVars
    BY <1>8 DEF ProcessesNext, processesVars, LockRun, WatchRun, SharedRun,
                ThreadRun, DaemonRun, AbortRun, ChildRun
  <2> QED  BY <1>1, <1>8, <2>1, AbortNextInv, AbortStutterInv DEF PartsInv
<1> QED  BY <1>1, <1>2, <1>3, <1>4, <1>5, <1>6, <1>7, <1>8 DEF PartsInv

\* The invariant of each part holds while the part runs.
THEOREM Invariance == ProcessesSpec => []PartsInv
<1> QED  BY ProcessesInitInv, ProcessesNextInv, PTL DEF ProcessesSpec

\* A shared mutex whose owner died is repaired by its next owner alone, unless the owner's
\* attempt had timed out, and whoever takes it finds whole what it protects (thread.c,
\* ert_lockSharedMutex()); a thread reads the stack of its creator only while that waits,
\* but for a spurious wakeup, and closing it aborts only over a cancellation that was not
\* reported (ert_createThread(), ert_closeThread()); a child that a thread was told of
\* stays until it is reaped, once (process.c, ert_waitProcessChildren(),
\* ert_reapProcessChild()).
THEOREM ThreadsSafe == ProcessesSpec => []ThreadsKept
<1>1. PartsInv => ThreadsKept
  BY DEF PartsInv, ThreadsKept, SharedInv, LifeInv, ChildInv
<1> QED  BY Invariance, <1>1, PTL

\* Once an unwatch has succeeded, no thread calls the method any more, however late its signal
\* was dispatched, and the signal has the action again that the program gave it; assertions
\* fail for the known reasons only (process.c, changeSigAction_(), ert_unwatchProcessClock()
\* and the like; jobcontrol.c).
THEOREM WatchesSafe == ProcessesSpec => []WatchesKept
<1>1. PartsInv => WatchesKept
  BY WatchInvSays DEF PartsInv, WatchesKept, WatchesEnd
<1> QED  BY Invariance, <1>1, PTL

\* Threads and processes wait for one another over the locks that forks, signal handlers and
\* reports take for the two known reasons only, whatever they call and however their steps
\* interleave, and a child owns each lock that it finds locked but those of the watch methods
\* (process.c, prepareFork_(), completeFork_(), changeSigAction_(), runSigHandler_(),
\* ert_acquireProcessAppLock(), ert_forkProcessChild()).
THEOREM LocksSafe == ProcessesSpec => []LocksKept
<1>1. PartsInv => LocksKept
  BY LockInvKept DEF PartsInv, LocksKept
<1> QED  BY Invariance, <1>1, PTL

\* A daemon runs its method when its guardian is gone and its caller has returned: neither
\* for a caller that failed, nor under a guardian that may still stop it (process.c,
\* ert_forkProcessDaemon()).
THEOREM DaemonSafe == ProcessesSpec => [](focus = "daemon" => DaemonOrphaned)
<1>1. PartsInv => (focus = "daemon" => DaemonOrphaned)
  BY DEF PartsInv, DaemonInv, DaemonOrphaned
<1> QED  BY Invariance, <1>1, PTL

\* Every part keeps its types: no lock is taken too often or given back too often, and the
\* attempts of an abort are counted up to the last (process.c, killProcess_()).
THEOREM TypeCorrect == ProcessesSpec => []ProcessTypesOK
<1>1. PartsInv => ProcessTypesOK
  BY LockInvKept
     DEF PartsInv, ProcessTypesOK, WatchInv, SharedInv, LifeInv, DaemonInv, AbortInv, ChildInv
<1> QED  BY Invariance, <1>1, PTL
=============================================================================
