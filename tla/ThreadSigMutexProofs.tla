------------------------ MODULE ThreadSigMutexProofs ------------------------
(***************************************************************************)
(* Proofs about ThreadSigMutex, for every set of threads, every nesting    *)
(* depth and every number of calls, signals and spurious wakeups.  Inv is  *)
(* inductive: one lemma shows it for each action, NextInv puts them        *)
(* together, and the properties are consequences of Inv.                   *)
(*                                                                         *)
(* In each lemma <1>0 says what the running context of the thread is,      *)
(* <1>a what the guard of the action gives, <1>b what the action changes,  *)
(* element by element, and <1>c what it leaves alone; the conjuncts of     *)
(* Inv' follow from these facts alone.                                     *)
(***************************************************************************)
EXTENDS ThreadSigMutex, TLAPS

\* What the proofs need to know of contexts; how they are built is not needed.
FrameFacts(t) ==
    /\ level[t] \in {0, 1}
    /\ Self(t) \in Contexts
    /\ NoContext \notin Contexts
    /\ \A u \in Threads, l \in {0, 1} :
          /\ Frame(u, l) \in Contexts
          /\ Frame(u, l) = Self(t) <=> u = t /\ l = level[t]

\* Every thread has two contexts, and one of them is running.
LEMMA Frames ==
    ASSUME TypeOK, NEW t \in Threads
    PROVE  /\ FrameFacts(t)
           /\ \A c \in Contexts : \E u \in Threads, l \in {0, 1} : c = Frame(u, l)
BY ThreadsAssumption
   DEF TypeOK, Self, Contexts, Frame, NoContext, FrameFacts

\* The context that has taken the lock is the owner, and the only one.
LEMMA TheHolder ==
    ASSUME Inv, NEW t \in Threads, held[Self(t)] > 0
    PROVE  /\ mLocked = held[Self(t)] /\ mOwner = t
           /\ mMask <=> UsualMask(t, level[t])
           /\ \A c \in Contexts : c # Self(t) => held[c] = 0
<1>1. level[t] \in {0, 1} /\ Self(t) = Frame(t, level[t])
  BY DEF Inv, TypeOK, Self
<1>2. mLocked = held[Self(t)] /\ mOwner = t /\ (mMask <=> UsualMask(t, level[t]))
  BY <1>1 DEF Inv, OwnerInv, TypeOK, UsualMask
<1>3. ASSUME NEW u \in Threads, NEW l \in {0, 1}, Frame(u, l) # Self(t)
      PROVE  held[Frame(u, l)] = 0
  <2>1. Frame(u, l) \in Contexts /\ held[Frame(u, l)] \in Nat
    BY Frames DEF FrameFacts, Inv, TypeOK
  <2>2. CASE u # t
    BY <2>1, <2>2, <1>2 DEF Inv, OwnerInv, TypeOK, UsualMask
  <2>3. CASE u = t
    BY <2>3, <1>1, <1>3 DEF Inv, HandlerInv
  <2> QED  BY <2>2, <2>3
<1> QED  BY <1>2, <1>3, Frames DEF Inv

\* The running context of the owner is the one that has taken the lock.
LEMMA OwnerRuns ==
    ASSUME Inv, NEW t \in Threads, mLocked # 0, mOwner = t
    PROVE  held[Self(t)] > 0
<1>1. PICK c \in Contexts : held[c] > 0
  BY DEF Inv, OwnerInv
<1>2. PICK u \in Threads, l \in {0, 1} : c = Frame(u, l)
  BY Frames DEF Inv
<1>3. u = t
  BY <1>1, <1>2 DEF Inv, OwnerInv, TypeOK, UsualMask
<1>4. level[t] = l
  BY <1>1, <1>2, <1>3 DEF Inv, HandlerInv, TypeOK
<1> QED  BY <1>1, <1>2, <1>3, <1>4 DEF Self

\* What a thread holds, its running context holds.
LEMMA HeldTogether ==
    ASSUME Inv, NEW t \in Threads, HeldBy(t) > 0
    PROVE  held[Self(t)] > 0 /\ HeldBy(t) = held[Self(t)]
<1>1. level[t] \in {0, 1} /\ Self(t) = Frame(t, level[t])
      /\ held[Frame(t, 0)] \in Nat /\ held[Frame(t, 1)] \in Nat
  BY Frames DEF FrameFacts, Self, Inv, TypeOK
<1> QED  BY <1>1 DEF HeldBy, Inv, HandlerInv

\* Blocking the signals keeps the mask of the caller for the unlock.
LEMMA PushMaskStep ==
    ASSUME Inv, NEW t \in Threads, PushMask(t)
    PROVE  Inv'
<1> USE DEF Inv, FrameFacts
<1>0. FrameFacts(t)
  BY Frames
<1>a. pc[Self(t)] = "run" /\ held[Self(t)] < MaxDepth
  BY DEF PushMask, At, MustWait
<1>b. /\ \A c \in Contexts : pc'[c] = IF c = Self(t) THEN "enter" ELSE pc[c]
      /\ (\A c \in Contexts : c # Self(t) => (saved'[c] <=> saved[c])) /\ (saved'[Self(t)] <=> masked[t])
      /\ \A u \in Threads : masked'[u] <=> masked[u] \/ u = t
  BY <1>0 DEF PushMask, GoTo, TakeMutex, DropMutex, TypeOK, Waiting
<1>c. mutex' = mutex /\ mLocked' = mLocked /\ mOwner' = mOwner /\ mMask' = mMask
      /\ level' = level /\ held' = held
  BY DEF PushMask, counters
<1>1. TypeOK'
  BY <1>0, BoundsAssumption DEF PushMask, At, GoTo, TakeMutex, DropMutex,
     counters, TypeOK, Places, InMutex, Waiting, PlaceInv
<1>2. MutexInv'
  BY <1>0, <1>a, <1>b, <1>c DEF MutexInv, InMutex
<1>3. HandlerInv'
  BY <1>0, <1>a, <1>b, <1>c DEF HandlerInv, TypeOK, MaskInv, SavedInv,
     PlaceInv, UsualMask, Outside
<1>4. MaskInv'
  BY <1>0, <1>a, <1>b, <1>c DEF MaskInv, HandlerInv, SavedInv, OwnerInv,
     PlaceInv, TypeOK, UsualMask, Outside
<1>5. SavedInv'
  BY <1>0, <1>a, <1>b, <1>c DEF SavedInv, MaskInv, OwnerInv, PlaceInv,
     TypeOK, UsualMask, Outside
<1>6. OwnerInv'
  BY <1>c DEF OwnerInv
<1>7. PlaceInv'
  BY <1>0, <1>a, <1>b, <1>c DEF PlaceInv, OwnerInv, HandlerInv, TypeOK
<1>8. QueryInv'
  BY <1>0, <1>a, <1>b, <1>c DEF QueryInv, TypeOK
<1>9. NoLostWakeup'
  BY <1>0, <1>a, <1>b, <1>c DEF NoLostWakeup, Waiting, OwnerInv, TypeOK
<1> QED  BY <1>1, <1>2, <1>3, <1>4, <1>5, <1>6, <1>7, <1>8,
        <1>9

\* From here on the context is the only one inside the pthread mutex.
LEMMA LockMutexStep ==
    ASSUME Inv, NEW t \in Threads, LockMutex(t)
    PROVE  Inv'
<1> USE DEF Inv, FrameFacts
<1>0. FrameFacts(t)
  BY Frames
<1>a. pc[Self(t)] = "enter"
  BY DEF LockMutex, At, MustWait
<1>b. /\ mutex = NoContext /\ mutex' = Self(t)
      /\ \A c \in Contexts : pc'[c] = IF c = Self(t) THEN "test" ELSE pc[c]
  BY <1>0 DEF LockMutex, GoTo, TakeMutex, DropMutex, TypeOK, Waiting
<1>c. mLocked' = mLocked /\ mOwner' = mOwner /\ mMask' = mMask /\ masked' =
      masked /\ level' = level /\ saved' = saved /\ held' = held
  BY DEF LockMutex, counters
<1>1. TypeOK'
  BY <1>0, BoundsAssumption DEF LockMutex, At, GoTo, TakeMutex, DropMutex,
     counters, TypeOK, Places, InMutex, Waiting, PlaceInv
<1>2. MutexInv'
  BY <1>0, <1>a, <1>b, <1>c DEF MutexInv, InMutex
<1>3. HandlerInv'
  BY <1>0, <1>a, <1>b, <1>c DEF HandlerInv, TypeOK, MaskInv, SavedInv,
     PlaceInv, UsualMask, Outside
<1>4. MaskInv'
  BY <1>0, <1>a, <1>b, <1>c DEF MaskInv, HandlerInv, SavedInv, OwnerInv,
     PlaceInv, TypeOK, UsualMask, Outside
<1>5. SavedInv'
  BY <1>0, <1>a, <1>b, <1>c DEF SavedInv, MaskInv, OwnerInv, PlaceInv,
     TypeOK, UsualMask, Outside
<1>6. OwnerInv'
  BY <1>c DEF OwnerInv
<1>7. PlaceInv'
  BY <1>0, <1>a, <1>b, <1>c DEF PlaceInv, OwnerInv, HandlerInv, TypeOK
<1>8. QueryInv'
  BY <1>0, <1>a, <1>b, <1>c DEF QueryInv, TypeOK
<1>9. NoLostWakeup'
  BY <1>0, <1>a, <1>b, <1>c DEF NoLostWakeup, Waiting, OwnerInv, TypeOK
<1> QED  BY <1>1, <1>2, <1>3, <1>4, <1>5, <1>6, <1>7, <1>8,
        <1>9

\* Nothing but the place changes for one who waits; the lock is not free.
LEMMA WaitCondStep ==
    ASSUME Inv, NEW t \in Threads, WaitCond(t)
    PROVE  Inv'
<1> USE DEF Inv, FrameFacts
<1>0. FrameFacts(t)
  BY Frames
<1>a. pc[Self(t)] \in {"test", "retest"} /\ mLocked # 0
  BY DEF WaitCond, At, MustWait
<1>b. /\ mutex' = NoContext
      /\ \A c \in Contexts : pc'[c] = IF c = Self(t) THEN "wait" ELSE pc[c]
  BY <1>0 DEF WaitCond, GoTo, TakeMutex, DropMutex, TypeOK, Waiting
<1>c. mLocked' = mLocked /\ mOwner' = mOwner /\ mMask' = mMask /\ masked' =
      masked /\ level' = level /\ saved' = saved /\ held' = held
  BY DEF WaitCond, counters
<1>1. TypeOK'
  BY <1>0, BoundsAssumption DEF WaitCond, At, GoTo, TakeMutex, DropMutex,
     counters, TypeOK, Places, InMutex, Waiting, PlaceInv
<1>2. MutexInv'
  BY <1>0, <1>a, <1>b, <1>c DEF MutexInv, InMutex
<1>3. HandlerInv'
  BY <1>0, <1>a, <1>b, <1>c DEF HandlerInv, TypeOK, MaskInv, SavedInv,
     PlaceInv, UsualMask, Outside
<1>4. MaskInv'
  BY <1>0, <1>a, <1>b, <1>c DEF MaskInv, HandlerInv, SavedInv, OwnerInv,
     PlaceInv, TypeOK, UsualMask, Outside
<1>5. SavedInv'
  BY <1>0, <1>a, <1>b, <1>c DEF SavedInv, MaskInv, OwnerInv, PlaceInv,
     TypeOK, UsualMask, Outside
<1>6. OwnerInv'
  BY <1>c DEF OwnerInv
<1>7. PlaceInv'
  BY <1>0, <1>a, <1>b, <1>c DEF PlaceInv, OwnerInv, HandlerInv, TypeOK
<1>8. QueryInv'
  BY <1>0, <1>a, <1>b, <1>c DEF QueryInv, TypeOK
<1>9. NoLostWakeup'
  BY <1>0, <1>a, <1>b, <1>c DEF NoLostWakeup, Waiting, OwnerInv, TypeOK
<1> QED  BY <1>1, <1>2, <1>3, <1>4, <1>5, <1>6, <1>7, <1>8,
        <1>9

\* A wakeup that nobody signalled does no harm.
LEMMA SpuriousWakeupStep ==
    ASSUME Inv, NEW t \in Threads, SpuriousWakeup(t)
    PROVE  Inv'
<1> USE DEF Inv, FrameFacts
<1>0. FrameFacts(t)
  BY Frames
<1>a. pc[Self(t)] = "wait"
  BY DEF SpuriousWakeup, At, MustWait
<1>b. /\ \A c \in Contexts : pc'[c] = IF c = Self(t) THEN "wake" ELSE pc[c]
  BY <1>0 DEF SpuriousWakeup, GoTo, TakeMutex, DropMutex, TypeOK, Waiting
<1>c. mutex' = mutex /\ mLocked' = mLocked /\ mOwner' = mOwner /\ mMask' = mMask
      /\ masked' = masked /\ level' = level /\ saved' = saved /\ held' = held
  BY DEF SpuriousWakeup, counters
<1>1. TypeOK'
  BY <1>0, BoundsAssumption DEF SpuriousWakeup, At, GoTo, TakeMutex,
     DropMutex, counters, TypeOK, Places, InMutex, Waiting, PlaceInv
<1>2. MutexInv'
  BY <1>0, <1>a, <1>b, <1>c DEF MutexInv, InMutex
<1>3. HandlerInv'
  BY <1>0, <1>a, <1>b, <1>c DEF HandlerInv, TypeOK, MaskInv, SavedInv,
     PlaceInv, UsualMask, Outside
<1>4. MaskInv'
  BY <1>0, <1>a, <1>b, <1>c DEF MaskInv, HandlerInv, SavedInv, OwnerInv,
     PlaceInv, TypeOK, UsualMask, Outside
<1>5. SavedInv'
  BY <1>0, <1>a, <1>b, <1>c DEF SavedInv, MaskInv, OwnerInv, PlaceInv,
     TypeOK, UsualMask, Outside
<1>6. OwnerInv'
  BY <1>c DEF OwnerInv
<1>7. PlaceInv'
  BY <1>0, <1>a, <1>b, <1>c DEF PlaceInv, OwnerInv, HandlerInv, TypeOK
<1>8. QueryInv'
  BY <1>0, <1>a, <1>b, <1>c DEF QueryInv, TypeOK
<1>9. NoLostWakeup'
  BY <1>0, <1>a, <1>b, <1>c DEF NoLostWakeup, Waiting, OwnerInv, TypeOK
<1> QED  BY <1>1, <1>2, <1>3, <1>4, <1>5, <1>6, <1>7, <1>8,
        <1>9

\* Back from the condition variable, as after LockMutex.
LEMMA RelockMutexStep ==
    ASSUME Inv, NEW t \in Threads, RelockMutex(t)
    PROVE  Inv'
<1> USE DEF Inv, FrameFacts
<1>0. FrameFacts(t)
  BY Frames
<1>a. pc[Self(t)] = "wake"
  BY DEF RelockMutex, At, MustWait
<1>b. /\ mutex = NoContext /\ mutex' = Self(t)
      /\ \A c \in Contexts : pc'[c] = IF c = Self(t) THEN "retest" ELSE pc[c]
  BY <1>0 DEF RelockMutex, GoTo, TakeMutex, DropMutex, TypeOK, Waiting
<1>c. mLocked' = mLocked /\ mOwner' = mOwner /\ mMask' = mMask /\ masked' =
      masked /\ level' = level /\ saved' = saved /\ held' = held
  BY DEF RelockMutex, counters
<1>1. TypeOK'
  BY <1>0, BoundsAssumption DEF RelockMutex, At, GoTo, TakeMutex, DropMutex,
     counters, TypeOK, Places, InMutex, Waiting, PlaceInv
<1>2. MutexInv'
  BY <1>0, <1>a, <1>b, <1>c DEF MutexInv, InMutex
<1>3. HandlerInv'
  BY <1>0, <1>a, <1>b, <1>c DEF HandlerInv, TypeOK, MaskInv, SavedInv,
     PlaceInv, UsualMask, Outside
<1>4. MaskInv'
  BY <1>0, <1>a, <1>b, <1>c DEF MaskInv, HandlerInv, SavedInv, OwnerInv,
     PlaceInv, TypeOK, UsualMask, Outside
<1>5. SavedInv'
  BY <1>0, <1>a, <1>b, <1>c DEF SavedInv, MaskInv, OwnerInv, PlaceInv,
     TypeOK, UsualMask, Outside
<1>6. OwnerInv'
  BY <1>c DEF OwnerInv
<1>7. PlaceInv'
  BY <1>0, <1>a, <1>b, <1>c DEF PlaceInv, OwnerInv, HandlerInv, TypeOK
<1>8. QueryInv'
  BY <1>0, <1>a, <1>b, <1>c DEF QueryInv, TypeOK
<1>9. NoLostWakeup'
  BY <1>0, <1>a, <1>b, <1>c DEF NoLostWakeup, Waiting, OwnerInv, TypeOK
<1> QED  BY <1>1, <1>2, <1>3, <1>4, <1>5, <1>6, <1>7, <1>8,
        <1>9

\* The taker was the owner before or nobody was; if it is the first lock of
\* the thread, its own mask goes into the lock.
LEMMA TakeStep ==
    ASSUME Inv, NEW t \in Threads, Take(t)
    PROVE  Inv'
<1> USE DEF Inv, FrameFacts
<1>0. FrameFacts(t)
  BY Frames
<1>a. pc[Self(t)] \in {"test", "retest"} /\ (mLocked = 0 \/ mOwner = t)
  BY DEF Take, At, MustWait
<1>b. /\ mLocked' = mLocked + 1
      /\ mLocked' = 1 => mMask' = saved[Self(t)] /\ mOwner' = t
      /\ mLocked' # 1 => mMask' = mMask /\ mOwner' = mOwner
      /\ \A c \in Contexts : held'[c] = IF c = Self(t) THEN held[c] + 1 ELSE held[c]
      /\ \A c \in Contexts : pc'[c] = IF c = Self(t) THEN "taken" ELSE pc[c]
  BY <1>0 DEF Take, GoTo, TakeMutex, DropMutex, TypeOK, Waiting
<1>c. mutex' = mutex /\ masked' = masked /\ level' = level /\ saved' = saved
  BY DEF Take, counters
<1>e. \A c \in Contexts : \E u \in Threads, l \in {0, 1} : c = Frame(u, l)
  BY Frames
<1>d. /\ mLocked = held[Self(t)]
      /\ mLocked # 0 => mOwner = t
      /\ mLocked # 0 => (mMask <=> UsualMask(t, level[t]))
      /\ \A c \in Contexts : c # Self(t) => held[c] = 0
  <2>1. CASE mLocked = 0
    BY <2>1, <1>0, <1>e DEF OwnerInv, TypeOK, UsualMask
  <2>2. CASE mLocked # 0
    BY <2>2, <1>a, OwnerRuns, TheHolder
  <2> QED  BY <2>1, <2>2
<1>1. TypeOK'
  BY <1>0, <1>a, <1>d, BoundsAssumption DEF Take, At, GoTo, TakeMutex,
     DropMutex, counters, TypeOK, Places, InMutex, Waiting, PlaceInv
<1>2. MutexInv'
  BY <1>0, <1>a, <1>b, <1>c, <1>d DEF MutexInv, InMutex
<1>3. HandlerInv'
  BY <1>0, <1>a, <1>b, <1>c, <1>d DEF HandlerInv, TypeOK, MaskInv, SavedInv,
     PlaceInv, UsualMask, Outside
<1>4. MaskInv'
  BY <1>0, <1>a, <1>b, <1>c, <1>d DEF MaskInv, HandlerInv, SavedInv,
     OwnerInv, PlaceInv, TypeOK, UsualMask, Outside
<1>5. SavedInv'
  BY <1>0, <1>a, <1>b, <1>c, <1>d DEF SavedInv, MaskInv, OwnerInv, PlaceInv,
     TypeOK, UsualMask, Outside
<1>6. OwnerInv'
  BY <1>0, <1>a, <1>b, <1>c, <1>d DEF OwnerInv, HandlerInv, PlaceInv,
     SavedInv, TypeOK, UsualMask
<1>7. PlaceInv'
  BY <1>0, <1>a, <1>b, <1>c, <1>d DEF PlaceInv, OwnerInv, HandlerInv, TypeOK
<1>8. QueryInv'
  BY <1>0, <1>a, <1>b, <1>c, <1>d DEF QueryInv, TypeOK
<1>9. NoLostWakeup'
  BY <1>0, <1>a, <1>b, <1>c, <1>d DEF NoLostWakeup, Waiting, OwnerInv, TypeOK
<1> QED  BY <1>1, <1>2, <1>3, <1>4, <1>5, <1>6, <1>7, <1>8,
        <1>9

\* The lock is taken, the pthread mutex given back.
LEMMA UnlockMutexStep ==
    ASSUME Inv, NEW t \in Threads, UnlockMutex(t)
    PROVE  Inv'
<1> USE DEF Inv, FrameFacts
<1>0. FrameFacts(t)
  BY Frames
<1>a. pc[Self(t)] = "taken"
  BY DEF UnlockMutex, At, MustWait
<1>b. /\ mutex' = NoContext
      /\ \A c \in Contexts : pc'[c] = IF c = Self(t) THEN "acquired" ELSE pc[c]
  BY <1>0 DEF UnlockMutex, GoTo, TakeMutex, DropMutex, TypeOK, Waiting
<1>c. mLocked' = mLocked /\ mOwner' = mOwner /\ mMask' = mMask /\ masked' =
      masked /\ level' = level /\ saved' = saved /\ held' = held
  BY DEF UnlockMutex, counters
<1>1. TypeOK'
  BY <1>0, BoundsAssumption DEF UnlockMutex, At, GoTo, TakeMutex, DropMutex,
     counters, TypeOK, Places, InMutex, Waiting, PlaceInv
<1>2. MutexInv'
  BY <1>0, <1>a, <1>b, <1>c DEF MutexInv, InMutex
<1>3. HandlerInv'
  BY <1>0, <1>a, <1>b, <1>c DEF HandlerInv, TypeOK, MaskInv, SavedInv,
     PlaceInv, UsualMask, Outside
<1>4. MaskInv'
  BY <1>0, <1>a, <1>b, <1>c DEF MaskInv, HandlerInv, SavedInv, OwnerInv,
     PlaceInv, TypeOK, UsualMask, Outside
<1>5. SavedInv'
  BY <1>0, <1>a, <1>b, <1>c DEF SavedInv, MaskInv, OwnerInv, PlaceInv,
     TypeOK, UsualMask, Outside
<1>6. OwnerInv'
  BY <1>c DEF OwnerInv
<1>7. PlaceInv'
  BY <1>0, <1>a, <1>b, <1>c DEF PlaceInv, OwnerInv, HandlerInv, TypeOK
<1>8. QueryInv'
  BY <1>0, <1>a, <1>b, <1>c DEF QueryInv, TypeOK
<1>9. NoLostWakeup'
  BY <1>0, <1>a, <1>b, <1>c DEF NoLostWakeup, Waiting, OwnerInv, TypeOK
<1> QED  BY <1>1, <1>2, <1>3, <1>4, <1>5, <1>6, <1>7, <1>8,
        <1>9

\* A nested lock puts back the blocked mask, the first one keeps it.
LEMMA AcquiredStep ==
    ASSUME Inv, NEW t \in Threads, Acquired(t)
    PROVE  Inv'
<1> USE DEF Inv, FrameFacts
<1>0. FrameFacts(t)
  BY Frames
<1>a. pc[Self(t)] = "acquired"
  BY DEF Acquired, At, MustWait
<1>b. /\ \A u \in Threads : u # t => (masked'[u] <=> masked[u])
      /\ mLocked = 1 => (masked'[t] <=> masked[t])
      /\ mLocked # 1 => (masked'[t] <=> saved[Self(t)])
      /\ \A c \in Contexts : pc'[c] = IF c = Self(t) THEN "run" ELSE pc[c]
  BY <1>0 DEF Acquired, GoTo, TakeMutex, DropMutex, TypeOK, Waiting
<1>c. mutex' = mutex /\ mLocked' = mLocked /\ mOwner' = mOwner /\ mMask' = mMask
      /\ level' = level /\ saved' = saved /\ held' = held
  BY DEF Acquired, counters
<1>d. /\ mLocked = held[Self(t)] /\ mOwner = t
      /\ mMask <=> UsualMask(t, level[t])
      /\ \A c \in Contexts : c # Self(t) => held[c] = 0
  <2>1. held[Self(t)] > 0
    BY <1>0, <1>a DEF PlaceInv, TypeOK
  <2> QED  BY <2>1, TheHolder
<1>1. TypeOK'
  BY <1>0, <1>a, <1>d, BoundsAssumption DEF Acquired, At, GoTo, TakeMutex,
     DropMutex, counters, TypeOK, Places, InMutex, Waiting, PlaceInv
<1>2. MutexInv'
  BY <1>0, <1>a, <1>b, <1>c, <1>d DEF MutexInv, InMutex
<1>3. HandlerInv'
  BY <1>0, <1>a, <1>b, <1>c, <1>d DEF HandlerInv, TypeOK, MaskInv, SavedInv,
     PlaceInv, UsualMask, Outside
<1>4. MaskInv'
  BY <1>0, <1>a, <1>b, <1>c, <1>d DEF MaskInv, HandlerInv, SavedInv,
     OwnerInv, PlaceInv, TypeOK, UsualMask, Outside
<1>5. SavedInv'
  BY <1>0, <1>a, <1>b, <1>c, <1>d DEF SavedInv, MaskInv, OwnerInv, PlaceInv,
     TypeOK, UsualMask, Outside
<1>6. OwnerInv'
  BY <1>c DEF OwnerInv
<1>7. PlaceInv'
  BY <1>0, <1>a, <1>b, <1>c, <1>d DEF PlaceInv, OwnerInv, HandlerInv, TypeOK
<1>8. QueryInv'
  BY <1>0, <1>a, <1>b, <1>c, <1>d DEF QueryInv, TypeOK
<1>9. NoLostWakeup'
  BY <1>0, <1>a, <1>b, <1>c, <1>d DEF NoLostWakeup, Waiting, OwnerInv, TypeOK
<1> QED  BY <1>1, <1>2, <1>3, <1>4, <1>5, <1>6, <1>7, <1>8,
        <1>9

\* More than one lock is held, so one at least remains.
LEMMA UnlockNestedStep ==
    ASSUME Inv, NEW t \in Threads, UnlockNested(t)
    PROVE  Inv'
<1> USE DEF Inv, FrameFacts
<1>0. FrameFacts(t)
  BY Frames
<1>a. pc[Self(t)] = "run" /\ held[Self(t)] > 0 /\ mLocked - 1 # 0
  BY DEF UnlockNested, At, MustWait
<1>b. /\ mLocked' = mLocked - 1
      /\ \A c \in Contexts : held'[c] = IF c = Self(t) THEN held[c] - 1 ELSE held[c]
  BY <1>0 DEF UnlockNested, GoTo, TakeMutex, DropMutex, TypeOK, Waiting
<1>c. mutex' = mutex /\ mOwner' = mOwner /\ mMask' = mMask /\ masked' = masked
      /\ level' = level /\ pc' = pc /\ saved' = saved
  BY DEF UnlockNested, counters
<1>d. /\ mLocked = held[Self(t)] /\ mOwner = t
      /\ mMask <=> UsualMask(t, level[t])
      /\ \A c \in Contexts : c # Self(t) => held[c] = 0
  <2>1. held[Self(t)] > 0
    BY <1>0, <1>a DEF PlaceInv, TypeOK
  <2> QED  BY <2>1, TheHolder
<1>1. TypeOK'
  BY <1>0, <1>a, <1>d, BoundsAssumption DEF UnlockNested, At, GoTo,
     TakeMutex, DropMutex, counters, TypeOK, Places, InMutex, Waiting,
     PlaceInv
<1>2. MutexInv'
  BY <1>c DEF MutexInv
<1>3. HandlerInv'
  BY <1>0, <1>a, <1>b, <1>c, <1>d DEF HandlerInv, TypeOK, MaskInv, SavedInv,
     PlaceInv, UsualMask, Outside
<1>4. MaskInv'
  BY <1>0, <1>a, <1>b, <1>c, <1>d DEF MaskInv, HandlerInv, SavedInv,
     OwnerInv, PlaceInv, TypeOK, UsualMask, Outside
<1>5. SavedInv'
  BY <1>0, <1>a, <1>b, <1>c, <1>d DEF SavedInv, MaskInv, OwnerInv, PlaceInv,
     TypeOK, UsualMask, Outside
<1>6. OwnerInv'
  BY <1>0, <1>a, <1>b, <1>c, <1>d DEF OwnerInv, HandlerInv, PlaceInv,
     SavedInv, TypeOK, UsualMask
<1>7. PlaceInv'
  BY <1>0, <1>a, <1>b, <1>c, <1>d DEF PlaceInv, OwnerInv, HandlerInv, TypeOK
<1>8. QueryInv'
  BY <1>0, <1>a, <1>b, <1>c, <1>d DEF QueryInv, TypeOK
<1>9. NoLostWakeup'
  BY <1>0, <1>a, <1>b, <1>c, <1>d DEF NoLostWakeup, Waiting, OwnerInv, TypeOK
<1> QED  BY <1>1, <1>2, <1>3, <1>4, <1>5, <1>6, <1>7, <1>8,
        <1>9

\* The mask copied from the lock is the one this context left there.
LEMMA UnlockLastStep ==
    ASSUME Inv, NEW t \in Threads, UnlockLast(t)
    PROVE  Inv'
<1> USE DEF Inv, FrameFacts
<1>0. FrameFacts(t)
  BY Frames
<1>a. pc[Self(t)] = "run" /\ held[Self(t)] > 0 /\ mLocked - 1 = 0
  BY DEF UnlockLast, At, MustWait
<1>b. /\ (\A c \in Contexts : c # Self(t) => (saved'[c] <=> saved[c])) /\ (saved'[Self(t)] <=> mMask)
      /\ \A c \in Contexts : pc'[c] = IF c = Self(t) THEN "leave" ELSE pc[c]
  BY <1>0 DEF UnlockLast, GoTo, TakeMutex, DropMutex, TypeOK, Waiting
<1>c. mutex' = mutex /\ mLocked' = mLocked /\ mOwner' = mOwner /\ mMask' = mMask
      /\ masked' = masked /\ level' = level /\ held' = held
  BY DEF UnlockLast, counters
<1>d. /\ mLocked = held[Self(t)] /\ mOwner = t
      /\ mMask <=> UsualMask(t, level[t])
      /\ \A c \in Contexts : c # Self(t) => held[c] = 0
  <2>1. held[Self(t)] > 0
    BY <1>0, <1>a DEF PlaceInv, TypeOK
  <2> QED  BY <2>1, TheHolder
<1>1. TypeOK'
  BY <1>0, <1>a, <1>d, BoundsAssumption DEF UnlockLast, At, GoTo, TakeMutex,
     DropMutex, counters, TypeOK, Places, InMutex, Waiting, PlaceInv
<1>2. MutexInv'
  BY <1>0, <1>a, <1>b, <1>c, <1>d DEF MutexInv, InMutex
<1>3. HandlerInv'
  BY <1>0, <1>a, <1>b, <1>c, <1>d DEF HandlerInv, TypeOK, MaskInv, SavedInv,
     PlaceInv, UsualMask, Outside
<1>4. MaskInv'
  BY <1>0, <1>a, <1>b, <1>c, <1>d DEF MaskInv, HandlerInv, SavedInv,
     OwnerInv, PlaceInv, TypeOK, UsualMask, Outside
<1>5. SavedInv'
  BY <1>0, <1>a, <1>b, <1>c, <1>d DEF SavedInv, MaskInv, OwnerInv, PlaceInv,
     TypeOK, UsualMask, Outside
<1>6. OwnerInv'
  BY <1>c DEF OwnerInv
<1>7. PlaceInv'
  BY <1>0, <1>a, <1>b, <1>c, <1>d DEF PlaceInv, OwnerInv, HandlerInv, TypeOK
<1>8. QueryInv'
  BY <1>0, <1>a, <1>b, <1>c, <1>d DEF QueryInv, TypeOK
<1>9. NoLostWakeup'
  BY <1>0, <1>a, <1>b, <1>c, <1>d DEF NoLostWakeup, Waiting, OwnerInv, TypeOK
<1> QED  BY <1>1, <1>2, <1>3, <1>4, <1>5, <1>6, <1>7, <1>8,
        <1>9

\* As LockMutex, with the lock still held.
LEMMA LockToReleaseStep ==
    ASSUME Inv, NEW t \in Threads, LockToRelease(t)
    PROVE  Inv'
<1> USE DEF Inv, FrameFacts
<1>0. FrameFacts(t)
  BY Frames
<1>a. pc[Self(t)] = "leave"
  BY DEF LockToRelease, At, MustWait
<1>b. /\ mutex = NoContext /\ mutex' = Self(t)
      /\ \A c \in Contexts : pc'[c] = IF c = Self(t) THEN "clear" ELSE pc[c]
  BY <1>0 DEF LockToRelease, GoTo, TakeMutex, DropMutex, TypeOK, Waiting
<1>c. mLocked' = mLocked /\ mOwner' = mOwner /\ mMask' = mMask /\ masked' =
      masked /\ level' = level /\ saved' = saved /\ held' = held
  BY DEF LockToRelease, counters
<1>1. TypeOK'
  BY <1>0, BoundsAssumption DEF LockToRelease, At, GoTo, TakeMutex,
     DropMutex, counters, TypeOK, Places, InMutex, Waiting, PlaceInv
<1>2. MutexInv'
  BY <1>0, <1>a, <1>b, <1>c DEF MutexInv, InMutex
<1>3. HandlerInv'
  BY <1>0, <1>a, <1>b, <1>c DEF HandlerInv, TypeOK, MaskInv, SavedInv,
     PlaceInv, UsualMask, Outside
<1>4. MaskInv'
  BY <1>0, <1>a, <1>b, <1>c DEF MaskInv, HandlerInv, SavedInv, OwnerInv,
     PlaceInv, TypeOK, UsualMask, Outside
<1>5. SavedInv'
  BY <1>0, <1>a, <1>b, <1>c DEF SavedInv, MaskInv, OwnerInv, PlaceInv,
     TypeOK, UsualMask, Outside
<1>6. OwnerInv'
  BY <1>c DEF OwnerInv
<1>7. PlaceInv'
  BY <1>0, <1>a, <1>b, <1>c DEF PlaceInv, OwnerInv, HandlerInv, TypeOK
<1>8. QueryInv'
  BY <1>0, <1>a, <1>b, <1>c DEF QueryInv, TypeOK
<1>9. NoLostWakeup'
  BY <1>0, <1>a, <1>b, <1>c DEF NoLostWakeup, Waiting, OwnerInv, TypeOK
<1> QED  BY <1>1, <1>2, <1>3, <1>4, <1>5, <1>6, <1>7, <1>8,
        <1>9

\* The only holder gives the lock up; from here to the signal it is this
\* context that those who wait can rely on.
LEMMA ClearStep ==
    ASSUME Inv, NEW t \in Threads, Clear(t)
    PROVE  Inv'
<1> USE DEF Inv, FrameFacts
<1>0. FrameFacts(t)
  BY Frames
<1>a. pc[Self(t)] = "clear"
  BY DEF Clear, At, MustWait
<1>b. /\ mLocked' = 0
      /\ \A c \in Contexts : held'[c] = IF c = Self(t) THEN held[c] - 1 ELSE held[c]
      /\ \A c \in Contexts : pc'[c] = IF c = Self(t) THEN "signal" ELSE pc[c]
  BY <1>0 DEF Clear, GoTo, TakeMutex, DropMutex, TypeOK, Waiting
<1>c. mutex' = mutex /\ mOwner' = mOwner /\ mMask' = mMask /\ masked' = masked
      /\ level' = level /\ saved' = saved
  BY DEF Clear, counters
<1>d. /\ mLocked = held[Self(t)] /\ mOwner = t
      /\ mMask <=> UsualMask(t, level[t])
      /\ \A c \in Contexts : c # Self(t) => held[c] = 0
  <2>1. held[Self(t)] > 0
    BY <1>0, <1>a DEF PlaceInv, TypeOK
  <2> QED  BY <2>1, TheHolder
<1>1. TypeOK'
  BY <1>0, <1>a, <1>d, BoundsAssumption DEF Clear, At, GoTo, TakeMutex,
     DropMutex, counters, TypeOK, Places, InMutex, Waiting, PlaceInv
<1>2. MutexInv'
  BY <1>0, <1>a, <1>b, <1>c, <1>d DEF MutexInv, InMutex
<1>3. HandlerInv'
  BY <1>0, <1>a, <1>b, <1>c, <1>d DEF HandlerInv, TypeOK, MaskInv, SavedInv,
     PlaceInv, UsualMask, Outside
<1>4. MaskInv'
  BY <1>0, <1>a, <1>b, <1>c, <1>d DEF MaskInv, HandlerInv, SavedInv,
     OwnerInv, PlaceInv, TypeOK, UsualMask, Outside
<1>5. SavedInv'
  BY <1>0, <1>a, <1>b, <1>c, <1>d DEF SavedInv, MaskInv, OwnerInv, PlaceInv,
     TypeOK, UsualMask, Outside
<1>6. OwnerInv'
  BY <1>0, <1>a, <1>b, <1>c, <1>d DEF OwnerInv, HandlerInv, PlaceInv,
     SavedInv, TypeOK, UsualMask
<1>7. PlaceInv'
  BY <1>0, <1>a, <1>b, <1>c, <1>d DEF PlaceInv, OwnerInv, HandlerInv, TypeOK
<1>8. QueryInv'
  BY <1>0, <1>a, <1>b, <1>c, <1>d DEF QueryInv, TypeOK
<1>9. NoLostWakeup'
  BY <1>0, <1>a, <1>b, <1>c, <1>d DEF NoLostWakeup, Waiting, OwnerInv, TypeOK
<1> QED  BY <1>1, <1>2, <1>3, <1>4, <1>5, <1>6, <1>7, <1>8,
        <1>9

\* A waiting context, if there is one, takes over as the one to rely on.
LEMMA SignalUnlockStep ==
    ASSUME Inv, NEW t \in Threads, SignalUnlock(t)
    PROVE  Inv'
<1> USE DEF Inv, FrameFacts
<1>0. FrameFacts(t)
  BY Frames
<1>a. pc[Self(t)] = "signal"
  BY DEF SignalUnlock, At, MustWait
<1>b. /\ mutex' = NoContext
      /\ pc'[Self(t)] = "restore"
      /\ \A c \in Contexts : c # Self(t) => pc'[c] = pc[c] \/ (pc[c] = "wait" /\ pc'[c] = "wake")
      /\ Waiting # {} => \E c \in Contexts : pc'[c] = "wake"
  BY <1>0 DEF SignalUnlock, GoTo, TakeMutex, DropMutex, TypeOK, Waiting
<1>c. mLocked' = mLocked /\ mOwner' = mOwner /\ mMask' = mMask /\ masked' =
      masked /\ level' = level /\ saved' = saved /\ held' = held
  BY DEF SignalUnlock, counters
<1>1. TypeOK'
  BY <1>0, BoundsAssumption DEF SignalUnlock, At, GoTo, TakeMutex,
     DropMutex, counters, TypeOK, Places, InMutex, Waiting, PlaceInv
<1>2. MutexInv'
  BY <1>0, <1>a, <1>b, <1>c DEF MutexInv, InMutex
<1>3. HandlerInv'
  BY <1>0, <1>a, <1>b, <1>c DEF HandlerInv, TypeOK, MaskInv, SavedInv,
     PlaceInv, UsualMask, Outside
<1>4. MaskInv'
  BY <1>0, <1>a, <1>b, <1>c DEF MaskInv, HandlerInv, SavedInv, OwnerInv,
     PlaceInv, TypeOK, UsualMask, Outside
<1>5. SavedInv'
  BY <1>0, <1>a, <1>b, <1>c DEF SavedInv, MaskInv, OwnerInv, PlaceInv,
     TypeOK, UsualMask, Outside
<1>6. OwnerInv'
  BY <1>c DEF OwnerInv
<1>7. PlaceInv'
  BY <1>0, <1>a, <1>b, <1>c DEF PlaceInv, OwnerInv, HandlerInv, TypeOK
<1>8. QueryInv'
  BY <1>0, <1>a, <1>b, <1>c DEF QueryInv, TypeOK
<1>9. NoLostWakeup'
  BY <1>0, <1>a, <1>b, <1>c DEF NoLostWakeup, Waiting, OwnerInv, TypeOK
<1> QED  BY <1>1, <1>2, <1>3, <1>4, <1>5, <1>6, <1>7, <1>8,
        <1>9

\* The mask restored is the usual one of the context.
LEMMA PopMaskStep ==
    ASSUME Inv, NEW t \in Threads, PopMask(t)
    PROVE  Inv'
<1> USE DEF Inv, FrameFacts
<1>0. FrameFacts(t)
  BY Frames
<1>a. pc[Self(t)] = "restore"
  BY DEF PopMask, At, MustWait
<1>b. /\ \A u \in Threads : u # t => (masked'[u] <=> masked[u])
      /\ masked'[t] <=> saved[Self(t)]
      /\ \A c \in Contexts : pc'[c] = IF c = Self(t) THEN "run" ELSE pc[c]
  BY <1>0 DEF PopMask, GoTo, TakeMutex, DropMutex, TypeOK, Waiting
<1>c. mutex' = mutex /\ mLocked' = mLocked /\ mOwner' = mOwner /\ mMask' = mMask
      /\ level' = level /\ saved' = saved /\ held' = held
  BY DEF PopMask, counters
<1>1. TypeOK'
  BY <1>0, BoundsAssumption DEF PopMask, At, GoTo, TakeMutex, DropMutex,
     counters, TypeOK, Places, InMutex, Waiting, PlaceInv
<1>2. MutexInv'
  BY <1>0, <1>a, <1>b, <1>c DEF MutexInv, InMutex
<1>3. HandlerInv'
  BY <1>0, <1>a, <1>b, <1>c DEF HandlerInv, TypeOK, MaskInv, SavedInv,
     PlaceInv, UsualMask, Outside
<1>4. MaskInv'
  BY <1>0, <1>a, <1>b, <1>c DEF MaskInv, HandlerInv, SavedInv, OwnerInv,
     PlaceInv, TypeOK, UsualMask, Outside
<1>5. SavedInv'
  BY <1>0, <1>a, <1>b, <1>c DEF SavedInv, MaskInv, OwnerInv, PlaceInv,
     TypeOK, UsualMask, Outside
<1>6. OwnerInv'
  BY <1>c DEF OwnerInv
<1>7. PlaceInv'
  BY <1>0, <1>a, <1>b, <1>c DEF PlaceInv, OwnerInv, HandlerInv, TypeOK
<1>8. QueryInv'
  BY <1>0, <1>a, <1>b, <1>c DEF QueryInv, TypeOK
<1>9. NoLostWakeup'
  BY <1>0, <1>a, <1>b, <1>c DEF NoLostWakeup, Waiting, OwnerInv, TypeOK
<1> QED  BY <1>1, <1>2, <1>3, <1>4, <1>5, <1>6, <1>7, <1>8,
        <1>9

\* Asking for the count disturbs nothing, nor do its two next steps.
LEMMA AskOwnStep ==
    ASSUME Inv, NEW t \in Threads, AskOwn(t)
    PROVE  Inv'
<1> USE DEF Inv, FrameFacts
<1>0. FrameFacts(t)
  BY Frames
<1>a. pc[Self(t)] = "run"
  BY DEF AskOwn, At, MustWait
<1>b. /\ \A c \in Contexts : pc'[c] = IF c = Self(t) THEN "ask" ELSE pc[c]
  BY <1>0 DEF AskOwn, GoTo, TakeMutex, DropMutex, TypeOK, Waiting
<1>c. mutex' = mutex /\ mLocked' = mLocked /\ mOwner' = mOwner /\ mMask' = mMask
      /\ masked' = masked /\ level' = level /\ saved' = saved /\ held' = held
  BY DEF AskOwn, counters
<1>d. t \in Askers \/ held[Self(t)] > 0
  BY HeldTogether DEF AskOwn
<1>1. TypeOK'
  BY <1>0, <1>a, <1>d, BoundsAssumption DEF AskOwn, At, GoTo, TakeMutex,
     DropMutex, counters, TypeOK, Places, InMutex, Waiting, PlaceInv
<1>2. MutexInv'
  BY <1>0, <1>a, <1>b, <1>c, <1>d DEF MutexInv, InMutex
<1>3. HandlerInv'
  BY <1>0, <1>a, <1>b, <1>c, <1>d DEF HandlerInv, TypeOK, MaskInv, SavedInv,
     PlaceInv, UsualMask, Outside
<1>4. MaskInv'
  BY <1>0, <1>a, <1>b, <1>c, <1>d DEF MaskInv, HandlerInv, SavedInv,
     OwnerInv, PlaceInv, TypeOK, UsualMask, Outside
<1>5. SavedInv'
  BY <1>0, <1>a, <1>b, <1>c, <1>d DEF SavedInv, MaskInv, OwnerInv, PlaceInv,
     TypeOK, UsualMask, Outside
<1>6. OwnerInv'
  BY <1>c DEF OwnerInv
<1>7. PlaceInv'
  BY <1>0, <1>a, <1>b, <1>c, <1>d DEF PlaceInv, OwnerInv, HandlerInv, TypeOK
<1>8. QueryInv'
  BY <1>0, <1>a, <1>b, <1>c, <1>d DEF QueryInv, TypeOK
<1>9. NoLostWakeup'
  BY <1>0, <1>a, <1>b, <1>c, <1>d DEF NoLostWakeup, Waiting, OwnerInv, TypeOK
<1> QED  BY <1>1, <1>2, <1>3, <1>4, <1>5, <1>6, <1>7, <1>8,
        <1>9

\* As LockMutex, but signals may be deliverable.
LEMMA LockToReadStep ==
    ASSUME Inv, NEW t \in Threads, LockToRead(t)
    PROVE  Inv'
<1> USE DEF Inv, FrameFacts
<1>0. FrameFacts(t)
  BY Frames
<1>a. pc[Self(t)] = "ask"
  BY DEF LockToRead, At, MustWait
<1>b. /\ mutex = NoContext /\ mutex' = Self(t)
      /\ \A c \in Contexts : pc'[c] = IF c = Self(t) THEN "read" ELSE pc[c]
  BY <1>0 DEF LockToRead, GoTo, TakeMutex, DropMutex, TypeOK, Waiting
<1>c. mLocked' = mLocked /\ mOwner' = mOwner /\ mMask' = mMask /\ masked' =
      masked /\ level' = level /\ saved' = saved /\ held' = held
  BY DEF LockToRead, counters
<1>1. TypeOK'
  BY <1>0, BoundsAssumption DEF LockToRead, At, GoTo, TakeMutex, DropMutex,
     counters, TypeOK, Places, InMutex, Waiting, PlaceInv
<1>2. MutexInv'
  BY <1>0, <1>a, <1>b, <1>c DEF MutexInv, InMutex
<1>3. HandlerInv'
  BY <1>0, <1>a, <1>b, <1>c DEF HandlerInv, TypeOK, MaskInv, SavedInv,
     PlaceInv, UsualMask, Outside
<1>4. MaskInv'
  BY <1>0, <1>a, <1>b, <1>c DEF MaskInv, HandlerInv, SavedInv, OwnerInv,
     PlaceInv, TypeOK, UsualMask, Outside
<1>5. SavedInv'
  BY <1>0, <1>a, <1>b, <1>c DEF SavedInv, MaskInv, OwnerInv, PlaceInv,
     TypeOK, UsualMask, Outside
<1>6. OwnerInv'
  BY <1>c DEF OwnerInv
<1>7. PlaceInv'
  BY <1>0, <1>a, <1>b, <1>c DEF PlaceInv, OwnerInv, HandlerInv, TypeOK
<1>8. QueryInv'
  BY <1>0, <1>a, <1>b, <1>c DEF QueryInv, TypeOK
<1>9. NoLostWakeup'
  BY <1>0, <1>a, <1>b, <1>c DEF NoLostWakeup, Waiting, OwnerInv, TypeOK
<1> QED  BY <1>1, <1>2, <1>3, <1>4, <1>5, <1>6, <1>7, <1>8,
        <1>9

\* The count has been read.
LEMMA ReadOwnStep ==
    ASSUME Inv, NEW t \in Threads, ReadOwn(t)
    PROVE  Inv'
<1> USE DEF Inv, FrameFacts
<1>0. FrameFacts(t)
  BY Frames
<1>a. pc[Self(t)] = "read"
  BY DEF ReadOwn, At, MustWait
<1>b. /\ mutex' = NoContext
      /\ \A c \in Contexts : pc'[c] = IF c = Self(t) THEN "run" ELSE pc[c]
  BY <1>0 DEF ReadOwn, GoTo, TakeMutex, DropMutex, TypeOK, Waiting
<1>c. mLocked' = mLocked /\ mOwner' = mOwner /\ mMask' = mMask /\ masked' =
      masked /\ level' = level /\ saved' = saved /\ held' = held
  BY DEF ReadOwn, counters
<1>1. TypeOK'
  BY <1>0, BoundsAssumption DEF ReadOwn, At, GoTo, TakeMutex, DropMutex,
     counters, TypeOK, Places, InMutex, Waiting, PlaceInv
<1>2. MutexInv'
  BY <1>0, <1>a, <1>b, <1>c DEF MutexInv, InMutex
<1>3. HandlerInv'
  BY <1>0, <1>a, <1>b, <1>c DEF HandlerInv, TypeOK, MaskInv, SavedInv,
     PlaceInv, UsualMask, Outside
<1>4. MaskInv'
  BY <1>0, <1>a, <1>b, <1>c DEF MaskInv, HandlerInv, SavedInv, OwnerInv,
     PlaceInv, TypeOK, UsualMask, Outside
<1>5. SavedInv'
  BY <1>0, <1>a, <1>b, <1>c DEF SavedInv, MaskInv, OwnerInv, PlaceInv,
     TypeOK, UsualMask, Outside
<1>6. OwnerInv'
  BY <1>c DEF OwnerInv
<1>7. PlaceInv'
  BY <1>0, <1>a, <1>b, <1>c DEF PlaceInv, OwnerInv, HandlerInv, TypeOK
<1>8. QueryInv'
  BY <1>0, <1>a, <1>b, <1>c DEF QueryInv, TypeOK
<1>9. NoLostWakeup'
  BY <1>0, <1>a, <1>b, <1>c DEF NoLostWakeup, Waiting, OwnerInv, TypeOK
<1> QED  BY <1>1, <1>2, <1>3, <1>4, <1>5, <1>6, <1>7, <1>8,
        <1>9

\* A handler starts only in code that has not blocked its signals, which
\* then has neither the lock nor anything of it.
LEMMA DeliverStep ==
    ASSUME Inv, NEW t \in Threads, Deliver(t)
    PROVE  Inv'
<1> USE DEF Inv, FrameFacts
<1>0. FrameFacts(t)
  BY Frames
<1>a. level[t] = 0 /\ ~ masked[t]
  BY DEF Deliver, At, MustWait
<1>b. /\ \A u \in Threads : level'[u] = IF u = t THEN 1 ELSE level[u]
      /\ \A u \in Threads : masked'[u] <=> masked[u] \/ u = t
  BY <1>0 DEF Deliver, GoTo, TakeMutex, DropMutex, TypeOK, Waiting
<1>c. mutex' = mutex /\ mLocked' = mLocked /\ mOwner' = mOwner /\ mMask' = mMask
      /\ pc' = pc /\ saved' = saved /\ held' = held
  BY DEF Deliver, counters
<1>1. TypeOK'
  BY <1>0, BoundsAssumption DEF Deliver, At, GoTo, TakeMutex, DropMutex,
     counters, TypeOK, Places, InMutex, Waiting, PlaceInv
<1>2. MutexInv'
  BY <1>c DEF MutexInv
<1>3. HandlerInv'
  BY <1>0, <1>a, <1>b, <1>c DEF HandlerInv, TypeOK, MaskInv, SavedInv,
     PlaceInv, UsualMask, Outside
<1>4. MaskInv'
  BY <1>0, <1>a, <1>b, <1>c DEF MaskInv, HandlerInv, SavedInv, OwnerInv,
     PlaceInv, TypeOK, UsualMask, Outside
<1>5. SavedInv'
  BY <1>0, <1>a, <1>b, <1>c DEF SavedInv, MaskInv, OwnerInv, PlaceInv,
     TypeOK, UsualMask, Outside
<1>6. OwnerInv'
  BY <1>c DEF OwnerInv
<1>7. PlaceInv'
  BY <1>c DEF PlaceInv
<1>8. QueryInv'
  BY <1>c DEF QueryInv
<1>9. NoLostWakeup'
  BY <1>c DEF NoLostWakeup, Waiting
<1> QED  BY <1>1, <1>2, <1>3, <1>4, <1>5, <1>6, <1>7, <1>8,
        <1>9

\* A handler that has released everything leaves the thread as it was.
LEMMA ReturnStep ==
    ASSUME Inv, NEW t \in Threads, Return(t)
    PROVE  Inv'
<1> USE DEF Inv, FrameFacts
<1>0. FrameFacts(t)
  BY Frames
<1>a. level[t] = 1 /\ pc[Self(t)] = "run" /\ held[Self(t)] = 0
  BY DEF Return, At, MustWait
<1>b. /\ \A u \in Threads : level'[u] = IF u = t THEN 0 ELSE level[u]
      /\ \A u \in Threads : masked'[u] <=> masked[u] /\ u # t
  BY <1>0 DEF Return, GoTo, TakeMutex, DropMutex, TypeOK, Waiting
<1>c. mutex' = mutex /\ mLocked' = mLocked /\ mOwner' = mOwner /\ mMask' = mMask
      /\ pc' = pc /\ saved' = saved /\ held' = held
  BY DEF Return, counters
<1>1. TypeOK'
  BY <1>0, BoundsAssumption DEF Return, At, GoTo, TakeMutex, DropMutex,
     counters, TypeOK, Places, InMutex, Waiting, PlaceInv
<1>2. MutexInv'
  BY <1>c DEF MutexInv
<1>3. HandlerInv'
  BY <1>0, <1>a, <1>b, <1>c DEF HandlerInv, TypeOK, MaskInv, SavedInv,
     PlaceInv, UsualMask, Outside
<1>4. MaskInv'
  BY <1>0, <1>a, <1>b, <1>c DEF MaskInv, HandlerInv, SavedInv, OwnerInv,
     PlaceInv, TypeOK, UsualMask, Outside
<1>5. SavedInv'
  BY <1>0, <1>a, <1>b, <1>c DEF SavedInv, MaskInv, OwnerInv, PlaceInv,
     TypeOK, UsualMask, Outside
<1>6. OwnerInv'
  BY <1>c DEF OwnerInv
<1>7. PlaceInv'
  BY <1>c DEF PlaceInv
<1>8. QueryInv'
  BY <1>c DEF QueryInv
<1>9. NoLostWakeup'
  BY <1>c DEF NoLostWakeup, Waiting
<1> QED  BY <1>1, <1>2, <1>3, <1>4, <1>5, <1>6, <1>7, <1>8,
        <1>9

\* The lock starts free, its threads with their usual masks.
LEMMA InitInv == Init => Inv
<1> SUFFICES ASSUME Init PROVE Inv
  OBVIOUS
<1>1. \A t \in Threads, l \in {0, 1} :
         /\ pc[Frame(t, l)] = "run" /\ held[Frame(t, l)] = 0
         /\ masked[t] <=> t \in Blocked
         /\ level[t] = 0
  BY DEF Init, Contexts, Frame
<1>2. \A c \in Contexts : pc[c] = "run" /\ held[c] = 0 /\ c # NoContext
  BY ThreadsAssumption DEF Init, Contexts, NoContext, Frame
<1>3. TypeOK
  <2>1. masked \in [Threads -> BOOLEAN]
    BY DEF Init
  <2>2. /\ level \in [Threads -> {0, 1}] /\ pc \in [Contexts -> Places]
        /\ held \in [Contexts -> Nat]
    BY DEF Init, Places
  <2>3. saved \in [Contexts -> BOOLEAN]
    BY DEF Init
  <2>4. /\ calls \in [Threads -> 0 .. MaxCalls]
        /\ signals \in [Threads -> 0 .. MaxSignals]
        /\ spurious \in 0 .. MaxSpurious
    BY BoundsAssumption DEF Init
  <2>5. /\ mutex \in Contexts \cup {NoContext} /\ mLocked \in Nat
        /\ mOwner \in Threads \cup {NoThread} /\ mMask \in BOOLEAN
    BY DEF Init
  <2> QED  BY <2>1, <2>2, <2>3, <2>4, <2>5 DEF TypeOK
<1>4. MutexInv /\ PlaceInv
  BY <1>2 DEF Init, MutexInv, PlaceInv, InMutex
<1>5. HandlerInv /\ MaskInv /\ SavedInv
  BY <1>1 DEF HandlerInv, MaskInv, SavedInv, UsualMask, Outside
<1>6. OwnerInv
  BY <1>1 DEF Init, OwnerInv
<1>7. NoLostWakeup /\ QueryInv
  BY <1>1, <1>2 DEF NoLostWakeup, Waiting, QueryInv
<1> QED  BY <1>3, <1>4, <1>5, <1>6, <1>7 DEF Inv

\* Inv is inductive: every action of every thread keeps it.
LEMMA NextInv == Inv /\ [Next]_vars => Inv'
<1> SUFFICES ASSUME Inv, [Next]_vars PROVE Inv'
  OBVIOUS
<1>1. ASSUME NEW t \in Threads, Progress(t) PROVE Inv'
  BY <1>1, LockMutexStep, WaitCondStep, RelockMutexStep, TakeStep,
     UnlockMutexStep, AcquiredStep, UnlockNestedStep, UnlockLastStep,
     LockToReleaseStep, ClearStep, SignalUnlockStep, PopMaskStep,
     LockToReadStep, ReadOwnStep, ReturnStep DEF Progress
<1>2. CASE \E t \in Threads : PushMask(t) \/ AskOwn(t) \/ SpuriousWakeup(t)
                              \/ Deliver(t)
  BY <1>2, PushMaskStep, AskOwnStep, SpuriousWakeupStep, DeliverStep
<1>3. CASE UNCHANGED vars
  BY <1>3 DEF vars, counters, Inv, TypeOK, MutexInv, HandlerInv, MaskInv,
     SavedInv,
     OwnerInv, PlaceInv, QueryInv, NoLostWakeup, Waiting
<1> QED  BY <1>1, <1>2, <1>3 DEF Next

\* The inductive invariant holds in every reachable state.
THEOREM Invariance == Spec => []Inv
BY InitInv, NextInv, PTL DEF Spec

\* The variables of the lock keep their types; no count becomes negative.
THEOREM TypeCorrect == Spec => []TypeOK
BY Invariance, PTL DEF Inv

\* No wakeup is lost: a context waits for a free lock only while another one
\* has been woken or is about to wake one (lines 979 to 984 and 1028).
THEOREM WakeupKept == Spec => []NoLostWakeup
BY Invariance, PTL DEF Inv

\* At most one thread has the lock (ert_lockThreadSigMutex).
THEOREM Exclusive == Spec => []MutualExclusion
<1>1. Inv => MutualExclusion
  BY HeldTogether, TheHolder DEF MutualExclusion
<1> QED  BY <1>1, Invariance, PTL

\* No signal handler runs in a thread that competes for the lock or has it.
THEOREM Undisturbed == Spec => []SignalsExcluded
<1>1. Inv => SignalsExcluded
  <2> SUFFICES ASSUME Inv, NEW t \in Threads,
                      \/ held[Frame(t, 0)] > 0
                      \/ pc[Frame(t, 0)] \notin {"run", "ask", "read"}
               PROVE  masked[t] /\ level[t] = 0
    BY DEF SignalsExcluded
  <2>1. level[t] = 0
    BY DEF Inv, HandlerInv, Outside, TypeOK
  <2> QED  BY <2>1 DEF Inv, MaskInv, Outside
<1> QED  BY <1>1, Invariance, PTL

\* A thread outside the lock has the signal mask it had before it took it,
\* though it was kept in the lock, which other threads took meanwhile.
THEOREM MaskKept == Spec => []MaskRestored
<1>1. Inv => MaskRestored
  BY DEF Inv, MaskInv, MaskRestored, UsualMask, Outside
<1> QED  BY <1>1, Invariance, PTL

\* The ert_ensure() calls after the lock and before the unlock cannot fail.
THEOREM Ensured == Spec => []EnsuresHold
<1>1. Inv => EnsuresHold
  <2> SUFFICES ASSUME Inv, NEW t \in Threads,
                      At(t, "acquired") \/ (At(t, "run") /\ held[Self(t)] > 0)
               PROVE  mLocked # 0 /\ mOwner = t
    BY DEF EnsuresHold
  <2>1. held[Self(t)] > 0 /\ held[Self(t)] \in Nat
    BY Frames DEF FrameFacts, At, Inv, PlaceInv, TypeOK
  <2> QED  BY <2>1, TheHolder
<1> QED  BY <1>1, Invariance, PTL

\* ert_ownThreadSigMutexLocked() returns the number of locks of its caller.
THEOREM CountExact == Spec => []OwnCountExact
<1>1. Inv => OwnCountExact
  <2> SUFFICES ASSUME Inv, NEW t \in Threads PROVE OwnLocked(t) = HeldBy(t)
    BY DEF OwnCountExact
  <2>1. HeldBy(t) \in Nat
    BY Frames DEF FrameFacts, Inv, TypeOK, HeldBy
  <2>2. CASE HeldBy(t) > 0
    <3>1. held[Self(t)] > 0 /\ HeldBy(t) = held[Self(t)]
      BY <2>2, HeldTogether
    <3> QED  BY <3>1, TheHolder DEF OwnLocked
  <2>3. CASE HeldBy(t) = 0
    <3>1. held[Self(t)] = 0
      <4>1. held[Frame(t, 0)] \in Nat /\ held[Frame(t, 1)] \in Nat
            /\ level[t] \in {0, 1}
        BY Frames DEF FrameFacts, Inv, TypeOK
      <4> QED  BY <4>1, <2>3 DEF HeldBy, Self
    <3>2. mLocked # 0 => mOwner # t
      BY <3>1, OwnerRuns
    <3> QED  BY <2>3, <3>2 DEF OwnLocked
  <2> QED  BY <2>1, <2>2, <2>3
<1> QED  BY <1>1, Invariance, PTL

\* Taking is an Acquire, giving back a nested or the last lock is a Release,
\* and every other step leaves the abstract lock alone.
LEMMA StepRefines ==
    ASSUME Inv, [Next]_vars
    PROVE  [Abstract!Next]_(Abstract!vars)
<1> DEFINE owner == IF mLocked = 0 THEN NoThread ELSE mOwner
<1>1. ASSUME NEW t \in Threads, Take(t) PROVE Abstract!Acquire(t)
  <2>1. /\ mLocked \in Nat
        /\ pc[Self(t)] \in {"test", "retest"} /\ (mLocked = 0 \/ mOwner = t)
        /\ mLocked' = mLocked + 1
        /\ mLocked' = 1 => mOwner' = t
        /\ mLocked' # 1 => mOwner' = mOwner
    BY <1>1 DEF Take, At, MustWait, Inv, TypeOK
  <2>2. mLocked < MaxDepth
    <3>1. Self(t) \in Contexts /\ held[Self(t)] < MaxDepth /\ held[Self(t)] \in Nat
      BY <2>1, Frames DEF FrameFacts, Inv, PlaceInv, TypeOK
    <3>2. mLocked # 0 => mLocked = held[Self(t)]
      BY <2>1, OwnerRuns, TheHolder
    <3> QED  BY <3>1, <3>2, BoundsAssumption
  <2> QED  BY <2>1, <2>2 DEF Abstract!Acquire
<1>2. ASSUME NEW t \in Threads, UnlockNested(t) \/ Clear(t)
      PROVE  Abstract!Release(t)
  <2>1. held[Self(t)] > 0
    BY <1>2, Frames DEF FrameFacts, UnlockNested, Clear, At, Inv, PlaceInv
  <2>2. mLocked = held[Self(t)] /\ mOwner = t /\ mLocked \in Nat
    BY <2>1, TheHolder DEF Inv, TypeOK
  <2>3. CASE UnlockNested(t)
    BY <2>1, <2>2, <2>3 DEF UnlockNested, Abstract!Release
  <2>4. CASE Clear(t)
    <3>1. mLocked = 1
      BY <2>2, <2>4, Frames DEF FrameFacts, Clear, At, Inv, PlaceInv
    <3> QED  BY <2>2, <2>4, <3>1 DEF Clear, Abstract!Release
  <2> QED  BY <1>2, <2>3, <2>4
<1>3. ASSUME NEW t \in Threads, Next,
             ~ (\E u \in Threads : Take(u) \/ UnlockNested(u) \/ Clear(u))
      PROVE  UNCHANGED <<mLocked, mOwner>>
  BY <1>3 DEF Next, Progress, PushMask, LockMutex, WaitCond, SpuriousWakeup,
     RelockMutex, UnlockMutex, Acquired, UnlockLast, LockToRelease,
     SignalUnlock, PopMask, AskOwn, LockToRead, ReadOwn, Deliver, Return
<1>4. UNCHANGED <<mLocked, mOwner>> => UNCHANGED Abstract!vars
  BY DEF Abstract!vars
<1>5. CASE Next
  <2>1. PICK t \in Threads : Progress(t) \/ PushMask(t) \/ AskOwn(t)
                             \/ SpuriousWakeup(t) \/ Deliver(t)
    BY <1>5 DEF Next
  <2> QED  BY <1>1, <1>2, <1>3, <1>4, <1>5, <2>1 DEF Abstract!Next
<1>6. CASE UNCHANGED vars
  BY <1>4, <1>6 DEF vars
<1> QED  BY <1>5, <1>6

\* The lock implements the abstract recursive lock.
THEOREM Refinement == Spec => RecursiveLockSpec
<1>1. Init => Abstract!Init
  BY DEF Init, Abstract!Init
<1> QED  BY <1>1, StepRefines, Invariance, PTL DEF Spec, RecursiveLockSpec,
   Abstract!Spec

\* No handler waits for the pthread mutex of the code it interrupted, in a
\* program whose threads ask for the count only while they own the lock, or
\* have their signals blocked.
THEOREM SelfDeadlockFree == Askers \subseteq Blocked => (Spec => []NoSelfDeadlock)
<1>1. Askers \subseteq Blocked /\ Inv => NoSelfDeadlock
  <2> SUFFICES ASSUME Askers \subseteq Blocked, Inv, NEW t \in Threads,
                      mutex = Frame(t, 0), level[t] = 1
               PROVE  FALSE
    BY DEF NoSelfDeadlock
  <2>1. Frame(t, 0) \in Contexts
    BY Frames DEF FrameFacts, Inv
  <2>2. pc[Frame(t, 0)] \in InMutex
    BY <2>1 DEF Inv, MutexInv
  <2>3. pc[Frame(t, 0)] = "read" /\ held[Frame(t, 0)] = 0 /\ t \notin Blocked
    BY <2>2 DEF Inv, HandlerInv, InMutex, Outside
  <2> QED  BY <2>1, <2>3 DEF Inv, QueryInv
<1>2. CASE Askers \subseteq Blocked
  BY <1>1, <1>2, Invariance, PTL
<1>3. CASE ~ Askers \subseteq Blocked
  BY <1>3
<1> QED  BY <1>2, <1>3
=============================================================================
