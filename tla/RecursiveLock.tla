--------------------------- MODULE RecursiveLock ---------------------------
(***************************************************************************)
(* What an Ert_ThreadSigMutex promises its users: a lock that one thread   *)
(* at a time owns, that its owner may take again up to MaxDepth deep, and  *)
(* that becomes free when the owner has released it as often as it took   *)
(* it.  Nothing is said here of how threads wait.                          *)
(***************************************************************************)
EXTENDS Naturals

CONSTANTS Threads,      \* the threads that use the lock
          NoThread,     \* the owner of a free lock
          MaxDepth      \* how often one thread may own the lock at a time

VARIABLES owner,        \* the owning thread, or NoThread
          depth         \* how often the owner has locked it

vars == <<owner, depth>>

Init == owner = NoThread /\ depth = 0

Acquire(t) ==
    /\ owner \in {NoThread, t}
    /\ depth < MaxDepth
    /\ owner' = t
    /\ depth' = depth + 1

Release(t) ==
    /\ owner = t
    /\ depth' = depth - 1
    /\ owner' = IF depth = 1 THEN NoThread ELSE t

Next == \E t \in Threads : Acquire(t) \/ Release(t)

Spec == Init /\ [][Next]_vars
=============================================================================
