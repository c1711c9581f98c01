\* Three threads, so that two wait while a third barges in. Each may nest the
\* lock. t1 takes a signal, t2 and t3 have all blocked, and t2 asks for the count
\* of a lock that it does not own.
CONSTANTS
    t1 = t1
    t2 = t2
    t3 = t3
    NoThread = NoThread
    Threads <- ThreeThreads
    Blocked <- AllButOne
    Askers <- Second
    MaxDepth = 2
    MaxCalls = 2
    MaxSignals = 1
    MaxSpurious = 1
SPECIFICATION FairSpec
INVARIANTS
    TypeOK
    MutualExclusion
    SignalsExcluded
    MaskRestored
    OwnCountExact
    NoLostWakeup
PROPERTIES
    RecursiveLockSpec
    LockGranted
\* A thread may have no call left.
CHECK_DEADLOCK FALSE
