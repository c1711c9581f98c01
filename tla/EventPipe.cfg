\* Two threads, two latches and methods that at most reset a latch.
CONSTANTS
    t1 = t1
    t2 = t2
    l1 = l1
    l2 = l2
    NoThread = NoThread
    Threads <- TwoThreads
    Latches <- TwoLatches
    CallbackOps <- ResetOp
    MaxCalls = 3
    MaxErrors = 1
SYMMETRY Symmetry
SPECIFICATION Spec
INVARIANTS
    TypeOK
    NoLostEvent
    MarkedWhilePolled
    NoCallAfterUnbind
    ListedOnce
\* A thread may have no call left, or wait in a cycle (EventPipeCycle.cfg).
CHECK_DEADLOCK FALSE
