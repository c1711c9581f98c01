\* As EventPipe.cfg: two threads, two latches and methods that at most reset a latch.
CONSTANTS
    t1 = t1
    t2 = t2
    l1 = l1
    l2 = l2
    NoThread = NoThread
    Threads <- TwoThreads
    Latches <- TwoLatches
    CallbackOps <- ResetOp
    MaxCalls = 3
    MaxErrors = 1
SYMMETRY Symmetry
SPECIFICATION Spec
INVARIANT NoLockCycle
CHECK_DEADLOCK FALSE
