\* As EventPipe.cfg, but with methods that set latches of the pipe.
CONSTANTS
    t1 = t1
    t2 = t2
    l1 = l1
    l2 = l2
    NoThread = NoThread
    Threads <- TwoThreads
    Latches <- TwoLatches
    CallbackOps <- SetOp
    MaxCalls = 3
    MaxErrors = 1
SYMMETRY Symmetry
SPECIFICATION Spec
INVARIANT NoLostEvent
CHECK_DEADLOCK FALSE
