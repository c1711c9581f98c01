\* A thread that takes a signal asks for the count of a lock that it does not
\* own.
CONSTANTS
    t1 = t1
    t2 = t2
    t3 = t3
    NoThread = NoThread
    Threads <- TwoThreads
    Blocked <- Second
    Askers <- First
    MaxDepth = 2
    MaxCalls = 3
    MaxSignals = 1
    MaxSpurious = 1
SPECIFICATION Spec
INVARIANT NoSelfDeadlock
CHECK_DEADLOCK FALSE
