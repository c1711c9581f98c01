\* As FileEventQueue.cfg, but no file hangs up before its activity is armed.
CONSTANTS
    a1 = a1
    a2 = a2
    NoActivity = NoActivity
    Activities <- TwoActivities
    QueueSize = 2
    MaxPolls = 2
    EarlyHangUp = FALSE
SPECIFICATION Spec
INVARIANT NoAbort
CHECK_DEADLOCK FALSE
