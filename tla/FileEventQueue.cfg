\* Two activities, one poll in a method of another; any file hangs up and any
\* activity is closed at any time.
CONSTANTS
    a1 = a1
    a2 = a2
    NoActivity = NoActivity
    Activities <- TwoActivities
    QueueSize = 2
    MaxPolls = 2
    EarlyHangUp = TRUE
SPECIFICATION FairSpec
INVARIANTS
    TypeOK
    
    
    QueueExact
    
PROPERTY Dispatched
\* The program ends when an ert_ensure() fails.
CHECK_DEADLOCK FALSE
