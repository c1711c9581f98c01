SPECIFICATION ProcessesSpec
CONSTANTS
    LockThreads = {"a", "b"}
    MaxLockForks = 1
    MaxLockSignals = 1
    HandlersReport = TRUE
    WatchThreads = {"a", "b"}
    WatchCaller = "a"
    WatchesUsed = {"cont", "clock", "signals"}
    MaxWatchCalls = 3
    MaxWatchSignals = 1
    Sharers = {"p", "q", "r"}
    MaxLapses = 2
    MaxStops = 1
    MaxDeaths = 2
    Created = {"x", "y"}
    MaxSpurious = 1
    MaxKills = 2
    MaxContinues = 2
    MaxHangUps = 1
    AbortThreads = {"a", "b", "c"}
    MaxRaises = 1
    MaxChanges = 1
    Parents = {"a", "b"}
    Pids = {1, 2}
    MaxBirths = 2
    MaxTurns = 1
INVARIANTS
    ProcessTypesOK
    LocksKept
    
    ThreadsKept
PROPERTY ProcessesEnd
CHECK_DEADLOCK FALSE
