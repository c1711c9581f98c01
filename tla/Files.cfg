SPECIFICATION FilesSpec
CONSTANTS
    PollFiles = {1, 2}
    Disconnecting = {1}
    Timers = {1, 2}
    Period = 3
    TickScale = 2
    MaxClock = 5
    MaxTouches = 1
    Length = 2
    TransferPeriods = {0, 1}
    MaxTransferClock = 3
    MaxTransferStops = 1
    MaxSupplied = 3
    MaxStolen = 1
    Wrap = 32
    NameTaken = 1
    FileThreads = {"a", "b"}
    StandardFds = {0, 1}
    LastFd = 4
    Orphans = {2}
    MaxFileOps = 3
    TableSize = 6
    Capacity = 1
    MaxFrames = 4
    MaxSaved = 1
    MaxFrameSignals = 2
    Writers = {"a", "b"}
    ProcessOf <- OneProcess
    MaxMessages = 3
    MaxText = 5
    IntBits = 3
    LongBits = 5
    Peers = {"a", "b"}
    SocketTable = 4
    NameCount = 2
    MaxObjects = 3
    Lockers = {"a", "b"}
    Bytes = {1}
    MaxDescriptions = 2
    MaxLockSignals = 1
    FetchThreads = {"a", "b"}
    MaxFile = 4
    FirstSize = 1
    FaultProcs = {"a", "b", "c"}
    Program = "a"
    MaxLevel = 5
    MaxInits = 2
    FlagThreads = {"a", "b"}
    FlagTable = 4
    MaxFlagCalls = 2
    MicroScale = 2
    MaxMicros = 3
    MaxNow = 12
    UptimeWrap = 128
    MaxFraction = 2
    MaxProcText = 4
    MaxName = 3
INVARIANTS
    FileTypesOK
    PollKept
    
    
    
CHECK_DEADLOCK FALSE
