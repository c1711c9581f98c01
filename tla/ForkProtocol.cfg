\* Two forks: one after the other, or the second within a method of the first,
\* on either side. The code and the frames of a child fit into the pipe.
SPECIFICATION FairSpec
CONSTANTS
    MaxForks = 2
    MaxFaults = 2
    MaxKills = 2
    PipeSize = 2
    AnyWhitelist = FALSE
INVARIANTS
    TypeOK
    ChannelKept
    InSequence
    NothingLeft
PROPERTIES
    Answered
    AtomicForkSpec
\* All forks may be done and their processes gone.
CHECK_DEADLOCK FALSE
