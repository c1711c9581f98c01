\* The white list of a fork may be filled, as the guardian of a daemon does.
SPECIFICATION FairSpec
CONSTANTS
    MaxForks = 2
    MaxFaults = 0
    MaxKills = 1
    PipeSize = 2
    AnyWhitelist = TRUE
PROPERTIES
    Answered
CHECK_DEADLOCK FALSE
