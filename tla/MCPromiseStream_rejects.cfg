SPECIFICATION FairSpec
CONSTANTS
    SafePromiseStreams = TRUE
    MaxWrites = 2
PROPERTY FailureRejects
CHECK_DEADLOCK FALSE
