SPECIFICATION Spec
CONSTANTS
    SafePromiseStreams = TRUE
    MaxWrites = 2
INVARIANT FailureOverrides
CHECK_DEADLOCK FALSE
