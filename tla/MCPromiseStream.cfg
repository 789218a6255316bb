SPECIFICATION FairSpec
CONSTANTS
    SafePromiseStreams = TRUE
    MaxWrites = 4
INVARIANT TypeOK
INVARIANT InOrder
INVARIANT CompletesAfterData
INVARIANT NoDataLost
INVARIANT NoStall
INVARIANT OneConsumer
INVARIANT NoUseAfterFree
PROPERTY StopHonoured
PROPERTY Completes
PROPERTY CompletedIsFreed
CHECK_DEADLOCK FALSE
