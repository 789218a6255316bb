SPECIFICATION Spec
CONSTANTS
    NoThread = NoThread
    NoValue = NoValue
    Threads = {t1, t2, t3}
    Values = {v1, v2}
    SafePromises = TRUE
    MaxSettles = 3
    MaxBinds = 2
INVARIANT TypeOK
INVARIANT DeliversAccepted
INVARIANT CompletesOnce
INVARIANT NoLostCallback
INVARIANT NoUseAfterFree
CHECK_DEADLOCK FALSE
