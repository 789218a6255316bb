SPECIFICATION FairSpec
CONSTANTS
    w1 = w1
    w2 = w2
    w3 = w3
    reactor = reactor
    service = service
    Workers <- Workers2
    PoolOrder <- OnePool
    PoolOf <- PoolOf2
    Main = Main
    Free = Free
    Events = {e1}
    NoEvent = NoEvent
    MaxJoins = 0
    SpuriousWakeups = FALSE
PROPERTY DestructorReturns
CHECK_DEADLOCK FALSE
