SPECIFICATION FairSpec
CONSTANTS
    w1 = w1
    w2 = w2
    w3 = w3
    reactor = reactor
    service = service
    Workers <- Workers2
    PoolOrder <- TwoPools
    PoolOf <- PoolOf11
    Main = Main
    Free = Free
    Events = {e1, e2}
    NoEvent = NoEvent
    MaxJoins = 1
    SpuriousWakeups = TRUE
PROPERTY JoinReturns
PROPERTY DestructorReturnsUnlessMissed
