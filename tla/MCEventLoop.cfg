SPECIFICATION Spec
CONSTANTS
    w1 = w1
    w2 = w2
    w3 = w3
    reactor = reactor
    service = service
    Workers <- Workers3
    PoolOrder <- TwoPools
    PoolOf <- PoolOf21
    Main = Main
    Free = Free
    Events = {e1, e2}
    NoEvent = NoEvent
    MaxJoins = 1
    SpuriousWakeups = TRUE
INVARIANT TypeOK
INVARIANT CounterIsBusy
INVARIANT JoinIsQuiescent
INVARIANT NotifyOneSuffices
PROPERTY Implements
CHECK_DEADLOCK FALSE
