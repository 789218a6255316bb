SPECIFICATION FairSpec
CONSTANTS
    N = 3
    None = None
    Used = {{"next", "handler", "finalizer"}, {"next"}, {"handler"}, {"finalizer"}}
INVARIANT TypeOK
INVARIANT CalledInOrder
INVARIANT ErrorsPropagate
INVARIANT AbandonedOnlyByUnhandled
PROPERTY ChainEnds
