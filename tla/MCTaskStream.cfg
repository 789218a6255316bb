SPECIFICATION FairSpec
CONSTANTS
    ProducerPool = producer
    ConsumerPool = consumer
    ReactionPool = reaction
    MaxData = 3
INVARIANT TypeOK
INVARIANT ForwardsInOrder
INVARIANT ResultAfterData
INVARIANT StopPassedOn
PROPERTY TaskSettles
CHECK_DEADLOCK FALSE
