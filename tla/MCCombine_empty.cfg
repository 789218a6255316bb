SPECIFICATION FairSpec
CONSTANT Lengths = {0}
PROPERTY CombinedSettles
CHECK_DEADLOCK FALSE
