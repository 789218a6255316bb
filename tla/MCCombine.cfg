SPECIFICATION FairSpec
CONSTANT Lengths = {1, 2, 3}
INVARIANT TypeOK
PROPERTY Implements
PROPERTY RejectsEarly
PROPERTY CombinedSettles
CHECK_DEADLOCK FALSE
