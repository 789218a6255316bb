SPECIFICATION Spec
CONSTANTS
    Base = 3
    MaxValue = 242
    MaxOperand = 28
    MaxPadding = 2
    MaxFactorial = 5
    Cores = 2
    Chunk = 1
INVARIANT TypeOK
INVARIANT ComputesRight
INVARIANT ComparesRight
INVARIANT ConvertsRight
CHECK_DEADLOCK FALSE
