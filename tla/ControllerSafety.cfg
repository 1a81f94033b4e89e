CONSTANTS
    n1 = n1
    w1 = w1
    w2 = w2
    Name <- OneName
    Worker <- TwoWorkers
    MaxUid = 2
    MaxGen = 2
    MaxRestarts = 1
    MaxLoops = 2
SPECIFICATION Spec
SYMMETRY Symmetry
INVARIANTS TypeOK MappedIsUnstopped WakeUpPending
CHECK_DEADLOCK FALSE
