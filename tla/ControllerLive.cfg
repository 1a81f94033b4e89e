CONSTANTS
    n1 = n1
    w1 = w1
    w2 = w2
    Name <- OneName
    Worker <- OneWorker
    MaxUid = 1
    MaxGen = 2
    MaxRestarts = 1
    MaxLoops = 2
SPECIFICATION FairSpec
PROPERTIES LastVersionRead 
CHECK_DEADLOCK FALSE
