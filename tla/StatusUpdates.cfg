CONSTANTS
    MaxSize = 2
    Balanced = TRUE
    MaxEdits = 2
    MaxChanges = 3
    MaxLag = 2
    MaxFaults = 1
SPECIFICATION FairSpec
PROPERTIES RunningIsOfThisSize  PauseRecordedRight StatusSettles
