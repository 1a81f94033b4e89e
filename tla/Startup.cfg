CONSTANTS
    p1 = p1
    p2 = p2
    node = node
    Proc <- Two
    Host <- OneHost
    NoRecord = NoRecord
    Gone = Gone
    LeaseDuration = 5
    RenewDeadline = 2
    RetryPeriod = 1
    AnswerDelay = 1
    MaxFaults = 3
SPECIFICATION Spec
INVARIANTS TypeOK  LoopsSeeFullCaches
PROPERTIES  SomeoneControls 
CHECK_DEADLOCK FALSE
