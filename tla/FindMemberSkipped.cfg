CONSTANTS
    l1 = l1
    l2 = l2
    t1 = t1
    t2 = t2
    Loop <- OneLoop
    MaxSize = 3
    Tpl <- OneTpl
    Specs <- Learners3
    InitSpecs <- One
    MaxEdits = 3
    MaxLag = 1
    MaxFaults = 1
    Patient = FALSE
SPECIFICATION Spec
PROPERTIES GrownReplicaIsMember
