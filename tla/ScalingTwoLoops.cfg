CONSTANTS
    l1 = l1
    l2 = l2
    t1 = t1
    t2 = t2
    Loop <- TwoLoops
    MaxSize = 3
    Tpl <- OneTpl
    Specs <- Sizes3
    InitSpecs <- One
    MaxEdits = 2
    MaxLag = 1
    MaxFaults = 1
    Patient = FALSE
SPECIFICATION Spec
PROPERTIES GrowOnlyWhenSettled 
