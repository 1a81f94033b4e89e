CONSTANTS
    l1 = l1
    l2 = l2
    t1 = t1
    t2 = t2
    Loop <- OneLoop
    MaxSize = 3
    Tpl <- TwoTpl
    Specs <- Orderly
    InitSpecs <- Orderly
    MaxEdits = 2
    MaxLag = 2
    MaxFaults = 2
    Patient = TRUE
SPECIFICATION FairSpec
INVARIANTS PodsFollowMembers LearnersUnlabelled OneUnstartedMember
  
