CONSTANTS
    Width = 5
    Default = 1
    Offered <- Everything
    MaxEdits = 3
    TLSFixed = TRUE
SPECIFICATION FairSpec
INVARIANTS TypeOK DataOnVolume FilesMounted
PROPERTIES ArgsFollowSpec LearnersPromoted
CHECK_DEADLOCK FALSE
