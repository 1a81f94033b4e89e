CONSTANTS
    l1 = l1
    l2 = l2
    Loop <- TwoLoops
    Cert <- TwoCerts
    Specs <- Contrast
    InitSpecs <- Contrast
    MaxEdits = 1
    MaxDeletes = 1
    MaxCAs = 2
    MaxLag = 1
    MaxFaults = 1
SPECIFICATION FairSpec
INVARIANTS CertsShareCA PodsCanMount AddressKnown
PROPERTIES ResourcesReady
