CONSTANTS
    Missing = Missing
    m1 = m1
    m2 = m2
    Member <- Two
    Specs <- AllSpecs
    Supplies <- AllSupplies
    MaxCAs = 2
    MaxDeletes = 2
    MaxFaults = 1
SPECIFICATION Spec
INVARIANTS OperatorAccepted MembersTrust
PROPERTIES OperatorConnects
CHECK_DEADLOCK FALSE
