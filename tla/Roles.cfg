CONSTANTS
    MaxPods = 2
    MaxIds = 3
    MaxChanges = 1
    MaxFaults = 1
SPECIFICATION Spec
INVARIANTS TypeOK VotersAreVoters
PROPERTIES QuietSyncIsRight RolesSettle
CHECK_DEADLOCK FALSE
