SPECIFICATION Spec
CONSTANTS
    node1 = node1
    node10 = node10
    other = other
    Nodes <- MCNodes
    Contains <- MCContains
    MaxRounds <- OneRound
    MaxFaults = 0
INVARIANTS
    BackupSurvives
\* The registrations are bounded.
CHECK_DEADLOCK FALSE
