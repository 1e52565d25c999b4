SPECIFICATION Spec
CONSTANTS
    node1 = node1
    node10 = node10
    other = other
    Nodes <- MCNodes
    Contains <- MCContains
    MaxRounds <- MCRounds
    MaxFaults = 1
INVARIANTS
    TypeOK
    NewestKept
    OneBackupEach
\* The registrations are bounded.
CHECK_DEADLOCK FALSE
