SPECIFICATION MCSpec
CONSTANTS
    n1 = n1
    n2 = n2
    p1 = p1
    p2 = p2
    Nodes = {n1, n2}
    Profiles = {p1, p2}
    Sites <- MCSites
    MaxPlans = 2
    MaxFaults = 1
    MaxEdits = 1
INVARIANTS
    TypeOK
    AcceptedIsBuildable
    DueMeansPrepared
    ConfigureAtHand
    InstalledFromModel
    CurrentKickstart
    ServedIsModelled
    NeverStuck
PROPERTIES
    PlanEnds
    ImplementsInstallService
\* The plans are bounded.
CHECK_DEADLOCK FALSE
