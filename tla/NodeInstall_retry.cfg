SPECIFICATION Spec
CONSTANTS
    n1 = n1
    Nodes = {n1}
    NIfaces = 2
    MaxPlans = 3
    MaxFaults = 2
    MaxReinstalls = 1
    MaxResets = 2
INVARIANTS
    TypeOK
    FreshPxe
    DoneMeansReinstalled
    RetryNeverRefused
    XinetdStopsWithLastSystem
\* The plans are bounded, and a machine may stay off.
CHECK_DEADLOCK FALSE
