SPECIFICATION FairSpec
CONSTANTS
    n1 = n1
    n2 = n2
    Nodes = {n1, n2}
    NIfaces = 1
    MaxPlans = 1
    MaxFaults = 1
    MaxReinstalls = 0
    MaxResets = 0
PROPERTIES
    PlanTerminates
    XinetdStopsIfApart
\* The plans are bounded, and a machine may stay off.
CHECK_DEADLOCK FALSE
