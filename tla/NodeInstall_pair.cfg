SPECIFICATION Spec
CONSTANTS
    n1 = n1
    n2 = n2
    Nodes = {n1, n2}
    NIfaces = 2
    MaxPlans = 2
    MaxFaults = 1
    MaxReinstalls = 0
    MaxResets = 0
SYMMETRY NodeSymmetry
INVARIANTS
    IInv
    RegisteredMeansBootable
    DoneMeansDeregistered
PROPERTY ImplementsInstallService
\* The plans are bounded, and a machine may stay off.
CHECK_DEADLOCK FALSE
