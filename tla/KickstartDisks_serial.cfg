SPECIFICATION Spec
CONSTANTS
    n1 = n1
    n2 = n2
    a = a
    b = b
    c = c
    d = d
    Nodes <- MCNodes
    Disks = {a, b, c, d}
    Sites <- PartSites
    PartOf <- MCPartOf
INVARIANT OwnDisksErased
\* A machine may stay off.
CHECK_DEADLOCK FALSE
