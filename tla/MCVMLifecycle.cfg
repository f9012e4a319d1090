SPECIFICATION FairSpec
CONSTANTS
    p1 = p1
    p2 = p2
    v1 = v1
    v2 = v2
    c1 = c1
    n1 = n1
    Procs <- MCProcs
    VMs <- MCVMs
    Customers <- MCCustomers
    Nodes <- MCNodes
    MaxVmid = 1
    MaxFaults = 1
INVARIANTS
    RowsStand
    GuestHasRow
PROPERTIES
    OwnGuestDestroyed
    DeletionEnds
CHECK_DEADLOCK FALSE
