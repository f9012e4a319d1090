\* Two nodes by hand or ordered, two overlapping requests, one failure or change.
SPECIFICATION Spec
CONSTANTS
    p1 = p1
    p2 = p2
    Procs <- MCProcs
    Nodes <- TwoNodes
    NoNode = 0
    MaxEvents = 1
INVARIANTS
    ActiveInSwarm
    FoundedOnce
    ServerIffRow
SYMMETRY Interchangeable
CHECK_DEADLOCK FALSE
