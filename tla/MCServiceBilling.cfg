\* Two services of one customer, two overlapping runs or commands.
SPECIFICATION FairSpec
CONSTANTS
    p1 = p1
    p2 = p2
    s1 = s1
    s2 = s2
    c1 = c1
    Procs <- MCProcs
    Services <- MCServices
    CustomerOf <- MCCustomerOf
    MonthsOf <- MCMonthsOf
    MaxTime = 2
    MaxEvents = 2
INVARIANTS
    NothingSkipped
    BilledOnceWhenDue
PROPERTIES
    CancelledForGood
    CatchesUp
CHECK_DEADLOCK FALSE
