SPECIFICATION FairPSpec
CONSTANTS
    c1 = c1
    s1 = s1
    s2 = s2
    r1 = r1
    r2 = r2
    p1 = p1
    NoSession = NoSession
    Customers <- MCCustomers
    Sessions <- OneSession
    Amounts <- MCAmounts
    Prices <- MCAmounts
    Corrections <- MCCorrections
    Requests <- TwoRequests
    Plans <- MCPlans
    MaxDeliveries = 2
    MaxCrashes = 1
    MaxEdits = 2
INVARIANTS
    BooksBalance
    MoneyConserved
    OnlyPaidTopupsCredited
    DoneIsFair
PROPERTIES
    ImplementsPurse
    QueueDrains
CHECK_DEADLOCK FALSE
