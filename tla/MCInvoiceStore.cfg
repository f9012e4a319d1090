SPECIFICATION Spec
CONSTANTS
    p1 = p1
    p2 = p2
    i1 = i1
    i2 = i2
    k1 = k1
    Procs <- TwoProcs
    InvoiceIds <- TwoInvoices
    ItemIds <- OneItem
    Lines <- MixedRates
    MaxNew = 1
    Term = 0
    Interval = 1
    MaxTime = 2
    MaxCodes = 2
SYMMETRY Interchangeable
INVARIANTS
    CodesDistinct
    NetIsNearest
    TotalsMatchItems
    RowsInOrder
PROPERTIES
    Lifecycle
    RemindersApart
CHECK_DEADLOCK FALSE
