\* One account, mailbox, conversation; requests against the worker.
SPECIFICATION Spec
CONSTANTS
    p1 = p1
    p2 = p2
    a1 = a1
    inbox = inbox
    hello = hello
    c1 = c1
    c2 = c2
    none = none
    Procs <- MCProcs
    Accounts <- MCAccounts
    Names <- MCNames
    Subjects <- MCSubjects
    Settings <- MCSettings
    Customers <- MCCustomers
    Correspondent <- MCCorrespondent
    NoCustomer = none
    MaxMessages = 2
    MaxEvents = 2
INVARIANTS
    NothingPassedOver
    OrdersStand
    UnreadMeansNew
    LinkStands

    
