\* One session, three members of staff, two requests at a time.
SPECIFICATION ChatSpec
CONSTANTS
    p1 = p1
    p2 = p2
    s1 = s1
    u1 = u1
    u2 = u2
    u3 = u3
    t1 = t1
    t2 = t2
    t3 = t3
    Procs <- MCProcs
    Chats <- MCChats
    Users <- MCUsers
    ThreadIds <- MCThreadIds
    Deployments <- MCDeployments
    MaxAsked = 2
    MaxEvents = 1
INVARIANTS
    NothingSaidIsLost
    OneThreadForTwo
SYMMETRY Interchangeable
CHECK_DEADLOCK FALSE
