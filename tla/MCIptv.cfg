\* Two requests at a time on subscriptions, two on stacks, one of a box.
SPECIFICATION Spec
CONSTANTS
    p1 = p1
    p2 = p2
    b1 = b1
    s1 = s1
    s2 = s2
    k1 = k1
    k2 = k2
    k3 = k3
    g1 = g1
    g2 = g2
    c1 = c1
    t1 = t1
    t2 = t2
    n1 = n1
    n2 = n2
    v1 = v1
    NoProvider = NoProvider
    Clerks <- TwoClerks
    Operators <- TwoClerks
    Boxes <- OneBox
    Subs <- TwoSubs
    Keys <- ThreeKeys
    Packages <- TwoPackages
    Channels <- OneChannel
    Providers <- OneProvider
    Stacks <- TwoStacks
    Nodes <- TwoNodes
    MaxEvents = 3
INVARIANTS
    CancelledIsOff
    OneKey
    RunningIsAssigned
SYMMETRY Interchangeable
CHECK_DEADLOCK FALSE
