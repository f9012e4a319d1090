SPECIFICATION DockerSpec
CONSTANTS
    p1 = p1
    p2 = p2
    d1 = d1
    d2 = d2
    k1 = k1
    k2 = k2
    v1 = v1
    a1 = a1
    a2 = a2
    n1 = n1
    m1 = m1
    m2 = m2
    w = w
    x = x
    y = y
    A = A
    B = B
    Local = local
    Requests = {p1, p2}
    Services = {d1, d2}
    Stacks = {k1, k2}
    Components = {v1}
    Apps = {a1, a2}
    DockerNodes = {n1}
    SwarmNodes = {m1, m2}
    ManagerNodes = {m1, m2}
    Names = {w}
    AppNames = {x, y}
    Specs = {A, B}
    Networked = {A}
    Batches <- MCBatches
    MaxCommands = 4
    MaxFaults = 1
VIEW MCView
SYMMETRY MCSymmetry
CHECK_DEADLOCK FALSE
INVARIANTS
    RunningIsDeployed
    NothingLeftBehind
