CONSTANTS
    p1 = p1
    p2 = p2
    a1 = a1
    Policies = {p1, p2}
    GenIds = {1, 2, 3, 4}
    ChainOf <- MCChainOf
    Needs <- MCNeeds
    Pods = {a1}
    Requests = {r1}
    Ctl = ctl
    MaxOps = 4
    MaxFaults = 1
SPECIFICATION PolicyFairSpec
INVARIANTS
    PolicyStoreSound
    CommittedIsInstalled
PROPERTIES
    MarkSticks
    GeneratedGetsCommitted
CHECK_DEADLOCK FALSE
