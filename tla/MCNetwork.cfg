CONSTANTS
    br0 = br0
    br1 = br1
    br2 = br2
    n1 = n1
    n2 = n2
    c1 = c1
    c2 = c2
    r1 = r1
    r2 = r2
    Bridges = {br0, br1, br2}
    DefaultBridge = br0
    Containers = {c1, c2}
    NoContainer = NoContainer
    Forwards = {}
    NumSubnets = 3
    BlockSize = 4
    Namespaces = {n1, n2}
    NoNamespace = NoNamespace
    BridgeOf <- MCBridgeOf
    NetReqs = {r1, r2}
    MaxOps = 4
    MaxFails = 1
SPECIFICATION NetworkSpec
SYMMETRY NetworkSymmetry
INVARIANTS
    HostMatchesPools
    SubnetsDisjoint
    NoSharedAddress
    ReservedNeverHeld
    LiveKeepsAddress
    NamespaceHasNetwork
CHECK_DEADLOCK FALSE
