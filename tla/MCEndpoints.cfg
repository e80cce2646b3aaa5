CONSTANTS
    s1 = s1
    s2 = s2
    p1 = p1
    p2 = p2
    a1 = a1
    x1 = x1
    i1 = i1
    i2 = i2
    Services = {s1, s2}
    Pods = {p1, p2}
    Addrs = {a1, a2}
    NoAddr = NoAddr
    Manifests <- MCManifests
    Selects <- MCSelects
    ChainNames = {x1, x2}
    CidrSize = 4
    MaxOps = 3
    MaxChurn = 1
    MaxFaults = 1
    Ingresses = {i1, i2}
    NsOf <- MCNsOf
    IngressSpecs <- MCIngressSpecs
    Hosts = {"h"}
    Backends <- MCBackends
    Threads = {t1, t2}
    Names = {"n1", "n2", "n3", "l"}
    LocalNames = {"l"}
    CacheKeys = 2
    Ttl = 1
    Clients = {c1, c2}
    MaxTime = 3
    MaxEdgeOps = 3
SPECIFICATION MCSpec
INVARIANTS
    RulesAsRecorded
    ServicesSound
    EdgeSound
PROPERTIES
    CacheHonest
    PodEventuallyReached
CHECK_DEADLOCK FALSE
