CONSTANTS
    c1 = c1
    c2 = c2
    r1 = r1
    r2 = r2
    br0 = br0
    f1 = f1
    n1 = n1
    n2 = n2
    Bridges = {br0}
    DefaultBridge = br0
    Containers = {c1, c2}
    NoContainer = NoContainer
    Forwards = {f1}
    NumSubnets = 1
    BlockSize = 5
    Reqs = {r1, r2}
    Names = {n1, n2}
    NoName = NoName
    Faults = {"prepare", "gateway", "forward", "create", "delete", "reboot"}
    MaxFaults = 2
SPECIFICATION ContainerSpec
CONSTRAINT OneKindAndReboot
SYMMETRY ContainerSymmetry
INVARIANTS
    HoldersSound
    ContainerTypeOK
    AllOrNothing
    RulesSound
PROPERTIES
    UsesIpamAsSpecified
CHECK_DEADLOCK FALSE
