CONSTANTS
    w1 = w1
    w2 = w2
    AllStores <- MCAllStores
    Callers = {w1, w2}
    Ids = {"i1", "i2"}
    MaxCalls = 2
    MaxTrouble = 1
SPECIFICATION StoreSpec
INVARIANT
    StoreSound
PROPERTY
    StoreImplements
CHECK_DEADLOCK FALSE
