CONSTANTS
    r1 = r1
    r2 = r2
    Reqs = {r1, r2}
    MaxInst = 1
SPECIFICATION FairDropletSpec
INVARIANTS
    DropletSound
PROPERTIES
    CachedDeathReported
CHECK_DEADLOCK FALSE
