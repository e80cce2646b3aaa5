CONSTANTS
    r1 = r1
    r2 = r2
    Reqs = {r1}
    MaxInst = 2
SPECIFICATION DropletSpec
INVARIANTS
    RunningWasStarted
CHECK_DEADLOCK FALSE
