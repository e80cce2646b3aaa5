CONSTANTS
    x1 = x1
    x2 = x2
    x3 = x3
    m1 = m1
    m2 = m2
    d1 = d1
    h1 = h1
    h2 = h2
    Options <- MCOptions
    AllCaps <- All
    DefaultCaps <- Default
    MaxEdits = 1
    MaxFailures = 1
    Bundles <- MCBundles
    KernelPaths <- MCKernelPaths
    MaxRuns = 3
    Creates = {x1, x2, x3}
    Policies <- MCPolicies
    Owners = {0, 1, 3}
    MaxWait = 2
    MaxDeaths = 1
    Clients = {m1, d1}
    Droplets = {d1}
    Shims = {h1, h2}
    MaxInputs = 2
    MaxTries = 2
    MaxKills = 1
SPECIFICATION MCSpec
INVARIANTS
    StartedAsSealed
    RootAsAsked
    LayersSound
    AttachSound
    StartsAgain
PROPERTIES
    FeasibleContainerStarts
CHECK_DEADLOCK FALSE
