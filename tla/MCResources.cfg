CONSTANTS
    u1 = u1
    u2 = u2
    s1 = s1
    s2 = s2
    s3 = s3
    Users = {u1}
    MaxDocs = 2
    MaxRequests = 1
    MaxTrouble = 1
    Services = {s1, s2, s3}
    BottleUsers = {u1, u2}
    Registrar = u1
    MaxActions = 2
    MaxFailures = 2
SPECIFICATION MCResSpec
INVARIANTS
    ApplySound
    BottleSound
CHECK_DEADLOCK FALSE
