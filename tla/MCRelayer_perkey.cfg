SPECIFICATION Spec
CONSTANTS
    r1 = r1
    r2 = r2
    r3 = r3
    r4 = r4
    kA = kA
    kB = kB
    kC = kC
    kD = kD
    a1 = a1
    a2 = a2
    b1 = b1
    b2 = b2
    Requests = {r1, r2}
    Keys = {kA}
    Addresses = {a1, a2}
    Ballots = {b1}
    KeyOf <- MC_KeyOf
    AddressOf <- MC_RetryElsewhere
    BallotOf <- MC_SameBallot
    KindOf <- MC_Casts
    Concurrency = 2
    RateLimit = 1
    RateWindow = 2
    RotationPeriod = 3
    IdempotencyTtl = 2
    MaxService = 1
    MaxTime = 4
    MaxCrashes = 0
    None = None
INVARIANTS
    KeyRateLimited
CHECK_DEADLOCK FALSE
