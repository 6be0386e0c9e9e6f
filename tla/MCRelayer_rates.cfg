SPECIFICATION Spec
CONSTANTS
    r1 = r1
    r2 = r2
    r3 = r3
    r4 = r4
    kA = kA
    kB = kB
    kC = kC
    kD = kD
    a1 = a1
    a2 = a2
    b1 = b1
    b2 = b2
    Requests = {r1, r2, r3, r4}
    Keys = {kA, kB}
    Addresses = {a1}
    Ballots = {b1, b2}
    KeyOf <- MC_KeyOf
    AddressOf <- MC_OneAddress
    BallotOf <- MC_TwoBallots
    KindOf <- MC_SomeReveals
    Concurrency = 2
    RateLimit = 1
    RateWindow = 2
    RotationPeriod = 3
    IdempotencyTtl = 2
    MaxService = 1
    MaxTime = 4
    MaxCrashes = 0
    None = None
INVARIANTS
    AddressRateBounded
CHECK_DEADLOCK FALSE
