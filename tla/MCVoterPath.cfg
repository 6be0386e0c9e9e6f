SPECIFICATION PathSpec
CONSTANTS
    c1 = c1
    h1 = h1
    v1 = v1
    k1 = k1
    k2 = k2
    k3 = k3
    a1 = a1
    b1 = b1
    b2 = b2
    Requests = {c1, h1, v1}
    Keys = {k1, k2, k3}
    Addresses = {a1}
    Ballots = {b1, b2}
    KeyOf <- MC_KeyOf
    AddressOf <- MC_AddressOf
    BallotOf <- MC_BallotOf
    KindOf <- MC_KindOf
    SourceOf <- MC_SourceOf
    Wire <- MC_Wire
    Concurrency = 1
    RateLimit = 2
    RateWindow = 1
    RotationPeriod = 1
    IdempotencyTtl = 1
    MaxService = 1
    MaxTime = 1
    MaxCrashes = 1
    None = None
    Refused = Refused
    Modulus = 11
    Base = 4
    Width = 2
    MaxLength = 2
    MaxCounter = 2
INVARIANTS
    FormatsAgree
    ToldTruth
CHECK_DEADLOCK FALSE
