SPECIFICATION Spec
CONSTANTS
    r1 = r1
    r2 = r2
    r3 = r3
    r4 = r4
    kA = kA
    kB = kB
    kC = kC
    kD = kD
    a1 = a1
    a2 = a2
    b1 = b1
    b2 = b2
    Requests = {r1, r2, r3, r4}
    Keys = {kA, kB}
    Addresses = {a1}
    Ballots = {b1}
    KeyOf <- MC_OneOtherKey
    AddressOf <- MC_OneAddress
    BallotOf <- MC_SameBallot
    KindOf <- MC_Casts
    Concurrency = 1
    RateLimit = 3
    RateWindow = 4
    RotationPeriod = 4
    IdempotencyTtl = 1
    MaxService = 2
    MaxTime = 2
    MaxCrashes = 1
    None = None
SYMMETRY MC_Alike
INVARIANTS
    TypeOK
    InFlightKeyHasRequest
    OneExecutionPerKey
    AnswersAreTrue
    AcceptedOnce
    ReplayHasOriginal
CHECK_DEADLOCK FALSE
