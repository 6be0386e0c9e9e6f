SPECIFICATION Spec
CONSTANTS
    alice = alice
    bob = bob
    s1 = s1
    k1 = k1
    k2 = k2
    g1 = g1
    e1 = e1
    Elections = {e1}
    Credentials = {alice, bob}
    Scopes = {s1}
    Salts = {k1, k2}
    Roots = {g1}
    BadFr = BadFr
    Callers = {"admin"}
    Admin = "admin"
    ScopeOf <- MC_ScopeOf
    StateTree <- MC_Trees
    AssociationTree <- MC_Trees
    Buckets = {0, 1}
    BucketOf <- MC_BucketOf
    MaxOptions = 2
    CountMax = 2
    TallyMax = 2
    MaxTime = 3
    None = None
INVARIANTS
    NoProofSkipped
CHECK_DEADLOCK FALSE
