SPECIFICATION Spec
CONSTANTS
    alice = alice
    bob = bob
    s1 = s1
    s2 = s2
    k1 = k1
    k2 = k2
    g1 = g1
    g2 = g2
    e1 = e1
    e2 = e2
    Elections = {e1}
    Credentials = {alice, bob}
    Scopes = {s1}
    Salts = {k1, k2}
    Roots = {g1}
    BadFr = BadFr
    Callers = {"admin", "other"}
    Admin = "admin"
    ScopeOf <- MC_ScopeOf1
    StateTree <- MC_StateTree
    AssociationTree <- MC_AssociationTree
    Buckets = {0}
    BucketOf <- MC_BucketOfSame
    MaxOptions = 2
    CountMax = 1
    TallyMax = 1
    MaxTime = 3
    None = None
INVARIANTS
    IndInv
    CommittedCanBeRevealed
CHECK_DEADLOCK FALSE
