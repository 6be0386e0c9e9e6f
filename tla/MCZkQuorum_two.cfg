SPECIFICATION Spec
CONSTANTS
    alice = alice
    bob = bob
    s1 = s1
    s2 = s2
    k1 = k1
    k2 = k2
    g1 = g1
    g2 = g2
    e1 = e1
    e2 = e2
    Elections = {e1, e2}
    Credentials = {alice}
    Scopes = {s1, s2}
    Salts = {k1}
    Roots = {g1}
    BadFr = BadFr
    Callers = {"admin"}
    Admin = "admin"
    ScopeOf <- MC_ScopeOf2
    StateTree <- MC_StateTree
    AssociationTree <- MC_AssociationTree
    Buckets = {0, 1}
    BucketOf <- MC_BucketOf
    MaxOptions = 2
    CountMax = 2
    TallyMax = 2
    MaxTime = 2
    None = None
INVARIANTS
    OneBallotPerCredential
PROPERTIES
    Irrevocable
    ImplementsBallotBox
CHECK_DEADLOCK FALSE
