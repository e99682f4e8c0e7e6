SPECIFICATION Spec
CONSTANTS
    k1 = k1
    k2 = k2
    k3 = k3
    m1 = m1
    m2 = m2
    r1 = r1
    r2 = r2
    g1 = g1
    None = None
    Scope = {"rest"}
    Key = {k1, k2, k3}
    Match = {m1, m2}
    MatchOf <- SharedMatch
    Proc = {r1}
    ScopeOf <- OneRest
    MaxTime = 3
    FaultyDisk = FALSE
INVARIANTS
    ToldIsDurable
    QuietIsDurable
PROPERTY
    KeepsClock
