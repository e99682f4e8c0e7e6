SPECIFICATION Spec
CONSTANTS
    k1 = k1
    k2 = k2
    k3 = k3
    m1 = m1
    m2 = m2
    r1 = r1
    r2 = r2
    g1 = g1
    None = None
    Scope = {"rest", "grpc"}
    Key = {k1}
    Match = {m1, m2}
    MatchOf <- OneKey
    Proc = {r1, r2, g1}
    ScopeOf <- TwoRestAndGrpc
    MaxTime = 1
    FaultyDisk = TRUE
INVARIANTS
    OnlyOwnTimesOnDisk
    OneClockPerSequence
