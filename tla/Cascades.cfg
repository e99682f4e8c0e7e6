SPECIFICATION Spec
CONSTANTS
    f1 = f1
    f2 = f2
    d1 = d1
    r1 = r1
    r2 = r2
    None = None
    Torn = Torn
    Request = {r1, r2}
    Path = {f1, f2, d1}
    Dir = {d1}
    Plan <- Plans
    SharedFiles = FALSE
    FaultyDisk = TRUE
SYMMETRY Requests
PROPERTIES
    AllOrNothing
    KeepsAtomic
CHECK_DEADLOCK FALSE
