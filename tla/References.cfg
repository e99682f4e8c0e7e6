SPECIFICATION ResolveSpec
CONSTANTS
    a = a
    b = b
    d = d
    e = e
    BracedFile = braced
    BracedDir = bracedDir
    Missing = Missing
    File = {a, b, braced}
    Dir = {d, bracedDir}
    Doc <- Docs
    Stub <- Stubs
INVARIANTS
    ResolveTypeOK
    StackIsSimple
    FailsForCause
    ServesReachable
PROPERTY
    Terminates
CHECK_DEADLOCK FALSE
