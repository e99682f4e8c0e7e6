SPECIFICATION ResolveSpec
CONSTANTS
    a = a
    b = b
    d = d
    e = e
    BracedFile = braced
    BracedDir = bracedDir
    Missing = Missing
    File = {a, b, braced}
    Dir = {d, e, bracedDir}
    Doc <- LookupDocs
    Stub <- LookupStubs
INVARIANT ServesDocumented
CHECK_DEADLOCK FALSE
