SPECIFICATION ResolveSpec
CONSTANTS
    a = a
    b = b
    d = d
    e = e
    BracedFile = braced
    BracedDir = bracedDir
    Missing = Missing
    File = {a, b, braced}
    Dir = {d, bracedDir}
    Doc <- SpreadDocs
    Stub <- SpreadStubs
INVARIANT NestedSpreadResolved
CHECK_DEADLOCK FALSE
