CONSTANTS
    None = None
    Inline = Inline
    Threads = {t1, t2}
    Endpoints = {"a/b", "a-b"}
    Others = {"made"}
    Modes = {"default", "reset", "ephemeral", "legacy"}
    Layouts = {TRUE, FALSE}
    Path = "absolute"
    MaxRequests = 3
    MaxMutations = 1
    MaxEdits = 1
    MaxCrashes = 1
    MaxErrors = 1
    SlugOf <- MCSlugOf
    Bases <- MCBases
SPECIFICATION Spec
SYMMETRY Goroutines
INVARIANTS CommittedRouteHasStub RecordedStaysServed
PROPERTY SeedWins
CHECK_DEADLOCK FALSE
