CONSTANTS
    None = None
    Inline = Inline
    Threads = {t1, t2}
    Endpoints = {"a/b", "a-b"}
    Others = {"made"}
    Modes = {"default", "reset", "ephemeral", "legacy"}
    Layouts = {TRUE, FALSE}
    Path = "relative"
    MaxRequests = 2
    MaxMutations = 1
    MaxEdits = 1
    MaxCrashes = 1
    MaxErrors = 0
    SlugOf <- MCSlugOf
    Bases <- MCNone
SPECIFICATION Spec
SYMMETRY Goroutines
PROPERTY InjectedIsFound
CHECK_DEADLOCK FALSE
