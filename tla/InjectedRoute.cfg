CONSTANTS
    None = None
    Inline = Inline
    Threads = {t1, t2}
    Endpoints = {"a/b", "a-b"}
    Others = {"made"}
    Modes = {"default", "reset", "ephemeral", "legacy"}
    Layouts = {TRUE, FALSE}
    Path = "absolute"
    MaxRequests = 2
    MaxMutations = 1
    MaxEdits = 1
    MaxCrashes = 1
    MaxErrors = 0
    SlugOf <- MCSlugOf
    Bases <- MCShadows
SPECIFICATION Spec
SYMMETRY Goroutines
PROPERTY InjectedIsServed
CHECK_DEADLOCK FALSE
