CONSTANTS
    None = None
    Inline = Inline
    Threads = {t1}
    Endpoints = {"a/b", "a-b"}
    Others = {"made", "kept"}
    Modes = {"default", "reset", "ephemeral", "legacy"}
    Layouts = {TRUE}
    Path = "absolute"
    MaxRequests = 1
    MaxMutations = 2
    MaxEdits = 0
    MaxCrashes = 3
    MaxErrors = 1
    SlugOf <- MCSlugOf
    Bases <- MCNone
SPECIFICATION Spec
PROPERTY SeedWins
CHECK_DEADLOCK FALSE
