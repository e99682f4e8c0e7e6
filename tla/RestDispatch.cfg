CONSTANTS
    None = None
    Broken = Broken
    Named = {"{id}"}
    Threads = {t1, t2}
    Targets = {TRUE, FALSE}
    NewNames <- MCNewNames
    MaxRequests = 3
    RegexMatches <- MCRegexMatches
    Requests <- MCRequests
    Routes <- MCRoutes
    ApiPrefix <- Api
    Disk <- MCDisk
SPECIFICATION Spec
SYMMETRY Goroutines
INVARIANTS TypeOK WritesAsAnswered MissingIsCreated AnsweredByFirst
CHECK_DEADLOCK FALSE
