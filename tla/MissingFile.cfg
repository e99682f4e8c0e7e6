CONSTANTS
    None = None
    Broken = Broken
    Named = {"{id}"}
    Threads = {t1, t2}
    Targets = {TRUE, FALSE}
    NewNames <- MCNewNames
    MaxRequests = 2
    RegexMatches <- MCRegexMatches
    Requests <- MCRequests
    Routes <- MCRoutes
    ApiPrefix <- Api
    Disk <- MCDisk
SPECIFICATION Spec
INVARIANT MissingFileTriesNext
CHECK_DEADLOCK FALSE
