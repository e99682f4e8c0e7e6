CONSTANTS
    None = None
    Broken = Broken
    Named = {"{id}"}
    Threads = {t1}
    Targets = {TRUE, FALSE}
    NewNames <- MCNewNames
    MaxRequests = 1
    RegexMatches <- MCRegexMatches
    Requests <- MCReadRequests
    Routes <- MCReadRoutes
    ApiPrefix <- Api
    Disk <- MCDisk
SPECIFICATION Spec
INVARIANT StarsMatchAnySequence
CHECK_DEADLOCK FALSE
