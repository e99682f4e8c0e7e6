SPECIFICATION TimelineSpec
CONSTANTS
    Entry <- AnyEntries
    MaxLen = 4
    MaxElapsed = 7
INVARIANTS
    FileFollowsRequests
    ServedInItsWindow
CHECK_DEADLOCK FALSE
