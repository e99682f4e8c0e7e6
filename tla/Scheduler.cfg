SPECIFICATION FairSpec
CONSTANTS
    c1 = c1
    c2 = c2
    f1 = f1
    f2 = f2
    None = None
    Call = {c1, c2}
    File = {f1, f2}
    FileOf <- OwnFiles
    DelayOf <- Delays
    Steps = 2
    MaxTime = 1
    MaxReloads = 2
    MaxBoots = 2
    MaxEvents = 3
INVARIANTS
    DrainedStaysDrained
    ReloadCancels
    OnDiskIsAlive
    ArmedIsPersisted
PROPERTIES
    ReloadReturns
    FileMovesForward
    SettledIsApplied
    RecordedIsSettled
CHECK_DEADLOCK FALSE
