SPECIFICATION Spec
CONSTANTS
    c1 = c1
    c2 = c2
    c3 = c3
    f1 = f1
    None = None
    Call = {c1, c2, c3}
    File = {f1}
    DelayOf <- Delays
    Steps = 1
    MaxTime = 1
    MaxReloads = 0
    MaxBoots = 0
SYMMETRY Requests
INVARIANT OneTimelineAlive
CHECK_DEADLOCK FALSE
