SPECIFICATION CallSpec
CONSTANTS
    Scalar = Scalar
    None = None
    FieldsOf <- Messages
    Method <- Methods
    Route <- Routes
    Seed <- Seeds
INVARIANTS
    CallTypeOK
    EntityOnDisk
    FailureChangesNothing
    TimelineFollowsFile
    DerivedIsUnambiguous
