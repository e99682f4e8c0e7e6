CONSTANTS
    Threads = {t1, t2}
    Files = {"endpoint", "deployment"}
    Dynamic = {"{.id}"}
    Gone = Gone
    MaxChanges = 2
    DirOf <- MCDirOf
    Contents <- MCContents
SPECIFICATION Spec
INVARIANTS NoStrandedChange AppendedIsTracked
PROPERTY ChangesAreReported
CHECK_DEADLOCK FALSE
