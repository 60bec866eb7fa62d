SPECIFICATION Spec
CONSTANTS
    Thread = {t1, t2}
    Reader = {r1}
    NoThread = NoThread
    NoConn = NoConn
    MaxCalls = 1
    MaxWrites = 3
    MaxSavepoints = 3
    WriterPreference = FALSE
    AutoRollback = FALSE
SYMMETRY ThreadSymmetry
INVARIANTS
    SavepointsMatchClosures
    FailureLeavesNothing
PROPERTIES
    ImplementsStore
