SPECIFICATION Spec
CONSTANTS
    Thread = {t1, t2}
    Reader = {}
    NoThread = NoThread
    NoConn = NoConn
    MaxCalls = 2
    MaxWrites = 2
    MaxSavepoints = 1
    WriterPreference = FALSE
    AutoRollback = TRUE
SYMMETRY ThreadSymmetry
INVARIANTS
    WriterConnectionIsOwned
    NoTransactionLeaks
PROPERTIES
    ReadsAreCommitted
