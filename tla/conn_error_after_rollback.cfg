SPECIFICATION Spec
CONSTANTS
    Thread = {t1}
    Reader = {}
    NoThread = NoThread
    NoConn = NoConn
    MaxCalls = 1
    MaxWrites = 2
    MaxSavepoints = 0
    WriterPreference = FALSE
    AutoRollback = TRUE
INVARIANTS
    ErrorRollsBack
