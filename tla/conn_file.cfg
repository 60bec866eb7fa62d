SPECIFICATION FairSpec
CONSTANTS
    Thread = {t1, t2, t3}
    Reader = {r1}
    NoThread = NoThread
    NoConn = NoConn
    MaxCalls = 1
    MaxWrites = 1
    MaxSavepoints = 0
    WriterPreference = TRUE
    AutoRollback = FALSE
INVARIANTS
    TypeOK
    ExclusiveRunsAlone
    PoolConserved
    NoLostWakeup
PROPERTIES
    EveryCallReturns
