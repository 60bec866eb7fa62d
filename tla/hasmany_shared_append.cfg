SPECIFICATION Spec
CONSTANTS
    Thread = {t1, t2}
    Field = {f1}
    FieldOf <- OneField
    NoThread = NoThread
    NotLoaded = NotLoaded
    MaxChildren = 2
INVARIANTS
    LoadedCacheIsCoherent
