SPECIFICATION AssociationsSpec
CONSTANTS
    Thread = {t1, t2}
    Field = {t1, t2}
    FieldOf <- OwnField
    NoThread = NoThread
    NotLoaded = NotLoaded
    MaxChildren = 2
    MaxVersions = 2
SYMMETRY ThreadSymmetry
INVARIANTS
    LoadedCacheIsCoherent
    AssociationsTypeOK
    ClearedParentIsReread
PROPERTIES
    LoadsAreCommittedOrOwn
    CachedChildrenStay
