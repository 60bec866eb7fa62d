SPECIFICATION Spec
CONSTANTS
    Thread = {t1, t2}
    NoThread = NoThread
    Name = {n1, Blank}
    Blank = Blank
    Unset = Unset
    MaxId = 2
    MaxInserts = 3
INVARIANTS
    TypeOK
    RowsAreValid
PROPERTIES
    SavedIsStored
    NoResurrection
    TransactionsLoseNoUpdate
    UpsertCreatesOnlyTheMissing
SYMMETRY Symmetry
