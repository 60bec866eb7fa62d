SPECIFICATION Spec
CONSTANTS
    Entries <- MCEntries
    Types <- MCTypes
    Number <- MCNumber
    Truthy <- MCTruthy
    Falsy <- MCFalsy
    SingleChar <- MCSingleChar
    Blank <- MCBlank
    Variants <- MCVariants
    Bits = 3
    None = None
    MaxEntries = 4
CHECK_DEADLOCK FALSE
INVARIANTS
    ReadsWhatWasSent
    StoredValuesReadBack
