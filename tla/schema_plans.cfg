SPECIFICATION MCSpec
CONSTANTS
    Client = {c1, c2}
    NoDefault = NoDefault
    NoPlan = NoPlan
    Tab = Tab
    Newline = Newline
    Separator <- Separators
    DefaultKey = 3
    NumberOf <- Numbers
    TextOf <- Texts
    Target <- AnyTarget
    InitialDb <- AnyDb
    OneProcess = TRUE
    MaxPlans = 2
    MaxRows = 2
SYMMETRY ClientSymmetry
CHECK_DEADLOCK FALSE
INVARIANTS
    TypeOK
    HistoryReadsBack
PROPERTIES
    ApplyReachesTarget
    UnblockedPlansApply
    SafeApplyLosesNothing
    TargetTablesKeepTheirRows
    OnlyManagedTablesChange
    RunsOnPlannedSource
