SPECIFICATION Spec
CONSTANTS
    Client = {c1, c2}
    NoDefault = NoDefault
    NoPlan = NoPlan
    Tab = Tab
    Newline = Newline
    Separator <- Separators
    DefaultKey = 3
    NumberOf <- Numbers
    TextOf <- Texts
    Target <- TwoTableTarget
    InitialDb <- TwoTableDb
    OneProcess = FALSE
    MaxPlans = 1
    MaxRows = 0
CHECK_DEADLOCK FALSE
PROPERTIES
    RunsOnPlannedSource
