SPECIFICATION Spec
CONSTANTS
    Client = {c1}
    NoDefault = NoDefault
    NoPlan = NoPlan
    Tab = Tab
    Newline = Newline
    Separator <- Separators
    DefaultKey = 3
    NumberOf <- Numbers
    TextOf <- Texts
    Target <- IndexTarget
    InitialDb <- IndexDb
    OneProcess = TRUE
    MaxPlans = 2
    MaxRows = 0
CHECK_DEADLOCK FALSE
PROPERTIES
    UnblockedPlansApply
