SPECIFICATION QuerySpec
CONSTANTS
    Row <- Rows
    NoLimit = NoLimit
    Stored <- FirstRows
    Null = Null
    None = None
    Eager = Eager
    Predicate <- Predicates
    OrderTerm <- Terms
    Parent = 1
    MaxCalls = 2
    MaxRows = 3
    MaxOffset = 1
    MaxLimit = 3
    MaxChunk = 2
CHECK_DEADLOCK FALSE
INVARIANTS
    TypeOK
    PagesAreTheWindow
    PagesAreFull
    EagerFormsAgree
    PlanMeansTheCalls
PROPERTIES
    EndsWithAll
    LimitedIterationEnds
    AssociationStaysScoped
