SPECIFICATION FairSpec
CONSTANTS
    Tokens = {t1, t2}
    NoToken = NoToken
    NoRef = NoRef
    InlineRef = InlineRef
    AnswersInline = FALSE
    Lookup = TRUE
    Charged = {"plan", "pack"}
    MaxInlineSubmits = 2
    MaxStoreAttempts = 2
    FaultBudget = 2
    FaultCost = 1
INVARIANTS
    AtMostOneRender
    ReadyMeansUnsent
    WorkerRefundsOnlyStoppedWork
    DoneHasObject
    JobEndsWithGeneration
PROPERTIES
    StaleRunsAreMute
    PromiseKept
    KnownReferenceSettles
    AttendedGenerationEnds
CHECK_DEADLOCK FALSE
