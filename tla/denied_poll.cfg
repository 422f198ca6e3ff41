SPECIFICATION Spec
CONSTANTS
    Tokens = {t1, t2}
    NoToken = NoToken
    NoRef = NoRef
    InlineRef = InlineRef
    AnswersInline = FALSE
    Lookup = TRUE
    Charged = {"plan", "pack"}
    MaxInlineSubmits = 2
    MaxStoreAttempts = 2
    FaultBudget = 1
    FaultCost = 0
INVARIANTS
    PollRefundsOnlyStoppedWork
SYMMETRY Symmetry
CHECK_DEADLOCK FALSE
