SPECIFICATION FairSpec
CONSTANTS
    Tokens = {t1, t2}
    NoToken = NoToken
    NoRef = NoRef
    InlineRef = InlineRef
    AnswersInline = TRUE
    Lookup = TRUE
    Charged = {"plan", "pack"}
    MaxInlineSubmits = 2
    MaxStoreAttempts = 2
    FaultBudget = 3
    FaultCost = 1
INVARIANTS
    AbandonedHasNoOwner
PROPERTIES
    EveryGenerationEnds
CHECK_DEADLOCK FALSE
