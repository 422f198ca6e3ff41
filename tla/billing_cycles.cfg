SPECIFICATION Spec
CONSTANTS
    h1 = h1
    h2 = h2
    in_1 = in_1
    in_2 = in_2
    cs_1 = cs_1
    tx_1 = tx_1
    tx_2 = tx_2
    NoDelivery = NoDelivery
    Payments <- CyclePayments
    Terms <- CycleTerms
    Runs <- MCRuns
    MaxClock = 1
    FaultBudget = 1
    FaultCost = 1
    SubscriptionsInTurn = TRUE
SYMMETRY Symmetry
INVARIANTS
    NothingIsLost

    
CHECK_DEADLOCK FALSE
