SPECIFICATION FairSpec
CONSTANTS
    h1 = h1
    h2 = h2
    in_1 = in_1
    in_2 = in_2
    cs_1 = cs_1
    tx_1 = tx_1
    tx_2 = tx_2
    NoDelivery = NoDelivery
    Payments <- PackPayments
    Terms <- PackTerms
    Runs <- MCRuns
    MaxClock = 0
    FaultBudget = 1
    FaultCost = 1
    SubscriptionsInTurn = TRUE
INVARIANTS
    MoneyMovesOnce
PROPERTIES
    PaidPackIsGranted
CHECK_DEADLOCK FALSE
