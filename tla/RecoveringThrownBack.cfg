SPECIFICATION Spec
CONSTANTS
    Peers = {"uav2"}
    MaxSamples = 10
    BudgetAccepted = TRUE
    Samples <- FreshMissing
PROPERTIES RecoveringEndsInGood
