SPECIFICATION Spec
CONSTANTS
    Peers = {"uav2", "uav3"}
    MaxSamples = 4
    BudgetAccepted = TRUE
    Samples <- FreshMissing
INVARIANT PartitionIsShown
