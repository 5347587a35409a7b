SPECIFICATION FairSpec
CONSTANTS
    Peers = {"uav2"}
    MaxSamples = 10
    BudgetAccepted = TRUE
    Samples <- FreshSlowMissing
INVARIANT StateHasEvidence
PROPERTIES PartitionedOnlyAfterCongested HealthyLinkRecovers DeadLinkIsPartitioned
