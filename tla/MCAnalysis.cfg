CONSTANTS
    TestRuntimes <- Runtimes
    Nums <- OneAndTwo
    MaxIterations = 2
    MaxCampaigns = 2
    MaxFailures = 1
SPECIFICATION Spec
INVARIANTS
    TypeOK
    ConfigsFit
    RowsOwnIterations
    CompletedCampaignReported
CHECK_DEADLOCK FALSE
