CONSTANTS
    None = None
    Absent = Absent
    Empty = Empty
    Torn = Torn
    Template <- MCTemplate
    RuleSets <- MCRuleSets
    DeltaSets <- MCDeltaSets
    Requests = {r1}
    MaxDecisions = 2
    Jobs = {"build", "deltas", "review", "profile", "command"}
    MayCrash = TRUE
    PriceBooks <- MCBooks
    Profiles <- MCProfiles
    InitialInputs <- MCPrepared
SPECIFICATION Spec
INVARIANTS EstimateWasApproved HistoryIsLegal ApprovedIsResolved AmountsAreOneCalculation
PROPERTIES ReviewLifecycleHolds BuildRepairsChain
CONSTRAINT Calm
