CONSTANTS
    None = None
    Absent = Absent
    Empty = Empty
    Torn = Torn
    Template <- MCTemplate
    RuleSets <- MCRuleSets
    DeltaSets <- MCPricedDeltas
    Requests = {r1}
    MaxDecisions = 1
    Jobs = {"build", "review", "command"}
    MayCrash = FALSE
    PriceBooks <- MCBooks
    Profiles <- MCProfiles
    InitialInputs <- MCPrepared
SPECIFICATION Spec
INVARIANTS EstimateIsOneCalculation
