CONSTANTS
    None = None
    Absent = Absent
    Empty = Empty
    Torn = Torn
    Template <- MCTemplate
    RuleSets <- MCRuleSets
    DeltaSets <- MCDeltaSets
    Requests = {r1}
    MaxDecisions = 2
    Jobs = {"build", "deltas", "review"}
    MayCrash = FALSE
    PriceBooks <- MCCurrencies
    Profiles <- MCProfiles
    InitialInputs <- MCPrepared
SPECIFICATION FairSpec
PROPERTIES ApprovalGetsEstimate
