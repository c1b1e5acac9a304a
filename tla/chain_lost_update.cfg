CONSTANTS
    None = None
    Absent = Absent
    Empty = Empty
    Torn = Torn
    Requests = {r1, r2}
    MaxDecisions = 2
    Jobs = {"build", "review"}
    MayCrash = FALSE
    DeltaSets <- MCPricedDeltas
    RuleSets <- MCRuleSets
    PriceBooks <- MCOneBook
    Profiles <- MCProfiles
    InitialInputs <- MCPrepared
    Template <- MCTemplate
SPECIFICATION Spec
PROPERTIES DecisionStands
