CONSTANTS
    None = None
    InitialLinks <- MCInitialLinks
    NewLinks <- MCNewLinks
    RuleSets <- MCRuleSets
    DefaultRules <- MCDefaultRules
    Derive <- MCDerive
    Requests = {r1, r2}
    Loads <- MCAllLoads
    Documents <- MCDocuments
    Revisions = {1, 2}
    Claims <- MCClaims
    Policies <- MCPolicies
    Registry = {ovk}
    RunIds = {run1}
    Callers = {p1}
    MaxRuns = 2
SPECIFICATION AllSpec
SYMMETRY Threads
CONSTRAINT Prepared
INVARIANTS
    PromotionWasAccepted
    FactsWereAccepted
    PromotedIsFact
    DiffsReplay
    InvalidatedAreClaims
    KeptSourcesAreCurrent
    AllOrNothing
PROPERTIES
    ResultIsReproducible
    RunsNothingInvalidated
