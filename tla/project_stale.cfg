CONSTANTS
    None = None
    Documents <- MCDocuments
    Revisions = {1, 2}
    Claims <- MCClaims
    Policies <- MCPolicies
    Registry = {ovk}
    RunIds = {run1}
    Callers = {c1}
    MaxRuns = 2
SPECIFICATION ProjectSpec
INVARIANT DecisionsFollowSources
CONSTRAINT Prepared
