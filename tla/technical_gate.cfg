SPECIFICATION Spec
CONSTANTS
  Clients = {c1, c2}
  FindingIds <- MCFindingIds
  RuleGraphs <- MCRuleGraphs
  Incoming <- MCIncoming
  Orders <- MCOrders
  Graphs <- MCGraphs
  AuditGraphs <- MCAuditGraphs
  Raised <- MCRaised
  InitialUsers <- MCInitialUsers
  Customers = {"acme"}
  UserForms <- MCUserForms
  Bundles <- MCBundles
  Catalog <- MCCatalog
  SessionTime = 0
  Batches <- MCBatches
  Authorities <- MCAuthorities
  RuleSets <- MCRuleSets
  Profiles <- MCProfiles
  Baselines <- MCBaselines
  Entries = {e1, e2, e3}
  Savers = {s1, s2}
  MayCrash = TRUE
  Absent = Absent
  Empty = Empty
  Torn = Torn
PROPERTY ApprovalWaitsForBlockingIssues
CHECK_DEADLOCK FALSE
