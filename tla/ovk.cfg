SPECIFICATION Spec
CONSTANTS
  Clients = {c1, c2}
  LegacyFacts <- MCLegacyFacts
  DefectTypes <- MCDefectTypes
  SystemTypes = {"FTX"}
  Dates <- MCDates
  Records <- MCRecords
  Properties <- MCProperties
  Hours <- MCHours
INVARIANTS
  EvidenceIsStored DraftIsAcceptable WatchListMissesNothing LedgerCountsOnce
PROPERTIES
  CertificateFollowsField
CHECK_DEADLOCK FALSE
