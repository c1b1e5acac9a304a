SPECIFICATION CasesSpec
CONSTANTS
  Clients = {c1, c2}
  LegacyFacts <- MCLegacyFacts
  DefectTypes <- MCDefectTypes
  SystemTypes = {"FTX"}
  Dates <- MCDates
  Records <- MCRecords
  Properties <- MCProperties
  Hours <- MCHours
PROPERTY ClosedStays
CHECK_DEADLOCK FALSE
