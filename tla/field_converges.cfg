SPECIFICATION FieldSpec
CONSTANTS
  Clients = {c1, c2}
  LegacyFacts <- MCLegacyFacts
  DefectTypes <- MCDefectTypes
  SystemTypes = {"FTX"}
  Dates <- MCDates
  Records <- MCRecords
  Properties <- MCProperties
  Hours <- MCHours
INVARIANT SidesConverge
CHECK_DEADLOCK FALSE
