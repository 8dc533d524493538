SPECIFICATION Spec
CONSTANTS
  Crew = {c1}
  SegmentInputs <- MCSegmentInputs
  RestInputs <- MCNoRests
  ExtensionInputs <- MCExtended
  TicksPerMin = 1
  ReportLeadMin = 60
  ReleaseLagMin = 15
  UnforeseenExtendMaxMin = 120
  UnforeseenYearlyLimit = 2
  YearMin = 525600
  MaxTrips = 1
  MaxSegments = 1
  MaxDuties = 2
  MaxRests = 0
INVARIANT LandedAtMostOnce
CHECK_DEADLOCK FALSE
