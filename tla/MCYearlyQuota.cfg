SPECIFICATION Spec
CONSTANTS
  Crew = {c1}
  SegmentInputs <- MCOneSegmentInput
  RestInputs <- MCNoRests
  ExtensionInputs <- MCExtended
  TicksPerMin = 1
  ReportLeadMin = 60
  ReleaseLagMin = 15
  UnforeseenExtendMaxMin = 120
  UnforeseenYearlyLimit = 2
  YearMin = 525600
  MaxTrips = 3
  MaxSegments = 3
  MaxDuties = 3
  MaxRests = 0
INVARIANT YearlyExtensionQuota
CHECK_DEADLOCK FALSE
