SPECIFICATION ReplaySpec
CONSTANTS
  Crew = {c1}
  SegmentInputs <- MCOneSegmentInput
  RestInputs <- MCNoRests
  ExtensionInputs <- MCNoExtension
  TicksPerMin = 2
  ReportLeadMin = 60
  ReleaseLagMin = 15
  UnforeseenExtendMaxMin = 120
  UnforeseenYearlyLimit = 2
  YearMin = 525600
  MaxTrips = 1
  MaxSegments = 1
  MaxDuties = 1
  MaxRests = 0
  AsOfs <- MCBoundaryAsOf
  ReplayAsOfs <- MCNoReplay
  MaxEvents = 0
  MaxStops = 0
CHECK_DEADLOCK FALSE
INVARIANT FlightWindowHalfOpen
