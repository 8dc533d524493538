SPECIFICATION ReplaySpec
CONSTANTS
  Crew = {c1, c2}
  SegmentInputs <- MCSegmentInputs
  RestInputs <- MCNoRests
  ExtensionInputs <- MCNoExtension
  TicksPerMin = 2
  ReportLeadMin = 60
  ReleaseLagMin = 15
  UnforeseenExtendMaxMin = 120
  UnforeseenYearlyLimit = 2
  YearMin = 525600
  MaxTrips = 2
  MaxSegments = 2
  MaxDuties = 2
  MaxRests = 0
  AsOfs <- MCAsOfs
  ReplayAsOfs <- MCReplayAsOfs
  MaxEvents = 6
  MaxStops = 1
SYMMETRY CrewSymmetry
CHECK_DEADLOCK FALSE
INVARIANTS
  ReplayTypeOK
  RebuildMatchesDuties
  RebuildMatchesFlights
  OverridesExplainSnapshots
PROPERTIES
  TotalsNeverShrink
  ReplayConverges
