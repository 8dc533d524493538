SPECIFICATION LegalSpec
CONSTANTS
  Crew = {c1, c2}
  SegmentInputs <- MCSegments
  RestInputs <- MCRests
  ExtensionInputs <- MCExtensions
  TicksPerMin = 1
  ReportLeadMin = 60
  ReleaseLagMin = 15
  UnforeseenExtendMaxMin = 120
  UnforeseenYearlyLimit = 2
  YearMin = 525600
  MaxTrips = 2
  MaxSegments = 2
  MaxDuties = 2
  MaxRests = 1
  AsOfs <- MCReplayAsOfs
  ReplayAsOfs <- MCReplayAsOfs
  MaxEvents = 4
  MaxStops = 0
  Requests <- MCRequests
  MaxEvaluations = 1
  MinLog = 9
CHECK_DEADLOCK FALSE
SYMMETRY CrewSymmetry
INVARIANTS
  EvaluatedAsFlown
  ReducedRestOnce
PROPERTIES
  OnlyOwnFactsMatter
  RestNeverBreaksRules
