SPECIFICATION Spec
CONSTANTS
  Crew = {c1, c2}
  SegmentInputs <- MCSegmentInputs
  RestInputs <- MCRestInputs
  ExtensionInputs <- MCExtensionInputs
  TicksPerMin = 2
  ReportLeadMin = 60
  ReleaseLagMin = 15
  UnforeseenExtendMaxMin = 120
  UnforeseenYearlyLimit = 2
  YearMin = 525600
  MaxTrips = 2
  MaxSegments = 2
  MaxDuties = 2
  MaxRests = 1
SYMMETRY CrewSymmetry
INVARIANTS
  TypeOK
  ClosureLoggedOnce
  LandedPerClosure
  ExtensionLogged
  RestsLogged
  TripClosedByDuty
  DutyFollowsTrip
PROPERTIES
  PastIsFinal
  LedgerImplemented
CHECK_DEADLOCK FALSE
