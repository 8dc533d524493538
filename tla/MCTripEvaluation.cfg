SPECIFICATION Spec
CONSTANTS
  Callers = {p1, p2}
  Crew = {c1}
  Trips <- MCTrips
  Years <- MCTwoYears
  OtherRules = {"R1"}
  YearlyLimit = 1
  MaxSegments = 1
  MaxEvaluations = 3
  MaxExtensions = 1
  MaxUnlogged = 1
CHECK_DEADLOCK FALSE
SYMMETRY CallerSymmetry
INVARIANTS
  EvaluationsLogged
  AnswersAreStored
PROPERTY VerdictsOnlyHarden
