SPECIFICATION Spec
CONSTANTS
  DutyInputs <- MCDuties
  RestInputs <- MCRests
  AsOfs <- MCAsOfs
  Proposals <- MCProposals
  MaxLog = 3
  MaxLongLog = 4
  LongEntries <- MCLongEntries
CHECK_DEADLOCK FALSE
INVARIANTS
  RecordingOrderIrrelevant
  StreakIsTrailingRun
  EvaluatorAndDebtAgree
  DebtIsNetOfCredits
  DeadlineOfOldestUnpaid
PROPERTIES
  RestNeverHurts
  CheckIsEffect
