SPECIFICATION Spec
CONSTANTS
  Requests = {r1, r2}
  NoRequest = none
  TxCounts <- MCTxCounts
  Statements = 2
  MaxCrashes = 1
INVARIANTS
  ConnectionNotLost
  AnswersAreTrue
  ClosedAfterGrace
PROPERTIES
  EveryRequestEnds
  StopsWhenTold
  OpensUnlessKilled
