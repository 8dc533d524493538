SPECIFICATION Spec
CONSTANT Inputs <- MCInputs
INVARIANTS
  OneCellPerDuty
  MalformedNeverInflates
PROPERTY WorseNeverHelps
