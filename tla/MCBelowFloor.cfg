SPECIFICATION Spec
CONSTANTS
  DutyInputs <- MCDuties
  RestInputs <- MCRests
  AsOfs <- MCAsOfs
  Proposals <- MCProposals
  MaxLog = 2
  MaxLongLog = 2
  LongEntries <- MCNoEntries
CHECK_DEADLOCK FALSE
INVARIANT BelowFloorAlwaysViolates
