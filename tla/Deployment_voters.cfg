SPECIFICATION Spec
CONSTANTS
  Scenarios <- VoteScenarios
  MaxQueue = 4
  UintRange = 2000
  FieldRange = 1150
  CutNames = {4}
  CutCreators = {4, 8}
  CutNumbers = {165}
  Garbage = {0, 2}
INVARIANT VotersAreSpecified
CHECK_DEADLOCK FALSE
