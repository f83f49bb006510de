SPECIFICATION Spec
CONSTANTS
  Scenarios <- AllScenarios
  MaxQueue = 4
  UintRange = 2000
  FieldRange = 1150
  CutNames = {4}
  CutCreators = {4, 8}
  CutNumbers = {165}
  Garbage = {0, 2}
INVARIANTS TypeOK TokensConserved AcknowledgedIsStored DoneMeansServed
PROPERTIES BallotsNeverGrow HighestBidOnlyRises ClientFinishes
\* the programs wait for datagrams when the client has had its runs
CHECK_DEADLOCK FALSE
