CONSTANTS
  Face = {1, 2}
  Scenario <- Scenarios
  MaxTimeouts = 1
  CountModulus = 4
SPECIFICATION Spec
INVARIANTS TypeOK  RibHoldsAccepted
PROPERTIES UpdatesEnd RoutesOfGoneFacesGo
CHECK_DEADLOCK FALSE
