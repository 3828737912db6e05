CONSTANTS
  Face = {1, 2}
  Scenario <- LateScenarios
  MaxTimeouts = 1
  CountModulus = 4
SPECIFICATION Spec
INVARIANT RibHoldsAccepted
CHECK_DEADLOCK FALSE
