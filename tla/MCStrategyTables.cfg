CONSTANTS
  Face = {1, 2}
  MinSize = 4
  Name <- AllNames
  Hash <- ComputeHash
  None = None
  Scenario <- NestedAndDeep
SPECIFICATION Spec
INVARIANTS TypeOK TreeIndexed NoIdleNode StrategyInfoCurrent RtoTimerHasInRecord NewNextHopReachesAll
PROPERTIES NodesGo
CHECK_DEADLOCK FALSE
