CONSTANTS
  Data <- MCData
  Interest <- MCInterest
  Limit = {0, 1, 2, 3}
  PolicyName = {"lru", "priority_fifo"}
  MaxTime = 2
SPECIFICATION Spec
INVARIANTS QueuesMatchTable FindCompleteForPlain
PROPERTIES EvictsLeastRecent EvictsByPriority
