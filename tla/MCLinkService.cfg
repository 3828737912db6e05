CONSTANTS
  a = a
  b = b
  Node = {a, b}
  Packet <- Packets
  Scenario <- Scenarios
  NMaxFragments = 4
  TxModulus = 5
  MaxRetx = 1
  SeqNumLossThreshold = 1
  SeqModulus = 8
  InitialTx = 2
  AllowMarking = FALSE
SPECIFICATION Spec
INVARIANTS FirstIsOldest IteratorsValid PassedOnceInWindow AcksFit
PROPERTIES KeepsPromise EveryOfferEnds AcksAreSent
CHECK_DEADLOCK FALSE
