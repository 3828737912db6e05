CONSTANT Scenario <- Scenarios
SPECIFICATION Spec
INVARIANTS TypeOK ListensWhilePending
PROPERTIES KeepsPromise EveryInterestEnds 
CHECK_DEADLOCK FALSE
