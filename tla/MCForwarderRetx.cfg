CONSTANTS
  consumer = consumer
  upstream = upstream
  app = app
  noFace = noFace
  NoFace = noFace
  Face <- MCFace
  Local <- MCLocal
  LinkType <- MixedLinks
  Interest <- RetxInterest
  Data <- RetxData
  Downstream <- Downstreams
  RouteFace <- Upstreams
  FibPrefix <- RootPrefix
  Cost <- OneCost
  Region <- NoRegion
  Strategy = "best-route"
  AdmitUnsolicited <- NoRegion
  MaxLifetime = 2
  InitialInterval = 1
  MaxInterval = 2
  DnlLifetime = 1
  InitialFib <- RetxFib
  MaxInputs = 4
  MaxTime = 1
SPECIFICATION FairSpec
CHECK_DEADLOCK FALSE
INVARIANTS TypeOK InRecordsOwed EarlyTimerJustified
PROPERTIES FlowBalance EveryEntryFinalizes
