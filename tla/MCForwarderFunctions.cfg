CONSTANTS
  consumer = consumer
  upstream = upstream
  app = app
  noFace = noFace
  NoFace = noFace
  Face <- MCFace
  Local <- MCLocal
  LinkType <- MixedLinks
  Interest <- OptionInterest
  Data <- OptionData
  Downstream <- Downstreams
  RouteFace <- UpstreamOnly
  FibPrefix <- ChainPrefixes
  Cost <- OneCost
  Region <- Region21
  Strategy = "function-chain"
  AdmitUnsolicited <- MCLocal
  MaxLifetime = 2
  InitialInterval = 1
  MaxInterval = 2
  DnlLifetime = 1
  InitialFib <- OptionFib
  MaxInputs = 3
  MaxTime = 1
SPECIFICATION Spec
CHECK_DEADLOCK FALSE
INVARIANTS LocalhostStaysLocal
