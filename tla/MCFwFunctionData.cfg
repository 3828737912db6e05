CONSTANTS
  consumer = consumer
  upstream = upstream
  app = app
  noFace = noFace
  NoFace = noFace
  Face <- MCFace
  Local <- MCLocal
  LinkType <- AllP2p
  Interest <- ChainInterest
  Data <- ChainData
  Downstream <- Downstreams
  RouteFace <- Upstreams
  FibPrefix <- ChainPrefixes
  Cost <- OneCost
  Region <- NoRegion
  Strategy = "function-chain"
  AdmitUnsolicited <- NoRegion
  MaxLifetime = 2
  InitialInterval = 1
  MaxInterval = 2
  DnlLifetime = 1
  InitialFib <- ChainFib
  MaxInputs = 4
  MaxTime = 1
SPECIFICATION Spec
CHECK_DEADLOCK FALSE
PROPERTIES DataHasRequestedFunction
