CONSTANTS
  file1 = file1
  file2 = file2
  f = f
  g = g
  consumer1 = consumer1
  consumer2 = consumer2
  File = {file1, file2}
  Function = {f, g}
  Consumer = {consumer1, consumer2}
  Request <- ChainRequest
  SizeOf <- ShorterResult
  MaxFinal = 2
  Scenario <- LossyOrSerial
SPECIFICATION FairSpec
INVARIANTS  NoFault
PROPERTIES Completes
CHECK_DEADLOCK FALSE
