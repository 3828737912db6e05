CONSTANTS
  file1 = file1
  file2 = file2
  f = f
  g = g
  consumer1 = consumer1
  consumer2 = consumer2
  File = {file1, file2}
  Function = {f}
  Consumer = {consumer1, consumer2}
  Request <- OneFunction
  SizeOf <- TwoSegments
  MaxFinal = 1
  Scenario <- ParallelOnly
SPECIFICATION Spec
PROPERTIES RespondsWithRequestedSegment
CHECK_DEADLOCK FALSE
