SPECIFICATION LiveSpec
CONSTANTS
  t1 = t1
  t2 = t2
  Tasks <- OneTask
  Tokens <- FourTokens
  InitialStages <- ComputeStages
  MaxRetries = 1
  Slots = 1
  Automatic <- AnalyseOnly
  MaxRequests = 1
  MaxCrashes = 0
  MaxStops = 1
PROPERTIES
  CancellationSettles
  ComesToRest
CHECK_DEADLOCK FALSE
