SPECIFICATION LiveSpec
CONSTANTS
  t1 = t1
  t2 = t2
  Tasks <- OneTask
  Tokens <- FourTokens
  InitialStages <- ReviewStages
  MaxRetries = 1
  Slots = 1
  Automatic <- Everything
  MaxRequests = 1
  MaxCrashes = 1
  MaxStops = 0
PROPERTIES
  ImplementsLeases
  WorkEnds
  ComesToRest
CHECK_DEADLOCK FALSE
