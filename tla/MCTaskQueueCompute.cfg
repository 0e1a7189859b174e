SPECIFICATION Spec
CONSTANTS
  t1 = t1
  t2 = t2
  Tasks <- OneTask
  Tokens <- FourTokens
  InitialStages <- ComputeStages
  MaxRetries = 1
  Slots = 1
  Automatic <- AnalyseOnly
  MaxRequests = 2
  MaxCrashes = 1
  MaxStops = 1
INVARIANTS
  TypeOK
  ActiveHasLease
PROPERTIES
  ImplementsLeases
  CancelSettlesAfterExit
  CrashesAreReal
CHECK_DEADLOCK FALSE
