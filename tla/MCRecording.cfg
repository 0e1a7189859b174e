SPECIFICATION Spec
CONSTANTS
  person = person
  People <- OnePerson
  MaxGenerations = 2
  MaxOccurrences = 1
  MaxRecoveries = 1
  MaxRequests = 1
  MaxFaults = 0
  MaxCrashes = 2
  MaxStops = 1
INVARIANTS
  TypeOK
  OneWriter
  BudgetBoundsRecovery
PROPERTIES
  StoppedStaysStopped
  BlockedWaitsForPeople
CHECK_DEADLOCK FALSE
