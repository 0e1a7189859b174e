SPECIFICATION LiveSpec
CONSTANTS
  person = person
  People <- OnePerson
  MaxGenerations = 1
  MaxOccurrences = 1
  MaxRecoveries = 1
  MaxRequests = 1
  MaxFaults = 1
  MaxCrashes = 1
  MaxStops = 0
INVARIANT
  SettledIsComplete
PROPERTIES
  ExecutionsSettle
  StopsEnd
  OccurrencesEnd
CHECK_DEADLOCK FALSE
