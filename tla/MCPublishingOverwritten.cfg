SPECIFICATION Spec
CONSTANTS
  task = task
  page = page
  Null = Null
  TaskSenders <- OneTask
  PageSenders <- OnePage
  MaxTries = 2
  MaxAttempts = 2
  MaxRequests = 2
  MaxFaults = 1
PROPERTY
  SuccessIsNotOverwritten
CHECK_DEADLOCK FALSE
