SPECIFICATION LiveSpec
CONSTANTS
  task = task
  page = page
  Null = Null
  TaskSenders <- OneTask
  PageSenders <- OnePage
  MaxTries = 2
  MaxAttempts = 2
  MaxRequests = 3
  MaxFaults = 1
INVARIANTS
  TypeOK
  ClaimMatchesAttempt
  ReceiptBeforeCommit
  SuccessIsGrounded
PROPERTIES
  ReceiptsAreKept
  ImplementsLedger
  AttemptsEnd
  ReceiptsReplayed
  SuccessPrevails
CHECK_DEADLOCK FALSE
