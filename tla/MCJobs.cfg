SPECIFICATION LiveSpec
CONSTANTS
  render = render
  upload = upload
  again = again
  c1 = c1
  c2 = c2
  NoJob = NoJob
  Jobs <- All
  Cancellable <- Renders
  Key <- Keys
  Callers <- TwoCallers
  MaxConcurrency = 1
  MaxRequests = 3
  MaxCrashes = 1
  MaxFailures = 1
INVARIANTS
  TypeOK
  WorkingIsCurrent
  InProgressIsHeld
  UploadsRunOnce
  SuccessIsConfirmed
PROPERTIES
  OutcomesStand
  JobsEnd
CHECK_DEADLOCK FALSE
