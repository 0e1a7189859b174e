SPECIFICATION Spec
CONSTANTS
  render = render
  upload = upload
  again = again
  c1 = c1
  c2 = c2
  NoJob = NoJob
  Jobs <- OneUpload
  Cancellable <- Nothing
  Key <- Keys
  Callers <- TwoCallers
  MaxConcurrency = 1
  MaxRequests = 3
  MaxCrashes = 0
  MaxFailures = 0
PROPERTIES
  RetriesAfterExit
CHECK_DEADLOCK FALSE
