SPECIFICATION LiveSpec
CONSTANTS
  first = first
  again = again
  other = other
  NoRequest = NoRequest
  Requests <- ThreeRequests
  TaskOf <- TwoTasks
  Roles <- TwoRoles
  RolesOf <- OneRole
  MaxSlots = 2
  RoleLimit = 1
  MaxProcesses = 3
  MaxFaults = 2
  MaxStops = 1
INVARIANTS
  QuotasAreKept
  RolesAreCounted
  OneProcessPerTask
  WorkIsVisible
PROPERTIES
  RequestsLeave
CHECK_DEADLOCK FALSE
