\* A stack is built, rotated and destroyed; one change is made by others.
SPECIFICATION Spec
CONSTANTS
  build = build
  rotate = rotate
  remove = remove
  server = server
  network = network
  Dispatches = {build, rotate, remove}
  Approval <- MCApproval
  Managed = {server, network}
  Server = server
  NoOne = NoOne
  Until = 1
  Horizon = 1
  Outside = 1
INVARIANTS
  StackSafe
PROPERTIES
  PlansStayCurrent
  OnlyApprovedChanges
CHECK_DEADLOCK FALSE
