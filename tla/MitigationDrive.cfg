\* Four arrivals in three waves; the release is due in the last.
SPECIFICATION FairSpec
CONSTANTS
  N = 4
  Kind <- KindShort
  At <- AtShort
  Mitigation = 2
  End = 3
  Horizon = 3
  IssueWorkers = 2
  Backlog = 2
INVARIANTS
  DriveSafe
  FaultIsRemoved
PROPERTIES
  DriveContract
  RunsEnd
