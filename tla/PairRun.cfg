\* Any number of invocations; three arrivals, one worker of a class, one retry.
SPECIFICATION FairSpec
CONSTANTS
  N = 3
  Kind <- MCKind
  At <- MCAt
  Workers <- MCWorkers
  Duration = 2
  Horizon = 3
  Lag = 0
  Backlog = 2
  MaxAttempts = 2
  Capacity = 1
  Faults = 1
INVARIANTS
  FixtureIsOwned
  ResultAfterRestore
  AcceptedIsAttributed
  BulkNeverRejectsCritical
PROPERTIES
  PairContract
  RestoreIsTried
CHECK_DEADLOCK FALSE
