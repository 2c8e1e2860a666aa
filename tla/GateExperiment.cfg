\* Both experiments; two operations against a pool of one, two cascade waves.
SPECIFICATION FairSpec
CONSTANTS
  LogicalOps = 2
  Concurrency = 2
  Capacity = 1
  GitChecks = 1
  Faults = 1
  Waves = 2
  Generations = 2
INVARIANTS
  RunsAreComparable
PROPERTIES
  RunContract
  RunConcludes
CHECK_DEADLOCK FALSE
