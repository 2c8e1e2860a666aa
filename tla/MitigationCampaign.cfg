\* Two invocations contend; kills, failures and others who change the fault anywhere.
CONSTANTS
  p1 = p1
  p2 = p2
  v1 = v1
  v2 = v2
  C1 = C1
  C3 = C3
  Processes = {p1, p2}
  Plans = {v1, v2}
  Arms = {C1, C3}
  Calibrations = 2
  Interference = "yes"
  NoOne = NoOne
  Warnings = 2
  Samples = 3
  Turns = 2
SPECIFICATION Spec
SYMMETRY MCSymmetry
INVARIANTS
  ConsumedOnce
  ComparisonIsSound
PROPERTIES
  ValidRunIsWhole
  RunKeepsContract
  FreshAtCompletion
  WarningsSettled
