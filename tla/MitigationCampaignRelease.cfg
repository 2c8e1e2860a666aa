\* One calibration alone: nobody else touches the fault.
CONSTANTS
  p1 = p1
  p2 = p2
  v1 = v1
  v2 = v2
  C1 = C1
  C3 = C3
  Processes = {p1}
  Plans = {v1}
  Arms = {C1}
  Calibrations = 1
  Interference = "no"
  NoOne = NoOne
  Warnings = 0
  Samples = 1
  Turns = 1
SPECIFICATION Spec
INVARIANTS
  OwnReleaseIsNoDrift
