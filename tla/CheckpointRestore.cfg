SPECIFICATION FairSpec
CONSTANT
  Modes <- ModesDef
INVARIANTS
  BundleIsCoordinated
  CleanExit
PROPERTIES
  TargetIsCheckpoint
  
