CONSTANTS
  Modes = {"production", "development"}
  MaxRetries = 3
  MaxWindows = 2
  MaxQuits = 2
SPECIFICATION FairSpec
INVARIANTS TypeOK NoOrphan ProbesBounded
PROPERTIES QuitEnds StartEnds ForeignReported
