CONSTANTS
  Calm = TRUE
  MaxSeen = 2
  MaxFiles = 3
  MaxLines = 4
  MaxTruncations = 1
  MaxCrashes = 1
  MaxFaults = 1
SPECIFICATION FairSpec
INVARIANTS
  TypeOK
  NothingSkipped
  AbsorbedInOrder
PROPERTIES
  OldInodeDrained
  LinesAbsorbed
