CONSTANTS
  Calm = FALSE
  MaxSeen = 4
  MaxFiles = 3
  MaxLines = 3
  MaxTruncations = 0
  MaxCrashes = 0
  MaxFaults = 0
SPECIFICATION Spec
PROPERTIES
  OldInodeDrained
