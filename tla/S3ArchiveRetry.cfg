CONSTANTS
  Inodes = {i1, i2}
  LogPath = LogPath
  AnchorBytes = 1
  MaxPutAttempts = 2
  MaxEvents = 3
  MaxTruncations = 0
  MaxFaults = 1
SPECIFICATION Spec
INVARIANTS
  RetrySendsSameManifest
