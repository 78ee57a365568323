CONSTANTS
  Inodes = {i1, i2}
  LogPath = LogPath
  AnchorBytes = 1
  MaxPutAttempts = 2
  MaxEvents = 3
  MaxTruncations = 2
  MaxFaults = 2
SPECIFICATION FairSpec
INVARIANTS
  TypeOK
  SavedOffsetCovered
  SkippedPrefixArchived
  ObjectsAreWholeRecords
  OneManifestBesideItsObject
  UploadedCountsOnce
PROPERTIES
  SavedNeverRegresses
  RecordsEventuallyArchived
  ImplementsLedger
