CONSTANTS
  MaxFaults = 1
  MaxReboots = 1
  MaxVersions = 2
SPECIFICATION Spec
INVARIANTS
  VerifiedBeforeRun
CHECK_DEADLOCK FALSE
