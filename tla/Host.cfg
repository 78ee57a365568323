CONSTANTS
  MaxFaults = 3
  MaxReboots = 2
  MaxVersions = 2
SPECIFICATION FairSpec
INVARIANTS
  TypeOK
  ActiveMeansEnforced
  CowrieBehindFirewall
  SuccessMeansInPlace
PROPERTIES
  SignalArrives
CHECK_DEADLOCK FALSE
