CONSTANTS
  Sessions = {s1}
  Ips = {ip1}
  Window = 1
  MaxAge = 1
  MaxActive = 1
  MinInterval = 0
  MaxCooldown = 1
  Garbage = Garbage
  AlertsEnabled = TRUE
  MaxSeen = 2
  MaxDead = 2
  MaxPending = 1
  MaxInflight = 1
  RetryAfters = {2}
  MaxLines = 2
  FirstKeys = {s1}
  MaxPriority = 1
  MaxFaults = 2
SPECIFICATION FairSpec
INVARIANTS
  TypeOK
  SessionNeverLost
  ReportedOnce
  SettledNotRevived
  Bounded
PROPERTIES
  ImplementsLedger
  SummariesSettle
