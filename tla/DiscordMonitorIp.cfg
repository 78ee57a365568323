CONSTANTS
  Sessions = {}
  Ips = {ip1}
  Window = 1
  MaxAge = 2
  MaxActive = 2
  MinInterval = 1
  MaxCooldown = 2
  Garbage = Garbage
  AlertsEnabled = FALSE
  MaxSeen = 2
  MaxDead = 2
  MaxPending = 2
  MaxInflight = 1
  RetryAfters = {2}
  MaxLines = 2
  FirstKeys = {ip1}
  MaxPriority = 0
  MaxFaults = 0
SPECIFICATION Spec
INVARIANTS
  SummaryNeverLost
