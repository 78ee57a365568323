CONSTANTS
  MinInterval = 1
  DefaultCooldown = 1
  MaxCooldown = 3
  MaxStrikes = 1024
  Ips = {ip1, ip2}
  MaxEntries = 1
  Ttl = 3
  ErrorTtl = 1
  Threads = {t1, t2}
  NoIp = none
  Refresh = 2
  RetryAfters = {0, 2}
  MaxUnannounced = 1
  MaxCrashes = 0
  MaxFaults = 0
SPECIFICATION Spec
PROPERTIES
  BackoffHonoured
