CONSTANTS
  MinInterval = 0
  DefaultCooldown = 1
  MaxCooldown = 2
  MaxStrikes = 1
  Ips = {ip1, ip2}
  MaxEntries = 1
  Ttl = 2
  ErrorTtl = 1
  Threads = {t1, t2}
  NoIp = none
  Refresh = 1
  RetryAfters = {0, 3}
  MaxUnannounced = 2
  MaxCrashes = 1
  MaxFaults = 1
SPECIFICATION FairSpec
INVARIANTS
  TypeOK
  OncePerTtlUnlessOverlapping
PROPERTIES
  LastBackoffKept
  ProviderRecovers
