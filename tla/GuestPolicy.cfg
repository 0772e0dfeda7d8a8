CONSTANTS
  g1 = g1
  g2 = g2
  ip1 = ip1
  ip2 = ip2
  None = None
  Names <- MCNames
  IPs <- MCIPs
  Targets = {t1}
  Bindings = {b1}
  Handlers = {h1}
  InitialDisk <- LegacyDisk
  MaxStamp = 5
  MaxGrants = 1
SPECIFICATION Spec
INVARIANTS DurableAuthority AdmittedUnchanged
PROPERTIES UniquePins AccessGrowsByNameOnly ImplementsAuthority
CHECK_DEADLOCK FALSE
