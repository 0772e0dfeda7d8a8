SPECIFICATION Spec
CONSTANTS
  g1 = g1
  ip1 = ip1
  k1 = k1
  None = None
  Names <- MCNames
  IPs <- MCIPs
  Credentials <- OneCredential
  AllowAll = FALSE
  ReviewTime = 1
  Retention = 1
  MaxActive = 2
  MaxPerGuest = 2
  MaxJobs = 2
  JobSize = 1
  ResultSize = 2
  Reserve = 2
  MaxStorage = 6
  MaxId = 2
  MaxStamp = 2
  MaxNow = 2
INVARIANTS
  AtMostOnce
  HonestStatus
  RevokedNeverSent
PROPERTIES
  OwnerSurvivesRestart
CHECK_DEADLOCK FALSE
