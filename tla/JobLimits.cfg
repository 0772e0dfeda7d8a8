SPECIFICATION FairSpec
CONSTANTS
  g1 = g1
  ip1 = ip1
  k1 = k1
  None = None
  Names <- MCNames
  IPs <- MCIPs
  Credentials <- OneCredential
  AllowAll = FALSE
  ReviewTime = 1
  Retention = 1
  MaxActive = 2
  MaxPerGuest = 2
  MaxJobs = 2
  JobSize = 1
  ResultSize = 2
  Reserve = 2
  MaxStorage = 4
  MaxId = 3
  MaxStamp = 1
  MaxNow = 2
INVARIANTS
  RecordFits
PROPERTIES
  WaitingEnds
  NothingLost
CHECK_DEADLOCK FALSE
