SPECIFICATION Spec
CONSTANTS
  g1 = g1
  ip1 = ip1
  k1 = k1
  None = None
  Names <- MCNames
  IPs <- MCIPs
  Credentials <- OneCredential
  AllowAll = FALSE
  ReviewTime = 1
  Retention = 1
  MaxActive = 1
  MaxPerGuest = 1
  MaxJobs = 1
  MaxId = 2
  MaxStamp = 2
  MaxNow = 2
  Others <- MCOthers
  Submitted <- EveryKind
  History <- MCHistory
  Published <- MCPublished
  Bundles <- MCBundles
  MaxCommits = 2
  MaxFiles = 3
  MaxObjects = 5
INVARIANTS
  BundlesStay
  HonestPublication
  SentWasReviewed
PROPERTIES
  NothingOverwritten
CHECK_DEADLOCK FALSE
