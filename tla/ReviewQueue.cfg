SPECIFICATION FairSpec
CONSTANTS
  g1 = g1
  ip1 = ip1
  r1 = r1
  r2 = r2
  None = None
  Names <- MCNames
  IPs <- MCIPs
  Requests <- MCRequests
  Kinds = {"read", "graphql", "rest", "github", "linear"}
  AllowAll = TRUE
  WaitTime = 1
  Capacity = 2
  PerGuest = 2
  BufferSlots = 2
  UploadSlots = 2
  History = 1
  MaxStamp = 2
  MaxNow = 1
INVARIANTS
  NoGhostReviews
  NotSentIsTrue
  SentWasApproved
  RevokedNeverSent
PROPERTIES
  SettledStays
  ReviewsEnd
CHECK_DEADLOCK FALSE
