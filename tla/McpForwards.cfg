SPECIFICATION Spec
CONSTANTS
  None = None
  Bad = Bad
  linear = linear
  here = here
  there = there
  r1 = r1
  r2 = r2
  l1 = l1
  l2 = l2
  guest = guest
  tool = tool
  read = read
  Names <- MCNames
  Urls <- MCUrls
  Requests <- MCRequests
  Logins <- MCLogins
  Sessions <- MCSessions
  Guests = {guest}
  Tools = {tool}
  Scopes <- MCScopes
  Files <- MCFiles
  FirstFiles <- MCFirstFiles
  MaxGeneration = 2
  MaxRefreshes = 1
  MaxFaults = 1
  MaxActs = 3
INVARIANTS
  NoRevival
  SpendsFresh
  TokenGoesHome
  ConnectionIsOwn
  ConnectedIsTrue
SYMMETRY Symmetry
CHECK_DEADLOCK FALSE
