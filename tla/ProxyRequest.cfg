SPECIFICATION Spec
CONSTANTS
  None = None
  Torn = Torn
  cline = cline
  github = github
  staging = staging
  account = account
  k1 = k1
  r1 = r1
  r2 = r2
  here = here
  there = there
  Names <- MCNames
  Hosts <- MCHosts
  ClineHost = cline
  GithubHost = github
  Keys <- MCKeys
  Requests <- MCRequests
  Targets <- MCTargets
  Calls <- MCCalls
  Pins <- MCPins
  FirstHosts <- MCFirstHosts
  FirstKeys <- MCFirstKeys
  MaxFaults = 1
  MaxLooks = 1
  MaxLogins = 1
  MaxActs = 1
  MaxGrants = 1
  MaxStamp = 5
INVARIANTS
  AccountIsGated
  ActiveIsExact
PROPERTIES
  PrefixTellsTheTruth
  GrantsAreFresh
  CommentsAreGranted
SYMMETRY Symmetry
CHECK_DEADLOCK FALSE
