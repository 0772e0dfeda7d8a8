SPECIFICATION Spec
CONSTANTS
  None = None
  LargeTexts = {"large"}
  LongTexts = {"long", "large"}
  MaxFacts = 2
  ManagementPort = 7000
  BootstrapPort = 7001
  ProxyPort = 8080
  ClineHosts = {"pinned.example"}
  Inputs <- MCInputs
  FragmentOrder <- MCFragmentOrder
  MaxDepth = 4
  MaxSteps = 5
  MaxFields = 4
INVARIANTS
  ReadExactly
  ReviewComplete
  SummaryComplete
  CommentPlanExact
CHECK_DEADLOCK FALSE
