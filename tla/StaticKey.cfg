SPECIFICATION EscrowSpec
CONSTANTS
  None = None
  Torn = Torn
  cline = cline
  other = other
  account = account
  k1 = k1
  Names <- MCNames
  Hosts <- MCHosts
  ClineHost = cline
  Keys <- MCKeys
  Pins <- MCPins
  FirstHosts <- MCFirst
  FirstKeys <- MCFirst
  MaxFaults = 1
  MaxLogins = 1
  MaxActs = 5
INVARIANTS
  StaticKeyStays
CHECK_DEADLOCK FALSE
