CONSTANTS
  MaxRequests = 2
  RequestLens = {0, 2}
  HeaderLen = 2
  Lengths <- MCLengths
  Limit = 2
  Timeouts = {0, 500}
  Hosts = {"dns", "ip"}
  None = None
SPECIFICATION FairSpec
INVARIANTS
  FlagMatchesSession
  
  ReusableInSync
PROPERTIES
  ImplementsSession
  CallsEnd
