SPECIFICATION FairSpec
CONSTANTS
  p1 = p1
  p2 = p2
  p3 = p3
  page1 = page1
  page2 = page2
  facebook = facebook
  FacebookLimit = 1
  Post = {p1, p3}
  NoPost = NoPost
  AccountOf <- MCAccountOf
  PlatformOf <- MCPlatformOf
  PlatformConcurrency <- MCPlatformConcurrency
  Worker = {w1}
  Slot = {s1, s2}
  Request = {}
  RequestKind = {}
  MaxRetries = 2
  Lease = 2
  Backoff <- MCBackoff
  AccountConcurrency = 1
  GlobalConcurrency = 2
  MaxDelay = 1
  SerialRetry = TRUE
  MaxFaults <- ProcessTrouble
INVARIANTS
  CapsRespected
PROPERTIES
  ClaimsOnlyDue
  EventuallySettled
