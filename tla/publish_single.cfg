SPECIFICATION Spec
CONSTANTS
  p1 = p1
  p2 = p2
  p3 = p3
  page1 = page1
  page2 = page2
  facebook = facebook
  FacebookLimit = 2
  Post = {p1, p2}
  NoPost = NoPost
  AccountOf <- MCAccountOf
  PlatformOf <- MCPlatformOf
  PlatformConcurrency <- MCPlatformConcurrency
  Worker = {w1}
  Slot = {s1, s2}
  Request = {r1, r2}
  RequestKind = {"update", "retry"}
  MaxRetries = 2
  Lease = 2
  Backoff <- MCBackoff
  AccountConcurrency = 1
  GlobalConcurrency = 2
  MaxDelay = 1
  SerialRetry = TRUE
  MaxFaults <- WritesFail
SYMMETRY SlotSymmetry
INVARIANTS
  TypeOK
  AttemptsBounded
PROPERTIES
  ImplementsLifecycle
