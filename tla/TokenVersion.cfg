SPECIFICATION FairSpec
CONSTANTS
  alice = alice
  bob = bob
  p1 = p1
  p2 = p2
  p3 = p3
  Nobody = Nobody
  Users <- OneUser
  Requests <- ThreeRequests
  MaxVersion = 2
  TTL = 2
  Latency = 1
  Failures = TRUE
INVARIANTS TypeOK StaleEntryExpires
PROPERTIES CacheSettles ImplementsRevocation
