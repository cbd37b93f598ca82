SPECIFICATION FairSpec
CONSTANTS
  left = left
  right = right
  r1 = r1
  r2 = r2
  r3 = r3
  Tabs <- OneTab
  Requests <- TwoRequests
  TabOf <- AllLeft
  MaxToken = 3
  ImportYields = FALSE
  Failures = TRUE
INVARIANTS TypeOK OneRefresh QueueServed
PROPERTY EverySettles
