SPECIFICATION Spec
CONSTANTS
  left = left
  right = right
  r1 = r1
  r2 = r2
  r3 = r3
  Tabs <- TwoTabs
  Requests <- TwoRequests
  TabOf <- OneEach
  MaxToken = 3
  ImportYields = FALSE
  Failures = FALSE
INVARIANT RotatedIsStolen
