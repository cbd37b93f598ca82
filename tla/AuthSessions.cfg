SPECIFICATION Spec
CONSTANTS
  alice = alice
  bob = bob
  old = old
  new = new
  p1 = p1
  p2 = p2
  None = None
  Users <- OneUser
  Passwords <- OnePassword
  Requests <- TwoRequests
  MaxVersion = 2
  MaxSecond = 1
  MaxCode = 1
  Failures = TRUE
SYMMETRY Symmetric
INVARIANT TypeOK
PROPERTIES DeadFamilyStaysDead DeletedStaysLocked SpentCodeStaysSpent
