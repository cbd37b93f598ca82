SPECIFICATION Spec
CONSTANTS
  alice = alice
  bob = bob
  old = old
  new = new
  p1 = p1
  p2 = p2
  None = None
  Users <- OneUser
  Passwords <- TwoPasswords
  Requests <- OneRequest
  MaxVersion = 3
  MaxSecond = 2
  MaxCode = 2
  Failures = FALSE
INVARIANTS SessionsAreCurrent LoggedOutEverywhere OneValidPerFamily
