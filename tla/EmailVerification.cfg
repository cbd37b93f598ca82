SPECIFICATION Spec
CONSTANTS
  home = home
  work = work
  p1 = p1
  p2 = p2
  None = None
  Emails <- TwoEmails
  Requests <- TwoRequests
  OtpTTL = 2
  MaxAttempts = 2
  MaxChanges = 1
  ShortCooldown = 1
  MediumCooldown = 1
  LongCooldown = 1
  MaxCode = 3
  MaxUncounted = 1
  Failures = TRUE
SYMMETRY Symmetric
INVARIANTS TypeOK AcceptedOnce ChangesBounded
