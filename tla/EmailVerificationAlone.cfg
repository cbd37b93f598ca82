SPECIFICATION Spec
CONSTANTS
  home = home
  work = work
  p1 = p1
  p2 = p2
  None = None
  Emails <- TwoEmails
  Requests <- OneRequest
  OtpTTL = 5
  MaxAttempts = 5
  MaxChanges = 3
  ShortCooldown = 1
  MediumCooldown = 5
  LongCooldown = 10
  MaxCode = 5
  MaxUncounted = 0
  Failures = FALSE
SYMMETRY Symmetric
INVARIANTS GuessesCounted LockIsTransient EndlessIsTransient
PROPERTY ProvenAddress
