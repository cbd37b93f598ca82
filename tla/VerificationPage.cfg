SPECIFICATION Spec
CONSTANTS
  home = home
  work = work
  c1 = c1
  None = None
  Emails <- TwoEmails
  Codes <- OneCode
  Short = 1
  Long = 2
  MaxSends = 2
  MaxReloads = 1
  MaxFaults = 1
SYMMETRY Symmetric
INVARIANTS TypeOK CountdownCovers ShownIsAccount VerifiedLeaves
CHECK_DEADLOCK FALSE
