SPECIFICATION Spec
CONSTANTS
  alice = alice
  bob = bob
  home = home
  work = work
  p1 = p1
  p2 = p2
  None = None
  Users <- TwoUsers
  Emails <- TwoEmails
  Requests <- OneRequest
INVARIANT ToldVerified
