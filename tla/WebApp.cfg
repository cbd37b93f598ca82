SPECIFICATION Spec
CONSTANTS
  ann = ann
  bob = bob
  None = None
  Accounts <- MCAccounts
  Unverified <- MCUnverified
  MaxPairs = 2
  MaxCalls = 2
  MaxTroubles = 1
INVARIANTS
  TypeOK
  ShowsWhoItActsFor
  SignedOutForGood
  DeletedIsLeft

  
CHECK_DEADLOCK FALSE
