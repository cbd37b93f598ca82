SPECIFICATION JobsFairSpec
CONSTANTS
  home = home
  c1 = c1
  c2 = c2
  Emails <- OneEmail
  Codes <- TwoCodes
  Attempts = 3
  MaxStalled = 1
  Concurrency = 1
  MaxCrashes = 2
  MaxSignals = 1
INVARIANTS JobsTypeOK MailsBounded OnlyKillsStall
PROPERTY JobsEnd
