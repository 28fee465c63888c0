SPECIFICATION CredentialsSpec
CONSTANTS
  Creds = {k1}
  NoCred = NoCred
  Jobs = {j1, j2}
  RevealTTL = 3
  ClipTTL = 1
  PollPeriod = 2
  MaxActs = 3
INVARIANT DetailClosesWithWindow
CHECK_DEADLOCK FALSE
