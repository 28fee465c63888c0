SPECIFICATION TimedStoreSpec
CONSTANTS
  SessionIds = {s1, s2}
  Accounts = {a1, a2}
  Roles = {admin}
  Keys = {k1, k2}
  Zeroed = Zeroed
  Nobody = Nobody
  IdleLimit = 2
  RevealTTL = 2
PROPERTY AbandonedSessionsWiped
