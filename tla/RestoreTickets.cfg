SPECIFICATION Spec
CONSTANTS
  SessionIds = {s1, s2}
  Accounts = {yash}
  Roles = {"super_admin"}
  Keys = {dek, old}
  VaultKey = dek
  OldKey = old
  Zeroed = Zeroed
  Nobody = Nobody
  IdleLimit = 0
  RevealTTL = 0
  Sites = {}
  NoSite = NoSite
  Tokens = {k1, k2}
  StageTTL = 1
  MaxFiles = 1
  Threads = {t1, t2}
  Calls = {"preview", "replace", "badmode"}
SYMMETRY Symmetric
INVARIANTS TypeOK
PROPERTY ImplementsTickets
