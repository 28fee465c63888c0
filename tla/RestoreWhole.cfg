SPECIFICATION Spec
CONSTANTS
  SessionIds = {s1, s2}
  Accounts = {yash}
  Roles = {"super_admin"}
  Keys = {dek, old}
  VaultKey = dek
  OldKey = old
  Zeroed = Zeroed
  Nobody = Nobody
  IdleLimit = 0
  RevealTTL = 0
  Sites = {n1}
  NoSite = NoSite
  Tokens = {k1}
  StageTTL = 1
  MaxFiles = 2
  Threads = {t1}
  Calls = {"export", "preview", "replace", "merge"}
SYMMETRY Symmetric
INVARIANTS DatabaseWhole RecordedRestoresHappened
