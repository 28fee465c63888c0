SPECIFICATION Spec
CONSTANTS
  SessionIds = {s1, s2}
  Accounts = {yash, ana}
  LocationAdmins = {ana}
  Roles = {"super_admin", "global_admin", "location_admin"}
  Keys = {dek}
  VaultKey = dek
  Zeroed = Zeroed
  Nobody = Nobody
  NoRow = NoRow
  Blank = Blank
  Secrets = {}
  MaxSite = 2
  MaxId = 1
  IdleLimit = 0
  RevealTTL = 0
  Threads = {t1, t2}
  Calls = {"edit", "create"}
SYMMETRY Symmetric
INVARIANT CredTypeOK
PROPERTY WritesStayInScope
