SPECIFICATION Spec
CONSTANTS
  SessionIds = {s1, s2}
  Accounts = {yash, ana}
  SuperAdmin = yash
  Passwords = {p1, p2}
  Salts = {z1, z2}
  Roles = {"super_admin", "global_admin", "location_admin"}
  Keys = {dek}
  VaultKey = dek
  Zeroed = Zeroed
  Nobody = Nobody
  NoRow = NoRow
  IdleLimit = 0
  RevealTTL = 0
  Threads = {t1, t2}
  Calls = {"login", "lock", "changeMaster", "createUser", "resetPassword"}
SYMMETRY Symmetric
INVARIANTS TypeOK KeysAgree OneKeyUnlessRaced
PROPERTY TemporaryPasswordsFlagged
