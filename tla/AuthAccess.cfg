SPECIFICATION Spec
CONSTANTS
  SessionIds = {s1, s2}
  Accounts = {yash, ana}
  SuperAdmin = yash
  Passwords = {p1}
  Salts = {z1}
  Roles = {"super_admin", "global_admin", "location_admin"}
  Keys = {dek}
  VaultKey = dek
  Zeroed = Zeroed
  Nobody = Nobody
  NoRow = NoRow
  IdleLimit = 1
  RevealTTL = 1
  Threads = {t1, t2}
  Calls = {"login", "lock", "reveal", "createUser", "updateUser", "deactivateUser"}
SYMMETRY Symmetric
INVARIANT SuperAdminIntact
PROPERTY ImplementsGate
