SPECIFICATION Spec
CONSTANTS
  SessionIds = {s1, s2}
  Accounts = {yash}
  LocationAdmins = {}
  Roles = {"super_admin", "global_admin", "location_admin"}
  Keys = {dek}
  VaultKey = dek
  Zeroed = Zeroed
  Nobody = Nobody
  NoRow = NoRow
  Blank = Blank
  Secrets = {p1, p2}
  MaxSite = 0
  MaxId = 1
  IdleLimit = 0
  RevealTTL = 1
  Threads = {t1, t2}
  Calls = {"view", "copy", "edit", "create", "rotate", "delete"}
SYMMETRY Symmetric
INVARIANTS ReadableUnlessRaced
PROPERTIES AnswersTakenWhileLive BlankKeepsPassword
