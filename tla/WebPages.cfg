SPECIFICATION PagesSpec
CONSTANTS
  Pages = {"sites", "assets", "network", "changes", "users", "audit", "dashboard", "settings"}
  MaxRowId = 2
  MaxRows = 3
  MaxSteps = 3
  BlankRow = blank
  Stored = stored
  TypedRow = typed
  Retired = retired
  Sites = {s1}
  Handlers = {c1, c2}
  NoRow = NoRow
  Picks = {p1, p2}
  Calls = {k1, k2}
  MaxCalls = 5
  None = None
INVARIANTS PagesTypeOK PageSettles ImportedOnce
PROPERTIES WritesHitTheirRow CommitsWhatWasShown
CHECK_DEADLOCK FALSE
SYMMETRY MCSymmetry
