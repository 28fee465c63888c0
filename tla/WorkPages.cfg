SPECIFICATION WorkSpec
CONSTANTS
  MaxId = 2
  MaxBorn = 3
  MaxClicks = 2
  Titles = {today, other}
  Today = today
  Other = other
  Untitled = untitled
  Typed = typed
  Template = template
  Imported = imported
  Blank = blank
  Files <- MCFiles
  MaxFiles = 2
  Chains = {c1, c2}
  NoNote = NoNote
  Creds = {k1}
  NoCred = NoCred
  Jobs = {j1, j2}
  RevealTTL = 3
  ClipTTL = 1
  PollPeriod = 1
  MaxActs = 2
INVARIANTS WorkTypeOK ImportReportsLosses ListSettles ClipboardGuarded SecretsLeaveScreen
PROPERTIES WritesHitTheirNote
CHECK_DEADLOCK FALSE
SYMMETRY MCSymmetry
