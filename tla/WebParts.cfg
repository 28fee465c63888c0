SPECIFICATION PartsSpec
CONSTANTS
  a = a
  b = b
  c = c
  Lines <- MCLines
  MaxLines = 4
  Titles = {a, b, c}
  Tags <- MCTags
  Nothing = nothing
  SafeName <- MCSafeName
  Tables <- MCTables
  Count = 6
  Linkable <- MCLinkable
  Sharing <- MCSharing
  Alike <- MCAlike
  Palette = 3
  Texts = {t1, t2, template}
  Template = template
  None = none
  MaxEdits = 3
  Saves = {s1, s2}
  Requests = {r1, r2}
  IdleLimit = 2
  PollEvery = 1
  MaxDeeds = 3
  MaxLost = 2
INVARIANTS PartsTypeOK EveryLineShown FoundIsShown
INVARIANTS HealthTellsTheTruth FolderCountsMatch TopicsChosenWell 
INVARIANTS EditsSurvive SavedIsTyped
PROPERTIES EditorSettles UnattendedPageLocks SentAwayForAReason
CHECK_DEADLOCK FALSE
