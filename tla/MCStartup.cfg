SPECIFICATION FairSpec
CONSTANTS
  p1 = p1
  p2 = p2
  Blank = Blank
  Open = Open
  NoCondition = NoCondition
  NoConfig = NoConfig
  NoOne = NoOne
  Names <- MCNames
  Clean <- MCClean
  Folded <- MCFolded
  Keywords <- MCKeywords
  KeyFolded <- MCKeyFolded
  Surface <- MCSurface
  Texts <- MCTexts
  Documents <- MCDocuments
  Databases <- MCDatabases
  Titles <- MCTitles
  Procs = {p1, p2}
  MaxCrashes = 1
INVARIANT ServesCurrentSchema
INVARIANT ServedConfigFits
PROPERTY ImplementsStore
PROPERTY StartsEventually
