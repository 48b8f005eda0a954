SPECIFICATION FairSpec
CONSTANTS
  s1 = s1
  s2 = s2
  s3 = s3
  None = None
  Partial = Partial
  Sheets <- MCSheets
  TruthOf <- MCTruthOf
  Rasters = {1, 2}
  Codes = {1, 2}
  Locks = {1, 2}
  Generates <- MCGenerates
  Outcomes <- MCOutcomes
  Difficulty <- MCDifficulty
  Template <- MCTemplate
  Publishers = {1, 2}
  MaxCommits = 5
  MaxDispatches = 4
  MaxFaults = 1
INVARIANT CorpusWasPinned
INVARIANT ReleaseWasMeasured
PROPERTY ImplementsRelease
PROPERTY PublishedOnce
PROPERTY RetryCompletes
CHECK_DEADLOCK FALSE
