\* Pages of two rows over up to four drafts, with ties on created_at, that
\* arrive and move between filters meanwhile.
CONSTANTS
  MaxDrafts = 4
  Times = {1, 2}
  PageSize = 2
SPECIFICATION FairSpec
INVARIANT NothingListedTwice
INVARIANT WalkIsComplete
INVARIANT FiltersPartition
PROPERTY WalkEnds
