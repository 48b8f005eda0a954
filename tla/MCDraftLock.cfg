\* Three threads, two calls each, over two drafts: two can collide on one draft
\* while the third registers, waits for or reclaims an entry of either.
CONSTANTS
  Threads = {t1, t2, t3}
  Keys = {"d1", "d2"}
  Entries = {e1, e2, e3}
  Nobody = Nobody
  NoEntry = NoEntry
  MaxCalls = 2
SPECIFICATION FairSpec
INVARIANT MutualExclusion
INVARIANT RegistryReclaimed
INVARIANT NeverStuck
PROPERTY ImplementsMutex
PROPERTY CallsReturn
CHECK_DEADLOCK FALSE
