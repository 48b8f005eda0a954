\* Every request is answered: three requests, at most one crash or failed commit.
CONSTANTS
  Clients = {c1, c2}
  Contents = {raw, sheet}
  ReadyContents = {sheet}
  SheetContents = {sheet}
  Intake = raw
  Nobody = Nobody
  NoSnapshot = NoSnapshot
  MaxRequests = 3
  MaxFaults = 1
  MaxRestarts = 1
SPECIFICATION FairSpec
PROPERTY RequestsFinish
CHECK_DEADLOCK FALSE
