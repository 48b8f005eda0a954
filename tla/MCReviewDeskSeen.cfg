\* The claim of models.py about approvals and content the reviewer has seen.
CONSTANTS
  Clients = {c1, c2}
  Contents = {raw, sheet}
  ReadyContents = {sheet}
  SheetContents = {sheet}
  Intake = raw
  Nobody = Nobody
  NoSnapshot = NoSnapshot
  MaxRequests = 4
  MaxFaults = 1
  MaxRestarts = 1
SPECIFICATION Spec
PROPERTY ApprovedContentWasShown
CHECK_DEADLOCK FALSE
