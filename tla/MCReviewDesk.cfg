\* Two pages on one draft, whose requests meet at the lock in every order.
CONSTANTS
  Clients = {c1, c2}
  Contents = {raw, sheet}
  ReadyContents = {sheet}
  SheetContents = {sheet}
  Intake = raw
  Nobody = Nobody
  NoSnapshot = NoSnapshot
  MaxRequests = 4
  MaxFaults = 1
  MaxRestarts = 1
SPECIFICATION Spec
INVARIANT ApprovalBindsContent
INVARIANT HandoffOnce
INVARIANT HandoverCanBeMarked
INVARIANT AuditExplainsDraft
INVARIANT OutputsWereApproved
PROPERTY SavesReplaceSeenContent
PROPERTY SimulatedIsFinal
PROPERTY SnapshotsAppendOnly
PROPERTY ImplementsContract
PROPERTY UsesDraftLock
CHECK_DEADLOCK FALSE
SYMMETRY Pages
