\* The claim of local_ocr.py about the timeout of its subprocess.
CONSTANTS
  Texts = {"door"}
  NRules = 1
  Matching <- MCMatching
  RuleTriage <- MCRuleTriage
  Severity <- MCSeverity
  Triages = {"quiet", "access"}
  Taxonomy = {"quiet", "access"}
  NoChange = "quiet"
  Routing <- MCRouting
  Headers = {}
  MaxRows = 2
  Undecided = Undecided
  NoPick = NoPick
  BadPick = BadPick
  Intakes = {a, b}
  Readings <- MCReadings
  Budget = 2
  OcrTimeout = 2
  Nobody = Nobody
  LastStart = 1
  MaxTime = 5
  MaxCrashes = 1
SPECIFICATION Spec
INVARIANT OcrBoundedByDeadline
CHECK_DEADLOCK FALSE
