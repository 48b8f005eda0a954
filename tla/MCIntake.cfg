\* Two intakes whose deadlines may differ by one unit of time; time runs until
\* the one that waited longest for OCR has been cut off.
CONSTANTS
  Texts = {"door"}
  NRules = 1
  Matching <- MCMatching
  RuleTriage <- MCRuleTriage
  Severity <- MCSeverity
  Triages = {"quiet", "access"}
  Taxonomy = {"quiet", "access"}
  NoChange = "quiet"
  Routing <- MCRouting
  Headers = {}
  MaxRows = 2
  Undecided = Undecided
  NoPick = NoPick
  BadPick = BadPick
  Intakes = {a, b}
  Readings <- MCReadings
  Budget = 2
  OcrTimeout = 2
  Nobody = Nobody
  LastStart = 1
  MaxTime = 5
  MaxCrashes = 1
SPECIFICATION FairSpec
INVARIANT PdfiumExclusive
INVARIANT OcrTempIsPrivate
INVARIANT DraftsHaveTheirPages
INVARIANT IntakeFeedsReview
INVARIANT PageKeptOnce
PROPERTY ImplementsIntake
PROPERTY OthersEnd
CHECK_DEADLOCK FALSE
