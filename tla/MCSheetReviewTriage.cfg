CONSTANTS
  Texts = {"door", "alarm", "note"}
  NRules = 3
  Matching <- MCMatching
  RuleTriage <- MCRuleTriage
  Severity <- MCSeverity
  Triages = {"quiet", "access", "safety", "other", "unlisted"}
  Taxonomy = {"quiet", "access", "safety", "other"}
  NoChange = "quiet"
  Routing <- MCRouting
  Headers = {"date", "unit"}
  MaxRows = 2
  Undecided = Undecided
  NoPick = NoPick
  BadPick = BadPick
  Readings <- MCReadings
  FormRows <- MCFormRows
SPECIFICATION Spec
INVARIANT EditsResuggest
CHECK_DEADLOCK FALSE
