------------------------------- MODULE Sheet --------------------------------
(***************************************************************************)
(* One occurrence sheet: what the intake pipeline leaves of it, what the   *)
(* full-replacement review form makes of it, and when the readiness        *)
(* contract calls it approvable.                                           *)
(*                                                                         *)
(* Cell contents are abstract: an occurrence row is a text, known only by  *)
(* the classification rules it matches; a header is filled or not.  A      *)
(* triage is the triple incident type, urgency and sector.                 *)
(***************************************************************************)
EXTENDS Integers, Sequences

CONSTANTS
  Texts,      \* contents of an occurrence row
  NRules,     \* classification rules of the config, the fallback being last
  Matching,   \* the rules whose keywords occur in a text
  RuleTriage, \* the triage each rule suggests
  Severity,   \* _URGENCY_RANK of a triage, -1 for a label it does not know
  Triages,    \* triples a client may send
  Taxonomy,   \* triples whose three labels the active config lists
  NoChange,   \* routine, low, general_support
  Routing,    \* routing rules in order: the triages each one takes
  Headers,    \* required header fields
  MaxRows,    \* MAX_OCCURRENCES
  Undecided,  \* no ClassificationDecision
  NoPick,     \* no classification control was sent
  BadPick     \* duplicated or incomplete classification controls

Rules == 1..NRules

ASSUME RulesAssumption ==
  /\ NRules \in Nat \ {0}
  /\ Matching \in [Texts -> SUBSET Rules]
  /\ RuleTriage \in [Rules -> Taxonomy]
  /\ Severity \in [Triages -> -1..3]

(* Every label the config mentions is checked; that the no-change triple   *)
(* is part of the taxonomy is true of the configuration the repository     *)
(* ships and is not checked.                                               *)
ASSUME TaxonomyAssumption == Taxonomy \subseteq Triages /\ NoChange \in Taxonomy

(* The default routing rule is last and takes everything.                  *)
ASSUME RoutingAssumption ==
  /\ Routing \in Seq(SUBSET Triages)
  /\ Routing # <<>>
  /\ Routing[Len(Routing)] = Triages

ASSUME LimitsAssumption == MaxRows \in Nat \ {0}
ASSUME PicksAssumption == NoPick \notin Triages /\ BadPick \notin Triages /\ NoPick # BadPick

NoChangeRule == 0   \* disposition.none
NoRule == -1        \* a human decision has no rule id

Decisions ==
  [triage : Triages, source : {"rule", "human"},
   status : {"suggested", "confirmed"}, rule : Rules \cup {NoChangeRule, NoRule}]

ASSUME UndecidedAssumption == Undecided \notin Decisions

Sheets ==
  [disposition : {"unknown", "none", "present"},
   confirmed : BOOLEAN,                        \* disposition_confirmed
   rows : Seq(Texts),                          \* occurrences
   headers : SUBSET Headers,                   \* headers that have a value
   pending : SUBSET (Headers \cup {"occurrences"}),   \* fields to review
   errors : SUBSET (Headers \cup {"deadline"}),       \* validation_errors
   ocr : {"good", "low", "failed"},
   decision : Decisions \cup {Undecided},
   evidence : BOOLEAN]                         \* exactly one v2 page artifact

-----------------------------------------------------------------------------
(* Classification *)

RangeOf(rows) == {rows[i] : i \in DOMAIN rows}

(* The first rule one of whose keywords matches, or the fallback.          *)
RuleFor(text) ==
  CHOOSE r \in Matching[text] \cup {NRules} :
    \A q \in Matching[text] \cup {NRules} : r <= q

(* r is preferred to q: the graver one, then the earlier one.              *)
Preferred(r, q) ==
  \/ Severity[RuleTriage[r]] > Severity[RuleTriage[q]]
  \/ Severity[RuleTriage[r]] = Severity[RuleTriage[q]] /\ r <= q

(* A primary rule that is that of the first row. *)
FirstRowRule(rows) == RuleFor(rows[1])

(* The rule that decides for the whole sheet. *)
PrimaryRule(rows) ==
  LET found == {RuleFor(t) : t \in RangeOf(rows)}
  IN  CHOOSE r \in found : \A q \in found : Preferred(r, q)

NoChangeDecision ==
  [triage |-> NoChange, source |-> "rule", status |-> "confirmed", rule |-> NoChangeRule]

Suggestion(rows) ==
  LET r == PrimaryRule(rows)
  IN  [triage |-> RuleTriage[r], source |-> "rule", status |-> "suggested", rule |-> r]

(* A classification that answers for unread sheets too. *)
DecisionAlways(s) ==
  IF s.disposition = "present" THEN Suggestion(s.rows) ELSE NoChangeDecision

(* classify: one deterministic suggestion, or none for blocked content.    *)
Decision(s) ==
  CASE s.disposition = "unknown" \/ s.ocr = "failed" -> Undecided
    [] s.disposition = "none" /\ s.ocr # "failed" ->
         IF s.confirmed THEN NoChangeDecision ELSE Undecided
    [] OTHER -> Suggestion(s.rows)

Classified(s) == [s EXCEPT !.decision = Decision(s)]

-----------------------------------------------------------------------------
(* Intake: what run_pipeline leaves for review *)

(* The table as normalize understands it: rows, or an explicit S/A line,   *)
(* or neither.                                                             *)
DispositionRead(rows, noChangeLine) ==
  CASE rows # <<>> -> "present"
    [] rows = <<>> /\ noChangeLine -> "none"
    [] OTHER -> "unknown"

(* extract_table, validate_table and the OCR gate: every header is flagged *)
(* (found ones are placeholders below the threshold, missing ones are also *)
(* errors), every row is, and so is an unknown table.                      *)
Extracted(rows, noChangeLine, found, quality) ==
  LET disposition == DispositionRead(rows, noChangeLine)
  IN  [disposition |-> disposition,
       confirmed |-> FALSE,
       rows |-> rows,
       headers |-> found,
       pending |-> Headers \cup (IF disposition = "none" THEN {} ELSE {"occurrences"}),
       errors |-> Headers \ found,
       ocr |-> quality,
       decision |-> Undecided,
       evidence |-> TRUE]

(* The deadline expired after extraction, before classification.           *)
Expired(s) == [s EXCEPT !.decision = Undecided, !.errors = @ \cup {"deadline"}]

(* The deadline expired before extraction: nothing was read.               *)
Unread(evidence) ==
  [Expired(Extracted(<<>>, FALSE, {}, "failed")) EXCEPT !.evidence = evidence]

(* What run_pipeline can return.                                           *)
FreshSheets(readings) ==
  LET read == {Extracted(rows, line, found, quality) :
                 rows \in readings, line \in BOOLEAN,
                 found \in SUBSET Headers, quality \in {"good", "low", "failed"}}
  IN  {Classified(s) : s \in read}
        \cup {Expired(s) : s \in {r \in read : r.ocr # "failed"}}
        \cup {Unread(evidence) : evidence \in BOOLEAN}

-----------------------------------------------------------------------------
(* Review: apply_table_review on a submitted form *)

Forms ==
  [choice : {"none", "present", "missing"},  \* disposicao, missing or invalid
   rows : Seq(Texts),        \* the occ__N controls that are not blank
   highest : Nat,            \* the highest N sent, blank ones included
   faulty : BOOLEAN,         \* an unknown, duplicate, incomplete or invalid cell
   headers : SUBSET Headers, \* the headers filled in
   pick : Triages \cup {NoPick, BadPick},
   ticked : BOOLEAN]         \* classification_confirmed

(* parse_occurrence_rows: an index beyond the limit is refused even blank. *)
RowsRefused(form) == form.faulty \/ form.highest > MaxRows

(* resolve_disposition *)
DispositionRefused(form) ==
  \/ form.choice = "missing"
  \/ form.choice = "none" /\ form.rows # <<>>
  \/ form.choice = "present" /\ form.rows = <<>>

(* A form that keeps the blockers intake left. *)
TranscribedOver(s, form) ==
  [s EXCEPT !.disposition = form.choice,
            !.confirmed = TRUE,
            !.rows = form.rows,
            !.headers = form.headers,
            !.pending = Headers \ form.headers,
            !.errors = @ \cup (Headers \ form.headers),
            !.ocr = IF @ = "failed" THEN "low" ELSE @]

(* The sheet with the form's fields in place of everything that was read.  *)
Transcribed(s, form) ==
  [s EXCEPT !.disposition = form.choice,
            !.confirmed = TRUE,
            !.rows = form.rows,
            !.headers = form.headers,
            !.pending = Headers \ form.headers,
            !.errors = Headers \ form.headers,
            !.ocr = IF @ = "failed" THEN "low" ELSE @]

(* The suggestion the form's triage controls are read against.             *)
Proposed(s, form) == Classified(Transcribed(s, form))

(* _review_classification, its refusals *)
TriageRefused(decision, form) ==
  /\ form.choice = "present"
  /\ <<form.pick, form.ticked>> # <<NoPick, FALSE>>
  /\ \/ form.pick \notin Taxonomy
     \/ ~form.ticked /\ form.pick # decision.triage

(* A decision confirmed by sending the controls, ticked or not. *)
TriageConfirmedUnticked(decision, form) ==
  IF form.choice = "present" /\ form.pick \in Taxonomy
  THEN [decision EXCEPT !.status = "confirmed"]
  ELSE decision

(* _review_classification, its outcome: silence keeps the suggestion, a    *)
(* tick confirms it or overrides it.                                       *)
TriageDecided(decision, form) ==
  CASE form.choice # "present" \/ ~form.ticked -> decision
    [] form.choice = "present" /\ form.ticked /\ form.pick = decision.triage ->
         [decision EXCEPT !.status = "confirmed"]
    [] OTHER ->
         [triage |-> form.pick, source |-> "human", status |-> "confirmed", rule |-> NoRule]

Refused(s, form) ==
  \/ RowsRefused(form)
  \/ DispositionRefused(form)
  \/ TriageRefused(Proposed(s, form).decision, form)

Reviewed(s, form) ==
  [Proposed(s, form) EXCEPT !.decision = TriageDecided(@, form)]

-----------------------------------------------------------------------------
(* Readiness: the blockers of evaluate_readiness that depend on the sheet  *)

DispositionUnconfirmed(s) == s.disposition = "unknown" \/ ~s.confirmed

FieldPending(s) == s.pending # {} \/ s.headers # Headers \/ s.ocr = "failed"

(* A confirmed decision the active taxonomy does not list does not count.  *)
ClassificationUnconfirmed(s) ==
  /\ s.disposition # "unknown"
  /\ \/ s.decision = Undecided
     \/ s.decision.status # "confirmed"
     \/ s.decision.triage \notin Taxonomy

(* select_route finds a rule, and every rule has recipients. *)
Routed(triage) == \E i \in DOMAIN Routing : triage \in Routing[i]

RoutingUnresolved(s) ==
  /\ s.disposition # "unknown"
  /\ \/ s.decision = Undecided
     \/ s.decision.status # "confirmed"
     \/ ~Routed(s.decision.triage)

Approvable(s) ==
  /\ s.evidence
  /\ ~DispositionUnconfirmed(s)
  /\ ~FieldPending(s)
  /\ s.errors = {}
  /\ ~ClassificationUnconfirmed(s)
  /\ ~RoutingUnresolved(s)
=============================================================================
