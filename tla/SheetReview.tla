---------------------------- MODULE SheetReview -----------------------------
(***************************************************************************)
(* The life of one sheet under review: intake leaves it in some state, and *)
(* the reviewer saves the form any number of times (routes_htmx.ui_edit).  *)
(* A form that is refused changes nothing.  Forms are any forms a client   *)
(* of the server can send, not only those its pages produce; the latter    *)
(* are PageForms.                                                          *)
(*                                                                         *)
(* Snapshots, approvals and concurrent saves are ReviewDesk's; here the    *)
(* content of a draft is looked at, there its versions.                    *)
(***************************************************************************)
EXTENDS Sheet

CONSTANTS
  Readings,    \* tables OCR may have read: sequences of texts
  FormRows     \* row lists a form may carry

ASSUME ReadingsAssumption == Readings \subseteq Seq(Texts) /\ FormRows \subseteq Seq(Texts)

VARIABLES
  sheet,   \* the PipelineState stored in the draft
  saved    \* what the last accepted form said, for the properties

vars == <<sheet, saved>>

NothingSaved == [choice |-> "missing", headers |-> {}, confirms |-> NoPick]

TypeOK ==
  /\ sheet \in Sheets
  /\ saved \in [choice : {"none", "present", "missing"},
                headers : SUBSET Headers,
                confirms : Triages \cup {NoPick, BadPick}]

Init == sheet \in FreshSheets(Readings) /\ saved = NothingSaved

Save(form) ==
  /\ ~Refused(sheet, form)
  /\ sheet' = Reviewed(sheet, form)
  /\ saved' = [choice |-> form.choice, headers |-> form.headers,
               confirms |-> IF form.ticked THEN form.pick ELSE NoPick]

(* The bound on the index only has to exceed the limit. *)
SendableForms ==
  [choice : {"none", "present", "missing"}, rows : FormRows,
   highest : 0..(MaxRows + 1), faulty : BOOLEAN, headers : SUBSET Headers,
   pick : Triages \cup {NoPick, BadPick}, ticked : BOOLEAN]

AnyForm == {form \in SendableForms : Len(form.rows) <= form.highest}

Next == \E form \in AnyForm : Save(form)

Spec == Init /\ [][Next]_vars

-----------------------------------------------------------------------------
(* The page *)

(* The triage controls are shown for a decision that is not the no-change  *)
(* one (templates/_review_body.html).                                      *)
ControlsShown(s) == s.decision # Undecided /\ ~(s.confirmed /\ s.disposition = "none")

(* The editor shows every row, and a blank one while there is room.        *)
RowsShown(s) == IF Len(s.rows) < MaxRows THEN Len(s.rows) + 1 ELSE Len(s.rows)

(* Forms the page can send: the radios of a confirmed sheet cannot be      *)
(* cleared, the selects hold labels of the taxonomy, every row is sent.    *)
PageForms(s) ==
  {form \in [choice : IF s.confirmed THEN {"none", "present"}
                                     ELSE {"none", "present", "missing"},
             rows : FormRows, highest : {RowsShown(s)}, faulty : BOOLEAN,
             headers : SUBSET Headers,
             pick : IF ControlsShown(s) THEN Taxonomy ELSE {NoPick},
             ticked : IF ControlsShown(s) THEN BOOLEAN ELSE {FALSE}] :
     Len(form.rows) <= form.highest}

(* A form filled in by a reviewer who makes no mistake: every header, rows *)
(* that agree with the disposition, the triage confirmed where it is asked *)
(* for.                                                                    *)
CarefulForms(s) ==
  {form \in PageForms(s) :
     /\ form.headers = Headers
     /\ ~form.faulty
     /\ form.choice = IF form.rows = <<>> THEN "none" ELSE "present"
     /\ ControlsShown(s) => form.ticked}

(* The triage controls are sent as the page filled them in. *)
ControlsUntouched(s, form) ==
  ControlsShown(s) => /\ form.pick = s.decision.triage
                      /\ form.ticked = (s.decision.status = "confirmed")

-----------------------------------------------------------------------------
(* model_copy skips the validators of PipelineState, NormalizedIncidentModel *)
(* and ClassificationDecision, which run again when the stored JSON is       *)
(* opened: no sequence of saves stores a sheet that can no longer be opened. *)
StoredSheetsOpen ==
  /\ sheet.disposition = "present" <=> sheet.rows # <<>>
  /\ sheet.disposition = "unknown" => ~sheet.confirmed /\ sheet.decision = Undecided
  /\ sheet.disposition = "none" => sheet.decision \in {Undecided, NoChangeDecision}
  /\ sheet.decision # Undecided =>
       /\ sheet.decision.source = "rule" <=> sheet.decision.rule # NoRule
       /\ sheet.decision.status = "suggested" => sheet.decision.source = "rule"

(* A sheet is approvable only by the word of the last form accepted: it      *)
(* gave this disposition and every header, and, where there are rows, ticked *)
(* this very triage.  Nothing intake guessed is ever approvable.             *)
ReadyWasReviewed ==
  Approvable(sheet) =>
    /\ saved.choice = sheet.disposition
    /\ saved.headers = Headers
    /\ sheet.disposition = "present" => saved.confirms = sheet.decision.triage

(* A decision that claims a rule is the rule's own for the rows stored with  *)
(* it, the gravest row deciding; one that claims a human is in the taxonomy. *)
DecisionFitsRows ==
  sheet.disposition = "present" /\ sheet.decision # Undecided =>
    IF sheet.decision.source = "human"
    THEN sheet.decision.triage \in Taxonomy
    ELSE /\ sheet.decision.rule \in {RuleFor(t) : t \in RangeOf(sheet.rows)}
         /\ sheet.decision.triage = RuleTriage[sheet.decision.rule]
         /\ \A t \in RangeOf(sheet.rows) : Preferred(sheet.decision.rule, RuleFor(t))

(* Review always converges: from every sheet with its page and no more rows  *)
(* than the editor sends, whatever was saved before, two careful saves of    *)
(* the page's own form are accepted and make it approvable.                  *)
TwoSavesSuffice ==
  sheet.evidence /\ Len(sheet.rows) <= MaxRows =>
    \A first \in CarefulForms(sheet) :
      /\ ~Refused(sheet, first)
      /\ LET once == Reviewed(sheet, first)
         IN  \/ Approvable(once)
             \/ \A second \in CarefulForms(once) :
                  ~Refused(once, second) /\ Approvable(Reviewed(once, second))

(* "The reviewer can correct header fields and add, edit, or remove          *)
(* occurrence rows" (README.md): whatever intake read, the page has a form   *)
(* the server accepts.                                                       *)
EverySheetCanBeSaved ==
  sheet.evidence => \E form \in PageForms(sheet) : ~Refused(sheet, form)

(* "A rule decision begins as a suggestion" (docs/ARCHITECTURE.md), "Edited  *)
(* occurrence content produces a new auditable routing suggestion"           *)
(* (tests/test_ui_table.py): when the decision is a rule's, and the reviewer *)
(* edits the rows and leaves the triage controls as the page filled them in, *)
(* the decision is still a rule's.                                           *)
EditsResuggest ==
  \A form \in PageForms(sheet) :
    /\ form.rows # sheet.rows
    /\ sheet.decision # Undecided /\ sheet.decision.source = "rule"
    /\ ControlsUntouched(sheet, form)
    /\ ~Refused(sheet, form)
    => Reviewed(sheet, form).decision.source = "rule"
=============================================================================
