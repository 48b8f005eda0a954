------------------------- MODULE SheetReviewProofs --------------------------
(***************************************************************************)
(* Theorems about SheetReview, for any rules, taxonomy, texts and limit.   *)
(*                                                                         *)
(* SheetInv, the inductive invariant, adds to the checked invariants what  *)
(* the last accepted form has to do with the stored sheet.                 *)
(***************************************************************************)
EXTENDS SheetReview, SheetProofs

-----------------------------------------------------------------------------
(* The invariant *)

(* What the last accepted form said is what the stored sheet says, and a   *)
(* triage counts as confirmed only if that form ticked it.                 *)
SavedAgrees ==
  sheet.confirmed =>
    /\ saved.choice = sheet.disposition
    /\ saved.headers = sheet.headers
    /\ sheet.decision # Undecided
    /\ sheet.disposition = "present" /\ sheet.decision.status = "confirmed" =>
         saved.confirms = sheet.decision.triage

SheetInv == TypeOK /\ StoredSheetsOpen /\ DecisionFitsRows /\ SavedAgrees

LEMMA AnyFormWellTyped ==
  ASSUME NEW form \in AnyForm
  PROVE  WellTyped(form)
BY ReadingsAssumption DEF AnyForm, SendableForms, WellTyped

LEMMA InitSheetInv == Init => SheetInv
<1> SUFFICES ASSUME Init PROVE SheetInv
  OBVIOUS
<1>1. /\ sheet \in Sheets /\ ~sheet.confirmed
      /\ sheet.disposition = "present" <=> sheet.rows # <<>>
      /\ sheet.decision # Undecided =>
           sheet.disposition = "present" /\ sheet.decision = Suggestion(sheet.rows)
  BY FreshFields, ReadingsAssumption DEF Init
<1>2. TypeOK
  BY <1>1 DEF Init, NothingSaved, TypeOK
<1>3. sheet.disposition = "present" =>
        /\ sheet.rows \in Seq(Texts) /\ sheet.rows # <<>>
  BY <1>1 DEF Sheets
<1>4. StoredSheetsOpen
  BY <1>1, <1>3, SuggestionIsDecision DEF StoredSheetsOpen
<1>5. DecisionFitsRows
  BY <1>1, <1>3, SuggestionIsDecision, PrimaryRuleFits DEF DecisionFitsRows
<1>6. SavedAgrees
  BY <1>1 DEF SavedAgrees
<1> QED BY <1>2, <1>4, <1>5, <1>6 DEF SheetInv

LEMMA NextSheetInv == SheetInv /\ [Next]_vars => SheetInv'
<1> SUFFICES ASSUME SheetInv, [Next]_vars PROVE SheetInv'
  OBVIOUS
<1>1. ASSUME NEW form \in AnyForm, Save(form)
      PROVE  SheetInv'
  <2> DEFINE sug == Suggestion(form.rows)
  <2>1. WellTyped(form) /\ sheet \in Sheets /\ ~Refused(sheet, form)
    BY <1>1, AnyFormWellTyped DEF SheetInv, TypeOK, Save
  <2>2. sheet' = Reviewed(sheet, form)
    BY <1>1 DEF Save
  <2>3. saved' = [choice |-> form.choice, headers |-> form.headers,
                  confirms |-> IF form.ticked THEN form.pick ELSE NoPick]
    BY <1>1 DEF Save
  <2>4. /\ sheet' \in Sheets /\ sheet'.disposition = form.choice /\ sheet'.confirmed
        /\ sheet'.rows = form.rows /\ sheet'.headers = form.headers
        /\ form.choice \in {"none", "present"}
        /\ form.choice = "present" <=> form.rows # <<>>
    BY <2>1, <2>2, ReviewedFields
  <2>5. \/ /\ form.choice = "none"
           /\ sheet'.decision = NoChangeDecision
        \/ /\ form.choice = "present" /\ ~form.ticked
           /\ sheet'.decision = sug
        \/ /\ form.choice = "present" /\ form.ticked
           /\ form.pick = sug.triage
           /\ sheet'.decision = [sug EXCEPT !.status = "confirmed"]
        \/ /\ form.choice = "present" /\ form.ticked
           /\ form.pick \in Taxonomy
           /\ sheet'.decision = [triage |-> form.pick, source |-> "human",
                                 status |-> "confirmed", rule |-> NoRule]
    BY <2>1, <2>2, ReviewedFields
  <2>6. form.choice = "present" =>
          /\ sug \in Decisions /\ sug # Undecided /\ sug.status = "suggested"
          /\ sug.source = "rule" /\ sug.rule = PrimaryRule(form.rows) /\ sug.rule # NoRule
          /\ sug.triage = RuleTriage[PrimaryRule(form.rows)]
    BY <2>1, <2>4, SuggestionIsDecision DEF WellTyped
  <2>7. sheet'.decision \in Decisions \cup {Undecided} /\ sheet'.decision # Undecided
    <3>1. [sug EXCEPT !.status = "confirmed"] \in Decisions \/ form.choice # "present"
      <4> HIDE DEF sug
      <4> QED BY <2>6, <2>4 DEF Decisions
    <3>2. \A pick \in Taxonomy :
            [triage |-> pick, source |-> "human", status |-> "confirmed", rule |-> NoRule]
              \in Decisions
      BY TaxonomyAssumption DEF Decisions
    <3>3. sheet'.decision \in Decisions
      <4> HIDE DEF sug
      <4> QED BY <2>5, <2>6, <3>1, <3>2, NoChangeIsDecision
    <3> QED BY <3>3, UndecidedAssumption
  <2>8. TypeOK'
    BY <2>1, <2>3, <2>4 DEF TypeOK, WellTyped
  <2>9. /\ form.choice = "none" => sheet'.decision = NoChangeDecision
        /\ sheet'.decision.source = "rule" <=> sheet'.decision.rule # NoRule
        /\ sheet'.decision.status = "suggested" => sheet'.decision.source = "rule"
        /\ form.choice = "present" =>
             /\ sheet'.decision.status = "confirmed" => form.ticked /\ form.pick = sheet'.decision.triage
             /\ sheet'.decision.source = "human" => sheet'.decision.triage \in Taxonomy
             /\ sheet'.decision.source # "human" =>
                  /\ sheet'.decision.rule = PrimaryRule(form.rows)
                  /\ sheet'.decision.triage = RuleTriage[PrimaryRule(form.rows)]
    <3>1. CASE form.choice = "none"
      <4> HIDE DEF sug
      <4> QED BY <2>5, <3>1, NoChangeIsDecision DEF NoChangeDecision
    <3>2. CASE form.choice = "present" /\ sheet'.decision = sug /\ ~form.ticked
      <4> HIDE DEF sug
      <4> QED BY <2>6, <3>2
    <3>3. CASE /\ form.choice = "present" /\ form.ticked /\ form.pick = sug.triage
               /\ sheet'.decision = [sug EXCEPT !.status = "confirmed"]
      <4>1. /\ sheet'.decision.status = "confirmed" /\ sheet'.decision.source = sug.source
            /\ sheet'.decision.rule = sug.rule /\ sheet'.decision.triage = sug.triage
        <5> HIDE DEF sug
        <5> QED BY <2>6, <3>3 DEF Decisions
      <4> HIDE DEF sug
      <4> QED BY <2>6, <3>3, <4>1
    <3>4. CASE /\ form.choice = "present" /\ form.ticked /\ form.pick \in Taxonomy
               /\ sheet'.decision = [triage |-> form.pick, source |-> "human",
                                     status |-> "confirmed", rule |-> NoRule]
      BY <3>4
    <3> HIDE DEF sug
    <3> QED BY <2>4, <2>5, <3>1, <3>2, <3>3, <3>4
  <2>10. StoredSheetsOpen'
    BY <2>4, <2>7, <2>9 DEF StoredSheetsOpen
  <2>11. DecisionFitsRows'
    <3>1. form.choice = "present" =>
            /\ PrimaryRule(form.rows) \in {RuleFor(t) : t \in RangeOf(form.rows)}
            /\ \A t \in RangeOf(form.rows) : Preferred(PrimaryRule(form.rows), RuleFor(t))
      BY <2>1, <2>4, PrimaryRuleFits DEF WellTyped
    <3> QED BY <2>4, <2>9, <3>1 DEF DecisionFitsRows
  <2>12. SavedAgrees'
    BY <2>3, <2>4, <2>7, <2>9 DEF SavedAgrees
  <2> QED BY <2>8, <2>10, <2>11, <2>12 DEF SheetInv
<1>2. CASE UNCHANGED vars
  BY <1>2 DEF vars, SheetInv, TypeOK, StoredSheetsOpen, DecisionFitsRows, SavedAgrees
<1> QED BY <1>1, <1>2 DEF Next

(* What every reachable sheet satisfies, as one invariant. *)
THEOREM SheetInvariant == Spec => []SheetInv
BY InitSheetInv, NextSheetInv, PTL DEF Spec

(* The stored sheet is always a sheet: no form, whatever a client sends,   *)
(* puts a value of another kind into a field.                              *)
THEOREM SheetTypeCorrect == Spec => []TypeOK
<1>1. SheetInv => TypeOK
  BY DEF SheetInv
<1> QED BY <1>1, SheetInvariant, PTL

(* However often a sheet is saved, what is stored satisfies the validators *)
(* that model_copy does not run and the next read does.                    *)
THEOREM StoredSheetsCanBeOpened == Spec => []StoredSheetsOpen
<1>1. SheetInv => StoredSheetsOpen
  BY DEF SheetInv
<1> QED BY <1>1, SheetInvariant, PTL

(* For every config, a decision that claims a rule is the primary rule of  *)
(* the rows stored with it.                                                *)
THEOREM DecisionsFitRows == Spec => []DecisionFitsRows
<1>1. SheetInv => DecisionFitsRows
  BY DEF SheetInv
<1> QED BY <1>1, SheetInvariant, PTL

(* Nothing becomes approvable but by the word of the last accepted form.   *)
THEOREM ReadyMeansReviewed == Spec => []ReadyWasReviewed
<1>1. SheetInv => ReadyWasReviewed
  <2> SUFFICES ASSUME SheetInv, Approvable(sheet)
               PROVE  /\ saved.choice = sheet.disposition
                      /\ saved.headers = Headers
                      /\ sheet.disposition = "present" => saved.confirms = sheet.decision.triage
    BY DEF ReadyWasReviewed
  <2>1. sheet.confirmed /\ sheet.disposition # "unknown"
    BY DEF Approvable, DispositionUnconfirmed
  <2>2. sheet.headers = Headers
    BY DEF Approvable, FieldPending
  <2>3. sheet.decision.status = "confirmed"
    BY <2>1 DEF Approvable, ClassificationUnconfirmed
  <2> QED BY <2>1, <2>2, <2>3 DEF SheetInv, SavedAgrees
<1> QED BY <1>1, SheetInvariant, PTL

-----------------------------------------------------------------------------
(* Review converges *)

(* A confirmed triage of the taxonomy always has a route. *)
LEMMA TaxonomyIsRouted ==
  ASSUME NEW triage \in Taxonomy
  PROVE  Routed(triage)
<1>1. Len(Routing) \in DOMAIN Routing
  BY RoutingAssumption
<1>2. triage \in Routing[Len(Routing)]
  BY RoutingAssumption, TaxonomyAssumption
<1> QED BY <1>1, <1>2 DEF Routed

(* A careful form of the page is accepted.  Where the page asks for the    *)
(* triage, or the sheet has no change, it makes the sheet approvable;      *)
(* otherwise the next page will ask for it.                                *)
LEMMA CarefulSave ==
  ASSUME NEW s \in Sheets, s.evidence, Len(s.rows) <= MaxRows, NEW form \in CarefulForms(s)
  PROVE  LET r == Reviewed(s, form)
         IN  /\ ~Refused(s, form)
             /\ r \in Sheets /\ r.evidence /\ Len(r.rows) <= MaxRows
             /\ ControlsShown(s) => Approvable(r)
             /\ Approvable(r) \/ ControlsShown(r)
<1> DEFINE r == Reviewed(s, form)
<1>1. /\ form \in PageForms(s) /\ form.headers = Headers /\ ~form.faulty
      /\ form.choice = IF form.rows = <<>> THEN "none" ELSE "present"
      /\ ControlsShown(s) => form.ticked
  BY DEF CarefulForms
<1>2. /\ form.rows \in Seq(Texts) /\ form.highest = RowsShown(s) /\ Len(form.rows) <= form.highest
      /\ form.pick \in IF ControlsShown(s) THEN Taxonomy ELSE {NoPick}
      /\ form.ticked \in IF ControlsShown(s) THEN BOOLEAN ELSE {FALSE}
  BY <1>1, ReadingsAssumption DEF PageForms
<1>3. WellTyped(form)
  BY <1>1, <1>2, TaxonomyAssumption DEF WellTyped
<1>4. Len(s.rows) \in Nat /\ RowsShown(s) \in Nat /\ RowsShown(s) <= MaxRows
  <2>1. Len(s.rows) \in Nat
    BY DEF Sheets
  <2> QED BY <2>1, LimitsAssumption DEF RowsShown
<1>5. Len(form.rows) <= MaxRows
  BY <1>2, <1>4, LimitsAssumption
<1>6. ~RowsRefused(form)
  BY <1>1, <1>2, <1>4, LimitsAssumption DEF RowsRefused
<1>7. ~DispositionRefused(form)
  BY <1>1 DEF DispositionRefused
<1>8. ~TriageRefused(Proposed(s, form).decision, form)
  BY <1>1, <1>2 DEF TriageRefused
<1>9. ~Refused(s, form)
  BY <1>6, <1>7, <1>8 DEF Refused
<1>10. /\ r \in Sheets /\ r.disposition = form.choice /\ r.confirmed
       /\ r.rows = form.rows /\ r.headers = Headers /\ r.pending = {} /\ r.errors = {}
       /\ r.ocr # "failed" /\ r.evidence = s.evidence /\ form.choice \in {"none", "present"}
  BY <1>1, <1>3, <1>9, ReviewedFields
<1>11. \/ /\ form.choice = "none" /\ r.decision = NoChangeDecision
       \/ /\ form.choice = "present" /\ ~form.ticked
          /\ r.decision = Suggestion(form.rows)
       \/ /\ form.choice = "present" /\ form.ticked
          /\ form.pick = Suggestion(form.rows).triage
          /\ r.decision = [Suggestion(form.rows) EXCEPT !.status = "confirmed"]
       \/ /\ form.choice = "present" /\ form.ticked
          /\ form.pick \in Taxonomy
          /\ r.decision = [triage |-> form.pick, source |-> "human",
                           status |-> "confirmed", rule |-> NoRule]
  BY <1>3, <1>9, ReviewedFields
<1>12. form.choice = "present" =>
         /\ Suggestion(form.rows) \in Decisions /\ Suggestion(form.rows) # Undecided
         /\ Suggestion(form.rows).triage \in Taxonomy
  BY <1>1, <1>2, SuggestionIsDecision
<1>13. ASSUME form.choice = "none" \/ form.ticked
       PROVE  r.decision \in Decisions /\ r.decision.status = "confirmed" /\ r.decision.triage \in Taxonomy
  <2>1. CASE form.choice = "none"
    BY <1>11, <2>1, NoChangeIsDecision, TaxonomyAssumption DEF NoChangeDecision
  <2>2. CASE /\ form.choice = "present" /\ form.pick = Suggestion(form.rows).triage
             /\ r.decision = [Suggestion(form.rows) EXCEPT !.status = "confirmed"]
    <3> HIDE DEF r
    <3> QED BY <1>12, <2>2 DEF Decisions
  <2>3. CASE /\ form.pick \in Taxonomy
             /\ r.decision = [triage |-> form.pick, source |-> "human",
                              status |-> "confirmed", rule |-> NoRule]
    <3> HIDE DEF r
    <3> QED BY <2>3, TaxonomyAssumption DEF Decisions
  <2> HIDE DEF r
  <2> QED BY <1>11, <1>13, <2>1, <2>2, <2>3
<1>14. form.choice = "none" \/ form.ticked => Approvable(r)
  <2> SUFFICES ASSUME form.choice = "none" \/ form.ticked PROVE Approvable(r)
    OBVIOUS
  <2>1. r.decision \in Decisions /\ r.decision.status = "confirmed" /\ r.decision.triage \in Taxonomy
    BY <1>13
  <2>2. r.decision # Undecided
    BY <2>1, UndecidedAssumption
  <2>3. Routed(r.decision.triage)
    BY <2>1, TaxonomyIsRouted
  <2> HIDE DEF r
  <2> QED BY <1>10, <2>1, <2>2, <2>3
          DEF Approvable, DispositionUnconfirmed, FieldPending, ClassificationUnconfirmed,
              RoutingUnresolved
<1>15. ControlsShown(s) => Approvable(r)
  BY <1>1, <1>14
<1>16. Approvable(r) \/ ControlsShown(r)
  <2>1. CASE form.choice = "none" \/ form.ticked
    BY <1>14, <2>1
  <2>2. CASE form.choice = "present" /\ ~form.ticked
    <3>1. r.decision # Undecided /\ r.disposition = "present"
      <4> HIDE DEF r
      <4> QED BY <1>10, <1>11, <1>12, <2>2
    <3> HIDE DEF r
    <3> QED BY <3>1 DEF ControlsShown
  <2> QED BY <1>10, <2>1, <2>2
<1> QED BY <1>5, <1>9, <1>10, <1>15, <1>16

(* For every config, from every reachable sheet that has its page and no   *)
(* more rows than a form may carry, two careful saves are enough.          *)
THEOREM ReviewConverges == Spec => []TwoSavesSuffice
<1>1. TypeOK => TwoSavesSuffice
  <2> SUFFICES ASSUME TypeOK, sheet.evidence, Len(sheet.rows) <= MaxRows,
                      NEW first \in CarefulForms(sheet)
               PROVE  /\ ~Refused(sheet, first)
                      /\ LET once == Reviewed(sheet, first)
                         IN  \/ Approvable(once)
                             \/ \A second \in CarefulForms(once) :
                                  ~Refused(once, second) /\ Approvable(Reviewed(once, second))
    BY DEF TwoSavesSuffice
  <2> DEFINE once == Reviewed(sheet, first)
  <2>1. /\ ~Refused(sheet, first)
        /\ once \in Sheets /\ once.evidence /\ Len(once.rows) <= MaxRows
        /\ Approvable(once) \/ ControlsShown(once)
    BY CarefulSave DEF TypeOK
  <2>2. ASSUME ControlsShown(once), NEW second \in CarefulForms(once)
        PROVE  ~Refused(once, second) /\ Approvable(Reviewed(once, second))
    <3> HIDE DEF once
    <3> QED BY <2>1, <2>2, CarefulSave
  <2> QED BY <2>1, <2>2
<1> QED BY <1>1, SheetTypeCorrect, PTL
=============================================================================
