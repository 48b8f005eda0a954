----------------------------- MODULE SheetProofs -----------------------------
(***************************************************************************)
(* Lemmas about the operators of Sheet, for any rules, taxonomy and texts: *)
(* minima exist, so the classifier always answers; what a review makes of  *)
(* a sheet, and what intake leaves of it, field by field.                  *)
(***************************************************************************)
EXTENDS Sheet, TLAPS, NaturalsInduction, WellFoundedInduction, SequenceTheorems

-----------------------------------------------------------------------------
(* A set of naturals that is not empty has a least element. *)
LEMMA LeastExists ==
  ASSUME NEW S, S \subseteq Nat, S # {}
  PROVE  \E m \in S : \A n \in S : m <= n
<1> DEFINE Below == OpToRel(<, Nat)
<1>1. IsWellFoundedOn(Below, Nat)
  BY NatLessThanWellFounded
<1>2. \A x, y \in Nat : y < x => <<y, x>> \in Below
  BY DEF OpToRel
<1> HIDE DEF Below
<1>3. PICK x \in S : \A y \in S : ~(<<y, x>> \in Below)
  BY <1>1, WFMin
<1>4. ASSUME NEW y \in S
      PROVE  x <= y
  <2>1. x \in Nat /\ y \in Nat
    OBVIOUS
  <2>2. CASE y < x
    <3>1. <<y, x>> \in Below
      BY <1>2, <2>1, <2>2
    <3> QED BY <1>3, <3>1
  <2>3. CASE ~(y < x)
    BY <2>1, <2>3
  <2> QED BY <2>2, <2>3
<1> QED BY <1>4

(* The classifier answers every text with one of the configured rules.     *)
LEMMA RuleForIsRule ==
  ASSUME NEW text \in Texts
  PROVE  RuleFor(text) \in Rules
<1> DEFINE candidates == Matching[text] \cup {NRules}
<1>1. candidates \subseteq Rules /\ candidates # {}
  BY RulesAssumption DEF Rules
<1>2. candidates \subseteq Nat
  BY <1>1, RulesAssumption DEF Rules
<1>3. \E r \in candidates : \A q \in candidates : r <= q
  <2> HIDE DEF candidates
  <2> QED BY <1>1, <1>2, LeastExists
<1>4. RuleFor(text) \in candidates
  BY <1>3 DEF RuleFor
<1> QED BY <1>1, <1>4

(* Among any rules one is preferred to all: the earliest of the gravest.   *)
LEMMA PreferredExists ==
  ASSUME NEW found, found \subseteq Rules, found # {}
  PROVE  \E r \in found : \A q \in found : Preferred(r, q)
<1> DEFINE grave(r) == Severity[RuleTriage[r]]
<1> DEFINE lightness == {3 - grave(r) : r \in found}
<1>1. \A r \in Rules : grave(r) \in -1..3
  BY RulesAssumption, TaxonomyAssumption
<1>2. \A r \in Rules : r \in Nat
  BY RulesAssumption DEF Rules
<1>3. PICK g \in found : \A q \in found : grave(g) >= grave(q)
  <2>1. lightness \subseteq Nat /\ lightness # {}
    BY <1>1
  <2>2. PICK m \in lightness : \A n \in lightness : m <= n
    <3> HIDE DEF lightness
    <3> QED BY <2>1, LeastExists
  <2>3. PICK r \in found : m = 3 - grave(r)
    OBVIOUS
  <2>4. ASSUME NEW q \in found
        PROVE  grave(r) >= grave(q)
    <3>1. m <= 3 - grave(q)
      BY <2>2
    <3>2. grave(q) \in -1..3 /\ grave(r) \in -1..3
      BY <1>1
    <3> HIDE DEF grave
    <3> QED BY <2>3, <3>1, <3>2
  <2> QED BY <2>4
<1> DEFINE gravest == {r \in found : grave(r) = grave(g)}
<1>4. gravest \subseteq Nat /\ gravest # {}
  BY <1>2
<1>5. PICK r \in gravest : \A q \in gravest : r <= q
  <2> HIDE DEF gravest
  <2> QED BY <1>4, LeastExists
<1>6. ASSUME NEW q \in found
      PROVE  Preferred(r, q)
  <2>1. grave(g) >= grave(q) /\ grave(r) = grave(g) /\ r \in found
    BY <1>3, <1>5
  <2>2. grave(q) \in -1..3 /\ grave(g) \in -1..3
    BY <1>1
  <2>3. CASE grave(q) = grave(g)
    <3>1. r <= q
      BY <1>5, <2>3
    <3> QED BY <2>1, <2>3, <3>1 DEF Preferred
  <2>4. CASE grave(q) # grave(g)
    <3>1. grave(r) > grave(q)
      <4> HIDE DEF grave
      <4> QED BY <2>1, <2>2, <2>4
    <3> QED BY <3>1 DEF Preferred
  <2> QED BY <2>3, <2>4
<1>7. r \in found
  OBVIOUS
<1> QED BY <1>6, <1>7

(* The rule that decides for the sheet is the rule of one of its rows, and *)
(* none of its rows calls for a graver or an earlier one.                  *)
LEMMA PrimaryRuleFits ==
  ASSUME NEW rows \in Seq(Texts), rows # <<>>
  PROVE  /\ PrimaryRule(rows) \in Rules
         /\ PrimaryRule(rows) \in {RuleFor(t) : t \in RangeOf(rows)}
         /\ \A t \in RangeOf(rows) : Preferred(PrimaryRule(rows), RuleFor(t))
<1> DEFINE found == {RuleFor(t) : t \in RangeOf(rows)}
<1>1. RangeOf(rows) \subseteq Texts
  BY DEF RangeOf
<1>2. rows[1] \in RangeOf(rows)
  BY DEF RangeOf
<1>3. found \subseteq Rules /\ found # {}
  BY <1>1, <1>2, RuleForIsRule
<1>4. \E r \in found : \A q \in found : Preferred(r, q)
  <2> HIDE DEF found
  <2> QED BY <1>3, PreferredExists
<1>5. PrimaryRule(rows) \in found /\ \A q \in found : Preferred(PrimaryRule(rows), q)
  <2>1. PrimaryRule(rows) = CHOOSE r \in found : \A q \in found : Preferred(r, q)
    BY DEF PrimaryRule
  <2> HIDE DEF found
  <2> QED BY <1>4, <2>1
<1> QED BY <1>3, <1>5

(* A suggestion is a rule's decision that nobody has confirmed. *)
LEMMA SuggestionIsDecision ==
  ASSUME NEW rows \in Seq(Texts), rows # <<>>
  PROVE  /\ Suggestion(rows) \in Decisions
         /\ Suggestion(rows) # Undecided
         /\ Suggestion(rows).status = "suggested"
         /\ Suggestion(rows).source = "rule"
         /\ Suggestion(rows).rule = PrimaryRule(rows)
         /\ Suggestion(rows).rule # NoRule
         /\ Suggestion(rows).triage = RuleTriage[PrimaryRule(rows)]
         /\ Suggestion(rows).triage \in Taxonomy
<1>1. PrimaryRule(rows) \in Rules
  BY PrimaryRuleFits
<1>2. RuleTriage[PrimaryRule(rows)] \in Taxonomy
  BY <1>1, RulesAssumption
<1>3. PrimaryRule(rows) # NoRule
  BY <1>1, RulesAssumption DEF Rules, NoRule
<1>4. Suggestion(rows) \in Decisions
  BY <1>1, <1>2, TaxonomyAssumption DEF Suggestion, Decisions
<1> QED BY <1>2, <1>3, <1>4, UndecidedAssumption DEF Suggestion

LEMMA NoChangeIsDecision ==
  /\ NoChangeDecision \in Decisions
  /\ NoChangeDecision # Undecided
  /\ NoChangeDecision.rule # NoRule
<1>1. NoChangeDecision \in Decisions
  BY TaxonomyAssumption DEF NoChangeDecision, Decisions
<1> QED BY <1>1, UndecidedAssumption DEF NoChangeDecision, NoChangeRule, NoRule

-----------------------------------------------------------------------------
(* What a form makes of a sheet *)

(* A form a client can send, as far as the theorems need to know it.       *)
WellTyped(form) ==
  /\ form.choice \in {"none", "present", "missing"}
  /\ form.rows \in Seq(Texts)
  /\ form.headers \in SUBSET Headers
  /\ form.pick \in Triages \cup {NoPick, BadPick}
  /\ form.ticked \in BOOLEAN

LEMMA TranscribedFields ==
  ASSUME NEW s \in Sheets, NEW form, WellTyped(form), ~DispositionRefused(form)
  PROVE  LET r == Transcribed(s, form)
         IN  /\ r \in Sheets
             /\ r.disposition = form.choice
             /\ r.confirmed
             /\ r.rows = form.rows
             /\ r.headers = form.headers
             /\ r.pending = Headers \ form.headers
             /\ r.errors = Headers \ form.headers
             /\ r.ocr \in {"good", "low"}
             /\ r.evidence = s.evidence
             /\ form.choice \in {"none", "present"}
             /\ form.choice = "present" <=> form.rows # <<>>
<1>1. form.choice \in {"none", "present"}
  BY DEF WellTyped, DispositionRefused
<1>2. form.choice = "present" <=> form.rows # <<>>
  BY <1>1 DEF DispositionRefused
<1> QED BY <1>1, <1>2 DEF Transcribed, Sheets, WellTyped

(* The decision the triage controls are read against: the no-change one or *)
(* a fresh suggestion.                                                     *)
LEMMA ProposedFields ==
  ASSUME NEW s \in Sheets, NEW form, WellTyped(form), ~DispositionRefused(form)
  PROVE  LET r == Proposed(s, form)
         IN  /\ r \in Sheets
             /\ r = [Transcribed(s, form) EXCEPT !.decision = r.decision]
             /\ form.choice = "none" => r.decision = NoChangeDecision
             /\ form.choice = "present" => r.decision = Suggestion(form.rows)
             /\ r.decision \in Decisions
             /\ r.decision # Undecided
<1> DEFINE t == Transcribed(s, form)
<1>1. /\ t \in Sheets /\ t.disposition = form.choice /\ t.confirmed /\ t.rows = form.rows
      /\ t.ocr # "failed" /\ form.choice \in {"none", "present"}
      /\ form.choice = "present" <=> form.rows # <<>>
  BY TranscribedFields
<1>2. form.choice = "none" => Decision(t) = NoChangeDecision
  BY <1>1 DEF Decision
<1>3. form.choice = "present" => Decision(t) = Suggestion(form.rows)
  BY <1>1 DEF Decision
<1>4. Decision(t) \in Decisions /\ Decision(t) # Undecided
  BY <1>1, <1>2, <1>3, SuggestionIsDecision, NoChangeIsDecision DEF WellTyped
<1>5. Proposed(s, form) = [t EXCEPT !.decision = Decision(t)]
  BY DEF Proposed, Classified
<1>6. Proposed(s, form) \in Sheets /\ Proposed(s, form).decision = Decision(t)
  <2> HIDE DEF t
  <2> QED BY <1>1, <1>4, <1>5 DEF Sheets
<1> HIDE DEF t
<1> QED BY <1>2, <1>3, <1>4, <1>5, <1>6 DEF t

(* An accepted form: the fields of the sheet it stores, and its decision   *)
(* as one of the no-change decision, a suggestion left alone, a suggestion *)
(* confirmed, and a human override.                                        *)
LEMMA ReviewedFields ==
  ASSUME NEW s \in Sheets, NEW form, WellTyped(form), ~Refused(s, form)
  PROVE  LET r == Reviewed(s, form)
         IN  /\ r \in Sheets
             /\ r.disposition = form.choice
             /\ r.confirmed
             /\ r.rows = form.rows
             /\ r.headers = form.headers
             /\ r.pending = Headers \ form.headers
             /\ r.errors = Headers \ form.headers
             /\ r.ocr \in {"good", "low"}
             /\ r.evidence = s.evidence
             /\ form.choice \in {"none", "present"}
             /\ form.choice = "present" <=> form.rows # <<>>
             /\ \/ /\ form.choice = "none"
                   /\ r.decision = NoChangeDecision
                \/ /\ form.choice = "present" /\ ~form.ticked
                   /\ r.decision = Suggestion(form.rows)
                \/ /\ form.choice = "present" /\ form.ticked
                   /\ form.pick = Suggestion(form.rows).triage
                   /\ r.decision = [Suggestion(form.rows) EXCEPT !.status = "confirmed"]
                \/ /\ form.choice = "present" /\ form.ticked
                   /\ form.pick \in Taxonomy
                   /\ r.decision = [triage |-> form.pick, source |-> "human",
                                    status |-> "confirmed", rule |-> NoRule]
<1> DEFINE p == Proposed(s, form)
<1> DEFINE t == Transcribed(s, form)
<1> DEFINE d == TriageDecided(p.decision, form)
<1>1. ~DispositionRefused(form) /\ ~TriageRefused(p.decision, form)
  BY DEF Refused
<1>2. /\ p \in Sheets
      /\ p = [t EXCEPT !.decision = p.decision]
      /\ form.choice = "none" => p.decision = NoChangeDecision
      /\ form.choice = "present" => p.decision = Suggestion(form.rows)
      /\ p.decision \in Decisions
  BY <1>1, ProposedFields
<1>3. /\ t \in Sheets /\ t.disposition = form.choice /\ t.confirmed /\ t.rows = form.rows
      /\ t.headers = form.headers /\ t.pending = Headers \ form.headers
      /\ t.errors = Headers \ form.headers /\ t.ocr \in {"good", "low"}
      /\ t.evidence = s.evidence /\ form.choice \in {"none", "present"}
      /\ form.choice = "present" <=> form.rows # <<>>
  BY <1>1, TranscribedFields
<1> DEFINE r == Reviewed(s, form)
<1> DEFINE Fields ==
      /\ r \in Sheets /\ r.disposition = form.choice /\ r.confirmed /\ r.rows = form.rows
      /\ r.headers = form.headers /\ r.pending = Headers \ form.headers
      /\ r.errors = Headers \ form.headers /\ r.ocr \in {"good", "low"}
      /\ r.evidence = s.evidence /\ r.decision = d
<1>4. ASSUME d \in Decisions
      PROVE  Fields
  <2>1. r = [p EXCEPT !.decision = d]
    BY DEF Reviewed
  <2> HIDE DEF p, t, d, r
  <2> QED BY <1>2, <1>3, <1>4, <2>1 DEF Sheets
<1>5. CASE form.choice = "none"
  <2>1. d = NoChangeDecision
    BY <1>2, <1>5 DEF TriageDecided
  <2>2. Fields
    BY <1>4, <2>1, NoChangeIsDecision
  <2> HIDE DEF p, t, d
  <2> QED BY <1>3, <1>5, <2>1, <2>2
<1>6. CASE form.choice = "present" /\ ~form.ticked
  <2>1. d = Suggestion(form.rows)
    BY <1>2, <1>6 DEF TriageDecided
  <2>2. Fields
    BY <1>2, <1>4, <1>6, <2>1
  <2> HIDE DEF p, t, d
  <2> QED BY <1>3, <1>6, <2>1, <2>2
<1>7. CASE form.choice = "present" /\ form.ticked /\ form.pick = p.decision.triage
  <2>1. d = [p.decision EXCEPT !.status = "confirmed"]
    BY <1>7 DEF TriageDecided
  <2>2. d \in Decisions
    <3> HIDE DEF p, d
    <3> QED BY <1>2, <2>1 DEF Decisions
  <2>3. Fields
    BY <1>4, <2>2
  <2>4. d = [Suggestion(form.rows) EXCEPT !.status = "confirmed"]
    BY <1>2, <1>7, <2>1
  <2>5. form.pick = Suggestion(form.rows).triage
    BY <1>2, <1>7
  <2> HIDE DEF p, t, d
  <2> QED BY <1>3, <1>7, <2>3, <2>4, <2>5
<1>8. CASE form.choice = "present" /\ form.ticked /\ form.pick # p.decision.triage
  <2>1. form.pick \in Taxonomy
    BY <1>1, <1>8 DEF TriageRefused
  <2>2. d = [triage |-> form.pick, source |-> "human", status |-> "confirmed", rule |-> NoRule]
    BY <1>8 DEF TriageDecided
  <2>3. d \in Decisions
    BY <2>1, <2>2, TaxonomyAssumption DEF Decisions
  <2>4. Fields
    BY <1>4, <2>3
  <2> HIDE DEF p, t, d
  <2> QED BY <1>3, <1>8, <2>1, <2>2, <2>4
<1> QED BY <1>3, <1>5, <1>6, <1>7, <1>8 DEF WellTyped

-----------------------------------------------------------------------------
(* What intake leaves is unconfirmed, and decided by nobody but the rules. *)
LEMMA FreshFields ==
  ASSUME NEW readings, readings \subseteq Seq(Texts), NEW s \in FreshSheets(readings)
  PROVE  /\ s \in Sheets
         /\ ~s.confirmed
         /\ s.disposition = "present" <=> s.rows # <<>>
         /\ s.decision # Undecided =>
              s.disposition = "present" /\ s.decision = Suggestion(s.rows)
<1> DEFINE read == {Extracted(rows, line, found, quality) :
                      rows \in readings, line \in BOOLEAN,
                      found \in SUBSET Headers, quality \in {"good", "low", "failed"}}
<1>1. ASSUME NEW rows \in Seq(Texts), NEW line \in BOOLEAN, NEW found \in SUBSET Headers,
             NEW quality \in {"good", "low", "failed"}
      PROVE  LET r == Extracted(rows, line, found, quality)
             IN  /\ r \in Sheets /\ ~r.confirmed /\ r.rows = rows
                 /\ r.disposition \in {"unknown", "none", "present"}
                 /\ r.disposition = "present" <=> rows # <<>>
                 /\ r.decision = Undecided
  <2>1. DispositionRead(rows, line) \in {"unknown", "none", "present"}
    BY DEF DispositionRead
  <2>2. DispositionRead(rows, line) = "present" <=> rows # <<>>
    BY DEF DispositionRead
  <2> QED BY <2>1, <2>2 DEF Extracted, Sheets
<1>2. ASSUME NEW r \in read
      PROVE  /\ r \in Sheets /\ ~r.confirmed /\ r.decision = Undecided
             /\ r.disposition = "present" <=> r.rows # <<>>
  BY <1>1
<1>3. CASE \E r \in read : s = Classified(r)
  <2>1. PICK r \in read : s = Classified(r)
    BY <1>3
  <2> HIDE DEF read
  <2>2. Decision(r) \in {Undecided} \/ (r.disposition = "present" /\ Decision(r) = Suggestion(r.rows))
    BY <1>2 DEF Decision, Sheets
  <2>3. Decision(r) \in Decisions \cup {Undecided}
    BY <1>2, <2>2, SuggestionIsDecision DEF Sheets
  <2>4. s = [r EXCEPT !.decision = Decision(r)]
    BY <2>1 DEF Classified
  <2>5. /\ s \in Sheets /\ s.confirmed = r.confirmed /\ s.rows = r.rows
        /\ s.disposition = r.disposition /\ s.decision = Decision(r)
    BY <1>2, <2>3, <2>4 DEF Sheets
  <2> QED BY <1>2, <2>2, <2>5
<1>4. ASSUME NEW r \in Sheets
      PROVE  /\ Expired(r) \in Sheets /\ Expired(r).confirmed = r.confirmed
             /\ Expired(r).rows = r.rows /\ Expired(r).disposition = r.disposition
             /\ Expired(r).decision = Undecided
  BY DEF Expired, Sheets
<1>5. CASE \E r \in read : s = Expired(r)
  <2> HIDE DEF read
  <2> QED BY <1>2, <1>4, <1>5
<1>6. CASE \E evidence \in BOOLEAN : s = Unread(evidence)
  <2>1. PICK evidence \in BOOLEAN : s = Unread(evidence)
    BY <1>6
  <2> DEFINE r == Expired(Extracted(<<>>, FALSE, {}, "failed"))
  <2>2. /\ r \in Sheets /\ ~r.confirmed /\ r.rows = <<>>
        /\ r.disposition # "present" /\ r.decision = Undecided
    <3> DEFINE e == Extracted(<<>>, FALSE, {}, "failed")
    <3>1. <<>> \in Seq(Texts) /\ FALSE \in BOOLEAN /\ {} \in SUBSET Headers
          /\ "failed" \in {"good", "low", "failed"}
      OBVIOUS
    <3>2. e \in Sheets /\ ~e.confirmed /\ e.rows = <<>> /\ e.disposition # "present"
      BY <1>1, <3>1
    <3>3. r = Expired(e)
      OBVIOUS
    <3> HIDE DEF e, r
    <3> QED BY <1>4, <3>2, <3>3
  <2>3. s = [r EXCEPT !.evidence = evidence]
    BY <2>1 DEF Unread
  <2> HIDE DEF r
  <2> QED BY <2>2, <2>3 DEF Sheets
<1>7. \/ \E r \in read : s = Classified(r)
      \/ \E r \in read : s = Expired(r)
      \/ \E evidence \in BOOLEAN : s = Unread(evidence)
  <2>1. s \in {Classified(r) : r \in read}
          \cup {Expired(r) : r \in {q \in read : q.ocr # "failed"}}
          \cup {Unread(evidence) : evidence \in BOOLEAN}
    BY DEF FreshSheets
  <2> HIDE DEF read
  <2> QED BY <2>1
<1> QED BY <1>3, <1>5, <1>6, <1>7
=============================================================================
