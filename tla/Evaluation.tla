----------------------------- MODULE Evaluation -----------------------------
(***************************************************************************)
(* The release evaluation: what one sheet scores, how the scores are       *)
(* added up, the gates of the evaluator and the arithmetic by which the    *)
(* publisher rejects a summary that no run can have produced.  Operators   *)
(* only; Release runs them.  A summary carries counts, never a sheet.      *)
(*                                                                         *)
(* A result is what running the pipeline on one sheet left to be scored:   *)
(* whether it ran, the sheet's truth (occ), the disposition that was read  *)
(* ("absent" when nothing was normalized), whether header and row count    *)
(* are those of the truth (whole), whether every row it found asks for     *)
(* review, and what the approval and the export gate said of its state.    *)
(***************************************************************************)
EXTENDS Integers, FiniteSets

Dispositions == {"none", "present", "unknown"}

Result == [ran : BOOLEAN, occ : BOOLEAN, disp : Dispositions \union {"absent"},
           whole : BOOLEAN, review : BOOLEAN,
           approvable : BOOLEAN, exportable : BOOLEAN]

CountKeys == {"n_ran", "false_incident", "missed_incident", "unknown", "structural",
              "unsafe_clean", "unreviewed", "complete", "approvable", "exportable",
              "mismatch", "blocked", "unsafe_approvable", "unsafe_exportable"}
DifficultyKeys == {"clean", "photo", "scan"}
TemplateKeys == {"controle_A", "controle_B"}

-----------------------------------------------------------------------------
\* What one sheet scores.

ParseTableSuccess(r) ==
  /\ r.disp = IF r.occ THEN "present" ELSE "none"
  /\ r.whole

FalseIncident(r) == ~r.occ /\ r.disp = "present"
MissedIncident(r) == r.occ /\ r.disp = "none"
UnknownDisposition(r) == r.disp = "unknown"
StructuralFailure(r) == r.occ /\ r.disp # "present"
Mismatch(r) == ~ParseTableSuccess(r)
SignalComplete(r) == r.disp \in Dispositions
UnsafeApprovable(r) == Mismatch(r) /\ r.approvable
UnsafeExportable(r) == Mismatch(r) /\ r.exportable
BlockedMismatch(r) == Mismatch(r) /\ ~r.approvable /\ ~r.exportable
Unreviewed(r) == FalseIncident(r) /\ ~r.review

-----------------------------------------------------------------------------
\* Adding up.

Rounded(part, whole) == (20000 * part + whole) \div (2 * whole)   \* four places

Rate(part, whole) == IF whole = 0 THEN 10000 ELSE Rounded(part, whole)

Ran(R) == {s \in DOMAIN R : R[s].ran}

\* The metrics of the sheets S of a run R.
Bucket(R, S) ==
  LET Count(P(_)) == Cardinality({s \in S : P(R[s])})
      IsApprovable(r) == r.approvable
      IsExportable(r) == r.exportable
  IN [n_ran |-> Cardinality(S),
      parse_rate |-> Rate(Count(ParseTableSuccess), Cardinality(S)),
      false_incident |-> Count(FalseIncident),
      missed_incident |-> Count(MissedIncident),
      unknown |-> Count(UnknownDisposition),
      structural |-> Count(StructuralFailure),
      unsafe_clean |-> Count(MissedIncident),
      unreviewed |-> Count(Unreviewed),
      complete |-> Count(SignalComplete),
      approvable |-> Count(IsApprovable),
      exportable |-> Count(IsExportable),
      mismatch |-> Count(Mismatch),
      blocked |-> Count(BlockedMismatch),
      unsafe_approvable |-> Count(UnsafeApprovable),
      unsafe_exportable |-> Count(UnsafeExportable),
      safe_recall |-> Rate(Count(BlockedMismatch), Count(Mismatch))]

\* By a label of the sheets: only labels of sheets that ran get a bucket.
ByLabel(R, label) ==
  [l \in {label[s] : s \in Ran(R)} |-> Bucket(R, {s \in Ran(R) : label[s] = l})]

Aggregate(R, difficulty, template) ==
  [n_sheets |-> Cardinality(DOMAIN R), n_sheets_ran |-> Cardinality(Ran(R)),
   reader |-> Bucket(R, Ran(R)),
   by_difficulty |-> ByLabel(R, difficulty), by_template |-> ByLabel(R, template)]

-----------------------------------------------------------------------------
\* The gates of the evaluator, on counts.
SafetyGates(a) ==
  /\ a.n_sheets > 0
  /\ a.n_sheets_ran = a.n_sheets
  /\ a.reader.complete = a.n_sheets_ran
  /\ a.reader.unreviewed = 0
  /\ a.reader.unsafe_clean = 0
  /\ a.reader.unsafe_approvable = 0
  /\ a.reader.unsafe_exportable = 0
  /\ a.reader.safe_recall = 10000

\* The equations a publisher expects of one set of metrics.
CoherentMetrics(m) ==
  LET overlap == m.blocked + m.unsafe_approvable + m.unsafe_exportable - m.mismatch
      unsafe == {m.unsafe_approvable, m.unsafe_exportable}
  IN /\ \A k \in CountKeys : m[k] <= m.n_ran
     /\ m.complete = m.n_ran
     /\ m.blocked <= m.mismatch
     /\ m.unsafe_clean = m.missed_incident
     /\ m.missed_incident <= m.structural
     /\ m.structural - m.missed_incident <= m.unknown
     /\ m.missed_incident + m.unknown + m.false_incident <= m.n_ran
     /\ m.unreviewed <= m.false_incident
     /\ \A c \in {m.false_incident, m.missed_incident, m.unknown, m.structural} :
          c <= m.mismatch
     /\ 0 <= overlap /\ \A u \in unsafe : overlap <= u
     /\ m.approvable - m.unsafe_approvable \in 0 .. m.n_ran - m.mismatch
     /\ m.exportable - m.unsafe_exportable \in 0 .. m.n_ran - m.mismatch
     /\ m.n_ran > 0      \* the rate of no sheet is null, which no bucket may have
     /\ m.parse_rate = Rate(m.n_ran - m.mismatch, m.n_ran)
     /\ m.safe_recall = Rate(m.blocked, m.mismatch)

\* The buckets of one dimension have exactly the expected labels and add up.
CoherentDifficulties(b, reader) ==
  /\ DOMAIN b = DifficultyKeys
  /\ \A l \in DifficultyKeys : CoherentMetrics(b[l])
  /\ \A k \in CountKeys : b["clean"][k] + b["photo"][k] + b["scan"][k] = reader[k]

CoherentTemplates(b, reader) ==
  /\ DOMAIN b = TemplateKeys
  /\ \A l \in TemplateKeys : CoherentMetrics(b[l])
  /\ \A k \in CountKeys : b["controle_A"][k] + b["controle_B"][k] = reader[k]

Coherent(a) ==
  /\ CoherentMetrics(a.reader)
  /\ CoherentDifficulties(a.by_difficulty, a.reader)
  /\ CoherentTemplates(a.by_template, a.reader)

\* What a person wants of every sheet: the reader got it right, or nothing
\* of it leaves and nothing invented looks accepted.
SafeResult(r) ==
  /\ r.ran
  /\ ParseTableSuccess(r) \/ (~r.approvable /\ ~r.exportable)
  /\ ~Unreviewed(r) /\ ~MissedIncident(r)
=============================================================================
