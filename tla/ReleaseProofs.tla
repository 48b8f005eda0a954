---------------------------- MODULE ReleaseProofs ----------------------------
(***************************************************************************)
(* What holds of a release however many commits, runs and publishers there *)
(* are: its inputs are written once and in order, and what is tagged was   *)
(* measured and safe.  First, what the gates on counts say about sheets,   *)
(* for runs of any size, and why the publisher's equations never refuse a  *)
(* run that passed them.                                                   *)
(***************************************************************************)
EXTENDS Release, FiniteSetTheorems, TLAPS

-----------------------------------------------------------------------------
(* Evaluation: from counts to sheets. *)

\* Cardinalities of disjoint parts add up.
LEMMA DisjointCardinality ==
  ASSUME NEW A, NEW B, IsFiniteSet(A), IsFiniteSet(B), A \cap B = {}
  PROVE  /\ IsFiniteSet(A \union B)
         /\ Cardinality(A \union B) = Cardinality(A) + Cardinality(B)
<1>1. Cardinality(A) \in Nat /\ Cardinality(B) \in Nat
  BY FS_CardinalityType
<1>2. Cardinality(A \cap B) = 0
  BY FS_EmptySet
<1>3. /\ IsFiniteSet(A \union B)
      /\ Cardinality(A \union B) = Cardinality(A) + Cardinality(B) - Cardinality(A \cap B)
  BY FS_Union
<1> QED BY <1>1, <1>2, <1>3

\* The counts of a bucket are natural numbers, none above the sheets it has.
LEMMA BucketCounts ==
  ASSUME NEW R, NEW S, IsFiniteSet(S)
  PROVE  \A k \in CountKeys : Bucket(R, S)[k] \in 0 .. Bucket(R, S).n_ran
<1>0. Cardinality(S) \in Nat
  BY FS_CardinalityType
<1> HIDE DEF CountKeys
<1>1. \A T \in SUBSET S : Cardinality(T) \in 0 .. Cardinality(S)
  <2> SUFFICES ASSUME NEW T \in SUBSET S PROVE Cardinality(T) \in 0 .. Cardinality(S)
    OBVIOUS
  <2>1. IsFiniteSet(T) /\ Cardinality(T) <= Cardinality(S)
    BY FS_Subset
  <2>2. Cardinality(T) \in Nat
    BY <2>1, FS_CardinalityType
  <2> QED BY <1>0, <2>1, <2>2
<1>2. /\ {s \in S : FalseIncident(R[s])} \in SUBSET S
      /\ {s \in S : MissedIncident(R[s])} \in SUBSET S
      /\ {s \in S : UnknownDisposition(R[s])} \in SUBSET S
      /\ {s \in S : StructuralFailure(R[s])} \in SUBSET S
      /\ {s \in S : Unreviewed(R[s])} \in SUBSET S
      /\ {s \in S : SignalComplete(R[s])} \in SUBSET S
      /\ {s \in S : R[s].approvable} \in SUBSET S
      /\ {s \in S : R[s].exportable} \in SUBSET S
      /\ {s \in S : Mismatch(R[s])} \in SUBSET S
      /\ {s \in S : BlockedMismatch(R[s])} \in SUBSET S
      /\ {s \in S : UnsafeApprovable(R[s])} \in SUBSET S
      /\ {s \in S : UnsafeExportable(R[s])} \in SUBSET S
  OBVIOUS
<1> QED BY <1>0, <1>1, <1>2 DEF Bucket, CountKeys

\* The equations hold of any sheets whose signals are all complete, at least one.
LEMMA BucketCoherent ==
  ASSUME NEW R, NEW S, IsFiniteSet(S), S # {},
         \A s \in S : R[s] \in Result /\ SignalComplete(R[s])
  PROVE  CoherentMetrics(Bucket(R, S))
<1> DEFINE App == {s \in S : R[s].approvable}
           Exp == {s \in S : R[s].exportable}
           False == {s \in S : FalseIncident(R[s])}
           Missed == {s \in S : MissedIncident(R[s])}
           Unknown == {s \in S : UnknownDisposition(R[s])}
           Failed == {s \in S : StructuralFailure(R[s])}
           Quiet == {s \in S : Unreviewed(R[s])}
           Wrong == {s \in S : Mismatch(R[s])}
           Right == {s \in S : ParseTableSuccess(R[s])}
           Stopped == {s \in S : BlockedMismatch(R[s])}
           UnsafeA == {s \in S : UnsafeApprovable(R[s])}
           UnsafeE == {s \in S : UnsafeExportable(R[s])}
           Complete == {s \in S : SignalComplete(R[s])}
           N(T) == Cardinality(T)
<1>1. \A T \in SUBSET S : IsFiniteSet(T) /\ N(T) \in Nat
  BY FS_Subset, FS_CardinalityType
<1>2. \A T \in SUBSET S : \A U \in SUBSET T : N(U) <= N(T)
  BY <1>1, FS_Subset
<1>3. \A T, U \in SUBSET S : T \cap U = {} => N(T \union U) = N(T) + N(U)
  BY <1>1, DisjointCardinality
<1>4. \A T, U \in SUBSET S : N(T \union U) = N(T) + N(U) - N(T \cap U)
  BY <1>1, FS_Union
<1>5. N(S) # 0
  BY FS_EmptySet
<1> HIDE DEF N
<1>6. N(Complete) = N(S)
  <2>1. Complete = S
    OBVIOUS
  <2> QED BY <2>1
<1>7. /\ Stopped \subseteq Wrong /\ Missed \subseteq Failed /\ Quiet \subseteq False
      /\ False \subseteq Wrong /\ Missed \subseteq Wrong /\ Unknown \subseteq Wrong
      /\ Failed \subseteq Wrong /\ UnsafeA \subseteq App /\ UnsafeE \subseteq Exp
  BY DEF FalseIncident, MissedIncident, UnknownDisposition, StructuralFailure, Unreviewed,
         Mismatch, ParseTableSuccess, BlockedMismatch, UnsafeApprovable, UnsafeExportable,
         Result, SignalComplete, Dispositions
<1>8. N(Failed) - N(Missed) <= N(Unknown)
  <2>1. Failed \subseteq Missed \union Unknown
    BY DEF MissedIncident, UnknownDisposition, StructuralFailure, Result, SignalComplete,
           Dispositions
  <2>2. Missed \cap Unknown = {}
    BY DEF MissedIncident, UnknownDisposition
  <2>3. N(Failed) <= N(Missed \union Unknown)
    BY <1>2, <2>1
  <2> QED BY <1>1, <1>3, <2>2, <2>3
<1>9. N(Missed) + N(Unknown) + N(False) <= N(S)
  <2>1. /\ Missed \cap Unknown = {}
        /\ (Missed \union Unknown) \cap False = {}
    BY DEF MissedIncident, UnknownDisposition, FalseIncident
  <2>2. N(Missed \union Unknown) = N(Missed) + N(Unknown)
    BY <1>3, <2>1
  <2>3. N((Missed \union Unknown) \union False) = N(Missed \union Unknown) + N(False)
    BY <1>3, <2>1
  <2>4. N((Missed \union Unknown) \union False) <= N(S)
    BY <1>2
  <2> QED BY <2>2, <2>3, <2>4
<1>10. LET overlap == N(Stopped) + N(UnsafeA) + N(UnsafeE) - N(Wrong)
       IN  0 <= overlap /\ overlap <= N(UnsafeA) /\ overlap <= N(UnsafeE)
  <2>1. /\ Wrong = Stopped \union (UnsafeA \union UnsafeE)
        /\ Stopped \cap (UnsafeA \union UnsafeE) = {}
    BY DEF BlockedMismatch, UnsafeApprovable, UnsafeExportable, Result
  <2>2. N(Wrong) = N(Stopped) + N(UnsafeA \union UnsafeE)
    BY <1>3, <2>1
  <2>3. N(UnsafeA \union UnsafeE) = N(UnsafeA) + N(UnsafeE) - N(UnsafeA \cap UnsafeE)
    BY <1>4
  <2>4. /\ N(UnsafeA \cap UnsafeE) <= N(UnsafeA)
        /\ N(UnsafeA \cap UnsafeE) <= N(UnsafeE)
        /\ N(UnsafeA \cap UnsafeE) \in Nat
    BY <1>1, <1>2
  <2> QED BY <1>1, <2>2, <2>3, <2>4
<1>11. N(Right) = N(S) - N(Wrong) /\ N(Wrong) <= N(S)
  <2>1. S = Right \union Wrong /\ Right \cap Wrong = {}
    BY DEF Mismatch
  <2>2. N(S) = N(Right) + N(Wrong)
    BY <1>3, <2>1
  <2> QED BY <1>1, <2>2
<1>12. /\ N(App) - N(UnsafeA) \in 0 .. N(S) - N(Wrong)
       /\ N(Exp) - N(UnsafeE) \in 0 .. N(S) - N(Wrong)
  <2> DEFINE SafeA == {s \in S : R[s].approvable /\ ~Mismatch(R[s])}
             SafeE == {s \in S : R[s].exportable /\ ~Mismatch(R[s])}
  <2>1. /\ App = SafeA \union UnsafeA /\ SafeA \cap UnsafeA = {} /\ SafeA \subseteq Right
        /\ Exp = SafeE \union UnsafeE /\ SafeE \cap UnsafeE = {} /\ SafeE \subseteq Right
    BY DEF UnsafeApprovable, UnsafeExportable, Mismatch, Result
  <2>2. /\ N(App) = N(SafeA) + N(UnsafeA)
        /\ N(Exp) = N(SafeE) + N(UnsafeE)
    BY <1>3, <2>1
  <2>3. N(SafeA) <= N(Right) /\ N(SafeE) <= N(Right)
    BY <1>2, <2>1
  <2> HIDE DEF SafeA, SafeE
  <2>4. SafeA \in SUBSET S /\ SafeE \in SUBSET S
    BY DEF SafeA, SafeE
  <2> QED BY <1>1, <1>11, <2>2, <2>3, <2>4
<1>13. \A k \in CountKeys : Bucket(R, S)[k] <= Bucket(R, S).n_ran
  BY BucketCounts
<1>14. /\ N(Stopped) <= N(Wrong) /\ N(Missed) <= N(Failed) /\ N(Quiet) <= N(False)
       /\ N(False) <= N(Wrong) /\ N(Missed) <= N(Wrong) /\ N(Unknown) <= N(Wrong)
       /\ N(Failed) <= N(Wrong)
  BY <1>2, <1>7
<1>15. Bucket(R, S) =
         [n_ran |-> N(S), parse_rate |-> Rate(N(Right), N(S)),
          false_incident |-> N(False), missed_incident |-> N(Missed),
          unknown |-> N(Unknown), structural |-> N(Failed), unsafe_clean |-> N(Missed),
          unreviewed |-> N(Quiet), complete |-> N(Complete), approvable |-> N(App),
          exportable |-> N(Exp), mismatch |-> N(Wrong), blocked |-> N(Stopped),
          unsafe_approvable |-> N(UnsafeA), unsafe_exportable |-> N(UnsafeE),
          safe_recall |-> Rate(N(Stopped), N(Wrong))]
  BY DEF Bucket, N
<1>16. N(S) \in Nat /\ N(S) > 0
  BY <1>1, <1>5
<1> HIDE DEF False, Missed, Unknown, Failed, Quiet, Wrong, Right, Stopped, UnsafeA,
             UnsafeE, Complete, App, Exp
<1> QED BY <1>6, <1>8, <1>9, <1>10, <1>11, <1>12, <1>13, <1>14, <1>15, <1>16
        DEF CoherentMetrics

\* Passed gates mean that every sheet of the run ran with complete signals.
LEMMA GatedRunComplete ==
  ASSUME NEW Measured, IsFiniteSet(Measured), NEW R \in [Measured -> Result],
         NEW difficulty, NEW template,
         SafetyGates(Aggregate(R, difficulty, template))
  PROVE  /\ Ran(R) = Measured /\ Measured # {}
         /\ \A s \in Measured : SignalComplete(R[s])
<1>1. /\ Cardinality(Measured) > 0
      /\ Cardinality(Ran(R)) = Cardinality(Measured)
      /\ Cardinality({s \in Ran(R) : SignalComplete(R[s])}) = Cardinality(Ran(R))
  <2>1. DOMAIN R = Measured
    OBVIOUS
  <2>2. /\ Aggregate(R, difficulty, template).n_sheets = Cardinality(Measured)
        /\ Aggregate(R, difficulty, template).n_sheets_ran = Cardinality(Ran(R))
        /\ Aggregate(R, difficulty, template).reader = Bucket(R, Ran(R))
    BY <2>1 DEF Aggregate
  <2>3. Bucket(R, Ran(R)).complete = Cardinality({s \in Ran(R) : SignalComplete(R[s])})
    BY DEF Bucket
  <2> QED BY <2>2, <2>3 DEF SafetyGates
<1>2. Ran(R) \in SUBSET Measured
  BY DEF Ran
<1>3. Ran(R) = Measured
  BY <1>1, <1>2, FS_Subset
<1>4. {s \in Measured : SignalComplete(R[s])} = Measured
  <2>1. {s \in Measured : SignalComplete(R[s])} \in SUBSET Measured
    OBVIOUS
  <2>2. Cardinality({s \in Measured : SignalComplete(R[s])}) = Cardinality(Measured)
    BY <1>1, <1>3
  <2> QED BY <2>1, <2>2, FS_Subset
<1>5. Measured # {}
  BY <1>1, FS_EmptySet
<1> QED BY <1>3, <1>4, <1>5

\* Gates on sums speak of every sheet: if they pass, no sheet of the run was read
\* wrongly and left approvable or exportable, and no invention was left unflagged.
\* evals/eval_extraction_synthetic.py:280-325 over 207-272.
THEOREM GatesMeanSafeSheets ==
  ASSUME NEW Measured, IsFiniteSet(Measured), NEW R \in [Measured -> Result],
         NEW difficulty, NEW template,
         SafetyGates(Aggregate(R, difficulty, template))
  PROVE  \A s \in Measured : SafeResult(R[s])
<1>1. Ran(R) = Measured
  BY GatedRunComplete
<1>2. /\ Cardinality({s \in Measured : Unreviewed(R[s])}) = 0
      /\ Cardinality({s \in Measured : MissedIncident(R[s])}) = 0
      /\ Cardinality({s \in Measured : UnsafeApprovable(R[s])}) = 0
      /\ Cardinality({s \in Measured : UnsafeExportable(R[s])}) = 0
  BY <1>1 DEF SafetyGates, Aggregate, Bucket
<1>3. \A T \in SUBSET Measured : Cardinality(T) = 0 => T = {}
  BY FS_Subset, FS_EmptySet
<1>4. /\ {s \in Measured : Unreviewed(R[s])} = {}
      /\ {s \in Measured : MissedIncident(R[s])} = {}
      /\ {s \in Measured : UnsafeApprovable(R[s])} = {}
      /\ {s \in Measured : UnsafeExportable(R[s])} = {}
  BY <1>2, <1>3
<1> SUFFICES ASSUME NEW s \in Measured PROVE SafeResult(R[s])
  OBVIOUS
<1>5. R[s].ran
  BY <1>1 DEF Ran
<1>6. ~Unreviewed(R[s]) /\ ~MissedIncident(R[s])
  BY <1>4
<1>7. ~UnsafeApprovable(R[s]) /\ ~UnsafeExportable(R[s])
  BY <1>4
<1> QED BY <1>5, <1>6, <1>7 DEF SafeResult, UnsafeApprovable, UnsafeExportable, Mismatch

\* A run over a corpus that has every label, once it passed the evaluator's gates,
\* satisfies every equation of the publisher: it is never refused for its counts.
\* scripts/publish_eval_evidence.py:240-330 of what
\* evals/eval_extraction_synthetic.py:350-440 adds up.
THEOREM GatedIsCoherent ==
  ASSUME NEW Measured, IsFiniteSet(Measured), NEW R \in [Measured -> Result],
         NEW difficulty \in [Measured -> DifficultyKeys],
         NEW template \in [Measured -> TemplateKeys],
         \A l \in DifficultyKeys : \E s \in Measured : difficulty[s] = l,
         \A l \in TemplateKeys : \E s \in Measured : template[s] = l,
         SafetyGates(Aggregate(R, difficulty, template))
  PROVE  Coherent(Aggregate(R, difficulty, template))
<1> DEFINE D(l) == {s \in Measured : difficulty[s] = l}
           T(l) == {s \in Measured : template[s] = l}
<1>1. /\ Ran(R) = Measured /\ Measured # {}
      /\ \A s \in Measured : SignalComplete(R[s])
  BY GatedRunComplete
<1>2. \A S \in SUBSET Measured : IsFiniteSet(S)
  BY FS_Subset
<1>3. \A S \in SUBSET Measured : S # {} => CoherentMetrics(Bucket(R, S))
  BY <1>1, <1>2, BucketCoherent
<1>4. ByLabel(R, difficulty) = [l \in DifficultyKeys |-> Bucket(R, D(l))]
  <2>1. {difficulty[s] : s \in Measured} = DifficultyKeys
    OBVIOUS
  <2> QED BY <1>1, <2>1 DEF ByLabel
<1>5. ByLabel(R, template) = [l \in TemplateKeys |-> Bucket(R, T(l))]
  <2>1. {template[s] : s \in Measured} = TemplateKeys
    OBVIOUS
  <2> QED BY <1>1, <2>1 DEF ByLabel
<1>6. \A l \in DifficultyKeys : D(l) # {}
  OBVIOUS
<1>7. \A l \in TemplateKeys : T(l) # {}
  OBVIOUS
<1>8. \A A, B \in SUBSET Measured : \A k \in CountKeys : A \cap B = {} =>
        Bucket(R, A)[k] + Bucket(R, B)[k] = Bucket(R, A \union B)[k]
  <2> SUFFICES ASSUME NEW A \in SUBSET Measured, NEW B \in SUBSET Measured, A \cap B = {}
               PROVE  \A k \in CountKeys :
                        Bucket(R, A)[k] + Bucket(R, B)[k] = Bucket(R, A \union B)[k]
    OBVIOUS
  <2>1. \A X, Y \in SUBSET Measured : X \cap Y = {} =>
          Cardinality(X \union Y) = Cardinality(X) + Cardinality(Y)
    BY <1>2, DisjointCardinality
  <2>2. \A Q \in SUBSET (A \union B) :
          Cardinality(Q) = Cardinality(Q \cap A) + Cardinality(Q \cap B)
    <3> SUFFICES ASSUME NEW Q \in SUBSET (A \union B)
                 PROVE  Cardinality(Q) = Cardinality(Q \cap A) + Cardinality(Q \cap B)
      OBVIOUS
    <3>1. Q = (Q \cap A) \union (Q \cap B) /\ (Q \cap A) \cap (Q \cap B) = {}
      OBVIOUS
    <3>2. Q \cap A \in SUBSET Measured /\ Q \cap B \in SUBSET Measured
      OBVIOUS
    <3> QED BY <2>1, <3>1, <3>2
  <2> DEFINE Split(Q, QA, QB) == Cardinality(QA) + Cardinality(QB) = Cardinality(Q)
  <2>3. \A Q, QA, QB : Q \in SUBSET (A \union B) /\ QA = Q \cap A /\ QB = Q \cap B
                        => Split(Q, QA, QB)
    BY <2>2
  <2> HIDE DEF Split
  <2>4. /\ Split({s \in A \union B : FalseIncident(R[s])}, {s \in A : FalseIncident(R[s])}, {s \in B : FalseIncident(R[s])})
        /\ Split({s \in A \union B : MissedIncident(R[s])}, {s \in A : MissedIncident(R[s])}, {s \in B : MissedIncident(R[s])})
        /\ Split({s \in A \union B : UnknownDisposition(R[s])}, {s \in A : UnknownDisposition(R[s])}, {s \in B : UnknownDisposition(R[s])})
        /\ Split({s \in A \union B : StructuralFailure(R[s])}, {s \in A : StructuralFailure(R[s])}, {s \in B : StructuralFailure(R[s])})
        /\ Split({s \in A \union B : Unreviewed(R[s])}, {s \in A : Unreviewed(R[s])}, {s \in B : Unreviewed(R[s])})
        /\ Split({s \in A \union B : SignalComplete(R[s])}, {s \in A : SignalComplete(R[s])}, {s \in B : SignalComplete(R[s])})
        /\ Split({s \in A \union B : Mismatch(R[s])}, {s \in A : Mismatch(R[s])}, {s \in B : Mismatch(R[s])})
        /\ Split({s \in A \union B : BlockedMismatch(R[s])}, {s \in A : BlockedMismatch(R[s])}, {s \in B : BlockedMismatch(R[s])})
        /\ Split({s \in A \union B : UnsafeApprovable(R[s])}, {s \in A : UnsafeApprovable(R[s])}, {s \in B : UnsafeApprovable(R[s])})
        /\ Split({s \in A \union B : UnsafeExportable(R[s])}, {s \in A : UnsafeExportable(R[s])}, {s \in B : UnsafeExportable(R[s])})
        /\ Split({s \in A \union B : R[s].approvable}, {s \in A : R[s].approvable}, {s \in B : R[s].approvable})
        /\ Split({s \in A \union B : R[s].exportable}, {s \in A : R[s].exportable}, {s \in B : R[s].exportable})
    BY <2>3
  <2>5. Split(A \union B, A, B)
    BY <2>3
  <2>6. \A X : /\ Bucket(R, X).n_ran = Cardinality(X)
              /\ Bucket(R, X).false_incident = Cardinality({s \in X : FalseIncident(R[s])})
              /\ Bucket(R, X).missed_incident = Cardinality({s \in X : MissedIncident(R[s])})
              /\ Bucket(R, X).unknown = Cardinality({s \in X : UnknownDisposition(R[s])})
              /\ Bucket(R, X).structural = Cardinality({s \in X : StructuralFailure(R[s])})
              /\ Bucket(R, X).unsafe_clean = Cardinality({s \in X : MissedIncident(R[s])})
              /\ Bucket(R, X).unreviewed = Cardinality({s \in X : Unreviewed(R[s])})
              /\ Bucket(R, X).complete = Cardinality({s \in X : SignalComplete(R[s])})
              /\ Bucket(R, X).approvable = Cardinality({s \in X : R[s].approvable})
              /\ Bucket(R, X).exportable = Cardinality({s \in X : R[s].exportable})
              /\ Bucket(R, X).mismatch = Cardinality({s \in X : Mismatch(R[s])})
              /\ Bucket(R, X).blocked = Cardinality({s \in X : BlockedMismatch(R[s])})
              /\ Bucket(R, X).unsafe_approvable = Cardinality({s \in X : UnsafeApprovable(R[s])})
              /\ Bucket(R, X).unsafe_exportable = Cardinality({s \in X : UnsafeExportable(R[s])})
    BY DEF Bucket
  <2>7. Bucket(R, A).n_ran + Bucket(R, B).n_ran = Bucket(R, A \union B).n_ran
    BY <2>4, <2>5, <2>6 DEF Split
  <2>8. Bucket(R, A).false_incident + Bucket(R, B).false_incident = Bucket(R, A \union B).false_incident
    BY <2>4, <2>5, <2>6 DEF Split
  <2>9. Bucket(R, A).missed_incident + Bucket(R, B).missed_incident = Bucket(R, A \union B).missed_incident
    BY <2>4, <2>5, <2>6 DEF Split
  <2>10. Bucket(R, A).unknown + Bucket(R, B).unknown = Bucket(R, A \union B).unknown
    BY <2>4, <2>5, <2>6 DEF Split
  <2>11. Bucket(R, A).structural + Bucket(R, B).structural = Bucket(R, A \union B).structural
    BY <2>4, <2>5, <2>6 DEF Split
  <2>12. Bucket(R, A).unsafe_clean + Bucket(R, B).unsafe_clean = Bucket(R, A \union B).unsafe_clean
    BY <2>4, <2>5, <2>6 DEF Split
  <2>13. Bucket(R, A).unreviewed + Bucket(R, B).unreviewed = Bucket(R, A \union B).unreviewed
    BY <2>4, <2>5, <2>6 DEF Split
  <2>14. Bucket(R, A).complete + Bucket(R, B).complete = Bucket(R, A \union B).complete
    BY <2>4, <2>5, <2>6 DEF Split
  <2>15. Bucket(R, A).approvable + Bucket(R, B).approvable = Bucket(R, A \union B).approvable
    BY <2>4, <2>5, <2>6 DEF Split
  <2>16. Bucket(R, A).exportable + Bucket(R, B).exportable = Bucket(R, A \union B).exportable
    BY <2>4, <2>5, <2>6 DEF Split
  <2>17. Bucket(R, A).mismatch + Bucket(R, B).mismatch = Bucket(R, A \union B).mismatch
    BY <2>4, <2>5, <2>6 DEF Split
  <2>18. Bucket(R, A).blocked + Bucket(R, B).blocked = Bucket(R, A \union B).blocked
    BY <2>4, <2>5, <2>6 DEF Split
  <2>19. Bucket(R, A).unsafe_approvable + Bucket(R, B).unsafe_approvable = Bucket(R, A \union B).unsafe_approvable
    BY <2>4, <2>5, <2>6 DEF Split
  <2>20. Bucket(R, A).unsafe_exportable + Bucket(R, B).unsafe_exportable = Bucket(R, A \union B).unsafe_exportable
    BY <2>4, <2>5, <2>6 DEF Split
  <2> QED BY <2>7, <2>8, <2>9, <2>10, <2>11, <2>12, <2>13, <2>14, <2>15, <2>16, <2>17, <2>18, <2>19, <2>20 DEF CountKeys
<1>9. CoherentDifficulties(ByLabel(R, difficulty), Bucket(R, Measured))
  <2>1. /\ D("clean") \cap D("photo") = {}
        /\ (D("clean") \union D("photo")) \cap D("scan") = {}
        /\ (D("clean") \union D("photo")) \union D("scan") = Measured
    BY DEF DifficultyKeys
  <2>2. \A k \in CountKeys :
          /\ Bucket(R, D("clean"))[k] + Bucket(R, D("photo"))[k]
               = Bucket(R, D("clean") \union D("photo"))[k]
          /\ Bucket(R, D("clean") \union D("photo"))[k] + Bucket(R, D("scan"))[k]
               = Bucket(R, Measured)[k]
    BY <1>8, <2>1
  <2>3. \A l \in DifficultyKeys : CoherentMetrics(Bucket(R, D(l)))
    BY <1>3, <1>6
  <2> HIDE DEF D
  <2>4. /\ DOMAIN ByLabel(R, difficulty) = DifficultyKeys
        /\ \A l \in DifficultyKeys : ByLabel(R, difficulty)[l] = Bucket(R, D(l))
    BY <1>4
  <2>5. \A k \in CountKeys :
          Bucket(R, D("clean"))[k] + Bucket(R, D("photo"))[k] + Bucket(R, D("scan"))[k]
            = Bucket(R, Measured)[k]
    BY <2>2
  <2>6. "clean" \in DifficultyKeys /\ "photo" \in DifficultyKeys /\ "scan" \in DifficultyKeys
    BY DEF DifficultyKeys
  <2> QED BY <2>3, <2>4, <2>5, <2>6 DEF CoherentDifficulties
<1>10. CoherentTemplates(ByLabel(R, template), Bucket(R, Measured))
  <2>1. /\ T("controle_A") \cap T("controle_B") = {}
        /\ T("controle_A") \union T("controle_B") = Measured
    BY DEF TemplateKeys
  <2>2. \A k \in CountKeys :
          Bucket(R, T("controle_A"))[k] + Bucket(R, T("controle_B"))[k]
            = Bucket(R, Measured)[k]
    BY <1>8, <2>1
  <2>3. \A l \in TemplateKeys : CoherentMetrics(Bucket(R, T(l)))
    BY <1>3, <1>7
  <2> QED BY <1>5, <2>2, <2>3 DEF CoherentTemplates, TemplateKeys
<1> QED BY <1>1, <1>3, <1>9, <1>10 DEF Coherent, Aggregate

-----------------------------------------------------------------------------
(* Release: from commits to tags. *)

Runs == {[results |-> R, totals |-> Aggregate(R, Difficulty, Template)] :
           R \in [Sheets -> Outcomes]}

\* The types, that totals are those of results, and that who publishes has a source.
TypeInv ==
  /\ TypeOK
  /\ \A p \in Publishers : publisher[p].pc # "idle" => publisher[p].source # None
  /\ runs \in Seq(Runs)

LEMMA TreeType ==
  ASSUME NEW gt \in GroundTruths, NEW img \in Rasters,
         NEW commit \in 1 .. MaxCommits, NEW lock \in Locks
  PROVE  Tree(gt, img, commit, lock) \in Trees
BY DEF Tree, Trees, Inventories, Manifests, Manifest, LogicalProjection

LEMMA InitType == Init => TypeInv
<1> SUFFICES ASSUME Init PROVE TypeInv
  OBVIOUS
<1>1. work \in Snapshots
  BY ReleaseAssumption DEF Init, Snapshots
<1>2. history \in Seq(Snapshots) /\ Len(history) = 1
  BY <1>1 DEF Init
<1>3. runs \in Seq(Runs) /\ Len(runs) = 0
  BY DEF Init
<1> QED
  BY <1>1, <1>2, <1>3, ReleaseAssumption DEF Init, TypeInv, TypeOK, Tip, Idle

LEMMA CommittedType == TypeInv => Committed \in Snapshots
BY DEF TypeInv, TypeOK, Committed, Tip

\* What a publisher does to itself and to the worktree has its type.
LEMMA GotoType ==
  ASSUME TypeInv, NEW p \in Publishers, publisher[p].pc # "idle",
         NEW step \in {"idle", "persist", "create", "write", "catalog", "replace", "rename"},
         Goto(p, step)
  PROVE  /\ publisher' \in [Publishers ->
              [pc : {"idle", "persist", "create", "write", "catalog", "replace", "rename"},
               source : Summaries \union {None}, original : Entries \union {None}]]
         /\ \A q \in Publishers : publisher'[q].pc # "idle" => publisher'[q].source # None
BY DEF TypeInv, TypeOK, Goto, Idle

LEMMA NextType == TypeInv /\ [Next]_vars => TypeInv'
<1> SUFFICES ASSUME TypeInv, [Next]_vars PROVE TypeInv'
  OBVIOUS
<1> USE ReleaseAssumption
<1>c. Committed \in Snapshots
  BY CommittedType
<1>1. CASE Propose
  <2>1. candidate' \in [freeze : GroundTruths, commit : 1 .. MaxCommits, lock : Locks]
    BY <1>1, <1>c DEF Propose, TypeInv, TypeOK, Snapshots, GroundTruths
  <2> QED BY <1>1, <2>1 DEF Propose, Dispatch, TypeInv, TypeOK, Tip
<1>2. CASE TakeFreeze
  <2>1. work' \in Snapshots
    BY <1>2 DEF TakeFreeze, TypeInv, TypeOK, Snapshots
  <2> QED BY <1>2, <2>1 DEF TakeFreeze, TypeInv, TypeOK, Tip
<1>3. CASE Build
  <2>1. PICK gt \in Generates[Committed.code], img \in Rasters :
          checkpoint' = [tree |-> Tree(gt, img, Tip, Committed.lock),
                         pin |-> Tree(gt, img, Tip, Committed.lock).inventory]
    BY <1>3 DEF Build
  <2>2. gt \in GroundTruths /\ Committed.lock \in Locks /\ Tip \in 1 .. MaxCommits
    BY <1>c DEF Snapshots, GroundTruths, TypeInv, TypeOK
  <2>3. Tree(gt, img, Tip, Committed.lock) \in Trees
    BY <2>2, TreeType
  <2>4. checkpoint' \in [tree : Trees, pin : Inventories]
    BY <2>1, <2>3 DEF Trees
  <2> QED BY <1>3, <2>4 DEF Build, Dispatch, TypeInv, TypeOK, Tip
<1>4. CASE TakePin
  <2>1. work' \in Snapshots
    BY <1>4 DEF TakePin, TypeInv, TypeOK, Snapshots
  <2> QED BY <1>4, <2>1 DEF TakePin, TypeInv, TypeOK, Tip
<1>5. CASE TakeCorpus
  <2>1. work' \in Snapshots
    BY <1>5 DEF TakeCorpus, TypeInv, TypeOK, Snapshots
  <2> QED BY <1>5, <2>1 DEF TakeCorpus, TypeInv, TypeOK, Tip
<1>6. CASE EditSource
  <2>1. work' \in Snapshots
    BY <1>6 DEF EditSource, TypeInv, TypeOK, Snapshots
  <2> QED BY <1>6, <2>1 DEF EditSource, TypeInv, TypeOK, Tip
<1>7. CASE RetouchCorpus
  <2>0. work \in Snapshots /\ work.corpus \in Trees
    BY <1>7 DEF RetouchCorpus, TypeInv, TypeOK, Snapshots
  <2>1. PICK img \in Rasters :
          \/ work' = [work EXCEPT !.corpus.members.img = img]
          \/ work' = [work EXCEPT !.corpus = Tree(work.corpus.members.gt, img,
                                                  work.corpus.members.meta, work.lock)]
    BY <1>7 DEF RetouchCorpus
  <2>2. Tree(work.corpus.members.gt, img, work.corpus.members.meta, work.lock) \in Trees
    BY <2>0, TreeType DEF Snapshots, Trees, Inventories
  <2>3. [work.corpus EXCEPT !.members.img = img] \in Trees
    BY <2>0 DEF Trees, Inventories
  <2>4. \A tree \in Trees : [work EXCEPT !.corpus = tree] \in Snapshots
    BY <2>0 DEF Snapshots
  <2>5. [work EXCEPT !.corpus.members.img = img]
          = [work EXCEPT !.corpus = [work.corpus EXCEPT !.members.img = img]]
    BY <2>0 DEF Snapshots
  <2>6. work' \in Snapshots
    BY <2>1, <2>2, <2>3, <2>4, <2>5
  <2> QED BY <1>7, <2>6 DEF RetouchCorpus, TypeInv, TypeOK, Tip
<1>8. CASE WriteNarrative
  <2>1. work' \in Snapshots
    BY <1>8 DEF WriteNarrative, TypeInv, TypeOK, Snapshots, Summaries
  <2> QED BY <1>8, <2>1 DEF WriteNarrative, TypeInv, TypeOK, Tip
<1>9. CASE Restore
  BY <1>9, <1>c DEF Restore, TypeInv, TypeOK, Tip
<1>10. CASE Commit
  <2>1. PICK paths : history' = Append(history,
            [p \in Paths |-> IF p \in paths THEN work[p] ELSE Committed[p]])
    BY <1>10 DEF Commit
  <2>2. [p \in Paths |-> IF p \in paths THEN work[p] ELSE Committed[p]] \in Snapshots
    BY <1>c DEF Snapshots, Paths, TypeInv, TypeOK
  <2>3. history' \in Seq(Snapshots) /\ Len(history') = Len(history) + 1
    BY <2>1, <2>2 DEF TypeInv, TypeOK
  <2>4. Len(history') \in 1 .. MaxCommits /\ tagged' \subseteq 1 .. Len(history')
    BY <1>10, <2>3 DEF Commit, TypeInv, TypeOK, Tip
  <2> QED BY <1>10, <2>3, <2>4 DEF Commit, TypeInv, TypeOK, Tip
<1>11. CASE Evaluate
  <2>1. PICK results \in [Sheets -> Outcomes] :
          runs' = Append(runs, [results |-> results,
                                totals |-> Aggregate(results, Difficulty, Template)])
    BY <1>11 DEF Evaluate
  <2>2. Committed.corpus \in Trees /\ Committed.lock \in Locks
    BY <1>11, <1>c DEF Evaluate, LoadVerified, LoadBuilt, Snapshots
  <2>3. /\ Len(runs) + 1 \in 1 .. MaxDispatches /\ Len(runs) + 1 \in 0 .. dispatches'
        /\ dispatches' \in 0 .. MaxDispatches
    BY <1>11 DEF Evaluate, Dispatch, TypeInv, TypeOK
  <2>4. summary' \in Summaries
    BY <1>11, <2>2, <2>3 DEF Evaluate, Summaries, Trees, Inventories, TypeInv, TypeOK
  <2>5. runs' \in Seq(Runs) /\ Len(runs') = Len(runs) + 1
    <3>1. [results |-> results, totals |-> Aggregate(results, Difficulty, Template)] \in Runs
      BY DEF Runs
    <3> QED BY <2>1, <3>1 DEF TypeInv
  <2>6. \A r \in 1 .. Len(runs') : runs'[r].results \in [Sheets -> Outcomes]
    <3>1. \A e \in Runs : e.results \in [Sheets -> Outcomes]
      BY DEF Runs
    <3> QED BY <2>5, <3>1
  <2> QED BY <1>11, <2>3, <2>4, <2>5, <2>6 DEF Evaluate, TypeInv, TypeOK, Tip
<1>12. CASE Tag
  <2>1. Len(history) \in 1 .. MaxCommits /\ tagged \subseteq 1 .. Len(history)
    BY DEF TypeInv, TypeOK, Tip
  <2>2. Len(history) \in 1 .. Len(history) /\ tagged' = tagged \union {Len(history)}
    BY <1>12, <2>1 DEF Tag, Tip
  <2>3. tagged' \subseteq 1 .. Len(history)
    BY <2>1, <2>2
  <2> QED BY <1>12, <2>3 DEF Tag, TypeInv, TypeOK, Tip
<1>13. ASSUME NEW p \in Publishers, Authorize(p) \/ Step(p) \/ Kill(p) PROVE TypeInv'
  <2>1. CASE Authorize(p)
    BY <2>1 DEF Authorize, Elsewhere, TypeInv, TypeOK, Tip
  <2>2. CASE Persist(p)
    BY <2>2, GotoType DEF Persist, Verified, Elsewhere, TypeInv, TypeOK, Tip
  <2>3. CASE Create(p)
    <3>1. work' \in Snapshots
      BY <2>3 DEF Create, TypeInv, TypeOK, Snapshots
    <3> QED BY <2>3, <3>1, GotoType DEF Create, Verified, Elsewhere, TypeInv, TypeOK, Tip
  <2>4. CASE Write(p)
    <3>1. work' \in Snapshots
      BY <2>4 DEF Write, TypeInv, TypeOK, Snapshots
    <3> QED BY <2>4, <3>1, GotoType DEF Write, Elsewhere, TypeInv, TypeOK, Tip
  <2>5. CASE ReadCatalog(p)
    <3>1. /\ publisher' \in [Publishers ->
              [pc : {"idle", "persist", "create", "write", "catalog", "replace", "rename"},
               source : Summaries \union {None}, original : Entries \union {None}]]
          /\ \A q \in Publishers : publisher'[q].pc # "idle" => publisher'[q].source # None
      <4>1. CASE Goto(p, "idle")
        BY <2>5, <4>1, GotoType DEF ReadCatalog
      <4>2. CASE publisher' = [publisher EXCEPT ![p] =
                                 [@ EXCEPT !.pc = "replace", !.original = work.catalog]]
        <5>1. work.catalog \in Entries \union {None}
          BY DEF TypeInv, TypeOK, Snapshots
        <5> QED BY <2>5, <4>2, <5>1 DEF ReadCatalog, TypeInv, TypeOK
      <4> QED BY <2>5, <4>1, <4>2 DEF ReadCatalog
    <3> QED BY <2>5, <3>1 DEF ReadCatalog, Elsewhere, TypeInv, TypeOK, Tip
  <2>6. CASE ReplaceCatalog(p)
    BY <2>6, GotoType DEF ReplaceCatalog, Elsewhere, TypeInv, TypeOK, Tip
  <2>7. CASE RenameCatalog(p)
    <3>0. publisher[p].source \in Summaries
      BY <2>7 DEF RenameCatalog, TypeInv, TypeOK
    <3>1. Entry(publisher[p].source) \in Entries
      BY <3>0 DEF Entry, Entries, Summaries
    <3>2. work' \in Snapshots
      BY <2>7, <3>1 DEF RenameCatalog, TypeInv, TypeOK, Snapshots
    <3> QED BY <2>7, <3>2, GotoType DEF RenameCatalog, Elsewhere, TypeInv, TypeOK, Tip
  <2>8. CASE Kill(p)
    BY <2>8, GotoType DEF Kill, Elsewhere, TypeInv, TypeOK, Tip
  <2> QED BY <1>13, <2>1, <2>2, <2>3, <2>4, <2>5, <2>6, <2>7, <2>8 DEF Step
<1>14. CASE UNCHANGED vars
  BY <1>14 DEF vars, TypeInv, TypeOK, Tip
<1> QED BY <1>1, <1>2, <1>3, <1>4, <1>5, <1>6, <1>7, <1>8, <1>9, <1>10, <1>11, <1>12,
           <1>13, <1>14 DEF Next

\* Commits, worktree, artifacts, runs and publishers always have their types.
THEOREM TypeCorrect == Spec => []TypeOK
<1>1. TypeInv => TypeOK
  BY DEF TypeInv
<1> QED BY <1>1, InitType, NextType, PTL DEF Spec

-----------------------------------------------------------------------------
\* The inputs of a release: freeze, then pin, then corpus.

\* A pinned commit has an unpinned one before it that has its freeze; a commit with
\* corpus has one before it without, that has its freeze and its pin; and a corpus is
\* the tree its commit pins, of the truth its commit froze.
Ordered(h) ==
  /\ \A c \in 1 .. Len(h) : h[c].pin # None =>
       \E f \in 1 .. Len(h) :
         f < c /\ h[f].pin = None /\ h[f].freeze # None /\ h[f].freeze = h[c].freeze
  /\ \A c \in 1 .. Len(h) : h[c].corpus # None =>
       /\ \E p \in 1 .. Len(h) :
            /\ p < c /\ h[p].corpus = None
            /\ h[p].pin # None /\ h[p].pin = h[c].pin /\ h[p].freeze = h[c].freeze
       /\ h[c].corpus.inventory = h[c].pin
       /\ h[c].corpus.members = h[c].corpus.inventory
       /\ LogicalProjection(h[c].corpus.members.manifest) = h[c].freeze

InputsOrdered == Ordered(history)

\* What the hook lets a commit do to the inputs.
LEMMA HookOrders ==
  ASSUME TypeInv, Ordered(history), NEW paths \in SUBSET Changed, CheckStaged(paths),
         NEW next \in Snapshots,
         next = [p \in Paths |-> IF p \in paths THEN work[p] ELSE Committed[p]]
  PROVE  /\ Committed.freeze # None => next.freeze = Committed.freeze
         /\ Committed.pin # None => next.pin = Committed.pin
         /\ Committed.corpus # None => next.corpus = Committed.corpus
         /\ next.pin # None /\ Committed.pin = None =>
              Committed.freeze # None /\ next.freeze = Committed.freeze
         /\ next.corpus # None /\ Committed.corpus = None =>
              /\ Committed.pin # None /\ next.pin = Committed.pin
              /\ next.freeze = Committed.freeze
              /\ next.corpus.inventory = Committed.pin
              /\ next.corpus.members = next.corpus.inventory
              /\ LogicalProjection(next.corpus.members.manifest) = Committed.freeze
<1>1. /\ next.freeze = IF "freeze" \in paths THEN work.freeze ELSE Committed.freeze
      /\ next.pin = IF "pin" \in paths THEN work.pin ELSE Committed.pin
      /\ next.corpus = IF "corpus" \in paths THEN work.corpus ELSE Committed.corpus
  BY DEF Paths
<1>2. Committed.freeze # None => next.freeze = Committed.freeze
  BY <1>1 DEF CheckStaged, FreezeAdmitted
<1>3. Committed.pin # None => next.pin = Committed.pin
  BY <1>1 DEF CheckStaged, PinAdmitted
<1>4. ASSUME "corpus" \in paths
      PROVE  /\ Committed.freeze # None /\ Committed.pin # None
             /\ work.corpus # None
             /\ work.corpus.inventory = Committed.pin
             /\ work.corpus.members = work.corpus.inventory
             /\ LogicalProjection(work.corpus.members.manifest) = Committed.freeze
  BY <1>4 DEF CheckStaged, CorpusAdmitted, CommittedAlike, LoadVerified, LoadBuilt
<1>5. Committed.corpus # None => next.corpus = Committed.corpus
  <2> SUFFICES ASSUME Committed.corpus # None, "corpus" \in paths
               PROVE  work.corpus = Committed.corpus
    BY <1>1
  <2>1. Committed.corpus \in Trees /\ work.corpus \in Trees
    BY CommittedType, <1>4 DEF Snapshots, TypeInv, TypeOK
  <2>2. /\ Committed.corpus.inventory = Committed.pin
        /\ Committed.corpus.members = Committed.corpus.inventory
    BY DEF Ordered, Committed, Tip, TypeInv, TypeOK
  <2> QED BY <2>1, <2>2, <1>4 DEF Trees
<1>6. next.pin # None /\ Committed.pin = None =>
        Committed.freeze # None /\ next.freeze = Committed.freeze
  BY <1>1, <1>2 DEF CheckStaged, PinAdmitted, CommittedAlike
<1>7. next.corpus # None /\ Committed.corpus = None =>
        /\ Committed.pin # None /\ next.pin = Committed.pin
        /\ next.freeze = Committed.freeze
        /\ next.corpus.inventory = Committed.pin
        /\ next.corpus.members = next.corpus.inventory
        /\ LogicalProjection(next.corpus.members.manifest) = Committed.freeze
  BY <1>1, <1>2, <1>3, <1>4
<1> QED BY <1>2, <1>3, <1>5, <1>6, <1>7

LEMMA NextOrdered == TypeInv /\ InputsOrdered /\ [Next]_vars => InputsOrdered'
<1> SUFFICES ASSUME TypeInv, Ordered(history), [Next]_vars PROVE Ordered(history')
  BY DEF InputsOrdered
<1>1. CASE Commit
  <2>1. PICK paths \in SUBSET Changed :
          /\ CheckStaged(paths)
          /\ history' = Append(history,
               [p \in Paths |-> IF p \in paths THEN work[p] ELSE Committed[p]])
    BY <1>1 DEF Commit
  <2> DEFINE next == [p \in Paths |-> IF p \in paths THEN work[p] ELSE Committed[p]]
             n == Len(history)
  <2>2. next \in Snapshots
    BY CommittedType DEF Snapshots, Paths, TypeInv, TypeOK
  <2>3. /\ n \in Nat \ {0} /\ Len(history') = n + 1
        /\ history'[n + 1] = next /\ \A c \in 1 .. n : history'[c] = history[c]
    BY <2>1, <2>2 DEF TypeInv, TypeOK, Tip
  <2>4. Committed = history[n]
    BY DEF Committed, Tip
  <2> HIDE DEF next
  <2>5. /\ Committed.freeze # None => next.freeze = Committed.freeze
        /\ Committed.pin # None => next.pin = Committed.pin
        /\ Committed.corpus # None => next.corpus = Committed.corpus
        /\ next.pin # None /\ Committed.pin = None =>
             Committed.freeze # None /\ next.freeze = Committed.freeze
        /\ next.corpus # None /\ Committed.corpus = None =>
             /\ Committed.pin # None /\ next.pin = Committed.pin
             /\ next.freeze = Committed.freeze
             /\ next.corpus.inventory = Committed.pin
             /\ next.corpus.members = next.corpus.inventory
             /\ LogicalProjection(next.corpus.members.manifest) = Committed.freeze
    BY <2>1, <2>2, HookOrders DEF next
  <2>6. ASSUME next.pin # None
        PROVE  \E f \in 1 .. n : /\ history[f].pin = None /\ history[f].freeze # None
                                 /\ history[f].freeze = next.freeze
    <3>1. CASE Committed.pin = None
      BY <2>3, <2>4, <2>5, <2>6, <3>1
    <3>2. CASE Committed.pin # None
      <4>1. PICK f \in 1 .. n : /\ history[f].pin = None /\ history[f].freeze # None
                                /\ history[f].freeze = Committed.freeze
        BY <2>3, <2>4, <3>2 DEF Ordered
      <4> QED BY <2>5, <4>1
    <3> QED BY <3>1, <3>2
  <2>7. ASSUME next.corpus # None
        PROVE  /\ \E p \in 1 .. n : /\ history[p].corpus = None /\ history[p].pin # None
                                    /\ history[p].pin = next.pin
                                    /\ history[p].freeze = next.freeze
               /\ next.corpus.inventory = next.pin
               /\ next.corpus.members = next.corpus.inventory
               /\ LogicalProjection(next.corpus.members.manifest) = next.freeze
    <3>1. CASE Committed.corpus = None
      BY <2>3, <2>4, <2>5, <2>7, <3>1
    <3>2. CASE Committed.corpus # None
      <4>1. PICK p \in 1 .. n : /\ history[p].corpus = None /\ history[p].pin # None
                                /\ history[p].pin = Committed.pin
                                /\ history[p].freeze = Committed.freeze
        BY <2>3, <2>4, <3>2 DEF Ordered
      <4>2. /\ Committed.corpus.inventory = Committed.pin
            /\ Committed.corpus.members = Committed.corpus.inventory
            /\ LogicalProjection(Committed.corpus.members.manifest) = Committed.freeze
        BY <2>3, <2>4, <3>2 DEF Ordered
      <4>3. Committed.freeze # None
        <5>1. PICK f \in 1 .. n : /\ history[f].freeze # None
                                  /\ history[f].freeze = Committed.freeze
          BY <2>3, <2>4, <4>1 DEF Ordered
        <5> QED BY <5>1
      <4> QED BY <2>5, <3>2, <4>1, <4>2, <4>3
    <3> QED BY <3>1, <3>2
  <2>8. ASSUME NEW c \in 1 .. n + 1, history'[c].pin # None
        PROVE  \E f \in 1 .. n + 1 :
                 /\ f < c /\ history'[f].pin = None /\ history'[f].freeze # None
                 /\ history'[f].freeze = history'[c].freeze
    <3>1. CASE c = n + 1
      <4>1. PICK f \in 1 .. n : /\ history[f].pin = None /\ history[f].freeze # None
                                /\ history[f].freeze = next.freeze
        BY <2>3, <2>6, <2>8, <3>1
      <4> QED BY <2>3, <3>1, <4>1
    <3>2. CASE c \in 1 .. n
      <4>1. PICK f \in 1 .. n : /\ f < c /\ history[f].pin = None
                                /\ history[f].freeze # None
                                /\ history[f].freeze = history[c].freeze
        BY <2>3, <2>8, <3>2 DEF Ordered
      <4> QED BY <2>3, <3>2, <4>1
    <3> QED BY <2>3, <3>1, <3>2
  <2>9. ASSUME NEW c \in 1 .. n + 1, history'[c].corpus # None
        PROVE  /\ \E p \in 1 .. n + 1 :
                    /\ p < c /\ history'[p].corpus = None
                    /\ history'[p].pin # None /\ history'[p].pin = history'[c].pin
                    /\ history'[p].freeze = history'[c].freeze
               /\ history'[c].corpus.inventory = history'[c].pin
               /\ history'[c].corpus.members = history'[c].corpus.inventory
               /\ LogicalProjection(history'[c].corpus.members.manifest)
                    = history'[c].freeze
    <3>1. CASE c = n + 1
      <4>1. PICK p \in 1 .. n : /\ history[p].corpus = None /\ history[p].pin # None
                                /\ history[p].pin = next.pin
                                /\ history[p].freeze = next.freeze
        BY <2>3, <2>7, <2>9, <3>1
      <4> QED BY <2>3, <2>7, <2>9, <3>1, <4>1
    <3>2. CASE c \in 1 .. n
      <4>1. /\ \E p \in 1 .. n : /\ p < c /\ history[p].corpus = None
                                 /\ history[p].pin # None
                                 /\ history[p].pin = history[c].pin
                                 /\ history[p].freeze = history[c].freeze
            /\ history[c].corpus.inventory = history[c].pin
            /\ history[c].corpus.members = history[c].corpus.inventory
            /\ LogicalProjection(history[c].corpus.members.manifest) = history[c].freeze
        BY <2>3, <2>9, <3>2 DEF Ordered
      <4> QED BY <2>3, <3>2, <4>1
    <3> QED BY <2>3, <3>1, <3>2
  <2> QED BY <2>3, <2>8, <2>9 DEF Ordered
<1>2. CASE UNCHANGED history
  BY <1>2 DEF Ordered
<1>3. Commit \/ UNCHANGED history
  BY DEF Next, Propose, TakeFreeze, Build, TakePin, TakeCorpus, EditSource, RetouchCorpus,
         WriteNarrative, Restore, Evaluate, Tag, Authorize, Step, Persist, Create, Write,
         ReadCatalog, ReplaceCatalog, RenameCatalog, Kill, Elsewhere, vars
<1> QED BY <1>1, <1>2, <1>3

LEMMA InitOrdered == Init => InputsOrdered
BY DEF Init, Ordered, InputsOrdered

\* A corpus in the history has the inventory that an earlier commit pinned and the truth
\* that a still earlier one froze: what check_staged refuses leaves no other order.
THEOREM CorpusPinnedFirst == Spec => []CorpusWasPinned
<1>1. TypeInv /\ InputsOrdered => CorpusWasPinned
  <2> SUFFICES ASSUME TypeInv, Ordered(history), NEW c \in 1 .. Tip,
                      history[c].corpus # None
               PROVE  \E f, p \in 1 .. Tip :
                        /\ f < p /\ p < c
                        /\ history[f].pin = None /\ history[p].corpus = None
                        /\ history[p].freeze = history[f].freeze
                        /\ LET tree == history[c].corpus IN
                           /\ tree.inventory = history[p].pin
                           /\ tree.members = tree.inventory
                           /\ LogicalProjection(tree.members.manifest) = history[f].freeze
    BY DEF CorpusWasPinned, InputsOrdered
  <2>1. PICK p \in 1 .. Tip :
          /\ p < c /\ history[p].corpus = None
          /\ history[p].pin # None /\ history[p].pin = history[c].pin
          /\ history[p].freeze = history[c].freeze
    BY DEF Ordered, Tip
  <2>2. PICK f \in 1 .. Tip :
          f < p /\ history[f].pin = None /\ history[f].freeze = history[p].freeze
    BY <2>1 DEF Ordered, Tip
  <2>3. /\ history[c].corpus.inventory = history[c].pin
        /\ history[c].corpus.members = history[c].corpus.inventory
        /\ LogicalProjection(history[c].corpus.members.manifest) = history[c].freeze
    BY DEF Ordered, Tip
  <2> QED BY <2>1, <2>2, <2>3
<1> QED BY <1>1, InitType, NextType, InitOrdered, NextOrdered, PTL DEF Spec

\* No commit the hook admits changes or removes the freeze, the pin or the corpus.
THEOREM InputsWriteOnce == Spec => CommittedInputsWriteOnce
<1>1. TypeInv /\ InputsOrdered /\ [Next]_vars =>
        [\A p \in {"freeze", "pin", "corpus"} :
           Committed[p] # None => Committed'[p] = Committed[p]]_vars
  <2> SUFFICES ASSUME TypeInv, Ordered(history), [Next]_vars,
                      NEW p \in {"freeze", "pin", "corpus"}, Committed[p] # None
               PROVE  Committed'[p] = Committed[p]
    BY DEF InputsOrdered
  <2>1. CASE Commit
    <3>1. PICK paths \in SUBSET Changed :
            /\ CheckStaged(paths)
            /\ history' = Append(history,
                 [q \in Paths |-> IF q \in paths THEN work[q] ELSE Committed[q]])
      BY <2>1 DEF Commit
    <3> DEFINE next == [q \in Paths |-> IF q \in paths THEN work[q] ELSE Committed[q]]
    <3>2. next \in Snapshots
      BY CommittedType DEF Snapshots, Paths, TypeInv, TypeOK
    <3>3. Committed' = next
      BY <3>1, <3>2 DEF Committed, Tip, TypeInv, TypeOK
    <3>4. /\ Committed.freeze # None => next.freeze = Committed.freeze
          /\ Committed.pin # None => next.pin = Committed.pin
          /\ Committed.corpus # None => next.corpus = Committed.corpus
      BY <3>1, <3>2, HookOrders
    <3> QED BY <3>3, <3>4
  <2>2. CASE UNCHANGED history
    BY <2>2 DEF Committed, Tip
  <2>3. Commit \/ UNCHANGED history
    BY DEF Next, Propose, TakeFreeze, Build, TakePin, TakeCorpus, EditSource, RetouchCorpus,
           WriteNarrative, Restore, Evaluate, Tag, Authorize, Step, Persist, Create, Write,
           ReadCatalog, ReplaceCatalog, RenameCatalog, Kill, Elsewhere, vars
  <2> QED BY <2>1, <2>2, <2>3
<1> QED BY <1>1, InitType, NextType, InitOrdered, NextOrdered, PTL
         DEF Spec, CommittedInputsWriteOnce

-----------------------------------------------------------------------------
\* What is tagged was measured.

\* A summary is of a run over a commit of the history, whose truth it was scored by.
Measured(s, h, r) ==
  /\ s \in Summaries /\ s.commit \in 1 .. Len(h) /\ s.run \in 1 .. Len(r)
  /\ LET at == h[s.commit] IN
     /\ LoadVerified(at.corpus, at.pin, at.freeze, at.lock)
     /\ s.manifest = at.corpus.members.manifest
     /\ \A sheet \in Sheets :
          r[s.run].results[sheet].occ = HasOccurrence(TruthOf[at.corpus.members.gt][sheet])

Passed(s, h, r) == Measured(s, h, r) /\ SafetyGates(r[s.run].totals)

\* Evidence wherever it is, in a publisher, the worktree or the history, has passed.
EvidencePassed ==
  /\ summary # None => Measured(summary, history, runs)
  /\ \A p \in Publishers :
       publisher[p].pc # "idle" => Passed(publisher[p].source, history, runs)
  /\ work.evidence \notin {None, Partial} => Passed(work.evidence, history, runs)
  /\ \A c \in 1 .. Len(history) :
       history[c].evidence \notin {None, Partial} => Passed(history[c].evidence, history, runs)
  /\ \A c \in tagged : c > 1 /\ Promotion(c - 1, c)

\* History and runs are only ever extended, so what was measured stays so.
LEMMA Extended ==
  ASSUME TypeInv, [Next]_vars
  PROVE  /\ Len(history) \in Nat /\ Len(runs) \in Nat
         /\ Len(history') \in Nat /\ Len(runs') \in Nat
         /\ Len(history) <= Len(history') /\ Len(runs) <= Len(runs')
         /\ \A c \in 1 .. Len(history) : history'[c] = history[c]
         /\ \A c \in 1 .. Len(runs) : runs'[c] = runs[c]
<1>1. CASE Commit
  <2>1. PICK next \in Snapshots : history' = Append(history, next)
    BY <1>1, CommittedType DEF Commit, Snapshots, Paths, TypeInv, TypeOK
  <2> QED BY <1>1, <2>1 DEF Commit, TypeInv, TypeOK
<1>2. CASE Evaluate
  <2>1. PICK results \in [Sheets -> Outcomes] :
          runs' = Append(runs, [results |-> results,
                                totals |-> Aggregate(results, Difficulty, Template)])
    BY <1>2 DEF Evaluate
  <2> QED BY <1>2, <2>1 DEF Evaluate, TypeInv, TypeOK
<1>3. CASE UNCHANGED <<history, runs>>
  BY <1>3 DEF TypeInv, TypeOK
<1>4. Commit \/ Evaluate \/ UNCHANGED <<history, runs>>
  BY DEF Next, Propose, TakeFreeze, Build, TakePin, TakeCorpus, EditSource, RetouchCorpus,
         WriteNarrative, Restore, Tag, Authorize, Step, Persist, Create, Write,
         ReadCatalog, ReplaceCatalog, RenameCatalog, Kill, Elsewhere, vars
<1> QED BY <1>1, <1>2, <1>3, <1>4

LEMMA StaysMeasured ==
  ASSUME TypeInv, [Next]_vars, NEW s
  PROVE  /\ Measured(s, history, runs) => Measured(s, history', runs')
         /\ Passed(s, history, runs) => Passed(s, history', runs')
<1>1. Measured(s, history, runs) =>
        /\ history'[s.commit] = history[s.commit] /\ runs'[s.run] = runs[s.run]
        /\ s.commit \in 1 .. Len(history') /\ s.run \in 1 .. Len(runs')
  BY Extended DEF Measured
<1>2. Measured(s, history, runs) => Measured(s, history', runs')
  BY <1>1 DEF Measured
<1> QED BY <1>1, <1>2 DEF Passed

LEMMA InitEvidence == Init => EvidencePassed
BY DEF Init, EvidencePassed, Idle

\* A release that was promoted stays so.
LEMMA TaggedStays ==
  ASSUME TypeInv, [Next]_vars, NEW c \in tagged, c > 1, Promotion(c - 1, c)
  PROVE  Promotion(c - 1, c)'
<1>1. c \in 1 .. Len(history) /\ c - 1 \in 1 .. Len(history)
  BY DEF TypeInv, TypeOK, Tip
<1>2. history'[c] = history[c] /\ history'[c - 1] = history[c - 1]
  BY <1>1, Extended
<1> QED BY <1>2 DEF Promotion, Identified, Entry

LEMMA NextEvidence == TypeInv /\ EvidencePassed /\ [Next]_vars => EvidencePassed'
<1> SUFFICES ASSUME TypeInv, EvidencePassed, [Next]_vars PROVE EvidencePassed'
  OBVIOUS
<1>0. /\ summary # None => Measured(summary, history', runs')
      /\ \A p \in Publishers :
           publisher[p].pc # "idle" => Passed(publisher[p].source, history', runs')
      /\ work.evidence \notin {None, Partial} => Passed(work.evidence, history', runs')
      /\ \A c \in 1 .. Len(history) :
           history[c].evidence \notin {None, Partial}
             => Passed(history[c].evidence, history', runs')
  BY StaysMeasured DEF EvidencePassed
<1>1. \A c \in tagged : c > 1 /\ Promotion(c - 1, c)'
  BY TaggedStays DEF EvidencePassed
<1>2. summary' # None => Measured(summary', history', runs')
  <2>1. CASE Evaluate
    <3>1. PICK results \in [Sheets -> Outcomes] :
            /\ LoadVerified(Committed.corpus, Committed.pin, Committed.freeze, Committed.lock)
            /\ \A s \in Sheets :
                 results[s].occ = HasOccurrence(TruthOf[Committed.corpus.members.gt][s])
            /\ runs' = Append(runs, [results |-> results,
                                     totals |-> Aggregate(results, Difficulty, Template)])
            /\ summary' = [commit |-> Tip, run |-> Len(runs) + 1, lock |-> Committed.lock,
                           manifest |-> Committed.corpus.members.manifest]
            /\ history' = history
      BY <2>1 DEF Evaluate
    <3>2. Tip \in 1 .. Len(history) /\ Committed = history[Tip]
      BY DEF TypeInv, TypeOK, Tip, Committed
    <3>4. summary' # None => summary' \in Summaries
      <4>1. TypeInv'
        BY NextType
      <4> QED BY <4>1 DEF TypeInv, TypeOK, Summaries
    <3>3. /\ Len(runs) + 1 \in 1 .. Len(runs')
          /\ runs'[Len(runs) + 1].results = results
      BY <3>1 DEF TypeInv
    <3> QED BY <3>1, <3>2, <3>3, <3>4 DEF Measured
  <2>2. CASE UNCHANGED summary
    BY <1>0, <2>2
  <2>3. Evaluate \/ UNCHANGED summary
    BY DEF Next, Propose, TakeFreeze, Build, TakePin, TakeCorpus, EditSource, RetouchCorpus,
           WriteNarrative, Restore, Commit, Tag, Authorize, Step, Persist, Create, Write,
           ReadCatalog, ReplaceCatalog, RenameCatalog, Kill, Elsewhere, vars
  <2> QED BY <2>1, <2>2, <2>3
<1>3. \A p \in Publishers :
        publisher'[p].pc # "idle" => Passed(publisher'[p].source, history', runs')
  <2>1. ASSUME NEW q \in Publishers, Authorize(q)
        PROVE  \A p \in Publishers :
                 publisher'[p].pc # "idle" => Passed(publisher'[p].source, history', runs')
    <3>1. /\ summary # None /\ SafetyGates(runs[summary.run].totals)
          /\ publisher' = [publisher EXCEPT ![q] =
                             [@ EXCEPT !.pc = "persist", !.source = summary]]
          /\ history' = history /\ runs' = runs
      BY <2>1 DEF Authorize, ReleaseEvidence, Elsewhere
    <3>2. Passed(summary, history', runs')
      BY <1>0, <3>1 DEF Passed
    <3>3. publisher'[q].source = summary
          /\ \A p \in Publishers \ {q} : publisher'[p] = publisher[p]
      BY <3>1 DEF TypeInv, TypeOK
    <3> QED BY <1>0, <3>2, <3>3
  <2>2. ASSUME NEW q \in Publishers, Step(q) \/ Kill(q)
        PROVE  \A p \in Publishers :
                 publisher'[p].pc # "idle" => Passed(publisher'[p].source, history', runs')
    <3>1. /\ publisher[q].pc # "idle"
          /\ \A p \in Publishers : \/ publisher'[p].pc = "idle"
                                   \/ publisher'[p].source = publisher[p].source
          /\ \A p \in Publishers \ {q} : publisher'[p] = publisher[p]
      <4>1. publisher \in [Publishers -> [pc : {"idle", "persist", "create", "write", "catalog",
                                               "replace", "rename"},
                                         source : Summaries \union {None},
                                         original : Entries \union {None}]]
        BY DEF TypeInv, TypeOK
      <4>2. ASSUME NEW step, Goto(q, step)
            PROVE  /\ \A p \in Publishers : \/ publisher'[p].pc = "idle"
                                            \/ publisher'[p].source = publisher[p].source
                   /\ \A p \in Publishers \ {q} : publisher'[p] = publisher[p]
        BY <4>1, <4>2 DEF Goto, Idle
      <4>3. CASE ReadCatalog(q)
        <5>1. CASE Goto(q, "idle")
          BY <4>2, <4>3, <5>1 DEF ReadCatalog
        <5>2. CASE publisher' = [publisher EXCEPT ![q] =
                                   [@ EXCEPT !.pc = "replace", !.original = work.catalog]]
          BY <4>1, <4>3, <5>2 DEF ReadCatalog
        <5> QED BY <4>3, <5>1, <5>2 DEF ReadCatalog
      <4>4. CASE \/ Persist(q) \/ Create(q) \/ Write(q)
                 \/ ReplaceCatalog(q) \/ RenameCatalog(q) \/ Kill(q)
        <5>1. publisher[q].pc # "idle" /\ \E step : Goto(q, step)
          BY <4>4 DEF Persist, Create, Write, ReplaceCatalog, RenameCatalog, Kill
        <5> QED BY <4>2, <5>1
      <4> QED BY <2>2, <4>3, <4>4 DEF Step
    <3> QED BY <1>0, <3>1
  <2>3. CASE UNCHANGED publisher
    BY <1>0, <2>3
  <2>4. \/ UNCHANGED publisher
        \/ \E p \in Publishers : Authorize(p) \/ Step(p) \/ Kill(p)
    BY DEF Next, Propose, TakeFreeze, Build, TakePin, TakeCorpus, EditSource, RetouchCorpus,
           WriteNarrative, Restore, Commit, Evaluate, Tag, vars
  <2> QED BY <2>1, <2>2, <2>3, <2>4
<1>4. work'.evidence \notin {None, Partial} => Passed(work'.evidence, history', runs')
  <2>1. CASE Restore
    <3>1. work' = history[Len(history)] /\ Len(history) \in 1 .. Len(history)
      BY <2>1 DEF Restore, Committed, Tip, TypeInv, TypeOK
    <3> QED BY <1>0, <3>1
  <2>2. ASSUME NEW p \in Publishers, Write(p)
        PROVE  work'.evidence \notin {None, Partial}
                 => Passed(work'.evidence, history', runs')
    <3>1. /\ publisher[p].pc # "idle" /\ work'.evidence = publisher[p].source
      BY <2>2 DEF Write, TypeInv, TypeOK, Snapshots
    <3> QED BY <1>0, <3>1
  <2>3. CASE work'.evidence \in {work.evidence, Partial}
    BY <1>0, <2>3
  <2>4. \/ Restore \/ work'.evidence \in {work.evidence, Partial}
        \/ \E p \in Publishers : Write(p)
    <3>1. work \in Snapshots
      BY DEF TypeInv, TypeOK
    <3>2. CASE RetouchCorpus
      BY <3>1, <3>2 DEF RetouchCorpus, Snapshots
    <3>3. CASE TakeFreeze \/ TakePin \/ TakeCorpus \/ EditSource \/ WriteNarrative
      BY <3>1, <3>3 DEF TakeFreeze, TakePin, TakeCorpus, EditSource, WriteNarrative, Snapshots
    <3>4. ASSUME NEW p \in Publishers, Create(p) \/ RenameCatalog(p)
          PROVE  work'.evidence \in {work.evidence, Partial}
      BY <3>1, <3>4 DEF Create, RenameCatalog, Snapshots
    <3>5. ASSUME NEW p \in Publishers,
                 \/ Authorize(p) \/ Persist(p)
                 \/ ReadCatalog(p) \/ ReplaceCatalog(p) \/ Kill(p)
          PROVE  work' = work
      BY <3>5 DEF Authorize, Persist, ReadCatalog, ReplaceCatalog, Kill
    <3>6. Propose \/ Build \/ Commit \/ Evaluate \/ Tag \/ UNCHANGED vars => work' = work
      BY DEF Propose, Build, Commit, Evaluate, Tag, vars
    <3> QED BY <3>2, <3>3, <3>4, <3>5, <3>6 DEF Next, Step
  <2> QED BY <2>1, <2>2, <2>3, <2>4
<1>5. ASSUME NEW c \in 1 .. Len(history'), history'[c].evidence \notin {None, Partial}
      PROVE  Passed(history'[c].evidence, history', runs')
  <2>1. CASE Commit
    <3>1. PICK paths : history' = Append(history,
              [p \in Paths |-> IF p \in paths THEN work[p] ELSE Committed[p]])
      BY <2>1 DEF Commit
    <3> DEFINE next == [p \in Paths |-> IF p \in paths THEN work[p] ELSE Committed[p]]
    <3>2. next \in Snapshots
      BY CommittedType DEF Snapshots, Paths, TypeInv, TypeOK
    <3>3. next.evidence \in {work.evidence, history[Len(history)].evidence}
      BY DEF Paths, Committed, Tip
    <3> HIDE DEF next
    <3>4. /\ Len(history) \in Nat \ {0} /\ Len(history') = Len(history) + 1
          /\ history'[Len(history) + 1] = next
          /\ \A k \in 1 .. Len(history) : history'[k] = history[k]
      <4>1. history' = Append(history, next)
        BY <3>1 DEF next
      <4> QED BY <3>2, <4>1 DEF TypeInv, TypeOK, Tip
    <3>5. CASE c = Len(history) + 1
      BY <1>0, <1>5, <3>3, <3>4, <3>5
    <3>6. CASE c \in 1 .. Len(history)
      BY <1>0, <1>5, <3>4, <3>6
    <3> QED BY <3>4, <3>5, <3>6
  <2>2. CASE UNCHANGED history
    BY <1>0, <1>5, <2>2
  <2>3. Commit \/ UNCHANGED history
    BY DEF Next, Propose, TakeFreeze, Build, TakePin, TakeCorpus, EditSource, RetouchCorpus,
           WriteNarrative, Restore, Evaluate, Tag, Authorize, Step, Persist, Create, Write,
           ReadCatalog, ReplaceCatalog, RenameCatalog, Kill, Elsewhere, vars
  <2> QED BY <2>1, <2>2, <2>3
<1>6. \A c \in tagged' : c > 1 /\ Promotion(c - 1, c)'
  <2>1. CASE Tag
    <3>1. /\ Tip > 1 /\ Promotion(Tip - 1, Tip) /\ tagged' = tagged \union {Tip}
          /\ history' = history
      BY <2>1 DEF Tag
    <3>2. Promotion(Tip - 1, Tip)' <=> Promotion(Tip - 1, Tip)
      BY <3>1 DEF Promotion, Identified, Entry, Tip
    <3>3. ASSUME NEW c, c = Tip PROVE Promotion(c - 1, c)'
      BY <3>1, <3>3 DEF Promotion, Identified, Entry
    <3> QED BY <1>1, <3>1, <3>3
  <2>2. CASE UNCHANGED tagged
    BY <1>1, <2>2
  <2>3. Tag \/ UNCHANGED tagged
    BY DEF Next, Propose, TakeFreeze, Build, TakePin, TakeCorpus, EditSource, RetouchCorpus,
           WriteNarrative, Restore, Evaluate, Commit, Authorize, Step, Persist, Create, Write,
           ReadCatalog, ReplaceCatalog, RenameCatalog, Kill, Elsewhere, vars
  <2> QED BY <2>1, <2>2, <2>3
<1> QED BY <1>2, <1>3, <1>4, <1>5, <1>6 DEF EvidencePassed

\* What is tagged was measured at its parent, over the corpus its parent holds, and every
\* sheet of it was read rightly or stopped: the chain from the private results of a run
\* through counts, gates, publisher and delta check loses nothing.
THEOREM TaggedWasMeasured == Spec => []ReleaseWasMeasured
<1>1. TypeInv /\ EvidencePassed => ReleaseWasMeasured
  <2> SUFFICES ASSUME TypeInv, EvidencePassed, NEW c \in tagged
      PROVE  /\ \A p \in Paths \ {"evidence", "catalog", "narrative"} :
                  history[c][p] = history[c - 1][p]
             /\ history[c].evidence.commit = c - 1
             /\ LoadVerified(history[c - 1].corpus, history[c - 1].pin,
                             history[c - 1].freeze, history[c - 1].lock)
             /\ history[c].evidence.manifest = history[c - 1].corpus.members.manifest
             /\ \A s \in Sheets :
                  /\ SafeResult(runs[history[c].evidence.run].results[s])
                  /\ runs[history[c].evidence.run].results[s].occ
                       = HasOccurrence(TruthOf[history[c - 1].corpus.members.gt][s])
    BY DEF ReleaseWasMeasured
  <2>1. /\ c \in 1 .. Len(history) /\ c > 1
        /\ {p \in Paths : history[c][p] # history[c - 1][p]}
             = {"evidence", "catalog", "narrative"}
        /\ history[c].evidence \notin {None, Partial}
        /\ history[c].evidence.commit = c - 1
    BY DEF EvidencePassed, Promotion, Identified, TypeInv, TypeOK, Tip
  <2> DEFINE s == history[c].evidence
  <2>2. Measured(s, history, runs) /\ SafetyGates(runs[s.run].totals)
    BY <2>1 DEF EvidencePassed, Passed
  <2>3. PICK R \in [Sheets -> Outcomes] :
          runs[s.run] = [results |-> R, totals |-> Aggregate(R, Difficulty, Template)]
    <3>0. s.run \in 1 .. Len(runs)
      BY <2>2 DEF Measured
    <3>1. runs[s.run] \in Runs
      <4> HIDE DEF s
      <4> QED BY <3>0 DEF TypeInv
    <3> QED BY <3>1 DEF Runs
  <2>4. \A sheet \in Sheets : SafeResult(R[sheet])
    <3>1. R \in [Sheets -> Result] /\ IsFiniteSet(Sheets)
      BY ReleaseAssumption
    <3>2. SafetyGates(Aggregate(R, Difficulty, Template))
      BY <2>2, <2>3
    <3> QED BY <3>1, <3>2, GatesMeanSafeSheets
  <2>5. \A p \in Paths \ {"evidence", "catalog", "narrative"} :
          history[c][p] = history[c - 1][p]
    BY <2>1
  <2>6. /\ LoadVerified(history[c - 1].corpus, history[c - 1].pin,
                        history[c - 1].freeze, history[c - 1].lock)
        /\ s.manifest = history[c - 1].corpus.members.manifest
        /\ \A sheet \in Sheets :
             runs[s.run].results[sheet].occ
               = HasOccurrence(TruthOf[history[c - 1].corpus.members.gt][sheet])
    BY <2>1, <2>2 DEF Measured
  <2> QED BY <2>1, <2>3, <2>4, <2>5, <2>6
<1> QED BY <1>1, InitType, NextType, InitEvidence, NextEvidence, PTL DEF Spec

-----------------------------------------------------------------------------
\* Evidence is written once.

\* Who writes the artifact has created it, is alone, and nobody has restored it away.
OneWriter ==
  \A p \in Publishers : publisher[p].pc = "write" =>
    /\ work.evidence = Partial
    /\ \A q \in Publishers : publisher[q].pc = "write" => q = p

LEMMA NextOneWriter == TypeInv /\ OneWriter /\ [Next]_vars => OneWriter'
<1> SUFFICES ASSUME TypeInv, OneWriter, [Next]_vars PROVE OneWriter'
  OBVIOUS
<1>1. /\ work \in Snapshots
      /\ publisher \in [Publishers -> [pc : {"idle", "persist", "create", "write", "catalog",
                                             "replace", "rename"},
                                       source : Summaries \union {None},
                                       original : Entries \union {None}]]
  BY DEF TypeInv, TypeOK
<1>2. CASE Restore
  BY <1>2 DEF Restore, OneWriter
<1>3. CASE Propose \/ Build \/ Commit \/ Evaluate \/ Tag \/ UNCHANGED vars
  BY <1>3 DEF Propose, Build, Commit, Evaluate, Tag, vars, OneWriter
<1>4. CASE RetouchCorpus
  BY <1>1, <1>4 DEF RetouchCorpus, OneWriter, Snapshots
<1>5. CASE TakeFreeze \/ TakePin \/ TakeCorpus \/ EditSource \/ WriteNarrative
  BY <1>1, <1>5 DEF TakeFreeze, TakePin, TakeCorpus, EditSource, WriteNarrative, OneWriter,
                    Snapshots
<1>6. ASSUME NEW p \in Publishers, Authorize(p) \/ Step(p) \/ Kill(p) PROVE OneWriter'
  <2>1. CASE Authorize(p)
    BY <1>1, <2>1 DEF Authorize, OneWriter
  <2>2. CASE Persist(p)
    BY <1>1, <2>2 DEF Persist, Verified, Goto, Idle, OneWriter
  <2>3. CASE Create(p)
    <3>1. CASE work.evidence = None
      <4>1. \A q \in Publishers : publisher[q].pc # "write"
        BY <3>1, ReleaseAssumption DEF OneWriter
      <4>2. work'.evidence = Partial /\ Goto(p, "write")
        BY <1>1, <2>3, <3>1 DEF Create, Snapshots
      <4> QED BY <1>1, <4>1, <4>2 DEF Goto, OneWriter
    <3>2. CASE work.evidence # None
      BY <1>1, <2>3, <3>2 DEF Create, Verified, Goto, Idle, OneWriter
    <3> QED BY <3>1, <3>2
  <2>4. CASE Write(p)
    BY <1>1, <2>4 DEF Write, Goto, OneWriter
  <2>5. CASE ReadCatalog(p)
    <3>1. CASE Goto(p, "idle")
      BY <1>1, <2>5, <3>1 DEF ReadCatalog, Goto, Idle, OneWriter
    <3>2. CASE publisher' = [publisher EXCEPT ![p] =
                               [@ EXCEPT !.pc = "replace", !.original = work.catalog]]
      BY <1>1, <2>5, <3>2 DEF ReadCatalog, OneWriter
    <3> QED BY <2>5, <3>1, <3>2 DEF ReadCatalog
  <2>6. CASE ReplaceCatalog(p)
    BY <1>1, <2>6 DEF ReplaceCatalog, Goto, Idle, OneWriter
  <2>7. CASE RenameCatalog(p)
    BY <1>1, <2>7 DEF RenameCatalog, Goto, Idle, OneWriter, Snapshots
  <2>8. CASE Kill(p)
    BY <1>1, <2>8 DEF Kill, Goto, Idle, OneWriter
  <2> QED BY <1>6, <2>1, <2>2, <2>3, <2>4, <2>5, <2>6, <2>7, <2>8 DEF Step
<1> QED BY <1>2, <1>3, <1>4, <1>5, <1>6 DEF Next

\* However many publishers of however many runs overlap or die, whole evidence is not
\* replaced or emptied by one of them ...
LEMMA EvidenceStays ==
  ASSUME TypeInv, OneWriter, [Next]_vars, work.evidence \notin {None, Partial}
  PROVE  work'.evidence \in {work.evidence, Committed.evidence}
<1>1. work \in Snapshots
  BY DEF TypeInv, TypeOK
<1>2. CASE Restore
  BY <1>2 DEF Restore
<1>3. CASE Propose \/ Build \/ Commit \/ Evaluate \/ Tag \/ UNCHANGED vars
  BY <1>3 DEF Propose, Build, Commit, Evaluate, Tag, vars
<1>4. CASE RetouchCorpus
  BY <1>1, <1>4 DEF RetouchCorpus, Snapshots
<1>5. CASE TakeFreeze \/ TakePin \/ TakeCorpus \/ EditSource \/ WriteNarrative
  BY <1>1, <1>5 DEF TakeFreeze, TakePin, TakeCorpus, EditSource, WriteNarrative, Snapshots
<1>6. ASSUME NEW p \in Publishers, Authorize(p) \/ Step(p) \/ Kill(p)
      PROVE  work'.evidence = work.evidence
  <2>1. CASE Authorize(p) \/ Persist(p) \/ ReadCatalog(p) \/ ReplaceCatalog(p) \/ Kill(p)
    BY <2>1 DEF Authorize, Persist, ReadCatalog, ReplaceCatalog, Kill
  <2>2. CASE Create(p) \/ RenameCatalog(p)
    BY <1>1, <2>2 DEF Create, RenameCatalog, Snapshots
  <2>3. CASE Write(p)
    BY <2>3 DEF Write, OneWriter
  <2> QED BY <1>6, <2>1, <2>2, <2>3 DEF Step
<1> QED BY <1>2, <1>3, <1>4, <1>5, <1>6 DEF Next

-----------------------------------------------------------------------------
\* The catalogue names the evidence there is.

\* Whoever is past the artifact has compared it with its own, and whoever has read the
\* catalogue will only find it empty or with the entry it is about to write itself.
OneEntry ==
  \A p \in Publishers :
    /\ publisher[p].pc # "idle" => publisher[p].source \notin {None, Partial}
    /\ publisher[p].pc \in {"catalog", "replace", "rename"}
         => work.evidence = publisher[p].source
    /\ publisher[p].pc \in {"replace", "rename"}
         => work.catalog \in {None, Entry(publisher[p].source)}

LEMMA NextOneEntry == TypeInv /\ OneWriter /\ OneEntry /\ [Next]_vars => OneEntry'
<1> SUFFICES ASSUME TypeInv, OneWriter, OneEntry, [Next]_vars PROVE OneEntry'
  OBVIOUS
<1>1. /\ work \in Snapshots
      /\ publisher \in [Publishers -> [pc : {"idle", "persist", "create", "write", "catalog",
                                             "replace", "rename"},
                                       source : Summaries \union {None},
                                       original : Entries \union {None}]]
  BY DEF TypeInv, TypeOK
<1>2. CASE Restore
  BY <1>2 DEF Restore, OneEntry
<1>3. CASE Propose \/ Build \/ Commit \/ Evaluate \/ Tag \/ UNCHANGED vars
  BY <1>3 DEF Propose, Build, Commit, Evaluate, Tag, vars, OneEntry
<1>4. CASE RetouchCorpus
  <2>1. work'.evidence = work.evidence /\ work'.catalog = work.catalog
    BY <1>1, <1>4 DEF RetouchCorpus, Snapshots
  <2> QED BY <1>4, <2>1 DEF RetouchCorpus, OneEntry
<1>5. CASE TakeFreeze \/ TakePin \/ TakeCorpus \/ EditSource \/ WriteNarrative
  <2>1. work'.evidence = work.evidence /\ work'.catalog = work.catalog
    BY <1>1, <1>5 DEF TakeFreeze, TakePin, TakeCorpus, EditSource, WriteNarrative, Snapshots
  <2> QED BY <1>5, <2>1 DEF TakeFreeze, TakePin, TakeCorpus, EditSource, WriteNarrative,
                            OneEntry
<1>6. ASSUME NEW p \in Publishers, Authorize(p) \/ Step(p) \/ Kill(p) PROVE OneEntry'
  <2>1. CASE Authorize(p)
    BY <1>1, <2>1 DEF Authorize, ReleaseEvidence, OneEntry
  <2>2. CASE Persist(p)
    BY <1>1, <2>2 DEF Persist, Verified, Goto, Idle, OneEntry
  <2>3. CASE Create(p)
    <3>1. CASE work.evidence = None
      <4>1. \A q \in Publishers : publisher[q].pc \notin {"catalog", "replace", "rename"}
        BY <3>1 DEF OneEntry
      <4>2. publisher[p].pc = "create" /\ Goto(p, "write")
        BY <2>3, <3>1 DEF Create
      <4> QED BY <1>1, <4>1, <4>2 DEF Goto, OneEntry
    <3>2. CASE work.evidence # None
      BY <1>1, <2>3, <3>2 DEF Create, Verified, Goto, Idle, OneEntry
    <3> QED BY <3>1, <3>2
  <2>4. CASE Write(p)
    <3>1. \A q \in Publishers : publisher[q].pc \notin {"catalog", "replace", "rename"}
      BY <2>4 DEF Write, OneWriter, OneEntry
    <3>2. work'.evidence = publisher[p].source
      BY <1>1, <2>4 DEF Write, Snapshots
    <3> QED BY <1>1, <2>4, <3>1, <3>2 DEF Write, Goto, OneEntry
  <2>5. CASE ReadCatalog(p)
    <3>1. CASE Goto(p, "idle")
      BY <1>1, <2>5, <3>1 DEF ReadCatalog, Goto, Idle, OneEntry
    <3>2. CASE /\ work.catalog = None
               /\ publisher' = [publisher EXCEPT ![p] =
                                  [@ EXCEPT !.pc = "replace", !.original = work.catalog]]
      BY <1>1, <2>5, <3>2 DEF ReadCatalog, OneEntry
    <3> QED BY <2>5, <3>1, <3>2 DEF ReadCatalog
  <2>6. CASE ReplaceCatalog(p)
    BY <1>1, <2>6 DEF ReplaceCatalog, Goto, Idle, OneEntry
  <2>7. CASE RenameCatalog(p)
    <3>1. /\ work'.evidence = work.evidence
          /\ work'.catalog = Entry(publisher[p].source)
      BY <1>1, <2>7 DEF RenameCatalog, Snapshots
    <3>2. \A q \in Publishers : publisher[q].pc \in {"replace", "rename"}
                                  => publisher[q].source = publisher[p].source
      BY <2>7 DEF RenameCatalog, OneEntry
    <3> QED BY <1>1, <2>7, <3>1, <3>2 DEF RenameCatalog, Goto, Idle, OneEntry
  <2>8. CASE Kill(p)
    BY <1>1, <2>8 DEF Kill, Goto, Idle, OneEntry
  <2> QED BY <1>6, <2>1, <2>2, <2>3, <2>4, <2>5, <2>6, <2>7, <2>8 DEF Step
<1> QED BY <1>2, <1>3, <1>4, <1>5, <1>6 DEF Next

\* ... and no entry by another: if one is renamed over the catalogue between a publisher's
\* comparison and its rename, it can only be the same.
LEMMA CatalogStays ==
  ASSUME TypeInv, OneEntry, [Next]_vars, work.catalog # None
  PROVE  work'.catalog \in {work.catalog, Committed.catalog}
<1>1. work \in Snapshots
  BY DEF TypeInv, TypeOK
<1>2. CASE Restore
  BY <1>2 DEF Restore
<1>3. CASE Propose \/ Build \/ Commit \/ Evaluate \/ Tag \/ UNCHANGED vars
  BY <1>3 DEF Propose, Build, Commit, Evaluate, Tag, vars
<1>4. CASE RetouchCorpus
  BY <1>1, <1>4 DEF RetouchCorpus, Snapshots
<1>5. CASE TakeFreeze \/ TakePin \/ TakeCorpus \/ EditSource \/ WriteNarrative
  BY <1>1, <1>5 DEF TakeFreeze, TakePin, TakeCorpus, EditSource, WriteNarrative, Snapshots
<1>6. ASSUME NEW p \in Publishers, Authorize(p) \/ Step(p) \/ Kill(p)
      PROVE  work'.catalog = work.catalog
  <2>1. CASE Authorize(p) \/ Persist(p) \/ ReadCatalog(p) \/ ReplaceCatalog(p) \/ Kill(p)
    BY <2>1 DEF Authorize, Persist, ReadCatalog, ReplaceCatalog, Kill
  <2>2. CASE Create(p) \/ Write(p)
    BY <1>1, <2>2 DEF Create, Write, Snapshots
  <2>3. CASE RenameCatalog(p)
    BY <1>1, <2>3 DEF RenameCatalog, OneEntry, Snapshots
  <2> QED BY <1>6, <2>1, <2>2, <2>3 DEF Step
<1> QED BY <1>2, <1>3, <1>4, <1>5, <1>6 DEF Next

\* What a publisher has published, artifact or entry, is never replaced by a publisher.
THEOREM PublicationOnce == Spec => PublishedOnce
<1>1. Init => OneWriter /\ OneEntry
  BY DEF Init, Idle, OneWriter, OneEntry
<1>2. TypeInv /\ OneWriter /\ OneEntry /\ [Next]_vars =>
        [/\ work.evidence \notin {None, Partial} =>
              work'.evidence \in {work.evidence, Committed.evidence}
         /\ work.catalog # None => work'.catalog \in {work.catalog, Committed.catalog}]_vars
  BY EvidenceStays, CatalogStays
<1> QED BY <1>1, <1>2, InitType, NextType, NextOneWriter, NextOneEntry, PTL
        DEF Spec, PublishedOnce

-----------------------------------------------------------------------------
\* Release implements ReleaseContract.

PublishedRuns == {runs[history[c].evidence.run].results : c \in tagged}

\* What is released stays what it was while history and runs go on.
LEMMA PublishedStays ==
  ASSUME TypeInv, EvidencePassed, [Next]_vars, UNCHANGED tagged
  PROVE  PublishedRuns' = PublishedRuns
<1>1. ASSUME NEW c \in tagged
      PROVE  runs'[history'[c].evidence.run] = runs[history[c].evidence.run]
  <2>1. c \in 1 .. Len(history) /\ history[c].evidence \notin {None, Partial}
    BY DEF EvidencePassed, Promotion, Identified, TypeInv, TypeOK, Tip
  <2>2. history[c].evidence.run \in 1 .. Len(runs)
    BY <2>1 DEF EvidencePassed, Passed, Measured
  <2>3. history'[c] = history[c] /\ runs'[history[c].evidence.run] = runs[history[c].evidence.run]
    BY <2>1, <2>2, Extended
  <2> QED BY <2>3
<1> QED BY <1>1 DEF PublishedRuns

\* A commit writes one input, in order, or none.
LEMMA CommitWritesInOrder ==
  ASSUME TypeInv, InputsOrdered, EvidencePassed, Commit
  PROVE  [Contract!Next]_(Contract!vars)
<1>1. PICK paths \in SUBSET Changed :
        /\ CheckStaged(paths)
        /\ history' = Append(history,
             [p \in Paths |-> IF p \in paths THEN work[p] ELSE Committed[p]])
  BY DEF Commit
<1> DEFINE next == [p \in Paths |-> IF p \in paths THEN work[p] ELSE Committed[p]]
<1>2. next \in Snapshots
  BY CommittedType DEF Snapshots, Paths, TypeInv, TypeOK
<1>3. Committed' = next
  BY <1>1, <1>2 DEF Committed, Tip, TypeInv, TypeOK
<1>4. /\ next.freeze = IF "freeze" \in paths THEN work.freeze ELSE Committed.freeze
      /\ next.pin = IF "pin" \in paths THEN work.pin ELSE Committed.pin
      /\ next.corpus = IF "corpus" \in paths THEN work.corpus ELSE Committed.corpus
  BY DEF Paths
<1>5. Committed.corpus # None => next.corpus = Committed.corpus
  BY <1>1, <1>2, HookOrders DEF InputsOrdered
<1>6. PublishedRuns' = PublishedRuns
  BY PublishedStays DEF Commit, Next
<1>7. work \in Snapshots /\ Committed \in Snapshots
  BY CommittedType DEF TypeInv, TypeOK
<1>8. \A p \in paths : work[p] # Committed[p]
  BY DEF Changed
<1> HIDE DEF next
<1>9. CASE "freeze" \in paths
  <2>1. /\ Committed.freeze = None /\ Committed.pin = None /\ Committed.corpus = None
        /\ paths = {"freeze"}
    BY <1>1, <1>9 DEF CheckStaged, FreezeAdmitted
  <2>2. work.freeze \in GroundTruths
    BY <1>7, <1>8, <1>9, <2>1 DEF Snapshots
  <2>3. next.freeze = work.freeze /\ next.pin = Committed.pin /\ next.corpus = Committed.corpus
    BY <1>4, <2>1
  <2>4. Contract!Freeze
    BY <1>3, <1>6, <2>1, <2>2, <2>3 DEF Contract!Freeze, PublishedRuns
  <2> QED BY <2>4 DEF Contract!Next
<1>10. CASE "pin" \in paths
  <2>1. /\ Committed.freeze # None /\ Committed.pin = None /\ Committed.corpus = None
        /\ paths = {"pin"}
    BY <1>1, <1>10 DEF CheckStaged, PinAdmitted, CommittedAlike
  <2>2. work.pin # None
    BY <1>8, <1>10, <2>1
  <2>3. next.pin = work.pin /\ next.freeze = Committed.freeze /\ next.corpus = Committed.corpus
    BY <1>4, <2>1
  <2>4. Contract!Pin
    BY <1>3, <1>6, <2>1, <2>2, <2>3 DEF Contract!Pin, PublishedRuns
  <2> QED BY <2>4 DEF Contract!Next
<1>11. CASE "corpus" \in paths /\ Committed.corpus = None
  <2>1. /\ "freeze" \notin paths /\ "pin" \notin paths
        /\ LoadVerified(work.corpus, Committed.pin, Committed.freeze, work.lock)
    BY <1>1, <1>11 DEF CheckStaged, CorpusAdmitted, CommittedAlike
  <2>2. /\ work.corpus # None /\ Committed.pin # None
        /\ work.corpus.members = Committed.pin
        /\ work.corpus.members.gt = Committed.freeze
    BY <2>1 DEF LoadVerified, LoadBuilt, VerifiedSplit, LogicalProjection, Manifest
  <2>3. next.freeze = Committed.freeze /\ next.pin = Committed.pin /\ next.corpus = work.corpus
    BY <1>4, <1>11, <2>1
  <2>4. Contract!Corpus
    BY <1>3, <1>6, <1>11, <2>2, <2>3 DEF Contract!Corpus, PublishedRuns
  <2> QED BY <2>4 DEF Contract!Next
<1>12. CASE /\ "freeze" \notin paths /\ "pin" \notin paths
            /\ "corpus" \in paths => Committed.corpus # None
  <2>1. /\ next.freeze = Committed.freeze /\ next.pin = Committed.pin
        /\ next.corpus = Committed.corpus
    BY <1>4, <1>5, <1>12
  <2> QED BY <1>3, <1>6, <2>1 DEF Contract!vars, PublishedRuns
<1> QED BY <1>9, <1>10, <1>11, <1>12

\* What is tagged is a sound run over the frozen truth.
LEMMA TagReleases ==
  ASSUME TypeInv, EvidencePassed, Tag
  PROVE  Contract!Release
<1>1. /\ Tip > 1 /\ Promotion(Tip - 1, Tip) /\ tagged' = tagged \union {Tip}
      /\ UNCHANGED <<history, runs>>
  BY DEF Tag
<1>2. Tip \in Nat /\ Tip = Len(history) /\ Tip \in 1 .. Len(history) /\ Tip - 1 \in 1 .. Len(history)
  BY <1>1 DEF Tip, TypeInv, TypeOK
<1> DEFINE s == history[Tip].evidence
           at == history[Tip - 1]
           R == runs[s.run].results
<1>3. /\ s \notin {None, Partial} /\ s.commit = Tip - 1
      /\ {p \in Paths : history[Tip][p] # at[p]} = {"evidence", "catalog", "narrative"}
  BY <1>1 DEF Promotion, Identified
<1>4. Measured(s, history, runs) /\ SafetyGates(runs[s.run].totals)
  BY <1>2, <1>3 DEF EvidencePassed, Passed
<1>5. Committed.freeze = at.freeze /\ Committed.corpus = at.corpus
  <2>1. {"freeze", "corpus"} \subseteq Paths \ {"evidence", "catalog", "narrative"}
    BY DEF Paths
  <2> QED BY <1>3, <2>1 DEF Committed
<1>6. /\ at.corpus # None /\ at.corpus.members # None /\ at.corpus.members.gt = at.freeze
      /\ \A sheet \in Sheets : R[sheet].occ = HasOccurrence(TruthOf[at.freeze][sheet])
  <2>1. /\ LoadVerified(at.corpus, at.pin, at.freeze, at.lock)
        /\ \A sheet \in Sheets :
             R[sheet].occ = HasOccurrence(TruthOf[at.corpus.members.gt][sheet])
    BY <1>3, <1>4 DEF Measured
  <2>2. /\ at.corpus # None /\ at.corpus.members # None
        /\ at.corpus.members.gt = at.freeze
    BY <2>1 DEF LoadVerified, LoadBuilt, VerifiedSplit, LogicalProjection, Manifest
  <2> QED BY <2>1, <2>2
<1>7. at.freeze \in GroundTruths
  <2>1. at \in Snapshots
    BY <1>2 DEF TypeInv, TypeOK
  <2>2. at.corpus \in Trees
    BY <1>6, <2>1 DEF Snapshots
  <2>3. at.corpus.members \in Inventories
    BY <2>2 DEF Trees
  <2> QED BY <1>6, <2>3 DEF Inventories
<1>8. R \in [Sheets -> Outcomes] /\ \A sheet \in Sheets : SafeResult(R[sheet])
  <2>1. s.run \in 1 .. Len(runs)
    BY <1>4 DEF Measured
  <2>2. runs[s.run] \in Runs
    <3> HIDE DEF s
    <3> QED BY <2>1 DEF TypeInv
  <2>3. PICK Q \in [Sheets -> Outcomes] :
          runs[s.run] = [results |-> Q, totals |-> Aggregate(Q, Difficulty, Template)]
    BY <2>2 DEF Runs
  <2>4. Q \in [Sheets -> Result] /\ IsFiniteSet(Sheets)
    BY ReleaseAssumption
  <2>5. SafetyGates(Aggregate(Q, Difficulty, Template))
    BY <1>4, <2>3
  <2>6. \A sheet \in Sheets : SafeResult(Q[sheet])
    BY <2>4, <2>5, GatesMeanSafeSheets
  <2> QED BY <2>3, <2>6
<1>9. R \in Sound[Committed.freeze]
  <2> HIDE DEF R, at
  <2> QED BY <1>5, <1>6, <1>7, <1>8 DEF Sound
<1>10. PublishedRuns' = PublishedRuns \cup {R}
  BY <1>1 DEF PublishedRuns
<1>11. R \in PublishedRuns'
  BY <1>10
<1>12. Committed.corpus # None /\ Committed.corpus.members # None
  BY <1>5, <1>6
<1>13. PICK run : run = R
  OBVIOUS
<1> HIDE DEF R, s, at
<1>14. /\ run \in PublishedRuns' /\ run \in Sound[Committed.freeze]
       /\ PublishedRuns' = PublishedRuns \cup {run}
  BY <1>9, <1>10, <1>11, <1>13
<1>15. Committed' = Committed
  BY <1>1 DEF Committed, Tip
<1> QED BY <1>12, <1>14, <1>15 DEF Contract!Release, PublishedRuns

\* The numbers that are released are of a sound run over images that were pinned, scored
\* by the truth that was frozen first, and none of it changes afterwards, for any corpus,
\* commits, workflows, publishers and faults (check_staged, _verify_release_delta).
THEOREM ReleaseKeepsContract == Spec => ImplementsRelease
<1>1. Init => Contract!Init
  <2> SUFFICES ASSUME Init PROVE Contract!Init
    OBVIOUS
  <2>1. Tip = 1 /\ Committed = work
    BY DEF Init, Committed, Tip
  <2> QED BY <2>1 DEF Init, Contract!Init
<1>2. TypeInv /\ InputsOrdered /\ EvidencePassed /\ [Next]_vars
        => [Contract!Next]_(Contract!vars)
  <2> SUFFICES ASSUME TypeInv, InputsOrdered, EvidencePassed, [Next]_vars
               PROVE  [Contract!Next]_(Contract!vars)
    OBVIOUS
  <2>1. CASE Commit
    BY <2>1, CommitWritesInOrder
  <2>2. CASE Tag
    BY <2>2, TagReleases DEF Contract!Next
  <2>3. CASE UNCHANGED <<history, tagged>>
    <3>1. PublishedRuns' = PublishedRuns
      BY <2>3, PublishedStays
    <3> QED BY <2>3, <3>1 DEF Contract!vars, PublishedRuns, Committed, Tip
  <2>4. Commit \/ Tag \/ UNCHANGED <<history, tagged>>
    BY DEF Next, Propose, TakeFreeze, Build, TakePin, TakeCorpus, EditSource, RetouchCorpus,
           WriteNarrative, Restore, Evaluate, Authorize, Step, Persist, Create, Write,
           ReadCatalog, ReplaceCatalog, RenameCatalog, Kill, Elsewhere, vars
  <2> QED BY <2>1, <2>2, <2>3, <2>4
<1> QED BY <1>1, <1>2, InitType, NextType, InitOrdered, NextOrdered, InitEvidence,
           NextEvidence, PTL
        DEF Spec, ImplementsRelease, Contract!Spec
=============================================================================
