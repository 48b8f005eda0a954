------------------------------ MODULE MCRelease ------------------------------
(* A release of three sheets: one with an occurrence, one without, one       *)
(* crossed out; one of each difficulty, two of the first template.           *)
EXTENDS Release, TLC

CONSTANTS s1, s2, s3

MCSheets == {s1, s2, s3}
MCDifficulty == s1 :> "clean" @@ s2 :> "photo" @@ s3 :> "scan"
MCTemplate == s1 :> "controle_A" @@ s2 :> "controle_B" @@ s3 :> "controle_A"

Written == [rows |-> 1, rendered |-> 1, unchanged |-> FALSE, struck |-> FALSE]
Unchanged == [rows |-> 0, rendered |-> 0, unchanged |-> TRUE, struck |-> FALSE]
Struck == [Unchanged EXCEPT !.struck = TRUE]
Lost == [Written EXCEPT !.rendered = 0]

\* The first version of the generator is not deterministic and sometimes loses a row
\* that it should have rendered; the second is.
MCTruthOf == <<s1 :> Written @@ s2 :> Unchanged @@ s3 :> Struck,
               s1 :> Unchanged @@ s2 :> Written @@ s3 :> Struck,
               s1 :> Lost @@ s2 :> Unchanged @@ s3 :> Struck>>
MCGenerates == <<{1, 3}, {2}>>

\* A written sheet is read rightly, or wrongly and stopped, or without a row and let
\* out, or missed.
Read(occ, disp, whole, open) ==
  [ran |-> TRUE, occ |-> occ, disp |-> disp, whole |-> whole, review |-> TRUE,
   approvable |-> open, exportable |-> open]
MCOutcomes ==
  {Read(TRUE, "present", TRUE, TRUE), Read(TRUE, "unknown", TRUE, FALSE),
   Read(TRUE, "present", FALSE, TRUE), Read(TRUE, "none", TRUE, FALSE),
   Read(FALSE, "none", TRUE, TRUE)}
=============================================================================
