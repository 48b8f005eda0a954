--------------------------- MODULE MCSheetReview ----------------------------
EXTENDS SheetReview, SequencesExt

\* A text for each of the three rules; the gravest is neither first nor last,
\* and the other two are equally grave.
MCMatching == [t \in Texts |-> CASE t = "door" -> {1}
                                 [] t = "alarm" -> {2, 3}
                                 [] t = "note" -> {}]
MCRuleTriage == <<"access", "safety", "other">>
MCSeverity == [t \in Triages |-> IF t = "safety" THEN 2 ELSE IF t = "quiet" THEN 0 ELSE 1]
MCRouting == << {"safety"}, {"access", "safety"}, Triages >>

\* Every list of up to two rows, and a list beyond the limit.
MCFormRows == BoundedSeq(Texts, MaxRows)
MCReadings == MCFormRows \cup {<<"note", "alarm", "door">>}
=============================================================================
