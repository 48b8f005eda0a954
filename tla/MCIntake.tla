------------------------------ MODULE MCIntake ------------------------------
(* Model-checking instance of Intake. *)
EXTENDS Intake

MCMatching == [t \in Texts |-> {1}]
MCRuleTriage == <<"access">>
MCSeverity == [t \in Triages |-> IF t = "quiet" THEN 0 ELSE 1]
MCRouting == << Triages >>
MCReadings == { <<>>, <<"door">> }
=============================================================================
