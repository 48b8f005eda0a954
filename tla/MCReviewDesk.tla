---------------------------- MODULE MCReviewDesk -----------------------------
(* Model-checking instance of ReviewDesk. *)
EXTENDS ReviewDesk, TLC

(* Pages are interchangeable: no action or safety property names one.      *)
Pages == Permutations(Clients)
=============================================================================
