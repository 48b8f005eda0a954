---------------------------- MODULE MCDraftLock -----------------------------
(* Model-checking instance of DraftLock. *)
EXTENDS DraftLock
=============================================================================
