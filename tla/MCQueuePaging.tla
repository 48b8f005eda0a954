---------------------------- MODULE MCQueuePaging -----------------------------
(* Model-checking instance of QueuePaging. *)
EXTENDS QueuePaging
=============================================================================
