---------------------------- MODULE StoreContract ----------------------------
(***************************************************************************)
(* What the review store promises to the builds that open it, whatever     *)
(* starts at once, dies half-way or is refused: its schema only grows, in  *)
(* any pieces; its ledger changes in one step, from what it was to all of  *)
(* this build's migrations, and only once all their objects are there; and *)
(* a store whose ledger names anything else is never served.  Startup is   *)
(* shown to implement it.                                                  *)
(***************************************************************************)
CONSTANTS
  Procs,    \* processes that open the store
  Needed,   \* tables, columns and indexes this build's code counts on
  Known     \* the migrations of this build, as the ledger names them

VARIABLES
  schema,     \* what the database has
  recorded,   \* the rows of its ledger
  serving     \* the processes that serve from it

vars == <<schema, recorded, serving>>

Init == serving = {}

(* Something is created that was not there; nothing is ever dropped. *)
Extend ==
  /\ schema \subseteq schema'
  /\ UNCHANGED <<recorded, serving>>

(* The ledger is closed, or found closed, and p serves. *)
Serve(p) ==
  /\ p \notin serving
  /\ recorded \subseteq Known
  /\ recorded' = Known
  /\ schema \subseteq schema' /\ Needed \subseteq schema'
  /\ serving' = serving \cup {p}

Close(p) ==
  /\ serving' = serving \ {p}
  /\ UNCHANGED <<schema, recorded>>

Next == Extend \/ \E p \in Procs : Serve(p) \/ Close(p)

Spec == Init /\ [][Next]_vars
=============================================================================
