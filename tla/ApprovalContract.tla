-------------------------- MODULE ApprovalContract ---------------------------
(***************************************************************************)
(* What the human-in-the-loop gate promises about one draft, without       *)
(* requests, locks, pages or processes: a person decides on the latest     *)
(* revision, every revision that was decided for is preserved word for     *)
(* word, a correction reopens the decision, and only preserved text that   *)
(* stands approved ever leaves (an export, or the simulated handover that  *)
(* ends the draft).  ReviewDesk is shown to implement it.                  *)
(***************************************************************************)
EXTENDS Naturals

CONSTANT Contents   \* the reviewable contents of a draft (state_json)

VARIABLES
  latest,      \* the revision a decision would be about
  text,        \* preserved revisions: revision -> content
  decision,    \* what the last person decided
  delivered    \* revisions that left: exports and handovers

vars == <<latest, text, decision, delivered>>

Decisions == {"pending", "approved", "rejected", "simulated"}

TypeOK ==
  /\ latest \in Nat \ {0}
  /\ DOMAIN text \subseteq 1..latest
  /\ \A r \in DOMAIN text : text[r] \in Contents
  /\ decision \in Decisions
  /\ delivered \subseteq [revision : Nat \ {0}, content : Contents]

(* A database written by an older build has decided drafts, some of them   *)
(* ended, whose text was never preserved.                                  *)
Init ==
  /\ latest = 1
  /\ DOMAIN text \subseteq {1}
  /\ \A r \in DOMAIN text : text[r] \in Contents
  /\ decision \in Decisions
  /\ decision # "pending" => DOMAIN text = {}
  /\ delivered = {}

(* text' preserves everything text did, and content c as revision r. *)
Preserves(r, c) ==
  text' = [i \in DOMAIN text \cup {r} |-> IF i = r THEN c ELSE text[i]]

Revise ==
  /\ decision # "simulated"
  /\ latest' = latest + 1
  /\ \E c \in Contents : Preserves(latest + 1, c)
  /\ decision' = "pending"
  /\ UNCHANGED delivered

(* Only text that is preserved can be approved, and approving what was     *)
(* preserved earlier does not change it.                                   *)
Approve ==
  /\ decision \in {"pending", "approved"}
  /\ \/ latest \in DOMAIN text /\ UNCHANGED text
     \/ latest \notin DOMAIN text /\ \E c \in Contents : Preserves(latest, c)
  /\ decision' = "approved"
  /\ UNCHANGED <<latest, delivered>>

Reject ==
  /\ decision # "simulated"
  /\ decision' = "rejected"
  /\ UNCHANGED <<latest, text, delivered>>

Deliver ==
  /\ decision = "approved"
  /\ latest \in DOMAIN text
  /\ delivered' = delivered \cup {[revision |-> latest, content |-> text[latest]]}
  /\ UNCHANGED <<latest, text, decision>>

(* The handover ends the draft: what was handed over is what is preserved. *)
Simulate ==
  /\ decision = "approved"
  /\ latest \in DOMAIN text
  /\ [revision |-> latest, content |-> text[latest]] \in delivered
  /\ decision' = "simulated"
  /\ UNCHANGED <<latest, text, delivered>>

Next == Revise \/ Approve \/ Reject \/ Deliver \/ Simulate

Spec == Init /\ [][Next]_vars
=============================================================================
