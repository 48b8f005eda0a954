--------------------------- MODULE ReleaseContract ---------------------------
(***************************************************************************)
(* What a release promises to those who read its numbers: the truth is     *)
(* frozen before the images are pinned, the images before the corpus is    *)
(* there, none of the three is ever written again, and every run that is   *)
(* published is sound over the truth frozen first.  Release is shown to    *)
(* implement it.                                                           *)
(***************************************************************************)
CONSTANTS
  Truths,   \* the truths a freeze may name
  Sound,    \* of each truth, the runs scored by it in which no wrong sheet got out
  None      \* not written yet

VARIABLES
  freeze,      \* the frozen truth
  pin,         \* the pinned inventory
  corpus,      \* the inventory of the corpus that is committed
  published    \* the runs whose numbers are released

vars == <<freeze, pin, corpus, published>>

Init == freeze = None /\ pin = None /\ corpus = None /\ published = {}

Freeze ==
  /\ freeze = None /\ pin = None /\ corpus = None
  /\ freeze' \in Truths
  /\ UNCHANGED <<pin, corpus, published>>

Pin ==
  /\ freeze # None /\ pin = None /\ corpus = None
  /\ pin' # None
  /\ UNCHANGED <<freeze, corpus, published>>

(* The corpus is the pinned one, and it is of the frozen truth. *)
Corpus ==
  /\ pin # None /\ corpus = None
  /\ corpus' = pin /\ pin.gt = freeze
  /\ UNCHANGED <<freeze, pin, published>>

Release ==
  /\ corpus # None
  /\ \E run \in published' : run \in Sound[freeze] /\ published' = published \cup {run}
  /\ UNCHANGED <<freeze, pin, corpus>>

Next == Freeze \/ Pin \/ Corpus \/ Release

Spec == Init /\ [][Next]_vars
=============================================================================
