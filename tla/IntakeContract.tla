--------------------------- MODULE IntakeContract ---------------------------
(***************************************************************************)
(* What intakes promise to the review desk, whatever fails, times out or   *)
(* crashes among them: a source becomes a row in one step, with a fresh    *)
(* sheet whose page directory, if it names one, is already there, or it is *)
(* lost and never becomes one; and neither a row nor a page directory is   *)
(* taken back or changed by any later intake.  Intake is shown to          *)
(* implement it.                                                           *)
(***************************************************************************)
CONSTANTS
  Intakes,   \* runs of the pipeline, one source each
  Fresh      \* the sheets a review begins with

VARIABLES
  rows,          \* the committed intakes, with their sheets
  directories,   \* the intakes with a page directory
  lost           \* the intakes that ended without a row

vars == <<rows, directories, lost>>

Stored == DOMAIN rows

Init == Stored = {} /\ directories = {} /\ lost = {}

(* The page directory of an intake that is under way appears, complete.    *)
Publish(i) ==
  /\ i \notin Stored \cup lost \cup directories
  /\ directories' = directories \cup {i}
  /\ UNCHANGED <<rows, lost>>

Store(i) ==
  /\ i \notin Stored \cup lost
  /\ \E s \in Fresh :
       /\ s.evidence <=> i \in directories
       /\ rows' = [j \in Stored \cup {i} |-> IF j = i THEN s ELSE rows[j]]
  /\ UNCHANGED <<directories, lost>>

(* An exception ends one intake, a crash all that are under way.           *)
Lose(gone) ==
  /\ gone # {} /\ gone \cap (Stored \cup lost) = {}
  /\ lost' = lost \cup gone
  /\ UNCHANGED <<rows, directories>>

Next ==
  \/ \E i \in Intakes : Publish(i) \/ Store(i)
  \/ \E gone \in SUBSET Intakes : Lose(gone)

Spec == Init /\ [][Next]_vars
=============================================================================
