----------------------------- MODULE QueuePaging -----------------------------
(***************************************************************************)
(* The review queue of list_draft_page (src/api/repository.py): a reviewer *)
(* walks a newest-first listing page by page, each page a query of its own *)
(* that starts after the cursor the last page ended with, while intakes    *)
(* insert drafts and decisions move drafts between the status filters.     *)
(***************************************************************************)
EXTENDS Integers, FiniteSets

CONSTANTS
  MaxDrafts,   \* bound: drafts in the store
  Times,       \* values of created_at
  PageSize     \* the limit of a page

ASSUME PagingAssumption ==
  MaxDrafts \in Nat \ {0} /\ Times \subseteq Int /\ PageSize \in Nat \ {0}

VARIABLES
  rows,     \* the drafts: id -> [created, status, simulated]
  filter,   \* the status filter of the walk
  cursor,   \* the sort key of the last row listed, or Start
  shown,    \* the ids the walk has listed
  listed,   \* how many rows it has listed
  stayed,   \* the ids that have matched the filter since the walk began
  walking   \* the walk has pages left

vars == <<rows, filter, cursor, shown, listed, stayed, walking>>

Statuses == {"pending", "approved", "rejected", "simulated"}
Filters == Statuses \cup {"all"}
Ids == 1..MaxDrafts
Start == [created |-> 0, id |-> 0]   \* ids are positive

TypeOK ==
  /\ DOMAIN rows \subseteq Ids
  /\ \A d \in DOMAIN rows :
       rows[d] \in [created : Times, status : Statuses, simulated : BOOLEAN]
  /\ filter \in Filters
  /\ cursor = Start \/ cursor \in [created : Times, id : Ids]
  /\ shown \subseteq DOMAIN rows
  /\ listed \in Nat
  /\ stayed \subseteq DOMAIN rows
  /\ walking \in BOOLEAN

(* A filter that goes by the status alone. *)
MatchesStatus(row, f) ==
  CASE f = "all" -> TRUE
    [] f = "simulated" -> row.simulated
    [] f \in {"pending", "approved", "rejected"} -> row.status = f

(* simulated_at, not the status, says that a draft was simulated: rows an  *)
(* older build sent may still have status approved.                        *)
Matches(row, f) ==
  CASE f = "all" -> TRUE
    [] f = "simulated" -> row.simulated
    [] f = "approved" -> row.status = "approved" /\ ~row.simulated
    [] f \in {"pending", "rejected"} -> row.status = f

Key(d) == [created |-> rows[d].created, id |-> d]

(* Ties on created_at are broken by id. *)
Older(k, l) == k.created < l.created \/ (k.created = l.created /\ k.id < l.id)

(* The rows the query selects after the cursor, before its LIMIT. *)
Selected == {d \in DOMAIN rows : /\ Matches(rows[d], filter)
                                 /\ cursor = Start \/ Older(Key(d), cursor)}

(* ORDER BY created_at DESC, id DESC LIMIT n. *)
Newest(n) ==
  {d \in Selected : Cardinality({e \in Selected : Older(Key(d), Key(e))}) < n}

Init ==
  /\ rows \in [{} -> {}] \cup
              [{1} -> [created : Times, status : {"approved"}, simulated : {TRUE}]]
  /\ filter = "all"
  /\ cursor = Start
  /\ shown = {} /\ listed = 0 /\ stayed = {}
  /\ walking = FALSE

(* GET / or GET /drafts without a cursor: the first page begins a walk. *)
Open(f) ==
  /\ ~walking
  /\ filter' = f
  /\ cursor' = Start
  /\ shown' = {} /\ listed' = 0
  /\ stayed' = {d \in DOMAIN rows : Matches(rows[d], f)}
  /\ walking' = TRUE
  /\ UNCHANGED rows

(* A page whose cursor is the row it fetched only to see whether there is *)
(* another page.                                                          *)
TurnPagePastEnd ==
  /\ walking
  /\ LET page == Newest(PageSize)
         more == Newest(PageSize + 1) # page
     IN  /\ shown' = shown \cup page
         /\ listed' = listed + Cardinality(page)
         /\ walking' = more
         /\ IF more
            THEN \E d \in Newest(PageSize + 1) \ page : cursor' = Key(d)
            ELSE UNCHANGED cursor
  /\ UNCHANGED <<rows, filter, stayed>>

(* A page whose cursor forgets the id that breaks ties. *)
TurnPageWithoutTieBreak ==
  /\ walking
  /\ LET page == Newest(PageSize)
         more == Newest(PageSize + 1) # page
     IN  /\ shown' = shown \cup page
         /\ listed' = listed + Cardinality(page)
         /\ walking' = more
         /\ IF more
            THEN \E d \in page :
                   /\ \A e \in page : e = d \/ Older(Key(d), Key(e))
                   /\ cursor' = [created |-> Key(d).created, id |-> MaxDrafts + 1]
            ELSE UNCHANGED cursor
  /\ UNCHANGED <<rows, filter, stayed>>

(* A page that hands out the cursor it was asked with. *)
TurnPageRestarting ==
  /\ walking
  /\ LET page == Newest(PageSize)
     IN  /\ shown' = shown \cup page
         /\ listed' = Cardinality(shown \cup page)
         /\ walking' = (Newest(PageSize + 1) # page)
  /\ UNCHANGED <<rows, filter, cursor, stayed>>

(* One query of limit + 1 rows: the extra row only tells that there is a   *)
(* next page, whose cursor is the last row listed.                         *)
TurnPage ==
  /\ walking
  /\ LET page == Newest(PageSize)
         more == Newest(PageSize + 1) # page
     IN  /\ shown' = shown \cup page
         /\ listed' = listed + Cardinality(page)
         /\ walking' = more
         /\ IF more
            THEN \E d \in page :
                   /\ \A e \in page : e = d \/ Older(Key(d), Key(e))
                   /\ cursor' = Key(d)
            ELSE UNCHANGED cursor
  /\ UNCHANGED <<rows, filter, stayed>>

(* create_draft: created_at is read from the wall clock before the row is  *)
(* flushed, so a row may be older than rows already there.                 *)
Insert(time) ==
  LET d == Cardinality(DOMAIN rows) + 1
  IN  /\ d \in Ids
      /\ rows' = [e \in DOMAIN rows \cup {d} |->
                    IF e = d THEN [created |-> time, status |-> "pending", simulated |-> FALSE]
                    ELSE rows[e]]
      /\ UNCHANGED <<filter, cursor, shown, listed, stayed, walking>>

(* What ReviewDesk does to a draft: created_at and the id never change.    *)
Decide(d, status) ==
  /\ ~rows[d].simulated
  /\ status = "simulated" => rows[d].status = "approved"
  /\ status = "approved" => rows[d].status # "rejected"
  /\ rows' = [rows EXCEPT ![d].status = status, ![d].simulated = (status = "simulated")]
  /\ stayed' = stayed \ (IF Matches(rows'[d], filter) THEN {} ELSE {d})
  /\ UNCHANGED <<filter, cursor, shown, listed, walking>>

Next ==
  \/ \E f \in Filters : Open(f)
  \/ TurnPage
  \/ \E time \in Times : Insert(time)
  \/ \E d \in DOMAIN rows, status \in Statuses : Decide(d, status)

Spec == Init /\ [][Next]_vars

(* A reviewer who follows "next page" keeps following it. *)
FairSpec == Spec /\ WF_vars(TurnPage)

-----------------------------------------------------------------------------
(* No draft is listed twice in one walk, whatever is inserted or decided   *)
(* between its pages.                                                      *)
NothingListedTwice == listed = Cardinality(shown)

(* A finished walk has listed every draft that was in the filter from its  *)
(* first page to its last: none is skipped because others came or went.    *)
WalkIsComplete == ~walking => stayed \subseteq shown

(* The status filters share the queue out: every draft is under exactly    *)
(* one of them, also one an older build sent without changing its status.  *)
FiltersPartition ==
  \A d \in DOMAIN rows : Cardinality({f \in Statuses : Matches(rows[d], f)}) = 1

(* A walk ends: pages do not feed on the rows inserted while they are read. *)
WalkEnds == walking ~> ~walking
=============================================================================
