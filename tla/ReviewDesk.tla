----------------------------- MODULE ReviewDesk ------------------------------
(***************************************************************************)
(* The review desk of one draft: reviewers' pages, the request handlers of *)
(* src/api/routes_htmx.py, the approval gate of src/api/gate.py and the    *)
(* transactions of src/api/repository.py, over a SQLite store that         *)
(* survives the process.                                                   *)
(*                                                                         *)
(* A request first checks, outside any lock, the snapshot (revision and    *)
(* state hash) its form carries; it then takes the draft's operation lock, *)
(* checks again and commits.  draft_operation_lock is the variable holder  *)
(* here: DraftLock shows that the registry implements such a lock.  Drafts *)
(* share nothing else, so one draft is enough.                             *)
(*                                                                         *)
(* A step under the lock is one step up to its commit and the release:     *)
(* nobody else writes the draft while the lock is held, and what others    *)
(* can do meanwhile (read pages, be refused) reads only committed data.    *)
(***************************************************************************)
EXTENDS Naturals, Sequences

CONSTANTS
  Clients,        \* reviewers' pages, each with at most one request in flight
  Contents,       \* contents of state_json, as told apart by its hash
  ReadyContents,  \* those without an operational blocker of their own
  SheetContents,  \* those whose spreadsheet has rows to export
  Intake,         \* what the pipeline produced: never ready before a review
  Nobody,         \* the holder of a free lock
  NoSnapshot,     \* a page never loaded, a missing stamp, an audit row without hash
  MaxRequests,    \* bound: requests sent
  MaxFaults,      \* bound: failed commits and changes of the page evidence
  MaxRestarts     \* bound: crashes of the process

ASSUME ContentsAssumption ==
  /\ ReadyContents \subseteq Contents
  /\ SheetContents \subseteq Contents
  /\ Intake \in Contents \ ReadyContents
ASSUME ClientsAssumption == Nobody \notin Clients
ASSUME SnapshotAssumption == NoSnapshot \notin [revision : Nat, content : Contents]

VARIABLES
  draft,      \* the row of Draft
  snapshots,  \* the rows of DraftRevision: revision -> content
  audit,      \* the rows of AuditEntry, in commit order
  evidence,   \* the page files still have the bytes the state names
  configOk,   \* the process runs the report configuration of the draft
  alive,      \* the process is up
  holder,     \* who is inside draft_operation_lock
  pc,         \* where each client's request is
  job,        \* its operation, expected snapshot and new content
  tab,        \* the page: content shown and forms below it, token of the panel
  handed,     \* what the recorders of all processes were given
  requests, faults, restarts   \* what the bounds count

store == <<draft, snapshots, audit>>
world == <<evidence, configOk, alive>>
spent == <<requests, faults, restarts>>
vars == <<store, world, holder, pc, job, tab, handed, spent>>

Ops == {"approve", "reject", "simulate", "edit", "export"}
Statuses == {"pending", "approved", "rejected", "simulated"}
Actions == {"submitted", "edited", "approval_revoked", "status:approved",
            "status:rejected", "status_blocked", "edit_blocked",
            "simulation_blocked", "simulation_completed", "export_csv"}
Snapshots == [revision : Nat, content : Contents]

StoreOK ==
  /\ draft \in [status : Statuses, simulated : BOOLEAN, revision : Nat \ {0},
                content : Contents, stamp : Snapshots \cup {NoSnapshot}]
  /\ DOMAIN snapshots \subseteq 1..draft.revision
  /\ \A r \in DOMAIN snapshots : snapshots[r] \in Contents
  /\ audit \in Seq([action : Actions, snapshot : Snapshots \cup {NoSnapshot}])
  /\ handed \in Seq(Snapshots)

DeskOK ==
  /\ evidence \in BOOLEAN /\ configOk \in BOOLEAN /\ alive \in BOOLEAN
  /\ holder \in Clients \cup {Nobody}
  /\ pc \in [Clients -> {"idle", "queued", "inside", "recorded", "answering"}]
  /\ job \in [Clients -> [op : Ops, expected : Snapshots \cup {NoSnapshot},
                          content : Contents]]
  /\ tab \in [Clients -> [shown : Snapshots \cup {NoSnapshot},
                          token : Snapshots \cup {NoSnapshot}]]
  /\ requests \in Nat /\ faults \in Nat /\ restarts \in Nat

TypeOK == StoreOK /\ DeskOK

Current == [revision |-> draft.revision, content |-> draft.content]

Row(a, s) == [action |-> a, snapshot |-> s]

NoJob == [op |-> "edit", expected |-> NoSnapshot, content |-> Intake]

(* draft.simulated is "simulated_at is not None".  This build sets it with *)
(* the status; a row an older build sent has it under status approved, as  *)
(* the column is the old sent_at.                                          *)
Terminal == draft.status = "simulated" \/ draft.simulated

(* evaluate_readiness: approvable, and exportable (which is simulatable).  *)
(* It does not look at simulated_at.                                       *)
Approvable == draft.content \in ReadyContents /\ evidence /\ configOk

Deliverable == Approvable /\ draft.status = "approved" /\ draft.stamp = Current

(* create_draft's row, or the row of a database an older build wrote,      *)
(* decided or already sent: the migrations add the stamp columns empty and *)
(* preserve no revision.                                                   *)
Init ==
  /\ \/ /\ draft = [status |-> "pending", simulated |-> FALSE, revision |-> 1,
                    content |-> Intake, stamp |-> NoSnapshot]
        /\ snapshots = [r \in {1} |-> Intake]
        /\ audit = <<Row("submitted", Current)>>
     \/ /\ \E s \in {"pending", "approved", "rejected"}, sent \in BOOLEAN, c \in Contents :
             /\ sent => s = "approved"
             /\ draft = [status |-> s, simulated |-> sent, revision |-> 1,
                         content |-> c, stamp |-> NoSnapshot]
        /\ snapshots = [r \in {} |-> Intake]
        /\ audit = (CASE draft.status = "pending" -> <<Row("submitted", NoSnapshot)>>
                      [] draft.status = "approved" ->
                           <<Row("submitted", NoSnapshot), Row("status:approved", NoSnapshot)>>
                      [] draft.status = "rejected" ->
                           <<Row("submitted", NoSnapshot), Row("status:rejected", NoSnapshot)>>)
  /\ evidence = TRUE /\ configOk = TRUE /\ alive = TRUE
  /\ holder = Nobody
  /\ pc = [c \in Clients |-> "idle"]
  /\ job = [c \in Clients |-> NoJob]
  /\ tab = [c \in Clients |-> [shown |-> NoSnapshot, token |-> NoSnapshot]]
  /\ handed = <<>>
  /\ requests = 0 /\ faults = 0 /\ restarts = 0

-----------------------------------------------------------------------------
(* Answers.  A JSON caller, and a browser that lost the answer, keeps the  *)
(* page it had; htmx does not swap a 409 or a 500 in, so those leave every *)
(* page alone.                                                             *)
KeepsPage == UNCHANGED tab

ShowsPanel(c, s) == KeepsPage \/ tab' = [tab EXCEPT ![c].token = s]

ShowsReview(c, s) == KeepsPage \/ tab' = [tab EXCEPT ![c] = [shown |-> s, token |-> s]]

Goto(c, step) == pc' = [pc EXCEPT ![c] = step]

(* The request is over, and its local variables with it. *)
Finish(c) == Goto(c, "idle") /\ job' = [job EXCEPT ![c] = NoJob]

Leave(c) == holder' = Nobody /\ Finish(c)

Log(a, s) == audit' = Append(audit, Row(a, s))

(* _stage_revision. *)
Preserve(r, content) ==
  snapshots' = [i \in DOMAIN snapshots \cup {r} |-> IF i = r THEN content ELSE snapshots[i]]

-----------------------------------------------------------------------------
(* GET /drafts/{id}/review. *)
OpenReview(c) ==
  /\ alive /\ pc[c] = "idle"
  /\ tab' = [tab EXCEPT ![c] = [shown |-> Current, token |-> Current]]
  /\ UNCHANGED <<store, world, holder, pc, job, handed, spent>>

Send(c, op, expected, content) ==
  /\ alive /\ pc[c] = "idle"
  /\ requests < MaxRequests
  /\ requests' = requests + 1
  /\ job' = [job EXCEPT ![c] = [op |-> op, expected |-> expected, content |-> content]]
  /\ Goto(c, "queued")
  /\ UNCHANGED <<store, world, holder, tab, handed, faults, restarts>>

(* A decision posted from the status panel passes assert_expected_snapshot *)
(* and compatible_state, on the draft as it is before the lock.  A form    *)
(* that does not pass is answered with a 409 and changes nothing.          *)
SendDecision(c) ==
  /\ configOk /\ tab[c].token = Current
  /\ \E op \in {"approve", "reject", "simulate"} : Send(c, op, tab[c].token, Intake)

(* A correction of the content shown.  The draft is read before the form   *)
(* body is awaited; the body only ever arrives later.                      *)
SendEdit(c) ==
  /\ configOk /\ tab[c].shown = Current /\ ~draft.simulated
  /\ \E content \in Contents : Send(c, "edit", tab[c].shown, content)

(* apply_table_review refuses a contradictory form: the page is rendered   *)
(* again, panel included, from the draft read before the body was awaited. *)
EditFormRefused(c) ==
  /\ alive /\ pc[c] = "idle"
  /\ configOk /\ tab[c].shown = Current /\ ~draft.simulated
  /\ ShowsReview(c, Current)
  /\ UNCHANGED <<store, world, holder, pc, job, handed, spent>>

(* An export checks nothing before the lock. *)
SendExport(c) ==
  /\ tab[c].shown # NoSnapshot
  /\ Send(c, "export", tab[c].shown, Intake)

(* An operation that does not look at what acquire returned. *)
AcquireBusy(c) ==
  /\ pc[c] = "queued"
  /\ holder' = c
  /\ Goto(c, "inside")
  /\ UNCHANGED <<store, world, job, tab, handed, spent>>

(* draft_operation_lock: everybody but simulate_draft tries without waiting. *)
Acquire(c) ==
  /\ pc[c] = "queued"
  /\ holder = Nobody
  /\ holder' = c
  /\ Goto(c, "inside")
  /\ UNCHANGED <<store, world, job, tab, handed, spent>>

Refuse(c) ==
  /\ pc[c] = "queued"
  /\ job[c].op # "simulate"
  /\ holder # Nobody
  /\ Finish(c)
  /\ UNCHANGED <<store, world, holder, tab, handed, spent>>

-----------------------------------------------------------------------------
Inside(c, op) == pc[c] = "inside" /\ job[c].op = op

(* approve_draft raises DraftNotReviewableError: ui_approve answers with   *)
(* the status panel alone, of the draft it read under the lock.            *)
ApproveBlocked(c) ==
  /\ Inside(c, "approve")
  /\ \/ job[c].expected # Current
     \/ draft.status = "rejected"
     \/ ~Approvable
  /\ Leave(c)
  /\ ShowsPanel(c, Current)
  /\ UNCHANGED <<store, world, handed, spent>>

(* _set_status_locked on a terminal draft. *)
ApproveAfterSimulation(c) ==
  /\ Inside(c, "approve")
  /\ job[c].expected = Current /\ Approvable /\ draft.status # "rejected"
  /\ Terminal
  /\ Log("status_blocked", NoSnapshot)
  /\ Leave(c)
  /\ UNCHANGED <<draft, snapshots, world, tab, handed, spent>>

(* _ensure_revision_snapshot finds other content preserved: rolled back. *)
ApproveConflict(c) ==
  /\ Inside(c, "approve")
  /\ job[c].expected = Current /\ Approvable /\ draft.status # "rejected"
  /\ ~Terminal
  /\ draft.revision \in DOMAIN snapshots
  /\ snapshots[draft.revision] # draft.content
  /\ Leave(c)
  /\ UNCHANGED <<store, world, tab, handed, spent>>

(* An approval that trusts the check made before the lock. *)
ApproveUnchecked(c) ==
  /\ Inside(c, "approve")
  /\ Approvable /\ draft.status # "rejected" /\ ~Terminal
  /\ draft' = [draft EXCEPT !.status = "approved", !.stamp = job[c].expected]
  /\ \/ draft.revision \in DOMAIN snapshots /\ UNCHANGED snapshots
     \/ draft.revision \notin DOMAIN snapshots /\ Preserve(draft.revision, draft.content)
  /\ Log("status:approved", Current)
  /\ Leave(c)
  /\ ShowsReview(c, Current)
  /\ UNCHANGED <<world, handed, spent>>

(* An approval that replaces a preserved revision it disagrees with. *)
ApproveReplacing(c) ==
  /\ Inside(c, "approve")
  /\ job[c].expected = Current /\ Approvable /\ draft.status # "rejected"
  /\ ~Terminal
  /\ draft' = [draft EXCEPT !.status = "approved", !.stamp = Current]
  /\ Preserve(draft.revision, draft.content)
  /\ Log("status:approved", Current)
  /\ Leave(c)
  /\ ShowsReview(c, Current)
  /\ UNCHANGED <<world, handed, spent>>

(* The snapshot is preserved or found identical, stamped and audited in    *)
(* one transaction.                                                        *)
ApproveCommit(c) ==
  /\ Inside(c, "approve")
  /\ job[c].expected = Current /\ Approvable /\ draft.status # "rejected"
  /\ ~Terminal
  /\ \/ /\ draft.revision \in DOMAIN snapshots
        /\ snapshots[draft.revision] = draft.content
        /\ UNCHANGED snapshots
     \/ /\ draft.revision \notin DOMAIN snapshots
        /\ Preserve(draft.revision, draft.content)
  /\ draft' = [draft EXCEPT !.status = "approved", !.stamp = Current]
  /\ Log("status:approved", Current)
  /\ Leave(c)
  /\ ShowsReview(c, Current)
  /\ UNCHANGED <<world, handed, spent>>

-----------------------------------------------------------------------------
RejectConflict(c) ==
  /\ Inside(c, "reject")
  /\ job[c].expected # Current
  /\ Leave(c)
  /\ UNCHANGED <<store, world, tab, handed, spent>>

RejectAfterSimulation(c) ==
  /\ Inside(c, "reject")
  /\ job[c].expected = Current /\ Terminal
  /\ Log("status_blocked", NoSnapshot)
  /\ Leave(c)
  /\ UNCHANGED <<draft, snapshots, world, tab, handed, spent>>

(* A rejection that goes by the status alone. *)
RejectByStatus(c) ==
  /\ Inside(c, "reject")
  /\ job[c].expected = Current /\ draft.status # "simulated"
  /\ draft' = [draft EXCEPT !.status = "rejected", !.stamp = NoSnapshot]
  /\ Log("status:rejected", Current)
  /\ Leave(c)
  /\ ShowsReview(c, Current)
  /\ UNCHANGED <<snapshots, world, handed, spent>>

RejectCommit(c) ==
  /\ Inside(c, "reject")
  /\ job[c].expected = Current /\ ~Terminal
  /\ draft' = [draft EXCEPT !.status = "rejected", !.stamp = NoSnapshot]
  /\ Log("status:rejected", Current)
  /\ Leave(c)
  /\ ShowsReview(c, Current)
  /\ UNCHANGED <<snapshots, world, handed, spent>>

-----------------------------------------------------------------------------
EditConflict(c) ==
  /\ Inside(c, "edit")
  /\ job[c].expected # Current
  /\ Leave(c)
  /\ UNCHANGED <<store, world, tab, handed, spent>>

(* The draft was simulated between the route's check and the lock. *)
EditAfterSimulation(c) ==
  /\ Inside(c, "edit")
  /\ job[c].expected = Current /\ Terminal
  /\ Log("edit_blocked", NoSnapshot)
  /\ Leave(c)
  /\ UNCHANGED <<draft, snapshots, world, tab, handed, spent>>

(* _update_state_locked: a new revision, which reopens a decided draft. *)
Revised(content) ==
  IF draft.status = "pending"
  THEN [draft EXCEPT !.revision = @ + 1, !.content = content]
  ELSE [draft EXCEPT !.status = "pending", !.revision = @ + 1, !.content = content,
                     !.stamp = NoSnapshot]

Revision(content) == [revision |-> draft.revision + 1, content |-> content]

(* The revocation is audited only when there was an approval to revoke. *)
EditRows(content) ==
  IF draft.status = "approved"
  THEN <<Row("approval_revoked", Revision(content)), Row("edited", Revision(content))>>
  ELSE <<Row("edited", Revision(content))>>

(* A save that trusts the check made before the lock. *)
EditUnchecked(c) ==
  /\ Inside(c, "edit")
  /\ ~Terminal
  /\ draft' = Revised(job[c].content)
  /\ Preserve(draft.revision + 1, job[c].content)
  /\ audit' = audit \o EditRows(job[c].content)
  /\ Leave(c)
  /\ ShowsReview(c, Revision(job[c].content))
  /\ UNCHANGED <<world, handed, spent>>

(* A save that keeps the decision about the earlier revision. *)
EditKeepingDecision(c) ==
  /\ Inside(c, "edit")
  /\ job[c].expected = Current /\ ~Terminal
  /\ draft' = [draft EXCEPT !.revision = @ + 1, !.content = job[c].content]
  /\ Preserve(draft.revision + 1, job[c].content)
  /\ audit' = audit \o EditRows(job[c].content)
  /\ Leave(c)
  /\ ShowsReview(c, Revision(job[c].content))
  /\ UNCHANGED <<world, handed, spent>>

EditCommit(c) ==
  /\ Inside(c, "edit")
  /\ job[c].expected = Current /\ ~Terminal
  /\ draft' = Revised(job[c].content)
  /\ Preserve(draft.revision + 1, job[c].content)
  /\ audit' = audit \o EditRows(job[c].content)
  /\ Leave(c)
  /\ ShowsReview(c, Revision(job[c].content))
  /\ UNCHANGED <<world, handed, spent>>

-----------------------------------------------------------------------------
(* _simulate_draft_once refuses: the refusal is audited and committed, the *)
(* lock released, and ui_simulate reads the draft again to answer.         *)
SimulateBlocked(c) ==
  /\ Inside(c, "simulate")
  /\ job[c].expected # Current \/ Terminal \/ ~Deliverable
  /\ Log("simulation_blocked", NoSnapshot)
  /\ holder' = Nobody
  /\ Goto(c, "answering")
  /\ UNCHANGED <<draft, snapshots, world, job, tab, handed, spent>>

AnswerBlocked(c) ==
  /\ pc[c] = "answering"
  /\ Finish(c)
  /\ ShowsPanel(c, Current)
  /\ UNCHANGED <<store, world, holder, handed, spent>>

(* A handover that looks at the approval but not at what became of it. *)
RecordStampOnly(c) ==
  /\ Inside(c, "simulate")
  /\ job[c].expected = Current /\ draft.stamp = Current
  /\ handed' = Append(handed, Current)
  /\ Goto(c, "recorded")
  /\ UNCHANGED <<store, world, holder, job, tab, spent>>

(* The recorder is called before anything is committed. *)
Record(c) ==
  /\ Inside(c, "simulate")
  /\ job[c].expected = Current /\ ~Terminal /\ Deliverable
  /\ handed' = Append(handed, Current)
  /\ Goto(c, "recorded")
  /\ UNCHANGED <<store, world, holder, job, tab, spent>>

(* A mark that leaves the terminal transition out of the audit. *)
MarkUnaudited(c) ==
  /\ pc[c] = "recorded"
  /\ draft' = [draft EXCEPT !.status = "simulated", !.simulated = TRUE]
  /\ Leave(c)
  /\ ShowsReview(c, Current)
  /\ UNCHANGED <<snapshots, audit, world, handed, spent>>

(* A mark that keeps the lock after its commit. *)
MarkKeepingLock(c) ==
  /\ pc[c] = "recorded"
  /\ draft' = [draft EXCEPT !.status = "simulated", !.simulated = TRUE]
  /\ Log("simulation_completed", Current)
  /\ Finish(c)
  /\ ShowsReview(c, Current)
  /\ UNCHANGED <<snapshots, world, holder, handed, spent>>

(* _mark_simulated_locked: it checks the row and its stamp again, as the   *)
(* session has held it since the lock was taken.                           *)
MarkCommit(c) ==
  /\ pc[c] = "recorded"
  /\ ~Terminal /\ draft.status = "approved" /\ draft.stamp = Current
  /\ draft' = [draft EXCEPT !.status = "simulated", !.simulated = TRUE]
  /\ Log("simulation_completed", Current)
  /\ Leave(c)
  /\ ShowsReview(c, Current)
  /\ UNCHANGED <<snapshots, world, handed, spent>>

-----------------------------------------------------------------------------
ExportRefused(c) ==
  /\ Inside(c, "export")
  /\ \/ job[c].expected # Current
     \/ ~Deliverable
     \/ draft.content \notin SheetContents
  /\ Leave(c)
  /\ UNCHANGED <<store, world, tab, handed, spent>>

(* An export of whatever the draft became, under the form's old snapshot. *)
ExportUnchecked(c) ==
  /\ Inside(c, "export")
  /\ draft.status = "approved" /\ draft.content \in SheetContents
  /\ Log("export_csv", Current)
  /\ Leave(c)
  /\ UNCHANGED <<draft, snapshots, world, tab, handed, spent>>

ExportCommit(c) ==
  /\ Inside(c, "export")
  /\ job[c].expected = Current /\ Deliverable /\ draft.content \in SheetContents
  /\ Log("export_csv", Current)
  /\ Leave(c)
  /\ UNCHANGED <<draft, snapshots, world, tab, handed, spent>>

-----------------------------------------------------------------------------
(* A commit under the lock fails (the database is locked or full): the     *)
(* transaction is rolled back, the lock released, the answer is a 500.     *)
CommitFails(c) ==
  /\ pc[c] \in {"inside", "recorded"}
  /\ faults < MaxFaults
  /\ faults' = faults + 1
  /\ Leave(c)
  /\ UNCHANGED <<store, world, tab, handed, requests, restarts>>

(* A page file is lost or replaced, or put back. *)
EvidenceChanges ==
  /\ faults < MaxFaults
  /\ faults' = faults + 1
  /\ evidence' = ~evidence
  /\ UNCHANGED <<store, configOk, alive, holder, pc, job, tab, handed, requests, restarts>>

(* The process dies with its requests, its lock registry and its recorder; *)
(* what was committed and the pages in the browsers remain.                *)
Crash ==
  /\ alive
  /\ restarts < MaxRestarts
  /\ restarts' = restarts + 1
  /\ alive' = FALSE
  /\ holder' = Nobody
  /\ pc' = [c \in Clients |-> "idle"]
  /\ job' = [c \in Clients |-> NoJob]
  /\ UNCHANGED <<store, evidence, configOk, tab, handed, requests, faults>>

(* Somebody edits state_json behind the application's back, the tampering  *)
(* the stored hashes are there to notice.                                  *)
OfflineWrite ==
  /\ ~alive
  /\ faults < MaxFaults
  /\ faults' = faults + 1
  /\ \E content \in Contents \ {draft.content} : draft' = [draft EXCEPT !.content = content]
  /\ UNCHANGED <<snapshots, audit, world, holder, pc, job, tab, handed, requests, restarts>>

(* The next process may be started with another report configuration. *)
Restart ==
  /\ ~alive
  /\ alive' = TRUE
  /\ configOk' \in BOOLEAN
  /\ UNCHANGED <<store, evidence, holder, pc, job, tab, handed, spent>>

Handle(c) ==
  \/ Acquire(c) \/ Refuse(c)
  \/ ApproveBlocked(c) \/ ApproveAfterSimulation(c) \/ ApproveConflict(c) \/ ApproveCommit(c)
  \/ RejectConflict(c) \/ RejectAfterSimulation(c) \/ RejectCommit(c)
  \/ EditConflict(c) \/ EditAfterSimulation(c) \/ EditCommit(c)
  \/ SimulateBlocked(c) \/ AnswerBlocked(c) \/ Record(c) \/ MarkCommit(c)
  \/ ExportRefused(c) \/ ExportCommit(c)

Ask(c) ==
  OpenReview(c) \/ SendDecision(c) \/ SendEdit(c) \/ EditFormRefused(c) \/ SendExport(c)

Environment == EvidenceChanges \/ Crash \/ OfflineWrite \/ Restart

Next ==
  \/ \E c \in Clients : Ask(c) \/ Handle(c) \/ CommitFails(c)
  \/ Environment

Spec == Init /\ [][Next]_vars

(* A request that can go on is scheduled; who asks, fails or crashes is    *)
(* not promised anything.                                                  *)
FairSpec == Spec /\ \A c \in Clients : WF_vars(Handle(c))

-----------------------------------------------------------------------------
(* The stamp of an approval is the draft's own revision and a preserved    *)
(* snapshot, and no decision but an approval keeps one; whatever happened  *)
(* to state_json since, the stamp proves what was approved.  A terminal    *)
(* draft has the stamp of what this build handed over; one that an older   *)
(* build sent has none, and never gets one from an approval after the fact *)
(* (_set_status_locked, _mark_simulated_locked).                           *)
ApprovalBindsContent ==
  /\ draft.stamp # NoSnapshot =>
       /\ draft.status \in {"approved", "simulated"}
       /\ draft.stamp.revision = draft.revision
       /\ draft.revision \in DOMAIN snapshots
       /\ snapshots[draft.revision] = draft.stamp.content
  /\ draft.status = "simulated" => draft.simulated
  /\ draft.simulated => (draft.status = "simulated" <=> draft.stamp # NoSnapshot)

(* However many simulations are asked for, one process hands a draft over  *)
(* once: a second handover needs a failed commit or a crash in between.    *)
HandoffOnce == Len(handed) <= 1 + faults + restarts

(* What the recorder was given can still be marked: the second look of     *)
(* _mark_simulated_locked at the row and its stamp never refuses a body    *)
(* that has left, whatever is asked between the handover and its commit.   *)
HandoverCanBeMarked ==
  \A c \in Clients : pc[c] = "recorded" =>
    ~Terminal /\ draft.status = "approved" /\ draft.stamp = Current

Decided == {"submitted", "edited", "status:approved", "status:rejected",
            "simulation_completed"}

IsDecided(row) == row.action \in Decided

LastDecided(rows) ==
  LET decided == {i \in 1..Len(rows) : IsDecided(rows[i])}
  IN  rows[CHOOSE i \in decided : \A j \in decided : j <= i]

Explains(row) ==
  /\ draft.status = (CASE row.action \in {"submitted", "edited"} -> "pending"
                       [] row.action = "status:approved" -> "approved"
                       [] row.action = "status:rejected" -> "rejected"
                       [] row.action = "simulation_completed" -> "simulated")
  /\ row.snapshot # NoSnapshot => row.snapshot.revision = draft.revision
  /\ draft.stamp # NoSnapshot => row.snapshot = draft.stamp

(* The audit alone tells the draft's status, and which snapshot it is      *)
(* about: no transition is committed without its row or out of order.      *)
AuditExplainsDraft == Explains(LastDecided(audit))

(* Everything that left was approved, as it left: an export follows the    *)
(* approval of the same snapshot with no other decision in between, and a  *)
(* handover has such an approval in the audit.                             *)
OutputsWereApproved ==
  /\ \A i \in 1..Len(audit) : audit[i].action = "export_csv" =>
       LastDecided(SubSeq(audit, 1, i)) = Row("status:approved", audit[i].snapshot)
  /\ \A i \in 1..Len(handed) : \E j \in 1..Len(audit) :
       audit[j] = Row("status:approved", handed[i])

(* No save replaces content its author had not on the page: a concurrent   *)
(* correction is never silently overwritten.                               *)
SavesReplaceSeenContent ==
  [][draft'.revision # draft.revision =>
       \E c \in Clients : holder = c /\ tab[c].shown = Current]_vars

(* A terminal draft is the record of what was handed over: no request      *)
(* changes it, whatever it checked before the simulation, and whichever    *)
(* build ended the draft.                                                  *)
SimulatedIsFinal == [][Terminal /\ alive => UNCHANGED draft]_vars

(* Preserved revisions are never overwritten, forgotten or reordered. *)
SnapshotsAppendOnly ==
  [][/\ DOMAIN snapshots \subseteq DOMAIN snapshots'
     /\ \A r \in DOMAIN snapshots : snapshots'[r] = snapshots[r]]_vars

(* Every request is answered or dies with its process: a simulation that   *)
(* waits for the lock gets it, and no outcome keeps the lock.              *)
RequestsFinish == \A c \in Clients : pc[c] # "idle" ~> pc[c] = "idle"

(* What models.py says of an approval: it never stands for content the     *)
(* reviewer has not seen.                                                  *)
ApprovedContentWasShown ==
  [][\A c \in Clients : holder = c /\ pc[c] = "inside" /\ draft'.stamp # draft.stamp
                          /\ draft'.status = "approved"
       => tab[c].shown = Current]_vars

(* The revisions that left, as ApprovalContract sees them. *)
Delivered ==
  {handed[i] : i \in 1..Len(handed)} \cup
  {audit[i].snapshot : i \in {j \in 1..Len(audit) : audit[j].action = "export_csv"}}

(* What was decided for good is decided, whatever the status still says.   *)
Decision == IF Terminal THEN "simulated" ELSE draft.status

Contract == INSTANCE ApprovalContract
              WITH latest <- draft.revision, text <- snapshots,
                   decision <- Decision, delivered <- Delivered

(* The draft's lock, as DraftMutex has it. *)
Lock == INSTANCE DraftMutex
          WITH Threads <- Clients, Keys <- {"draft"}, holder <- [k \in {"draft"} |-> holder]

(* The requests use draft_operation_lock as the one lock per draft that    *)
(* DraftLock implements: they enter it free, and every outcome, a failed   *)
(* commit and the death of the process leave it as its holder.             *)
UsesDraftLock == Lock!Spec

(* The review desk keeps the contract of the human-in-the-loop gate. *)
ImplementsContract == Contract!Spec
=============================================================================
