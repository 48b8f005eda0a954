-------------------------- MODULE ReviewDeskProofs ---------------------------
(***************************************************************************)
(* What TLAPS proves of ReviewDesk, for every number of pages, contents    *)
(* and every bound.                                                        *)
(*                                                                         *)
(* DeskInv is the inductive invariant.  The stamp of an approval can only  *)
(* be trusted because the row and its preserved revision are written by    *)
(* one client at a time (LockInv), because the process that could hold     *)
(* the lock is up (LockInv's last part), and because a correction on its   *)
(* way was written on the page it came from (JobInv).                      *)
(***************************************************************************)
EXTENDS ReviewDesk, SequenceTheorems, TLAPS

Holding == {"inside", "recorded"}

(* The holder of the lock is the one client inside an operation, and a     *)
(* process that is down runs no request.                                   *)
LockInv ==
  /\ \A c \in Clients : pc[c] \in Holding <=> holder = c
  /\ ~alive => \A c \in Clients : pc[c] = "idle"

(* A correction in flight was made on the content its page still shows. *)
JobInv ==
  \A c \in Clients :
    pc[c] \in {"queued", "inside"} /\ job[c].op = "edit" => job[c].expected = tab[c].shown

DeskInv == TypeOK /\ ApprovalBindsContent /\ LockInv /\ JobInv

Rows == [action : Actions, snapshot : Snapshots \cup {NoSnapshot}]

-----------------------------------------------------------------------------
(* The pieces the actions are built from keep the types. *)
LEMMA CurrentType ==
  ASSUME StoreOK
  PROVE  Current \in Snapshots
BY DEF StoreOK, Current, Snapshots

LEMMA LogType ==
  ASSUME StoreOK, NEW a \in Actions, NEW s \in Snapshots \cup {NoSnapshot}, Log(a, s)
  PROVE  audit' \in Seq(Rows)
<1>1. Row(a, s) \in Rows
  BY DEF Row, Rows
<1> QED
  BY <1>1, AppendProperties DEF StoreOK, Log, Rows

LEMMA FinishType ==
  ASSUME DeskOK, NEW c \in Clients, Finish(c)
  PROVE  /\ pc' \in [Clients -> {"idle", "queued", "inside", "recorded", "answering"}]
         /\ job' \in [Clients -> [op : Ops, expected : Snapshots \cup {NoSnapshot},
                                  content : Contents]]
<1>1. NoJob \in [op : Ops, expected : Snapshots \cup {NoSnapshot}, content : Contents]
  BY ContentsAssumption DEF NoJob, Ops
<1> QED
  BY <1>1 DEF DeskOK, Finish, Goto

LEMMA PageType ==
  ASSUME DeskOK, NEW c \in Clients, NEW s \in Snapshots,
         ShowsPanel(c, s) \/ ShowsReview(c, s)
  PROVE  tab' \in [Clients -> [shown : Snapshots \cup {NoSnapshot},
                               token : Snapshots \cup {NoSnapshot}]]
BY DEF DeskOK, ShowsPanel, ShowsReview, KeepsPage

LEMMA PreserveType ==
  ASSUME StoreOK, NEW r \in Nat \ {0}, NEW content \in Contents, Preserve(r, content),
         draft'.revision \in Nat, r <= draft'.revision, draft.revision <= draft'.revision
  PROVE  /\ DOMAIN snapshots' \subseteq 1..draft'.revision
         /\ \A i \in DOMAIN snapshots' : snapshots'[i] \in Contents
BY DEF StoreOK, Preserve

(* The row the desk begins with: fresh, or an older build's. *)
LEMMA InitRow ==
  ASSUME Init
  PROVE  \E s \in {"pending", "approved", "rejected"}, sent \in BOOLEAN, c \in Contents :
           draft = [status |-> s, simulated |-> sent, revision |-> 1,
                    content |-> c, stamp |-> NoSnapshot]
<1>1. CASE draft = [status |-> "pending", simulated |-> FALSE, revision |-> 1,
                    content |-> Intake, stamp |-> NoSnapshot]
  BY <1>1, ContentsAssumption
<1>2. CASE \E s \in {"pending", "approved", "rejected"}, sent \in BOOLEAN, c \in Contents :
             draft = [status |-> s, simulated |-> sent, revision |-> 1,
                      content |-> c, stamp |-> NoSnapshot]
  BY <1>2
<1> QED
  BY <1>1, <1>2 DEF Init

LEMMA InitDesk == Init => DeskInv
<1> SUFFICES ASSUME Init
             PROVE  DeskInv
  OBVIOUS
<1>1. DeskOK
  BY ContentsAssumption DEF Init, DeskOK, NoJob, Ops
<1>2. StoreOK
  <2>1. draft.revision = 1 /\ draft.stamp = NoSnapshot
        /\ draft.status \in Statuses /\ draft.simulated \in BOOLEAN /\ draft.content \in Contents
        /\ draft \in [status : Statuses, simulated : BOOLEAN, revision : Nat \ {0},
                      content : Contents, stamp : Snapshots \cup {NoSnapshot}]
    BY InitRow DEF Statuses
  <2>2. DOMAIN snapshots \subseteq 1..draft.revision
        /\ \A r \in DOMAIN snapshots : snapshots[r] \in Contents
    BY <2>1, ContentsAssumption DEF Init
  <2>3. Current \in Snapshots
    BY <2>1 DEF Current, Snapshots
  <2>4. audit \in Seq(Rows)
    <3>1. \A a \in Actions, s \in Snapshots \cup {NoSnapshot} : Row(a, s) \in Rows
      BY DEF Row, Rows
    <3>2. /\ Row("submitted", Current) \in Rows
          /\ Row("submitted", NoSnapshot) \in Rows
          /\ Row("status:approved", NoSnapshot) \in Rows
          /\ Row("status:rejected", NoSnapshot) \in Rows
      BY <3>1, <2>3 DEF Actions
    <3>3. \/ audit = <<Row("submitted", Current)>>
          \/ audit = <<Row("submitted", NoSnapshot)>>
          \/ audit = <<Row("submitted", NoSnapshot), Row("status:approved", NoSnapshot)>>
          \/ audit = <<Row("submitted", NoSnapshot), Row("status:rejected", NoSnapshot)>>
      BY DEF Init
    <3>4. \A x \in Rows, y \in Rows : <<x>> \in Seq(Rows) /\ <<x, y>> \in Seq(Rows)
      OBVIOUS
    <3> QED
      BY <3>2, <3>3, <3>4
  <2>5. handed \in Seq(Snapshots)
    BY DEF Init
  <2> QED
    BY <2>1, <2>2, <2>4, <2>5 DEF StoreOK, Rows
<1>3. ApprovalBindsContent
  BY DEF Init, ApprovalBindsContent
<1>4. LockInv /\ JobInv
  BY ClientsAssumption DEF Init, LockInv, JobInv, Holding
<1> QED
  BY <1>1, <1>2, <1>3, <1>4 DEF DeskInv, TypeOK

-----------------------------------------------------------------------------
(* Every step, by the way it goes through the lock: one that ends the      *)
(* operation of the holder, one that begins or continues a request, one    *)
(* that only touches pages, and one of the environment.                    *)
Ends(c) ==
  \/ ApproveBlocked(c) \/ ApproveAfterSimulation(c) \/ ApproveConflict(c) \/ ApproveCommit(c)
  \/ RejectConflict(c) \/ RejectAfterSimulation(c) \/ RejectCommit(c)
  \/ EditConflict(c) \/ EditAfterSimulation(c) \/ EditCommit(c)
  \/ MarkCommit(c) \/ ExportRefused(c) \/ ExportCommit(c) \/ CommitFails(c)

Continues(c) ==
  \/ SendDecision(c) \/ SendEdit(c) \/ SendExport(c)
  \/ Acquire(c) \/ Refuse(c) \/ SimulateBlocked(c) \/ AnswerBlocked(c) \/ Record(c)

Browses(c) == OpenReview(c) \/ EditFormRefused(c)

LEMMA StepShapes ==
  ASSUME Next
  PROVE  (\E c \in Clients : Ends(c) \/ Continues(c) \/ Browses(c)) \/ Environment
BY DEF Next, Ask, Handle, Ends, Continues, Browses

LEMMA EndsLeaves ==
  ASSUME NEW c \in Clients, Ends(c)
  PROVE  /\ pc[c] \in Holding
         /\ Leave(c)
         /\ UNCHANGED <<evidence, configOk, alive>>
         /\ \/ KeepsPage
            \/ ShowsPanel(c, Current)
            \/ ShowsReview(c, Current)
            \/ Inside(c, "edit") /\ ShowsReview(c, Revision(job[c].content))
         /\ requests' = requests /\ restarts' = restarts
         /\ faults' = faults \/ faults' = faults + 1
<1> USE DEF Holding, Inside, KeepsPage, world, spent
<1>1. CASE ApproveBlocked(c) \/ ApproveAfterSimulation(c) \/ ApproveConflict(c)
           \/ ApproveCommit(c)
  BY <1>1 DEF ApproveBlocked, ApproveAfterSimulation, ApproveConflict, ApproveCommit
<1>2. CASE RejectConflict(c) \/ RejectAfterSimulation(c) \/ RejectCommit(c)
  BY <1>2 DEF RejectConflict, RejectAfterSimulation, RejectCommit
<1>3. CASE EditConflict(c) \/ EditAfterSimulation(c) \/ EditCommit(c)
  BY <1>3 DEF EditConflict, EditAfterSimulation, EditCommit
<1>4. CASE MarkCommit(c) \/ ExportRefused(c) \/ ExportCommit(c) \/ CommitFails(c)
  BY <1>4 DEF MarkCommit, ExportRefused, ExportCommit, CommitFails
<1> QED
  BY <1>1, <1>2, <1>3, <1>4 DEF Ends

LEMMA RevisionType ==
  ASSUME TypeOK, NEW c \in Clients
  PROVE  Revision(job[c].content) \in Snapshots
BY DEF TypeOK, StoreOK, DeskOK, Revision, Snapshots

LEMMA DeskOKStep ==
  ASSUME TypeOK, Next
  PROVE  DeskOK'
<1>1. ASSUME NEW c \in Clients, Ends(c)
      PROVE  DeskOK'
  <2>1. Finish(c) /\ holder' = Nobody
    BY <1>1, EndsLeaves DEF Leave
  <2>2. tab' \in [Clients -> [shown : Snapshots \cup {NoSnapshot},
                              token : Snapshots \cup {NoSnapshot}]]
    <3>1. Current \in Snapshots /\ Revision(job[c].content) \in Snapshots
      BY CurrentType, RevisionType DEF TypeOK
    <3>2. CASE KeepsPage
      BY <3>2 DEF TypeOK, DeskOK, KeepsPage
    <3>3. CASE ~KeepsPage
      BY <1>1, <3>1, <3>3, EndsLeaves, PageType DEF TypeOK
    <3> QED
      BY <3>2, <3>3
  <2> QED
    BY <1>1, <2>1, <2>2, EndsLeaves, FinishType DEF TypeOK, DeskOK
<1>2. ASSUME NEW c \in Clients, SendDecision(c) \/ SendEdit(c) \/ SendExport(c)
      PROVE  DeskOK'
  <2>1. \E op \in Ops, e \in Snapshots \cup {NoSnapshot}, x \in Contents : Send(c, op, e, x)
    <3>1. /\ tab[c].token \in Snapshots \cup {NoSnapshot}
          /\ tab[c].shown \in Snapshots \cup {NoSnapshot}
          /\ Intake \in Contents
      BY ContentsAssumption DEF TypeOK, DeskOK
    <3>2. CASE SendDecision(c)
      BY <3>1, <3>2 DEF SendDecision, Ops
    <3>3. CASE SendEdit(c)
      BY <3>1, <3>3 DEF SendEdit, Ops
    <3>4. CASE SendExport(c)
      BY <3>1, <3>4 DEF SendExport, Ops
    <3> QED
      BY <1>2, <3>2, <3>3, <3>4
  <2>2. PICK op \in Ops, e \in Snapshots \cup {NoSnapshot}, x \in Contents : Send(c, op, e, x)
    BY <2>1
  <2> QED
    BY <2>2 DEF Send, Goto, TypeOK, DeskOK, store, world
<1>3. ASSUME NEW c \in Clients, Acquire(c) \/ SimulateBlocked(c) \/ Record(c)
      PROVE  DeskOK'
  BY <1>3 DEF Acquire, SimulateBlocked, Record, Goto, TypeOK, DeskOK, world, spent
<1>4. ASSUME NEW c \in Clients, Refuse(c) \/ AnswerBlocked(c)
      PROVE  DeskOK'
  <2>1. Finish(c)
    BY <1>4 DEF Refuse, AnswerBlocked
  <2>2. tab' \in [Clients -> [shown : Snapshots \cup {NoSnapshot},
                              token : Snapshots \cup {NoSnapshot}]]
    BY <1>4, CurrentType, PageType DEF Refuse, AnswerBlocked, TypeOK, DeskOK
  <2> QED
    BY <1>4, <2>1, <2>2, FinishType DEF Refuse, AnswerBlocked, TypeOK, DeskOK, world, spent
<1>5. ASSUME NEW c \in Clients, Browses(c)
      PROVE  DeskOK'
  <2>1. Current \in Snapshots
    BY CurrentType DEF TypeOK
  <2> QED
    BY <1>5, <2>1, PageType
    DEF Browses, OpenReview, EditFormRefused, ShowsReview, KeepsPage, TypeOK, DeskOK, world, spent
<1>6. CASE Environment
  <2>1. NoJob \in [op : Ops, expected : Snapshots \cup {NoSnapshot}, content : Contents]
    BY ContentsAssumption DEF NoJob, Ops
  <2>2. CASE EvidenceChanges
    BY <2>2 DEF EvidenceChanges, TypeOK, DeskOK
  <2>3. CASE Crash
    <3>1. job' \in [Clients -> [op : Ops, expected : Snapshots \cup {NoSnapshot},
                               content : Contents]]
      BY <2>1, <2>3, Zenon DEF Crash
    <3>2. pc' \in [Clients -> {"idle", "queued", "inside", "recorded", "answering"}]
      BY <2>3 DEF Crash
    <3>3. restarts' \in Nat
      BY <2>3 DEF Crash, TypeOK, DeskOK
    <3>4. alive' \in BOOLEAN
      BY <2>3, Zenon DEF Crash
    <3> QED
      BY <2>3, <3>1, <3>2, <3>3, <3>4 DEF Crash, TypeOK, DeskOK
  <2>4. CASE OfflineWrite
    BY <2>4 DEF OfflineWrite, TypeOK, DeskOK, world
  <2>5. CASE Restart
    BY <2>5 DEF Restart, TypeOK, DeskOK, spent
  <2> QED
    BY <1>6, <2>2, <2>3, <2>4, <2>5 DEF Environment
<1> QED
  BY <1>1, <1>2, <1>3, <1>4, <1>5, <1>6, StepShapes DEF Continues

-----------------------------------------------------------------------------
LEMMA LockStep ==
  ASSUME TypeOK, LockInv, Next
  PROVE  LockInv'
<1> USE ClientsAssumption DEF LockInv, Holding
<1>0. /\ pc \in [Clients -> {"idle", "queued", "inside", "recorded", "answering"}]
      /\ holder \in Clients \cup {Nobody}
      /\ job \in [Clients -> [op : Ops, expected : Snapshots \cup {NoSnapshot},
                              content : Contents]]
  BY DEF TypeOK, DeskOK
<1>1. ASSUME NEW c \in Clients, Ends(c)
      PROVE  LockInv'
  BY <1>0, <1>1, EndsLeaves DEF Leave, Finish, Goto
<1>2. ASSUME NEW c \in Clients, SendDecision(c) \/ SendEdit(c) \/ SendExport(c)
      PROVE  LockInv'
  <2>1. pc[c] = "idle" /\ alive /\ UNCHANGED <<alive, holder>> /\ Goto(c, "queued")
    BY <1>2 DEF SendDecision, SendEdit, SendExport, Send, world
  <2> QED
    BY <1>0, <2>1 DEF Goto
<1>3. ASSUME NEW c \in Clients, Acquire(c) \/ Record(c)
      PROVE  LockInv'
  BY <1>0, <1>3 DEF Acquire, Record, Inside, Goto, world
<1>4. ASSUME NEW c \in Clients, Refuse(c) \/ AnswerBlocked(c)
      PROVE  LockInv'
  BY <1>0, <1>4 DEF Refuse, AnswerBlocked, Finish, Goto, world
<1>5. ASSUME NEW c \in Clients, SimulateBlocked(c)
      PROVE  LockInv'
  BY <1>0, <1>5 DEF SimulateBlocked, Inside, Goto, world
<1>6. ASSUME NEW c \in Clients, Browses(c)
      PROVE  LockInv'
  BY <1>6 DEF Browses, OpenReview, EditFormRefused, world
<1>7. CASE Environment
  <2>1. CASE EvidenceChanges \/ OfflineWrite
    BY <2>1 DEF EvidenceChanges, OfflineWrite, world
  <2>2. CASE Crash
    BY <2>2 DEF Crash
  <2>3. CASE Restart
    BY <2>3 DEF Restart
  <2> QED
    BY <1>7, <2>1, <2>2, <2>3 DEF Environment
<1> QED
  BY <1>1, <1>2, <1>3, <1>4, <1>5, <1>6, <1>7, StepShapes DEF Continues

LEMMA JobStep ==
  ASSUME TypeOK, JobInv, Next
  PROVE  JobInv'
<1> USE DEF JobInv
<1>0. /\ pc \in [Clients -> {"idle", "queued", "inside", "recorded", "answering"}]
      /\ job \in [Clients -> [op : Ops, expected : Snapshots \cup {NoSnapshot},
                              content : Contents]]
      /\ tab \in [Clients -> [shown : Snapshots \cup {NoSnapshot},
                              token : Snapshots \cup {NoSnapshot}]]
  BY DEF TypeOK, DeskOK
<1>1. ASSUME NEW c \in Clients, Ends(c) \/ Refuse(c) \/ AnswerBlocked(c)
      PROVE  JobInv'
  <2>1. Finish(c)
    BY <1>1, EndsLeaves DEF Leave, Refuse, AnswerBlocked
  <2>2. \A d \in Clients \ {c} : tab'[d] = tab[d]
    BY <1>0, <1>1, EndsLeaves DEF KeepsPage, ShowsPanel, ShowsReview, Refuse, AnswerBlocked
  <2> QED
    BY <1>0, <2>1, <2>2 DEF Finish, Goto
<1>2. ASSUME NEW c \in Clients, SendDecision(c) \/ SendEdit(c) \/ SendExport(c)
      PROVE  JobInv'
  <2>1. UNCHANGED tab /\ Goto(c, "queued")
    BY <1>2 DEF SendDecision, SendEdit, SendExport, Send
  <2>2. \A d \in Clients \ {c} : job'[d] = job[d]
    BY <1>0, <1>2 DEF SendDecision, SendEdit, SendExport, Send
  <2>3. job'[c].op = "edit" => job'[c].expected = tab[c].shown
    BY <1>0, <1>2 DEF SendDecision, SendEdit, SendExport, Send
  <2> QED
    BY <1>0, <2>1, <2>2, <2>3 DEF Goto
<1>3. ASSUME NEW c \in Clients, Acquire(c) \/ SimulateBlocked(c) \/ Record(c)
      PROVE  JobInv'
  BY <1>0, <1>3 DEF Acquire, SimulateBlocked, Record, Goto
<1>4. ASSUME NEW c \in Clients, Browses(c)
      PROVE  JobInv'
  BY <1>0, <1>4 DEF Browses, OpenReview, EditFormRefused, ShowsReview, KeepsPage
<1>5. CASE Environment
  BY <1>5 DEF Environment, EvidenceChanges, Crash, OfflineWrite, Restart
<1> QED
  BY <1>1, <1>2, <1>3, <1>4, <1>5, StepShapes DEF Continues

-----------------------------------------------------------------------------
(* Steps by what they do to the store. *)
Decides(c) == ApproveCommit(c) \/ RejectCommit(c) \/ EditCommit(c) \/ MarkCommit(c)

LogsOnly(c) ==
  \/ ApproveAfterSimulation(c) \/ RejectAfterSimulation(c) \/ EditAfterSimulation(c)
  \/ SimulateBlocked(c) \/ ExportCommit(c)

LEMMA StoreShapes ==
  ASSUME Next
  PROVE  \/ \E c \in Clients : Decides(c) \/ LogsOnly(c) \/ Record(c)
         \/ OfflineWrite
         \/ UNCHANGED <<store, handed>>
<1>1. ASSUME NEW c \in Clients, Browses(c)
      PROVE  UNCHANGED <<store, handed>>
  BY <1>1 DEF Browses, OpenReview, EditFormRefused
<1>2. ASSUME NEW c \in Clients,
             \/ SendDecision(c) \/ SendEdit(c) \/ SendExport(c)
             \/ Acquire(c) \/ Refuse(c) \/ AnswerBlocked(c)
      PROVE  UNCHANGED <<store, handed>>
  BY <1>2 DEF SendDecision, SendEdit, SendExport, Send, Acquire, Refuse, AnswerBlocked
<1>3. ASSUME NEW c \in Clients,
             \/ ApproveBlocked(c) \/ ApproveConflict(c) \/ RejectConflict(c)
             \/ EditConflict(c) \/ ExportRefused(c) \/ CommitFails(c)
      PROVE  UNCHANGED <<store, handed>>
  BY <1>3 DEF ApproveBlocked, ApproveConflict, RejectConflict, EditConflict, ExportRefused,
              CommitFails
<1>4. CASE EvidenceChanges \/ Crash \/ Restart
  BY <1>4 DEF EvidenceChanges, Crash, Restart
<1> QED
  BY <1>1, <1>2, <1>3, <1>4, StepShapes
  DEF Ends, Continues, Environment, Decides, LogsOnly

LEMMA LogsOnlyType ==
  ASSUME TypeOK, NEW c \in Clients, LogsOnly(c)
  PROVE  audit' \in Seq(Rows) /\ UNCHANGED <<draft, snapshots, handed>>
<1>1. \E a \in Actions, s \in Snapshots \cup {NoSnapshot} : Log(a, s)
  <2>1. Current \in Snapshots \cup {NoSnapshot}
    BY CurrentType DEF TypeOK
  <2>2. \/ Log("status_blocked", NoSnapshot) \/ Log("edit_blocked", NoSnapshot)
        \/ Log("simulation_blocked", NoSnapshot) \/ Log("export_csv", Current)
    BY DEF LogsOnly, ApproveAfterSimulation, RejectAfterSimulation, EditAfterSimulation,
           SimulateBlocked, ExportCommit
  <2> QED
    BY <2>1, <2>2 DEF Actions
<1>2. UNCHANGED <<draft, snapshots, handed>>
  BY DEF LogsOnly, ApproveAfterSimulation, RejectAfterSimulation, EditAfterSimulation,
         SimulateBlocked, ExportCommit
<1> QED
  BY <1>1, <1>2, LogType DEF TypeOK

(* What the four transitions do to the row and to the preserved revisions. *)
LEMMA ApproveEffect ==
  ASSUME StoreOK, NEW c \in Clients, ApproveCommit(c)
  PROVE  /\ draft' = [draft EXCEPT !.status = "approved", !.stamp = Current]
         /\ ~draft.simulated
         /\ DOMAIN snapshots' = DOMAIN snapshots \cup {draft.revision}
         /\ \A r \in DOMAIN snapshots : snapshots'[r] = snapshots[r]
         /\ snapshots'[draft.revision] = draft.content
         /\ handed' = handed
BY DEF ApproveCommit, Terminal, Preserve, StoreOK

LEMMA EditEffect ==
  ASSUME StoreOK, NEW c \in Clients, EditCommit(c)
  PROVE  /\ draft'.revision = draft.revision + 1
         /\ draft'.content = job[c].content
         /\ draft'.status = "pending" /\ ~draft'.simulated
         /\ draft'.stamp = IF draft.status = "pending" THEN draft.stamp ELSE NoSnapshot
         /\ DOMAIN snapshots' = DOMAIN snapshots \cup {draft.revision + 1}
         /\ \A r \in DOMAIN snapshots : snapshots'[r] = snapshots[r]
         /\ snapshots'[draft.revision + 1] = job[c].content
         /\ handed' = handed
BY DEF EditCommit, Terminal, Preserve, Revised, StoreOK

LEMMA EditRowsType ==
  ASSUME TypeOK, NEW c \in Clients
  PROVE  EditRows(job[c].content) \in Seq(Rows)
<1>1. Revision(job[c].content) \in Snapshots
  BY RevisionType
<1>2. /\ Row("approval_revoked", Revision(job[c].content)) \in Rows
      /\ Row("edited", Revision(job[c].content)) \in Rows
  BY <1>1 DEF Row, Rows, Actions
<1>3. \A x \in Rows, y \in Rows : <<x>> \in Seq(Rows) /\ <<x, y>> \in Seq(Rows)
  OBVIOUS
<1> QED
  BY <1>2, <1>3 DEF EditRows

LEMMA StoreStep ==
  ASSUME TypeOK, ApprovalBindsContent, Next
  PROVE  StoreOK' /\ ApprovalBindsContent'
<1> USE DEF TypeOK
<1>0. Current \in Snapshots
  BY CurrentType
<1>1. ASSUME NEW c \in Clients, ApproveCommit(c)
      PROVE  StoreOK' /\ ApprovalBindsContent'
  <2>1. audit' \in Seq(Rows)
    BY <1>0, <1>1, LogType DEF ApproveCommit, Actions
  <2>2. ApprovalBindsContent'
    <3>1. /\ draft'.status = "approved" /\ ~draft'.simulated
          /\ draft'.revision = draft.revision
      BY <1>1, ApproveEffect DEF StoreOK
    <3>2. draft'.stamp = Current
      BY <1>1, ApproveEffect DEF StoreOK
    <3>3. draft'.stamp.revision = draft.revision /\ draft'.stamp.content = draft.content
      BY <3>2 DEF Current
    <3>4. draft.revision \in DOMAIN snapshots' /\ snapshots'[draft.revision] = draft.content
      BY <1>1, ApproveEffect
    <3> QED
      BY <3>1, <3>3, <3>4 DEF ApprovalBindsContent
  <2>3. /\ draft' \in [status : Statuses, simulated : BOOLEAN, revision : Nat \ {0},
                       content : Contents, stamp : Snapshots \cup {NoSnapshot}]
        /\ draft'.revision = draft.revision
    BY <1>0, <1>1, ApproveEffect DEF StoreOK, Statuses
  <2>4. /\ DOMAIN snapshots' \subseteq 1..draft'.revision
        /\ \A r \in DOMAIN snapshots' : snapshots'[r] \in Contents
    BY <1>1, <2>3, ApproveEffect DEF StoreOK
  <2> QED
    BY <1>1, <2>1, <2>2, <2>3, <2>4, ApproveEffect DEF StoreOK, Rows
<1>2. ASSUME NEW c \in Clients, RejectCommit(c)
      PROVE  StoreOK' /\ ApprovalBindsContent'
  <2>1. audit' \in Seq(Rows)
    BY <1>0, <1>2, LogType DEF RejectCommit, Actions
  <2>2. /\ draft' = [draft EXCEPT !.status = "rejected", !.stamp = NoSnapshot]
        /\ ~draft.simulated
        /\ UNCHANGED <<snapshots, handed>>
    BY <1>2 DEF RejectCommit, Terminal
  <2>3. ApprovalBindsContent'
    BY <2>2 DEF ApprovalBindsContent, StoreOK
  <2> QED
    BY <2>1, <2>2, <2>3 DEF StoreOK, Rows, Statuses
<1>3. ASSUME NEW c \in Clients, EditCommit(c)
      PROVE  StoreOK' /\ ApprovalBindsContent'
  <2>1. audit' \in Seq(Rows)
    BY <1>3, EditRowsType, ConcatProperties DEF EditCommit, StoreOK, Rows
  <2>2. ApprovalBindsContent'
    BY <1>3, EditEffect DEF ApprovalBindsContent, StoreOK
  <2>3. job[c].content \in Contents
    BY DEF DeskOK
  <2>4. draft' \in [status : Statuses, simulated : BOOLEAN, revision : Nat \ {0},
                    content : Contents, stamp : Snapshots \cup {NoSnapshot}]
    <3>1. draft' = Revised(job[c].content)
      BY <1>3 DEF EditCommit
    <3>2. CASE draft.status = "pending"
      <4>1. draft' = [draft EXCEPT !.revision = draft.revision + 1,
                                   !.content = job[c].content]
        BY <3>1, <3>2 DEF Revised, StoreOK
      <4>2. draft.revision + 1 \in Nat \ {0}
        BY DEF StoreOK
      <4> QED
        BY <2>3, <4>1, <4>2 DEF StoreOK
    <3>3. CASE draft.status # "pending"
      <4>1. draft' = [draft EXCEPT !.status = "pending", !.revision = draft.revision + 1,
                                   !.content = job[c].content, !.stamp = NoSnapshot]
        BY <3>1, <3>3 DEF Revised, StoreOK
      <4>2. draft.revision + 1 \in Nat \ {0} /\ "pending" \in Statuses
        BY DEF StoreOK, Statuses
      <4> QED
        BY <2>3, <4>1, <4>2 DEF StoreOK
    <3> QED
      BY <3>2, <3>3
  <2>5. /\ DOMAIN snapshots' \subseteq 1..draft'.revision
        /\ \A r \in DOMAIN snapshots' : snapshots'[r] \in Contents
    BY <1>3, <2>3, EditEffect DEF StoreOK
  <2> QED
    BY <1>3, <2>1, <2>2, <2>4, <2>5, EditEffect DEF StoreOK, Rows
<1>4. ASSUME NEW c \in Clients, MarkCommit(c)
      PROVE  StoreOK' /\ ApprovalBindsContent'
  <2>1. audit' \in Seq(Rows)
    BY <1>0, <1>4, LogType DEF MarkCommit, Actions
  <2>2. /\ draft' = [draft EXCEPT !.status = "simulated", !.simulated = TRUE]
        /\ draft.status = "approved" /\ draft.stamp = Current
        /\ UNCHANGED <<snapshots, handed>>
    BY <1>4 DEF MarkCommit
  <2>3. ApprovalBindsContent'
    BY <1>0, <2>2, SnapshotAssumption DEF ApprovalBindsContent, StoreOK, Snapshots
  <2> QED
    BY <2>1, <2>2, <2>3 DEF StoreOK, Rows, Statuses
<1>5. ASSUME NEW c \in Clients, LogsOnly(c)
      PROVE  StoreOK' /\ ApprovalBindsContent'
  BY <1>5, LogsOnlyType DEF StoreOK, Rows, ApprovalBindsContent
<1>6. ASSUME NEW c \in Clients, Record(c)
      PROVE  StoreOK' /\ ApprovalBindsContent'
  <2>1. handed' \in Seq(Snapshots)
    BY <1>0, <1>6, AppendProperties DEF Record, StoreOK
  <2> QED
    BY <1>6, <2>1 DEF Record, store, StoreOK, ApprovalBindsContent
<1>7. CASE OfflineWrite
  <2>1. /\ \E x \in Contents : draft' = [draft EXCEPT !.content = x]
        /\ UNCHANGED <<snapshots, audit, handed>>
    BY <1>7 DEF OfflineWrite
  <2> QED
    BY <2>1 DEF StoreOK, ApprovalBindsContent
<1>8. CASE UNCHANGED <<store, handed>>
  BY <1>8 DEF store, StoreOK, ApprovalBindsContent
<1> QED
  BY <1>1, <1>2, <1>3, <1>4, <1>5, <1>6, <1>7, <1>8, StoreShapes DEF Decides

-----------------------------------------------------------------------------
(* The inductive invariant of the review desk. *)
THEOREM DeskInvariant == Spec => []DeskInv
<1>1. DeskInv /\ [Next]_vars => DeskInv'
  <2> SUFFICES ASSUME DeskInv, [Next]_vars
               PROVE  DeskInv'
    OBVIOUS
  <2>1. CASE Next
    BY <2>1, DeskOKStep, StoreStep, LockStep, JobStep DEF DeskInv, TypeOK
  <2>2. CASE UNCHANGED vars
    BY <2>2 DEF vars, store, world, spent, DeskInv, TypeOK, StoreOK, DeskOK,
                ApprovalBindsContent, LockInv, JobInv
  <2> QED
    BY <2>1, <2>2
<1> QED
  BY <1>1, InitDesk, PTL DEF Spec

(* Every variable of the review desk keeps its type; in particular the     *)
(* preserved revisions never run ahead of the draft's own.                 *)
THEOREM TypeCorrect == Spec => []TypeOK
<1>1. DeskInv => TypeOK
  BY DEF DeskInv
<1> QED
  BY <1>1, DeskInvariant, PTL

(* The stamp of an approval is always the draft's revision and a preserved *)
(* snapshot, and a terminal draft without one is a row an older build sent *)
(* and no request has decided since, whatever requests, failures, crashes  *)
(* and tampering did.                                                      *)
THEOREM ApprovalBindsContentHolds == Spec => []ApprovalBindsContent
<1>1. DeskInv => ApprovalBindsContent
  BY DEF DeskInv
<1> QED
  BY <1>1, DeskInvariant, PTL

-----------------------------------------------------------------------------
(* Preserved revisions are never overwritten, forgotten or reordered. *)
THEOREM SnapshotsAppendOnlyHolds == Spec => SnapshotsAppendOnly
<1> DEFINE Keeps == /\ DOMAIN snapshots \subseteq DOMAIN snapshots'
                    /\ \A r \in DOMAIN snapshots : snapshots'[r] = snapshots[r]
<1>1. DeskInv /\ [Next]_vars => [Keeps]_vars
  <2> SUFFICES ASSUME DeskInv, Next
               PROVE  Keeps
    OBVIOUS
  <2>0. StoreOK
    BY DEF DeskInv, TypeOK
  <2>1. ASSUME NEW c \in Clients, Decides(c)
        PROVE  Keeps
    <3>1. CASE ApproveCommit(c)
      BY <2>0, <3>1, ApproveEffect
    <3>2. CASE EditCommit(c)
      BY <2>0, <3>2, EditEffect
    <3>3. CASE RejectCommit(c) \/ MarkCommit(c)
      BY <3>3 DEF RejectCommit, MarkCommit
    <3> QED
      BY <2>1, <3>1, <3>2, <3>3 DEF Decides
  <2>2. ASSUME NEW c \in Clients, LogsOnly(c) \/ Record(c)
        PROVE  Keeps
    BY <2>2, LogsOnlyType DEF Record, store, DeskInv
  <2>3. CASE OfflineWrite \/ UNCHANGED <<store, handed>>
    BY <2>3 DEF OfflineWrite, store
  <2> QED
    BY <2>1, <2>2, <2>3, StoreShapes
<1> QED
  BY <1>1, DeskInvariant, PTL DEF Spec, SnapshotsAppendOnly

(* No request changes a terminal draft, whatever it checked before and     *)
(* whichever build ended the draft.                                        *)
THEOREM SimulatedIsFinalHolds == Spec => SimulatedIsFinal
<1>1. DeskInv /\ [Next]_vars
        => [Terminal /\ alive => UNCHANGED draft]_vars
  <2> SUFFICES ASSUME DeskInv, Next, Terminal, alive
               PROVE  UNCHANGED draft
    OBVIOUS
  <2>1. ASSUME NEW c \in Clients, Decides(c)
        PROVE  FALSE
    BY <2>1 DEF Decides, ApproveCommit, RejectCommit, EditCommit, MarkCommit
  <2>2. ASSUME NEW c \in Clients, LogsOnly(c) \/ Record(c)
        PROVE  UNCHANGED draft
    BY <2>2, LogsOnlyType DEF Record, store, DeskInv
  <2>3. CASE OfflineWrite \/ UNCHANGED <<store, handed>>
    BY <2>3 DEF OfflineWrite, store
  <2> QED
    BY <2>1, <2>2, <2>3, StoreShapes
<1> QED
  BY <1>1, DeskInvariant, PTL DEF Spec, SimulatedIsFinal

(* A save only replaces the content its author had on the page. *)
THEOREM SavesReplaceSeenContentHolds == Spec => SavesReplaceSeenContent
<1> DEFINE Seen == draft'.revision # draft.revision =>
                     \E c \in Clients : holder = c /\ tab[c].shown = Current
<1>1. DeskInv /\ [Next]_vars => [Seen]_vars
  <2> SUFFICES ASSUME DeskInv, Next
               PROVE  Seen
    OBVIOUS
  <2>0. StoreOK
    BY DEF DeskInv, TypeOK
  <2>1. ASSUME NEW c \in Clients, EditCommit(c)
        PROVE  Seen
    <3>1. pc[c] = "inside" /\ job[c].op = "edit" /\ job[c].expected = Current
      BY <2>1 DEF EditCommit, Inside
    <3>2. holder = c /\ job[c].expected = tab[c].shown
      BY <3>1 DEF DeskInv, LockInv, JobInv, Holding
    <3> QED
      BY <3>1, <3>2
  <2>2. ASSUME NEW c \in Clients, ApproveCommit(c) \/ RejectCommit(c) \/ MarkCommit(c)
        PROVE  Seen
    BY <2>0, <2>2 DEF ApproveCommit, RejectCommit, MarkCommit, StoreOK
  <2>3. ASSUME NEW c \in Clients, LogsOnly(c) \/ Record(c)
        PROVE  Seen
    BY <2>3, LogsOnlyType DEF Record, store, DeskInv
  <2>4. CASE OfflineWrite \/ UNCHANGED <<store, handed>>
    BY <2>0, <2>4 DEF OfflineWrite, store, StoreOK
  <2> QED
    BY <2>1, <2>2, <2>3, <2>4, StoreShapes DEF Decides
<1> QED
  BY <1>1, DeskInvariant, PTL DEF Spec, SavesReplaceSeenContent

-----------------------------------------------------------------------------
(* A handover between the recorder's call and the commit that ends the     *)
(* draft is the one the counters do not account for, and it is of the      *)
(* draft as it still is.                                                   *)
Recorded == \E c \in Clients : pc[c] = "recorded"

HandoffInv ==
  /\ Len(handed) <= faults + restarts
                    + (IF draft.status = "simulated" \/ Recorded THEN 1 ELSE 0)
  /\ Recorded => \E i \in 1..Len(handed) : handed[i] = Current

LEMMA InitHandoff == Init => HandoffInv
BY DEF Init, HandoffInv, Recorded

(* Who is inside an operation excludes a handover in progress. *)
LEMMA InsideExcludesRecorded ==
  ASSUME DeskInv, NEW c \in Clients, pc[c] = "inside"
  PROVE  ~Recorded
BY DEF DeskInv, LockInv, Holding, Recorded

LEMMA HandoffStep ==
  ASSUME DeskInv, HandoffInv, Next
  PROVE  HandoffInv'
<1>0. /\ StoreOK /\ DeskOK /\ LockInv
      /\ pc \in [Clients -> {"idle", "queued", "inside", "recorded", "answering"}]
      /\ Len(handed) \in Nat /\ faults \in Nat /\ restarts \in Nat
  BY LenProperties DEF DeskInv, TypeOK, StoreOK, DeskOK
<1>1. ASSUME NEW c \in Clients, Ends(c), ~MarkCommit(c)
      PROVE  HandoffInv'
  <2>1. pc'[c] = "idle" /\ \A d \in Clients \ {c} : pc'[d] = pc[d]
    BY <1>0, <1>1, EndsLeaves DEF Leave, Finish, Goto
  <2>2. ~Recorded'
    BY <1>0, <1>1, <2>1, EndsLeaves DEF LockInv, Holding, Recorded
  <2>3. restarts' = restarts /\ handed' = handed
    BY <1>1, EndsLeaves
    DEF Ends, ApproveBlocked, ApproveAfterSimulation, ApproveConflict, ApproveCommit,
        RejectConflict, RejectAfterSimulation, RejectCommit, EditConflict,
        EditAfterSimulation, EditCommit, ExportRefused, ExportCommit, CommitFails
  <2>4. CASE CommitFails(c)
    <3>1. faults' = faults + 1 /\ UNCHANGED draft
      BY <2>4 DEF CommitFails, store
    <3> QED
      BY <1>0, <2>2, <2>3, <3>1 DEF HandoffInv
  <2>5. CASE ~CommitFails(c)
    <3>1. pc[c] = "inside"
      BY <1>1, <2>5
      DEF Ends, ApproveBlocked, ApproveAfterSimulation, ApproveConflict, ApproveCommit,
          RejectConflict, RejectAfterSimulation, RejectCommit, EditConflict,
          EditAfterSimulation, EditCommit, ExportRefused, ExportCommit, Inside
    <3>2. ~Recorded
      BY <3>1, InsideExcludesRecorded
    <3>3. /\ faults' = faults
          /\ draft'.status = draft.status \/ draft.status # "simulated"
      BY <1>1, <2>5
      DEF Ends, ApproveBlocked, ApproveAfterSimulation, ApproveConflict, ApproveCommit,
          RejectConflict, RejectAfterSimulation, RejectCommit, EditConflict,
          EditAfterSimulation, EditCommit, ExportRefused, ExportCommit, Terminal, store, spent
    <3> QED
      BY <1>0, <2>2, <2>3, <3>2, <3>3 DEF HandoffInv
  <2> QED
    BY <2>4, <2>5
<1>2. ASSUME NEW c \in Clients, MarkCommit(c)
      PROVE  HandoffInv'
  <2>1. /\ pc[c] = "recorded" /\ draft'.status = "simulated"
        /\ handed' = handed /\ UNCHANGED spent
        /\ pc' = [pc EXCEPT ![c] = "idle"]
    BY <1>0, <1>2 DEF MarkCommit, Leave, Finish, Goto, StoreOK
  <2>2. ~Recorded'
    BY <1>0, <1>2, <2>1 DEF LockInv, Holding, Recorded
  <2> QED
    BY <1>0, <2>1, <2>2 DEF HandoffInv, Recorded, spent
<1>3. ASSUME NEW c \in Clients, Record(c)
      PROVE  HandoffInv'
  <2>1. pc[c] = "inside" /\ draft.status = "approved"
        /\ handed' = Append(handed, Current) /\ UNCHANGED <<draft, spent>>
    BY <1>3 DEF Record, Inside, Deliverable, store
  <2>2. Recorded'
    BY <1>0, <1>3 DEF Record, Goto, Recorded
  <2>3. ~Recorded
    BY <2>1, InsideExcludesRecorded
  <2>4. Len(handed') = Len(handed) + 1 /\ handed'[Len(handed')] = Current
    BY <1>0, <2>1, CurrentType, AppendProperties DEF StoreOK
  <2>5. Current' = Current
    BY <2>1 DEF Current
  <2> QED
    BY <1>0, <2>1, <2>2, <2>3, <2>4, <2>5 DEF HandoffInv, spent
<1>4. ASSUME NEW c \in Clients,
             \/ SendDecision(c) \/ SendEdit(c) \/ SendExport(c) \/ Browses(c)
             \/ Acquire(c) \/ Refuse(c) \/ SimulateBlocked(c) \/ AnswerBlocked(c)
      PROVE  HandoffInv'
  <2>1. UNCHANGED <<draft, handed, faults, restarts>>
    BY <1>4 DEF SendDecision, SendEdit, SendExport, Send, Browses, OpenReview,
                EditFormRefused, Acquire, Refuse, SimulateBlocked, AnswerBlocked, store, spent
  <2>2. \A d \in Clients : pc'[d] = "recorded" <=> pc[d] = "recorded"
    BY <1>0, <1>4 DEF SendDecision, SendEdit, SendExport, Send, Browses, OpenReview, Finish,
                EditFormRefused, Acquire, Refuse, SimulateBlocked, AnswerBlocked, Goto, Inside
  <2>3. Recorded' <=> Recorded
    BY <2>2 DEF Recorded
  <2> QED
    BY <2>1, <2>3 DEF HandoffInv, Current
<1>5. CASE Environment
  <2>1. CASE Crash
    <3>1. restarts' = restarts + 1 /\ UNCHANGED <<draft, handed, faults>>
      BY <2>1 DEF Crash, store
    <3>2. ~Recorded'
      BY <2>1 DEF Crash, Recorded
    <3> QED
      BY <1>0, <3>1, <3>2 DEF HandoffInv
  <2>2. CASE OfflineWrite
    <3>1. /\ ~alive /\ faults' = faults + 1 /\ UNCHANGED <<pc, handed, restarts>>
          /\ draft'.status = draft.status
      BY <1>0, <2>2 DEF OfflineWrite, StoreOK
    <3>2. ~Recorded /\ ~Recorded'
      BY <1>0, <3>1 DEF LockInv, Recorded
    <3> QED
      BY <1>0, <3>1, <3>2 DEF HandoffInv
  <2>3. CASE EvidenceChanges \/ Restart
    <3>1. /\ UNCHANGED <<draft, pc, handed, restarts>>
          /\ faults' = faults \/ faults' = faults + 1
      BY <2>3 DEF EvidenceChanges, Restart, store, spent
    <3>2. (Recorded' <=> Recorded) /\ Current' = Current
      BY <3>1 DEF Recorded, Current
    <3> QED
      BY <1>0, <3>1, <3>2 DEF HandoffInv
  <2> QED
    BY <1>5, <2>1, <2>2, <2>3 DEF Environment
<1> QED
  BY <1>1, <1>2, <1>3, <1>4, <1>5, StepShapes DEF Continues

THEOREM HandoffInvariant == Spec => []HandoffInv
<1>1. DeskInv /\ HandoffInv /\ [Next]_vars => HandoffInv'
  <2> SUFFICES ASSUME DeskInv, HandoffInv, [Next]_vars
               PROVE  HandoffInv'
    OBVIOUS
  <2>1. CASE UNCHANGED vars
    BY <2>1 DEF vars, store, spent, HandoffInv, Recorded, Current
  <2> QED
    BY <2>1, HandoffStep
<1> QED
  BY <1>1, InitHandoff, DeskInvariant, PTL DEF Spec

(* A second handover needs a failed commit or a crash in between. *)
THEOREM HandoffOnceHolds == Spec => []HandoffOnce
<1>1. DeskInv /\ HandoffInv => HandoffOnce
  BY LenProperties DEF DeskInv, TypeOK, StoreOK, DeskOK, HandoffInv, HandoffOnce
<1> QED
  BY <1>1, DeskInvariant, HandoffInvariant, PTL

-----------------------------------------------------------------------------
(* Between the recorder's call and the mark nothing writes the draft: the  *)
(* holder of the lock is the only one that could, and a process that is    *)
(* down has no handover.                                                   *)
LEMMA RecordedKeepsDraft ==
  ASSUME DeskInv, Next, NEW d \in Clients, pc'[d] = "recorded"
  PROVE  /\ UNCHANGED draft
         /\ pc[d] = "recorded" \/ Record(d)
<1>0. /\ LockInv /\ StoreOK
      /\ pc \in [Clients -> {"idle", "queued", "inside", "recorded", "answering"}]
  BY DEF DeskInv, TypeOK, DeskOK
<1>1. ASSUME NEW c \in Clients, Ends(c) PROVE FALSE
  <2>1. pc'[c] = "idle" /\ pc[c] \in Holding /\ \A b \in Clients \ {c} : pc'[b] = pc[b]
    BY <1>0, <1>1, EndsLeaves DEF Leave, Finish, Goto
  <2> QED
    BY <1>0, <2>1 DEF LockInv, Holding
<1>2. ASSUME NEW c \in Clients, Record(c)
      PROVE  UNCHANGED draft /\ (pc[d] = "recorded" \/ Record(d))
  BY <1>0, <1>2 DEF Record, Goto, store
<1>3. ASSUME NEW c \in Clients,
             \/ SendDecision(c) \/ SendEdit(c) \/ SendExport(c) \/ Browses(c)
             \/ Acquire(c) \/ Refuse(c) \/ SimulateBlocked(c) \/ AnswerBlocked(c)
      PROVE  UNCHANGED draft /\ pc[d] = "recorded"
  BY <1>0, <1>3 DEF SendDecision, SendEdit, SendExport, Send, Browses, OpenReview, Finish,
              EditFormRefused, Acquire, Refuse, SimulateBlocked, AnswerBlocked, Goto, Inside, store
<1>4. CASE Environment
  <2>1. CASE OfflineWrite
    BY <1>0, <2>1 DEF OfflineWrite, LockInv
  <2>2. CASE Crash
    BY <2>2 DEF Crash
  <2>3. CASE EvidenceChanges \/ Restart
    BY <2>3 DEF EvidenceChanges, Restart, store
  <2> QED
    BY <1>4, <2>1, <2>2, <2>3 DEF Environment
<1> QED
  BY <1>1, <1>2, <1>3, <1>4, StepShapes DEF Continues

(* A body the recorder was given can be marked: the second look at the row *)
(* and its stamp finds what the first one found.                           *)
THEOREM HandoverCanBeMarkedHolds == Spec => []HandoverCanBeMarked
<1>1. Init => HandoverCanBeMarked
  BY DEF Init, HandoverCanBeMarked
<1>2. DeskInv /\ HandoverCanBeMarked /\ [Next]_vars => HandoverCanBeMarked'
  <2> SUFFICES ASSUME DeskInv, HandoverCanBeMarked, [Next]_vars,
                      NEW c \in Clients, pc'[c] = "recorded"
               PROVE  ~Terminal' /\ draft'.status = "approved" /\ draft'.stamp = Current'
    BY DEF HandoverCanBeMarked
  <2>1. CASE UNCHANGED vars
    BY <2>1 DEF vars, store, HandoverCanBeMarked, Current, Terminal
  <2>2. CASE Next
    <3>1. UNCHANGED draft /\ (pc[c] = "recorded" \/ Record(c))
      BY <2>2, RecordedKeepsDraft
    <3>2. ~Terminal /\ draft.status = "approved" /\ draft.stamp = Current
      BY <3>1 DEF HandoverCanBeMarked, Record, Deliverable
    <3> QED
      BY <3>1, <3>2 DEF Current, Terminal
  <2> QED
    BY <2>1, <2>2
<1> QED
  BY <1>1, <1>2, DeskInvariant, PTL DEF Spec

-----------------------------------------------------------------------------
(* The draft's lock.  One draft is all the keys there are, so the rule     *)
(* that a thread is in one operation only says that a holder does not      *)
(* enter again.                                                            *)
LEMMA LockMoves ==
  ASSUME TypeOK, LockInv, Next
  PROVE  \/ \E c \in Clients : holder = Nobody /\ holder' = c
         \/ holder \in Clients /\ holder' = Nobody
         \/ UNCHANGED holder
<1>0. holder \in Clients \cup {Nobody}
  BY DEF TypeOK, DeskOK
<1>1. ASSUME NEW c \in Clients, Ends(c) PROVE holder = c /\ holder' = Nobody
  BY <1>1, EndsLeaves DEF LockInv, Leave
<1>2. ASSUME NEW c \in Clients, SimulateBlocked(c) PROVE holder = c /\ holder' = Nobody
  BY <1>2 DEF SimulateBlocked, LockInv, Holding, Inside
<1>3. ASSUME NEW c \in Clients, Acquire(c) PROVE holder = Nobody /\ holder' = c
  BY <1>3 DEF Acquire
<1>4. ASSUME NEW c \in Clients,
             \/ SendDecision(c) \/ SendEdit(c) \/ SendExport(c) \/ Browses(c)
             \/ Refuse(c) \/ AnswerBlocked(c) \/ Record(c)
      PROVE  UNCHANGED holder
  BY <1>4 DEF SendDecision, SendEdit, SendExport, Send, Browses, OpenReview,
              EditFormRefused, Refuse, AnswerBlocked, Record
<1>5. CASE Environment
  BY <1>0, <1>5 DEF Environment, EvidenceChanges, Crash, OfflineWrite, Restart
<1> QED
  BY <1>1, <1>2, <1>3, <1>4, <1>5, StepShapes DEF Continues

(* The requests of a draft use its lock as DraftMutex promises it: with    *)
(* DraftLock's refinement, the registry serializes the review desk.        *)
THEOREM DeskUsesDraftLock == Spec => UsesDraftLock
<1> DEFINE held == [k \in {"draft"} |-> holder]
<1>1. Init => Lock!Init
  BY DEF Init, Lock!Init
<1>2. DeskInv /\ [Next]_vars => [Lock!Next]_held
  <2> SUFFICES ASSUME DeskInv, Next
               PROVE  [Lock!Next]_held
    BY DEF vars
  <2>1. ASSUME NEW c \in Clients, holder = Nobody, holder' = c PROVE Lock!Enter(c, "draft")
    <3>1. \A j \in {"draft"} : held[j] # c
      BY <2>1, ClientsAssumption
    <3>2. held' = [held EXCEPT !["draft"] = c]
      BY <2>1
    <3> QED
      BY <2>1, <3>1, <3>2 DEF Lock!Enter
  <2>2. ASSUME holder \in Clients, holder' = Nobody PROVE Lock!Leave(holder, "draft")
    <3>1. held' = [held EXCEPT !["draft"] = Nobody]
      BY <2>2
    <3> QED
      BY <2>2, <3>1 DEF Lock!Leave
  <2>3. CASE UNCHANGED holder
    BY <2>3
  <2> QED
    BY <2>1, <2>2, <2>3, LockMoves DEF Lock!Next, DeskInv
<1> QED
  BY <1>1, <1>2, DeskInvariant, PTL DEF Spec, UsesDraftLock, Lock!Spec

-----------------------------------------------------------------------------
(* The audit: which row is the last decision, and how appending rows moves *)
(* it.  That there is one is part of the invariant, AuditInv, because a    *)
(* log without any would leave LastDecided free.                           *)
LastAt(rows, i) ==
  /\ i \in 1..Len(rows)
  /\ IsDecided(rows[i])
  /\ \A j \in 1..Len(rows) : IsDecided(rows[j]) => j <= i

ExportsApproved(rows) ==
  \A i \in 1..Len(rows) : rows[i].action = "export_csv" =>
    LastDecided(SubSeq(rows, 1, i)) = Row("status:approved", rows[i].snapshot)

Approves(rows, s) == \E j \in 1..Len(rows) : rows[j] = Row("status:approved", s)

AuditInv ==
  /\ \E i \in 1..Len(audit) : LastAt(audit, i)
  /\ AuditExplainsDraft
  /\ ExportsApproved(audit)
  /\ \A i \in 1..Len(handed) : Approves(audit, handed[i])

LEMMA LastDecidedIs ==
  ASSUME NEW rows \in Seq(Rows), NEW i, LastAt(rows, i)
  PROVE  LastDecided(rows) = rows[i]
<1> DEFINE decided == {k \in 1..Len(rows) : IsDecided(rows[k])}
           last == CHOOSE k \in decided : \A j \in decided : j <= k
<1>1. i \in decided /\ \A j \in decided : j <= i
  BY DEF LastAt
<1>2. last \in decided /\ \A j \in decided : j <= last
  BY <1>1
<1>3. last = i
  <2>1. last <= i /\ i <= last /\ last \in Int /\ i \in Int
    BY <1>1, <1>2
  <2> HIDE DEF last
  <2> QED
    BY <2>1
<1> QED
  BY <1>3 DEF LastDecided

LEMMA AppendedRow ==
  ASSUME NEW rows \in Seq(Rows), NEW row \in Rows
  PROVE  /\ Append(rows, row) \in Seq(Rows)
         /\ Len(rows) \in Nat
         /\ Len(Append(rows, row)) = Len(rows) + 1
         /\ \A i \in 1..Len(rows) : Append(rows, row)[i] = rows[i]
         /\ Append(rows, row)[Len(rows) + 1] = row
         /\ 1..(Len(rows) + 1) = 1..Len(rows) \cup {Len(rows) + 1}
<1>1. Len(rows) \in Nat
  BY LenProperties
<1> QED
  BY <1>1, AppendProperties

(* A decision becomes the last one; any other row leaves it where it was. *)
LEMMA DecisionIsLast ==
  ASSUME NEW rows \in Seq(Rows), NEW row \in Rows, IsDecided(row)
  PROVE  /\ LastAt(Append(rows, row), Len(rows) + 1)
         /\ LastDecided(Append(rows, row)) = row
<1>1. LastAt(Append(rows, row), Len(rows) + 1)
  BY AppendedRow DEF LastAt
<1>2. LastDecided(Append(rows, row)) = Append(rows, row)[Len(rows) + 1]
  BY <1>1, AppendedRow, LastDecidedIs
<1> QED
  BY <1>1, <1>2, AppendedRow

LEMMA OtherRowsKeepLast ==
  ASSUME NEW rows \in Seq(Rows), NEW row \in Rows, ~IsDecided(row), NEW i, LastAt(rows, i)
  PROVE  /\ LastAt(Append(rows, row), i)
         /\ LastDecided(Append(rows, row)) = LastDecided(rows)
<1>1. LastAt(Append(rows, row), i)
  BY AppendedRow DEF LastAt
<1>2. Append(rows, row)[i] = rows[i]
  BY AppendedRow DEF LastAt
<1>3. LastDecided(Append(rows, row)) = Append(rows, row)[i] /\ LastDecided(rows) = rows[i]
  BY <1>1, AppendedRow, LastDecidedIs
<1> QED
  BY <1>1, <1>2, <1>3

(* Appending a row changes no prefix of the log: what was an export of an  *)
(* approved snapshot stays one.                                            *)
LEMMA ExportsStayApproved ==
  ASSUME NEW rows \in Seq(Rows), NEW row \in Rows, ExportsApproved(rows),
         row.action = "export_csv" =>
           LastDecided(Append(rows, row)) = Row("status:approved", row.snapshot)
  PROVE  ExportsApproved(Append(rows, row))
<1> DEFINE longer == Append(rows, row)
<1> SUFFICES ASSUME NEW i \in 1..Len(longer), longer[i].action = "export_csv"
             PROVE  LastDecided(SubSeq(longer, 1, i)) = Row("status:approved", longer[i].snapshot)
  BY DEF ExportsApproved
<1>0. /\ longer \in Seq(Rows) /\ Len(rows) \in Nat /\ Len(longer) = Len(rows) + 1
      /\ \A k \in 1..Len(rows) : longer[k] = rows[k]
      /\ longer[Len(rows) + 1] = row
  BY AppendedRow
<1> HIDE DEF longer
<1>1. CASE i \in 1..Len(rows)
  <2>1. SubSeq(longer, 1, i) = SubSeq(rows, 1, i)
    BY <1>0, <1>1
  <2> QED
    BY <1>0, <1>1, <2>1 DEF ExportsApproved
<1>2. CASE i = Len(rows) + 1
  <2>1. SubSeq(longer, 1, i) = longer
    BY <1>0, <1>2
  <2> QED
    BY <1>0, <1>2, <2>1 DEF longer
<1> QED
  BY <1>0, <1>1, <1>2

LEMMA ApprovalsStay ==
  ASSUME NEW rows \in Seq(Rows), NEW row \in Rows, NEW s, Approves(rows, s)
  PROVE  Approves(Append(rows, row), s)
BY AppendedRow DEF Approves

(* One row at a time: a decision that explains the new draft, or a row     *)
(* that is none and leaves the draft alone.                                *)
LEMMA AuditOfDecision ==
  ASSUME AuditInv, UNCHANGED handed, handed \in Seq(Snapshots),
         NEW rows \in Seq(Rows), NEW row \in Rows, audit' = Append(rows, row),
         IsDecided(row), Explains(row)', ExportsApproved(rows),
         \A i \in 1..Len(handed) : Approves(rows, handed[i])
  PROVE  AuditInv'
<1>1. LastAt(audit', Len(rows) + 1) /\ LastDecided(audit') = row
  BY DecisionIsLast
<1>2. Len(rows) + 1 \in 1..Len(audit')
  BY <1>1 DEF LastAt
<1>3. ExportsApproved(audit')
  <2>1. row.action # "export_csv"
    BY DEF IsDecided, Decided
  <2> QED
    BY <2>1, ExportsStayApproved
<1>4. \A i \in 1..Len(handed') : Approves(audit', handed'[i])
  BY ApprovalsStay
<1>5. AuditExplainsDraft'
  BY <1>1 DEF AuditExplainsDraft, Explains
<1> QED
  BY <1>1, <1>2, <1>3, <1>4, <1>5 DEF AuditInv

LEMMA AuditOfOther ==
  ASSUME AuditInv, UNCHANGED <<draft, handed>>, audit \in Seq(Rows),
         NEW row \in Rows, audit' = Append(audit, row), ~IsDecided(row),
         row.action = "export_csv" =>
           LastDecided(audit) = Row("status:approved", row.snapshot)
  PROVE  AuditInv'
<1>1. PICK i \in 1..Len(audit) : LastAt(audit, i)
  BY DEF AuditInv
<1>2. LastAt(audit', i) /\ LastDecided(audit') = LastDecided(audit)
  BY <1>1, OtherRowsKeepLast
<1>3. i \in 1..Len(audit')
  BY <1>2 DEF LastAt
<1>4. ExportsApproved(audit')
  BY <1>2, ExportsStayApproved DEF AuditInv
<1>5. \A k \in 1..Len(handed') : Approves(audit', handed'[k])
  BY ApprovalsStay DEF AuditInv
<1>6. AuditExplainsDraft'
  BY <1>2 DEF AuditInv, AuditExplainsDraft, Explains
<1> QED
  BY <1>2, <1>3, <1>4, <1>5, <1>6 DEF AuditInv

(* While a draft is deliverable, its approval is the last decision. *)
LEMMA DeliverableWasApproved ==
  ASSUME StoreOK, AuditInv, Deliverable
  PROVE  /\ LastDecided(audit) = Row("status:approved", Current)
         /\ Approves(audit, Current)
<1>0. audit \in Seq(Rows)
  BY DEF StoreOK, Rows
<1>1. PICK i \in 1..Len(audit) : LastAt(audit, i)
  BY DEF AuditInv
<1>2. LastDecided(audit) = audit[i] /\ audit[i] \in Rows
  BY <1>0, <1>1, LastDecidedIs, ElementOfSeq
<1>3. IsDecided(audit[i]) /\ Explains(audit[i])
  BY <1>1, <1>2 DEF LastAt, AuditInv, AuditExplainsDraft
<1>4. audit[i].action = "status:approved"
  BY <1>3 DEF IsDecided, Decided, Explains, Deliverable
<1>5. audit[i].snapshot = Current
  <2>1. draft.stamp = Current /\ draft.stamp # NoSnapshot
    BY CurrentType, SnapshotAssumption DEF Deliverable, Snapshots
  <2> QED
    BY <1>3, <2>1 DEF Explains
<1>6. audit[i] = Row("status:approved", Current)
  BY <1>2, <1>4, <1>5 DEF Rows, Row
<1> QED
  BY <1>2, <1>6 DEF Approves

LEMMA InitAudit == Init => AuditInv
<1> SUFFICES ASSUME Init
             PROVE  AuditInv
  OBVIOUS
<1>0. StoreOK /\ handed = <<>>
  BY InitDesk DEF DeskInv, TypeOK, Init
<1>1. audit \in Seq(Rows)
  BY <1>0 DEF StoreOK, Rows
<1>2. \A i \in 1..Len(audit) : IsDecided(audit[i]) /\ audit[i].action # "export_csv"
  BY DEF Init, Row, IsDecided, Decided
<1>3. Len(audit) \in 1..2 /\ LastAt(audit, Len(audit))
  <2>1. draft.status \in {"pending", "approved", "rejected"}
    BY InitRow
  <2>2. Len(audit) \in 1..2
    BY <2>1 DEF Init
  <2> QED
    BY <1>2, <2>2 DEF LastAt
<1>4. Explains(audit[Len(audit)])
  <2>1. draft.stamp = NoSnapshot
    BY DEF Init
  <2>2. CASE draft.status = "pending"
    <3>1. audit = <<Row("submitted", Current)>> \/ audit = <<Row("submitted", NoSnapshot)>>
      BY <2>2 DEF Init
    <3>2. /\ audit[Len(audit)].action = "submitted"
          /\ audit[Len(audit)].snapshot \in {Current, NoSnapshot}
      BY <3>1 DEF Row
    <3> QED
      BY <2>1, <2>2, <3>2 DEF Explains, Current
  <2>3. CASE draft.status = "approved"
    <3>1. audit = <<Row("submitted", NoSnapshot), Row("status:approved", NoSnapshot)>>
      BY <2>3 DEF Init
    <3>2. /\ audit[Len(audit)].action = "status:approved"
          /\ audit[Len(audit)].snapshot = NoSnapshot
      BY <3>1 DEF Row
    <3> QED
      BY <2>1, <2>3, <3>2 DEF Explains
  <2>4. CASE draft.status = "rejected"
    <3>1. audit = <<Row("submitted", NoSnapshot), Row("status:rejected", NoSnapshot)>>
      BY <2>4 DEF Init
    <3>2. /\ audit[Len(audit)].action = "status:rejected"
          /\ audit[Len(audit)].snapshot = NoSnapshot
      BY <3>1 DEF Row
    <3> QED
      BY <2>1, <2>4, <3>2 DEF Explains
  <2> QED
    BY <2>2, <2>3, <2>4 DEF Init
<1> QED
  BY <1>0, <1>1, <1>2, <1>3, <1>4, LastDecidedIs
  DEF AuditInv, AuditExplainsDraft, ExportsApproved

(* A correction appends its own row, after a revocation when there was an  *)
(* approval to revoke.                                                     *)
LEMMA EditAppends ==
  ASSUME TypeOK, NEW c \in Clients, EditCommit(c)
  PROVE  \/ audit' = Append(audit, Row("edited", Revision(job[c].content)))
         \/ audit' = Append(Append(audit, Row("approval_revoked", Revision(job[c].content))),
                            Row("edited", Revision(job[c].content)))
<1> DEFINE revised == Row("approval_revoked", Revision(job[c].content))
           edited == Row("edited", Revision(job[c].content))
<1>1. revised \in Rows /\ edited \in Rows
  BY RevisionType DEF Row, Rows, Actions
<1>2. audit \in Seq(Rows)
  BY DEF TypeOK, StoreOK, Rows
<1>3. audit' = audit \o <<edited>> \/ audit' = audit \o <<revised, edited>>
  BY DEF EditCommit, EditRows
<1> HIDE DEF revised, edited
<1>4. audit \o <<edited>> = Append(audit, edited)
  BY <1>1, <1>2, AppendIsConcat
<1>5. audit \o <<revised, edited>> = Append(Append(audit, revised), edited)
  BY <1>1, <1>2
<1> QED
  BY <1>3, <1>4, <1>5 DEF revised, edited

LEMMA AuditStep ==
  ASSUME DeskInv, AuditInv, Next
  PROVE  AuditInv'
<1>0. /\ StoreOK /\ TypeOK /\ ApprovalBindsContent
      /\ audit \in Seq(Rows) /\ handed \in Seq(Snapshots)
      /\ Current \in Snapshots
  BY CurrentType DEF DeskInv, TypeOK, StoreOK, Rows
<1>r. \A a \in Actions, s \in Snapshots \cup {NoSnapshot} :
        Row(a, s) \in Rows /\ Row(a, s).action = a /\ Row(a, s).snapshot = s
  BY DEF Row, Rows
<1>h. ExportsApproved(audit) /\ \A i \in 1..Len(handed) : Approves(audit, handed[i])
  BY DEF AuditInv
<1>1. ASSUME NEW c \in Clients, ApproveCommit(c)
      PROVE  AuditInv'
  <2>1. PICK row \in Rows : /\ row.action = "status:approved" /\ row.snapshot = Current
                            /\ audit' = Append(audit, row)
    BY <1>0, <1>1, <1>r DEF ApproveCommit, Log, Actions
  <2>2. handed' = handed
    BY <1>1 DEF ApproveCommit
  <2>3. draft'.status = "approved" /\ draft'.stamp = Current
        /\ draft'.revision = draft.revision /\ Current.revision = draft.revision
    BY <1>0, <1>1 DEF ApproveCommit, StoreOK, Current
  <2>4. IsDecided(row) /\ Explains(row)'
    BY <2>1, <2>3 DEF IsDecided, Decided, Explains
  <2> QED
    BY <1>0, <1>h, <2>1, <2>2, <2>4, AuditOfDecision
<1>2. ASSUME NEW c \in Clients, RejectCommit(c)
      PROVE  AuditInv'
  <2>1. PICK row \in Rows : /\ row.action = "status:rejected" /\ row.snapshot = Current
                            /\ audit' = Append(audit, row)
    BY <1>0, <1>2, <1>r DEF RejectCommit, Log, Actions
  <2>2. handed' = handed
    BY <1>2 DEF RejectCommit
  <2>3. draft'.status = "rejected" /\ draft'.stamp = NoSnapshot
        /\ draft'.revision = draft.revision /\ Current.revision = draft.revision
    BY <1>0, <1>2 DEF RejectCommit, StoreOK, Current
  <2>4. IsDecided(row) /\ Explains(row)'
    BY <2>1, <2>3 DEF IsDecided, Decided, Explains
  <2> QED
    BY <1>0, <1>h, <2>1, <2>2, <2>4, AuditOfDecision
<1>3. ASSUME NEW c \in Clients, MarkCommit(c)
      PROVE  AuditInv'
  <2>1. PICK row \in Rows : /\ row.action = "simulation_completed" /\ row.snapshot = Current
                            /\ audit' = Append(audit, row)
    BY <1>0, <1>3, <1>r DEF MarkCommit, Log, Actions
  <2>2. handed' = handed
    BY <1>3 DEF MarkCommit
  <2>3. draft'.status = "simulated" /\ draft'.stamp = Current
        /\ draft'.revision = draft.revision /\ Current.revision = draft.revision
    BY <1>0, <1>3 DEF MarkCommit, StoreOK, Current
  <2>4. IsDecided(row) /\ Explains(row)'
    BY <2>1, <2>3 DEF IsDecided, Decided, Explains
  <2> QED
    BY <1>0, <1>h, <2>1, <2>2, <2>4, AuditOfDecision
<1>4. ASSUME NEW c \in Clients, EditCommit(c)
      PROVE  AuditInv'
  <2>1. /\ Row("approval_revoked", Revision(job[c].content)) \in Rows
        /\ Row("edited", Revision(job[c].content)) \in Rows
    BY <1>0, <1>r, RevisionType DEF Actions
  <2>2. PICK revised \in Rows, edited \in Rows :
          /\ revised = Row("approval_revoked", Revision(job[c].content))
          /\ edited = Row("edited", Revision(job[c].content))
    BY <2>1
  <2>3. /\ revised.action = "approval_revoked" /\ edited.action = "edited"
        /\ edited.snapshot = Revision(job[c].content)
        /\ edited.snapshot.revision = draft.revision + 1
    BY <2>2 DEF Row, Revision
  <2>4. \/ audit' = Append(audit, edited)
        \/ audit' = Append(Append(audit, revised), edited)
    BY <1>0, <1>4, <2>2, EditAppends
  <2>5. draft'.status = "pending" /\ draft'.stamp = NoSnapshot
        /\ draft'.revision = draft.revision + 1 /\ handed' = handed
    BY <1>0, <1>4, EditEffect DEF ApprovalBindsContent
  <2>6. IsDecided(edited) /\ Explains(edited)'
    BY <2>3, <2>5 DEF IsDecided, Decided, Explains
  <2>7. CASE audit' = Append(audit, edited)
    BY <1>0, <1>h, <2>5, <2>6, <2>7, AuditOfDecision
  <2>8. CASE audit' = Append(Append(audit, revised), edited)
    <3>1. Append(audit, revised) \in Seq(Rows)
      BY <1>0, AppendedRow
    <3>2. ExportsApproved(Append(audit, revised))
      BY <1>0, <1>h, <2>3, ExportsStayApproved
    <3>3. \A i \in 1..Len(handed) : Approves(Append(audit, revised), handed[i])
      BY <1>0, <1>h, ApprovalsStay
    <3> QED
      BY <1>0, <2>5, <2>6, <2>8, <3>1, <3>2, <3>3, AuditOfDecision
  <2> QED
    BY <2>4, <2>7, <2>8
<1>5. ASSUME NEW c \in Clients, LogsOnly(c), ~ExportCommit(c)
      PROVE  AuditInv'
  <2>1. \E a \in {"status_blocked", "edit_blocked", "simulation_blocked"} : Log(a, NoSnapshot)
    BY <1>5 DEF LogsOnly, ApproveAfterSimulation, RejectAfterSimulation, EditAfterSimulation,
                SimulateBlocked
  <2>2. PICK a \in {"status_blocked", "edit_blocked", "simulation_blocked"} : Log(a, NoSnapshot)
    BY <2>1
  <2>3. /\ Row(a, NoSnapshot) \in Rows /\ ~IsDecided(Row(a, NoSnapshot))
        /\ Row(a, NoSnapshot).action # "export_csv"
    BY <1>r DEF Actions, IsDecided, Decided
  <2>4. UNCHANGED <<draft, handed>>
    BY <1>0, <1>5, LogsOnlyType
  <2> QED
    BY <1>0, <2>2, <2>3, <2>4, AuditOfOther DEF Log
<1>6. ASSUME NEW c \in Clients, ExportCommit(c)
      PROVE  AuditInv'
  <2> DEFINE row == Row("export_csv", Current)
  <2>1. row \in Rows /\ ~IsDecided(row) /\ row.snapshot = Current
    BY <1>0, <1>r DEF Actions, IsDecided, Decided
  <2>2. audit' = Append(audit, row) /\ UNCHANGED <<draft, handed>>
    BY <1>6 DEF ExportCommit, Log
  <2>3. LastDecided(audit) = Row("status:approved", Current)
    BY <1>0, <1>6, DeliverableWasApproved DEF ExportCommit
  <2> HIDE DEF row
  <2> QED
    BY <1>0, <2>1, <2>2, <2>3, AuditOfOther
<1>7. ASSUME NEW c \in Clients, Record(c)
      PROVE  AuditInv'
  <2>1. handed' = Append(handed, Current) /\ UNCHANGED <<draft, audit>>
    BY <1>7 DEF Record, store
  <2>2. Approves(audit, Current)
    BY <1>0, <1>7, DeliverableWasApproved DEF Record
  <2>3. \A i \in 1..Len(handed') : Approves(audit, handed'[i])
    <3>1. /\ Len(handed') = Len(handed) + 1 /\ Len(handed) \in Nat
          /\ \A i \in 1..Len(handed) : handed'[i] = handed[i]
          /\ handed'[Len(handed) + 1] = Current
      BY <1>0, <2>1, AppendProperties, LenProperties
    <3>2. \A i \in 1..Len(handed') : i \in 1..Len(handed) \/ i = Len(handed) + 1
      BY <3>1
    <3> QED
      BY <1>h, <2>2, <3>1, <3>2
  <2> QED
    BY <2>1, <2>3 DEF AuditInv, AuditExplainsDraft, Explains
<1>8. CASE OfflineWrite
  <2>1. UNCHANGED <<audit, handed>> /\ draft'.status = draft.status
        /\ draft'.revision = draft.revision /\ draft'.stamp = draft.stamp
    BY <1>0, <1>8 DEF OfflineWrite, StoreOK
  <2> QED
    BY <2>1 DEF AuditInv, AuditExplainsDraft, Explains
<1>9. CASE UNCHANGED <<store, handed>>
  BY <1>9 DEF store, AuditInv, AuditExplainsDraft, Explains
<1> QED
  BY <1>1, <1>2, <1>3, <1>4, <1>5, <1>6, <1>7, <1>8, <1>9, StoreShapes DEF Decides, LogsOnly

THEOREM AuditInvariant == Spec => []AuditInv
<1>1. DeskInv /\ AuditInv /\ [Next]_vars => AuditInv'
  <2> SUFFICES ASSUME DeskInv, AuditInv, [Next]_vars
               PROVE  AuditInv'
    OBVIOUS
  <2>1. CASE UNCHANGED vars
    BY <2>1 DEF vars, store, AuditInv, AuditExplainsDraft, Explains
  <2> QED
    BY <2>1, AuditStep
<1> QED
  BY <1>1, InitAudit, DeskInvariant, PTL DEF Spec

(* The audit tells the draft's status and the snapshot it is about,        *)
(* whatever requests, failures, crashes and tampering came between.        *)
THEOREM AuditExplainsDraftHolds == Spec => []AuditExplainsDraft
<1>1. AuditInv => AuditExplainsDraft
  BY DEF AuditInv
<1> QED
  BY <1>1, AuditInvariant, PTL

(* Every export and every handover is of a snapshot that was approved, and *)
(* for an export the approval is still the last decision when it is made.  *)
THEOREM OutputsWereApprovedHolds == Spec => []OutputsWereApproved
<1>1. AuditInv => OutputsWereApproved
  BY DEF AuditInv, OutputsWereApproved, ExportsApproved, Approves
<1> QED
  BY <1>1, AuditInvariant, PTL

-----------------------------------------------------------------------------
(* The refinement: how each kind of step changes what has left. *)
Exported(rows, x) ==
  \E i \in 1..Len(rows) : rows[i].action = "export_csv" /\ rows[i].snapshot = x

Handed(seq, x) == \E i \in 1..Len(seq) : seq[i] = x

LEMMA DeliveredMember == \A x : x \in Delivered <=> Handed(handed, x) \/ Exported(audit, x)
BY DEF Delivered, Handed, Exported

LEMMA DeliveredMemberNext ==
  \A x : x \in Delivered' <=> Handed(handed', x) \/ Exported(audit', x)
BY DEF Delivered, Handed, Exported

LEMMA ExportedAppend ==
  ASSUME NEW rows \in Seq(Rows), NEW row \in Rows, NEW x
  PROVE  Exported(Append(rows, row), x)
           <=> Exported(rows, x) \/ (row.action = "export_csv" /\ row.snapshot = x)
<1>1. /\ Len(Append(rows, row)) = Len(rows) + 1
      /\ \A i \in 1..Len(rows) : Append(rows, row)[i] = rows[i]
      /\ Append(rows, row)[Len(rows) + 1] = row
      /\ Len(rows) \in Nat
  BY AppendProperties, LenProperties
<1>2. 1..(Len(rows) + 1) = 1..Len(rows) \cup {Len(rows) + 1}
  BY <1>1
<1> QED
  BY <1>1, <1>2 DEF Exported

LEMMA HandedAppend ==
  ASSUME NEW seq \in Seq(Snapshots), NEW s \in Snapshots, NEW x
  PROVE  Handed(Append(seq, s), x) <=> Handed(seq, x) \/ s = x
<1>1. /\ Len(Append(seq, s)) = Len(seq) + 1
      /\ \A i \in 1..Len(seq) : Append(seq, s)[i] = seq[i]
      /\ Append(seq, s)[Len(seq) + 1] = s
      /\ Len(seq) \in Nat
  BY AppendProperties, LenProperties
<1>2. 1..(Len(seq) + 1) = 1..Len(seq) \cup {Len(seq) + 1}
  BY <1>1
<1> QED
  BY <1>1, <1>2 DEF Handed

(* An audit row other than an export lets nothing out. *)
LEMMA LogKeepsDelivered ==
  ASSUME StoreOK, NEW a \in Actions \ {"export_csv"}, NEW s \in Snapshots \cup {NoSnapshot},
         Log(a, s), handed' = handed
  PROVE  Delivered' = Delivered
<1>1. Row(a, s) \in Rows /\ Row(a, s).action = a
  BY DEF Row, Rows
<1>2. audit \in Seq(Rows) /\ audit' = Append(audit, Row(a, s))
  BY DEF StoreOK, Rows, Log
<1>3. \A x : Exported(audit', x) <=> Exported(audit, x)
  BY <1>1, <1>2, ExportedAppend
<1> QED
  BY <1>3, DeliveredMember, DeliveredMemberNext

LEMMA EditKeepsDelivered ==
  ASSUME TypeOK, NEW c \in Clients, EditCommit(c)
  PROVE  Delivered' = Delivered
<1> DEFINE revised == Row("approval_revoked", Revision(job[c].content))
           edited == Row("edited", Revision(job[c].content))
<1>1. /\ revised \in Rows /\ revised.action # "export_csv"
      /\ edited \in Rows /\ edited.action # "export_csv"
  BY RevisionType DEF Row, Rows, Actions
<1>2. audit \in Seq(Rows) /\ handed' = handed
  BY EditEffect DEF TypeOK, StoreOK, Rows
<1>3. \/ audit' = Append(audit, edited)
      \/ audit' = Append(Append(audit, revised), edited)
  BY EditAppends
<1> HIDE DEF revised, edited
<1>4. Append(audit, revised) \in Seq(Rows)
  BY <1>1, <1>2, AppendProperties
<1>5. \A x : Exported(audit', x) <=> Exported(audit, x)
  <2>1. CASE audit' = Append(audit, edited)
    BY <1>1, <1>2, <2>1, ExportedAppend
  <2>2. CASE audit' = Append(Append(audit, revised), edited)
    <3>1. \A x : Exported(audit', x) <=> Exported(Append(audit, revised), x)
      BY <1>1, <1>4, <2>2, ExportedAppend
    <3> QED
      BY <1>1, <1>2, <3>1, ExportedAppend
  <2> QED
    BY <1>3, <2>1, <2>2
<1> QED
  BY <1>2, <1>5, DeliveredMember, DeliveredMemberNext

(* What may leave is the preserved text of the latest revision. *)
LEMMA DeliverableIsPreserved ==
  ASSUME StoreOK, ApprovalBindsContent, draft.stamp = Current
  PROVE  /\ draft.revision \in DOMAIN snapshots
         /\ Current = [revision |-> draft.revision, content |-> snapshots[draft.revision]]
<1>1. Current # NoSnapshot
  BY CurrentType, SnapshotAssumption DEF Snapshots
<1> QED
  BY <1>1 DEF ApprovalBindsContent, Current

LEMMA ContractStep ==
  ASSUME DeskInv, HandoffInv, Next
  PROVE  Contract!Next \/ UNCHANGED <<draft.revision, snapshots, Decision, Delivered>>
<1>0. StoreOK /\ DeskOK /\ TypeOK /\ ApprovalBindsContent /\ Current \in Snapshots
  BY CurrentType DEF DeskInv, TypeOK
<1>1. ASSUME NEW c \in Clients, ApproveCommit(c)
      PROVE  Contract!Approve
  <2>1. Delivered' = Delivered
    BY <1>0, <1>1, ApproveEffect, LogKeepsDelivered DEF ApproveCommit, Actions
  <2>2. /\ Decision \in {"pending", "approved"} /\ Decision' = "approved"
        /\ draft'.revision = draft.revision
    BY <1>0, <1>1, ApproveEffect DEF ApproveCommit, Decision, Terminal, StoreOK, Statuses
  <2>3. \/ draft.revision \in DOMAIN snapshots /\ UNCHANGED snapshots
        \/ /\ draft.revision \notin DOMAIN snapshots
           /\ \E x \in Contents : Contract!Preserves(draft.revision, x)
    BY <1>0, <1>1 DEF ApproveCommit, Preserve, StoreOK, Contract!Preserves
  <2> QED
    BY <2>1, <2>2, <2>3 DEF Contract!Approve
<1>2. ASSUME NEW c \in Clients, RejectCommit(c)
      PROVE  Contract!Reject
  <2>1. Delivered' = Delivered
    BY <1>0, <1>2, LogKeepsDelivered DEF RejectCommit, Actions
  <2>2. Decision # "simulated" /\ Decision' = "rejected" /\ draft'.revision = draft.revision
        /\ UNCHANGED snapshots
    BY <1>0, <1>2 DEF RejectCommit, Decision, Terminal, StoreOK
  <2> QED
    BY <2>1, <2>2 DEF Contract!Reject
<1>3. ASSUME NEW c \in Clients, EditCommit(c)
      PROVE  Contract!Revise
  <2>1. Delivered' = Delivered
    BY <1>0, <1>3, EditKeepsDelivered
  <2>2. Decision # "simulated" /\ Decision' = "pending"
        /\ draft'.revision = draft.revision + 1
    BY <1>0, <1>3, EditEffect DEF EditCommit, Decision, Terminal
  <2>3. \E x \in Contents : Contract!Preserves(draft.revision + 1, x)
    BY <1>0, <1>3 DEF EditCommit, Preserve, DeskOK, Contract!Preserves
  <2> QED
    BY <2>1, <2>2, <2>3 DEF Contract!Revise
<1>4. ASSUME NEW c \in Clients, MarkCommit(c)
      PROVE  Contract!Simulate
  <2>1. Decision = "approved" /\ draft.stamp = Current /\ pc[c] = "recorded"
        /\ UNCHANGED <<snapshots, handed>>
        /\ Decision' = "simulated" /\ draft'.revision = draft.revision
    BY <1>0, <1>4 DEF MarkCommit, Decision, Terminal, StoreOK
  <2>2. Delivered' = Delivered
    BY <1>0, <1>4, LogKeepsDelivered DEF MarkCommit, Actions
  <2>3. Current \in Delivered
    BY <2>1, DeliveredMember DEF HandoffInv, Recorded, Handed
  <2> QED
    BY <1>0, <2>1, <2>2, <2>3, DeliverableIsPreserved DEF Contract!Simulate
<1>5. ASSUME NEW c \in Clients, ExportCommit(c) \/ Record(c)
      PROVE  Contract!Deliver
  <2>1. draft.status = "approved" /\ draft.stamp = Current
        /\ UNCHANGED <<draft, snapshots>>
    BY <1>5 DEF ExportCommit, Record, Deliverable, store
  <2>0. Decision = "approved" /\ UNCHANGED <<draft.revision, Decision>>
    <3>1. draft.stamp # NoSnapshot
      BY <1>0, <2>1, SnapshotAssumption DEF Snapshots
    <3> QED
      BY <1>0, <2>1, <3>1 DEF ApprovalBindsContent, Decision, Terminal, StoreOK
  <2>2. Delivered' = Delivered \cup {Current}
    <3>1. CASE ExportCommit(c)
      <4>1. Row("export_csv", Current) \in Rows
            /\ Row("export_csv", Current).action = "export_csv"
            /\ Row("export_csv", Current).snapshot = Current
        BY <1>0 DEF Row, Rows, Actions
      <4>2. audit \in Seq(Rows) /\ handed' = handed
            /\ audit' = Append(audit, Row("export_csv", Current))
        BY <1>0, <3>1 DEF ExportCommit, Log, StoreOK, Rows
      <4>3. \A x : Exported(audit', x) <=> Exported(audit, x) \/ Current = x
        BY <4>1, <4>2, ExportedAppend
      <4> QED
        BY <4>2, <4>3, DeliveredMember, DeliveredMemberNext
    <3>2. CASE Record(c)
      <4>1. handed \in Seq(Snapshots) /\ handed' = Append(handed, Current) /\ audit' = audit
        BY <1>0, <3>2 DEF Record, StoreOK, store
      <4>2. \A x : Handed(handed', x) <=> Handed(handed, x) \/ Current = x
        BY <1>0, <4>1, HandedAppend
      <4> QED
        BY <4>1, <4>2, DeliveredMember, DeliveredMemberNext
    <3> QED
      BY <1>5, <3>1, <3>2
  <2> QED
    BY <1>0, <2>0, <2>1, <2>2, DeliverableIsPreserved DEF Contract!Deliver
<1>6. ASSUME NEW c \in Clients, LogsOnly(c), ~ExportCommit(c)
      PROVE  UNCHANGED <<draft.revision, snapshots, Decision, Delivered>>
  <2>1. UNCHANGED <<draft, snapshots, handed>>
    BY <1>0, <1>6, LogsOnlyType
  <2>2. \/ Log("status_blocked", NoSnapshot) \/ Log("edit_blocked", NoSnapshot)
        \/ Log("simulation_blocked", NoSnapshot)
    BY <1>6 DEF LogsOnly, ApproveAfterSimulation, RejectAfterSimulation, EditAfterSimulation,
                SimulateBlocked
  <2>3. Delivered' = Delivered
    BY <1>0, <2>1, <2>2, LogKeepsDelivered DEF Actions
  <2> QED
    BY <2>1, <2>3 DEF Decision, Terminal
<1>7. CASE OfflineWrite
  <2>1. UNCHANGED <<snapshots, audit, handed>>
        /\ draft'.revision = draft.revision /\ draft'.status = draft.status
        /\ draft'.simulated = draft.simulated
    BY <1>0, <1>7 DEF OfflineWrite, StoreOK
  <2> QED
    BY <2>1 DEF Delivered, Decision, Terminal
<1>8. CASE UNCHANGED <<store, handed>>
  BY <1>8 DEF store, Delivered, Decision, Terminal
<1> QED
  BY <1>1, <1>2, <1>3, <1>4, <1>5, <1>6, <1>7, <1>8, StoreShapes
  DEF Decides, LogsOnly, Contract!Next

(* The review desk, with its requests, locks, refusals, failures and       *)
(* crashes, implements the contract of the human-in-the-loop gate.         *)
THEOREM DeskImplementsContract == Spec => ImplementsContract
<1>1. Init => Contract!Init
  <2> SUFFICES ASSUME Init
               PROVE  Contract!Init
    OBVIOUS
  <2>1. draft.revision = 1 /\ Decision \in Contract!Decisions
    BY DEF Init, Decision, Terminal, Contract!Decisions
  <2>4. Decision # "pending" => DOMAIN snapshots = {}
    BY DEF Init, Decision, Terminal
  <2>2. DOMAIN snapshots \subseteq {1} /\ \A r \in DOMAIN snapshots : snapshots[r] \in Contents
    BY ContentsAssumption DEF Init
  <2>3. Delivered = {}
    <3>1. handed = <<>>
      BY DEF Init
    <3>2. \A i \in 1..Len(audit) : audit[i].action # "export_csv"
      BY DEF Init, Row
    <3> QED
      BY <3>1, <3>2 DEF Delivered
  <2> QED
    BY <2>1, <2>2, <2>3, <2>4 DEF Contract!Init
<1>2. DeskInv /\ HandoffInv /\ [Next]_vars => [Contract!Next]_(Contract!vars)
  <2> SUFFICES ASSUME DeskInv, HandoffInv, [Next]_vars
               PROVE  [Contract!Next]_(Contract!vars)
    OBVIOUS
  <2>1. CASE UNCHANGED vars
    BY <2>1 DEF vars, store, Contract!vars, Delivered, Decision, Terminal
  <2>2. CASE Next
    BY <2>2, ContractStep DEF Contract!vars
  <2> QED
    BY <2>1, <2>2
<1> QED
  BY <1>1, <1>2, DeskInvariant, HandoffInvariant, PTL
  DEF Spec, ImplementsContract, Contract!Spec
=============================================================================
