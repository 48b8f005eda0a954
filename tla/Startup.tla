------------------------------- MODULE Startup -------------------------------
(***************************************************************************)
(* Opening the review store: servers (create_app) and pipelines            *)
(* (build_and_store) load their configuration and bring one SQLite file to *)
(* the current schema, in any interleaving and over the remains of earlier *)
(* attempts.                                                               *)
(*                                                                         *)
(* The driver opens a transaction at the first INSERT: a CREATE or ALTER   *)
(* before it is committed at once, one after it only with the rest.  A     *)
(* write waits for the transaction of another process and gives up after   *)
(* the busy timeout.                                                       *)
(***************************************************************************)
EXTENDS ReportConfig

CONSTANTS
  Procs,       \* processes that open the store
  Documents,   \* configuration documents they may be given
  Databases,   \* databases they may find
  Titles,      \* names builds give to their migrations
  NoConfig,    \* no configuration was loaded
  NoOne,       \* no transaction is open
  MaxCrashes   \* bound on what TLC explores

(* The tables of the models, each followed by its plain indexes, in the    *)
(* order of create_all.                                                    *)
CreateAll ==
  <<[kind |-> "table", name |-> "draft", table |-> "draft"],
    [kind |-> "table", name |-> "auditentry", table |-> "auditentry"],
    [kind |-> "index", name |-> "ix_auditentry_draft_id", table |-> "auditentry"],
    [kind |-> "index", name |-> "ix_auditentry_revision", table |-> "auditentry"],
    [kind |-> "table", name |-> "draftrevision", table |-> "draftrevision"],
    [kind |-> "index", name |-> "ix_draftrevision_draft_id", table |-> "draftrevision"]>>

Tables == {"draft", "auditentry", "draftrevision"}

DraftRevisionColumns ==
  <<"revision", "approved_revision", "approved_state_sha256", "delivery_mode">>
AuditSnapshotColumns == <<"audit.revision", "audit.state_sha256">>

(* The columns an old database may lack and a new table has. *)
ColumnsOf(table) ==
  CASE table = "draft" -> Elements(DraftRevisionColumns)
    [] table = "auditentry" -> Elements(AuditSnapshotColumns)
    [] OTHER -> {}

(* _MIGRATIONS *)
Migrations ==
  <<[name |-> "revision_bound_approval", kind |-> "columns", adds |-> DraftRevisionColumns],
    [name |-> "audit_snapshot_references", kind |-> "columns", adds |-> AuditSnapshotColumns],
    [name |-> "revision_identity", kind |-> "indexes",
     adds |-> <<"ux_draftrevision_draft_id_revision">>],
    [name |-> "repository_query_indexes", kind |-> "indexes",
     adds |-> <<"ix_draft_queue_status_created_id", "ix_auditentry_draft_id_id">>]>>

Versions == DOMAIN Migrations
Added(v) == Elements(Migrations[v].adds)
Records == {<<v, Migrations[v].name>> : v \in Versions}

(* What this build's code needs to find. *)
CurrentSchema == Tables \cup UNION {Added(v) : v \in Versions}

(* All this build can tell of a schema. *)
Objects ==
  {CreateAll[i].name : i \in DOMAIN CreateAll} \cup CurrentSchema \cup {"schema_migration"}

Schema(db, names) == [db EXCEPT !.schema = @ \cup names]
Recording(db, v) == [db EXCEPT !.recorded = @ \cup {<<v, Migrations[v].name>>}]
IsRecorded(recorded, v) == \E record \in recorded : record[1] = v

(* A database: its schema, the rows of schema_migration, and whether two   *)
(* rows of draftrevision have the same draft and revision.                 *)
Database == [schema : SUBSET Objects, recorded : SUBSET (Nat \X Titles), doubled : BOOLEAN]

(* A migration this build knows was applied if it is recorded. *)
RecordedMeansApplied(db) ==
  \A v \in Versions : <<v, Migrations[v].name>> \in db.recorded => Added(v) \subseteq db.schema

(* The version is the primary key of schema_migration. *)
OneRecordEach(recorded) == \A a, b \in recorded : a[1] = b[1] => a = b

ASSUME TitlesAssumption == \A v \in Versions : Migrations[v].name \in Titles

ASSUME DatabasesAssumption ==
  /\ Databases \subseteq Database
  /\ \A db \in Databases : RecordedMeansApplied(db) /\ OneRecordEach(db.recorded)

ASSUME DocumentsAssumption == Documents \subseteq Config /\ NoConfig \notin Config
ASSUME ProcsAssumption == NoOne \notin Procs /\ MaxCrashes \in Nat

State ==
  [pc : {"off", "inspect", "create", "ledger", "read", "migrate", "apply", "record",
         "serving"},
   config : Config \cup {NoConfig},
   at : Nat,                       \* statement of create_all or of the migration
   existing : SUBSET Objects,      \* tables or columns that were there when it looked
   seen : SUBSET (Nat \X Titles),  \* rows of schema_migration when it looked
   version : Nat]                  \* migration

VARIABLES
  committed,   \* the database as other connections see it
  working,     \* the same with what the open transaction changed
  writer,      \* the process whose transaction is open
  process,     \* where each process is in its start
  crashes

vars == <<committed, working, writer, process, crashes>>

Idle ==
  [pc |-> "off", config |-> NoConfig, at |-> 1, existing |-> {}, seen |-> {}, version |-> 1]

Init ==
  /\ committed \in Databases
  /\ working = committed
  /\ writer = NoOne
  /\ process = [p \in Procs |-> Idle]
  /\ crashes = 0

View(p) == IF writer = p THEN working ELSE committed

At(p, pc) == process[p].pc = pc

Becomes(p, state) == process' = [process EXCEPT ![p] = state]

(* A statement that changes the database outside of a transaction is       *)
(* committed at once.                                                      *)
Changes(p, db) ==
  /\ writer \in {NoOne, p}
  /\ working' = db
  /\ committed' = IF writer = p THEN committed ELSE db
  /\ UNCHANGED writer

ReadsOnly == UNCHANGED <<committed, working, writer>>

(* An exception or a kill: the process is gone and its transaction undone. *)
Ends(p) ==
  /\ Becomes(p, Idle)
  /\ IF writer = p
     THEN working' = committed /\ writer' = NoOne /\ UNCHANGED committed
     ELSE ReadsOnly

-----------------------------------------------------------------------------
(* load_config *)
Load(p) ==
  /\ At(p, "off")
  /\ \E c \in Documents :
       Valid(c) /\ Becomes(p, [Idle EXCEPT !.pc = "inspect", !.config = c])
  /\ ReadsOnly /\ UNCHANGED crashes

(* create_all looks for every table before it creates one. *)
Inspect(p) ==
  /\ At(p, "inspect")
  /\ Becomes(p, [process[p] EXCEPT !.pc = "create",
                                   !.existing = Tables \cap View(p).schema])
  /\ ReadsOnly /\ UNCHANGED crashes

(* The process after a statement, the last of which leads to next. *)
After(s, last, next) ==
  IF s.at < last THEN [s EXCEPT !.at = @ + 1]
  ELSE [s EXCEPT !.at = 1, !.existing = {}, !.pc = next]

(* A table that was not there is created with its indexes; it fails when   *)
(* another process created it in between.                                  *)
Create(p) ==
  LET s == process[p]
      o == CreateAll[s.at]
      done == Becomes(p, After(s, Len(CreateAll), "ledger"))
  IN  /\ At(p, "create")
      /\ \/ o.table \in s.existing /\ done /\ ReadsOnly
         \/ o.table \notin s.existing /\ o.name \in View(p).schema /\ Ends(p)
         \/ /\ o.table \notin s.existing /\ o.name \notin View(p).schema
            /\ Changes(p, Schema(View(p),
                 {o.name} \cup IF o.kind = "table" THEN ColumnsOf(o.name) ELSE {}))
            /\ done
      /\ UNCHANGED crashes

(* CREATE TABLE IF NOT EXISTS schema_migration *)
CreateLedger(p) ==
  /\ At(p, "ledger")
  /\ IF "schema_migration" \in View(p).schema THEN ReadsOnly
     ELSE Changes(p, Schema(View(p), {"schema_migration"}))
  /\ Becomes(p, [process[p] EXCEPT !.pc = "read"])
  /\ UNCHANGED crashes

(* The rows of schema_migration, unless one is of a newer build. *)
ReadLedger(p) ==
  LET rows == View(p).recorded
  IN  /\ At(p, "read")
      /\ IF \A record \in rows : record[1] \in Versions
         THEN Becomes(p, [process[p] EXCEPT !.pc = "migrate", !.seen = rows]) /\ ReadsOnly
         ELSE Ends(p)
      /\ UNCHANGED crashes

(* What _add_columns finds of the columns of a migration. *)
Columns(p, v) ==
  IF Migrations[v].kind = "columns" THEN Added(v) \cap View(p).schema ELSE {}

(* A migration recorded by its name is passed over, by another refused.    *)
Migrate(p) ==
  LET s == process[p]
      v == s.version
      named == <<v, Migrations[v].name>> \in s.seen
  IN  /\ At(p, "migrate") /\ v \in Versions
      /\ \/ named /\ Becomes(p, [s EXCEPT !.version = v + 1]) /\ ReadsOnly
         \/ ~named /\ IsRecorded(s.seen, v) /\ Ends(p)
         \/ /\ ~IsRecorded(s.seen, v)
            /\ Becomes(p, [s EXCEPT !.pc = "apply", !.existing = Columns(p, v)])
            /\ ReadsOnly
      /\ UNCHANGED crashes

(* A migration that adds its columns together or not at all. *)
NotDueTogether(p) ==
  LET s == process[p]
      m == Migrations[s.version]
  IN  IF m.kind = "columns" THEN s.existing # {} ELSE m.adds[s.at] \in View(p).schema

(* A migration that adds columns without looking. *)
NotDueBlind(p) ==
  LET m == Migrations[process[p].version]
  IN  m.kind # "columns" /\ m.adds[process[p].at] \in View(p).schema

(* A statement that is not due: the column was there, or the index is.     *)
NotDue(p) ==
  LET s == process[p]
      m == Migrations[s.version]
  IN  m.adds[s.at] \in (IF m.kind = "columns" THEN s.existing ELSE View(p).schema)

(* A column another process added in between, or an index that rows of the *)
(* table contradict.                                                       *)
Fails(p) ==
  LET s == process[p]
      o == Migrations[s.version].adds[s.at]
  IN  \/ o \in View(p).schema
      \/ o = "ux_draftrevision_draft_id_revision" /\ View(p).doubled

Apply(p) ==
  LET s == process[p]
      adds == Migrations[s.version].adds
      done == Becomes(p, After(s, Len(adds), "record"))
  IN  /\ At(p, "apply")
      /\ \/ NotDue(p) /\ done /\ ReadsOnly
         \/ ~NotDue(p) /\ Fails(p) /\ Ends(p)
         \/ /\ ~NotDue(p) /\ ~Fails(p)
            /\ Changes(p, Schema(View(p), {adds[s.at]}))
            /\ done
      /\ UNCHANGED crashes

(* An INSERT that is committed at once, like the statements before it. *)
RecordAlone(p) ==
  LET s == process[p]
  IN  /\ At(p, "record") /\ writer \in {NoOne, p}
      /\ IF IsRecorded(View(p).recorded, s.version) THEN Ends(p)
         ELSE /\ Changes(p, Recording(View(p), s.version))
              /\ Becomes(p, [s EXCEPT !.pc = "migrate", !.version = @ + 1])
      /\ UNCHANGED crashes

(* The first INSERT opens the transaction; another process may have        *)
(* recorded the version.                                                   *)
Record(p) ==
  LET s == process[p]
  IN  /\ At(p, "record") /\ writer \in {NoOne, p}
      /\ IF IsRecorded(View(p).recorded, s.version) THEN Ends(p)
         ELSE /\ working' = Recording(View(p), s.version)
              /\ writer' = p
              /\ Becomes(p, [s EXCEPT !.pc = "migrate", !.version = @ + 1])
              /\ UNCHANGED committed
      /\ UNCHANGED crashes

(* The end of engine.begin(), and the store is open. *)
Commit(p) ==
  /\ At(p, "migrate") /\ process[p].version \notin Versions
  /\ IF writer = p
     THEN committed' = working /\ writer' = NoOne /\ UNCHANGED working
     ELSE ReadsOnly
  /\ Becomes(p, [Idle EXCEPT !.pc = "serving", !.config = process[p].config])
  /\ UNCHANGED crashes

-----------------------------------------------------------------------------
(* A statement about to change the database. *)
Due(p) ==
  LET s == process[p]
  IN  \/ At(p, "create") /\ CreateAll[s.at].table \notin s.existing
      \/ At(p, "ledger") /\ "schema_migration" \notin View(p).schema
      \/ At(p, "apply") /\ ~NotDue(p)
      \/ At(p, "record")

(* The busy timeout ends a wait for the transaction of another process.    *)
BusyTimesOut(p) ==
  /\ Due(p) /\ writer \notin {NoOne, p}
  /\ Ends(p) /\ UNCHANGED crashes

Crash(p) ==
  /\ ~At(p, "off") /\ crashes < MaxCrashes
  /\ Ends(p) /\ crashes' = crashes + 1

(* A server is stopped, a pipeline has stored its draft. *)
Stop(p) == At(p, "serving") /\ Ends(p) /\ UNCHANGED crashes

Proceeds(p) ==
  \/ Load(p) \/ Inspect(p) \/ Create(p) \/ CreateLedger(p) \/ ReadLedger(p)
  \/ Migrate(p) \/ Apply(p) \/ Record(p) \/ Commit(p)

Next == \E p \in Procs : Proceeds(p) \/ BusyTimesOut(p) \/ Crash(p) \/ Stop(p)

Spec == Init /\ [][Next]_vars

(* A process that failed is started again, in the end with a document that *)
(* loads, and a process that runs makes progress.                          *)
FairSpec == Spec /\ \A p \in Procs : WF_vars(Proceeds(p))

-----------------------------------------------------------------------------
(* Properties *)

TypeOK ==
  /\ {committed, working} \subseteq Database
  /\ writer \in Procs \cup {NoOne}
  /\ process \in [Procs -> State]
  /\ crashes \in 0..MaxCrashes

(* A process serves only from a database that has every table, column and  *)
(* index its code counts on, and that records every migration, whatever    *)
(* starts died half-way before it and whatever start runs beside it        *)
(* (init_db, although SQLite commits the first statements on their own).   *)
ServesCurrentSchema ==
  \A p \in Procs :
    At(p, "serving") =>
      CurrentSchema \subseteq committed.schema /\ Records \subseteq committed.recorded

(* A process that touches the database runs with a configuration that      *)
(* classifies every text within its taxonomy and routes every triage, with *)
(* no route behind one that takes all it would (create_app and             *)
(* build_and_store load before init_db; validate_runtime_contract).        *)
ServedConfigFits ==
  \A p \in Procs : ~At(p, "off") => Fits(process[p].config)

(* A database this build can open: no migration of another build and no    *)
(* rows that contradict the unique index.                                  *)
Upgradable == committed.recorded \subseteq Records /\ ~committed.doubled

(* The committed database and who serves from it, as StoreContract sees    *)
(* them.                                                                   *)
Store == INSTANCE StoreContract
           WITH Needed <- CurrentSchema, Known <- Records, schema <- committed.schema,
                recorded <- committed.recorded, serving <- {p \in Procs : At(p, "serving")}

(* Half-applied starts leave nothing in the ledger, no start takes         *)
(* anything from the store, and a store that another build has migrated is *)
(* not served, not even by a process that began before the other ended.    *)
ImplementsStore == Store!Spec

(* Whatever was left half-way, and whoever else is starting, a process     *)
(* that is started again after a failure serves in the end (the columns    *)
(* and indexes that are already there are left alone, init_db).            *)
StartsEventually ==
  \A p \in Procs : (Upgradable /\ At(p, "off")) ~> At(p, "serving")
=============================================================================
