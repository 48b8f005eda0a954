---------------------------- MODULE StartupProofs ----------------------------
(***************************************************************************)
(* Proofs about the report configuration and about opening the review      *)
(* store, for every document, every database left by some build and every  *)
(* number of processes.                                                    *)
(***************************************************************************)
EXTENDS Startup, NaturalsInduction, WellFoundedInduction, TLAPS

-----------------------------------------------------------------------------
(* The configuration *)

(* A set of positions that is not empty has a first one. *)
LEMMA FirstOfPositions ==
  ASSUME NEW S, S \subseteq Nat, S # {}
  PROVE  First(S) \in S /\ \A i \in S : First(S) <= i
<1> DEFINE Below == OpToRel(<, Nat)
<1>1. IsWellFoundedOn(Below, Nat)
  BY NatLessThanWellFounded
<1>2. \A x, y \in Nat : y < x => <<y, x>> \in Below
  BY DEF OpToRel
<1>3. PICK x \in S : \A y \in S : ~(<<y, x>> \in Below)
  <2> HIDE DEF Below
  <2> QED BY <1>1, WFMin
<1>4. ASSUME NEW y \in S
      PROVE  x <= y
  <2>1. x \in Nat /\ y \in Nat
    OBVIOUS
  <2>2. ~(y < x)
    <3> HIDE DEF Below
    <3> QED BY <1>2, <1>3, <2>1
  <2> QED BY <2>1, <2>2
<1>5. \E m \in S : \A i \in S : m <= i
  BY <1>4
<1> QED BY <1>5 DEF First

(* The classifier and the router answer, within the taxonomy, for every    *)
(* configuration that loads, and no route of it hides behind another.      *)
(* ReportConfig.validate_runtime_contract checks items of dictionaries;    *)
(* what it must ensure is about the texts and triages that come later.     *)
THEOREM LoadedConfigFits ==
  ASSUME NEW c \in Config, Valid(c)
  PROVE  Fits(c)
<1>1. c.rules \in Seq(Rule) /\ c.routing \in Seq(Route)
  BY DEF Config
<1>2. /\ DOMAIN c.rules = 1..Len(c.rules) /\ Len(c.rules) \in Nat
      /\ DOMAIN c.routing = 1..Len(c.routing) /\ Len(c.routing) \in Nat
      /\ \A i \in DOMAIN c.rules : c.rules[i] \in Rule
      /\ \A i \in DOMAIN c.routing : c.routing[i] \in Route
  BY <1>1
<1>3. /\ c.rules # <<>>
      /\ \A i \in DOMAIN c.rules : IsFallback(c.rules[i]) <=> i = Len(c.rules)
  BY DEF Valid, RulesSound, OnlyLast
<1>4. /\ c.routing # <<>>
      /\ \A i \in DOMAIN c.routing : IsDefault(c.routing[i]) <=> i = Len(c.routing)
  BY DEF Valid, RoutingSound, OnlyLast
<1>5. Len(c.rules) \in DOMAIN c.rules /\ Len(c.routing) \in DOMAIN c.routing
  BY <1>1, <1>2, <1>3, <1>4
<1>6. ASSUME NEW text \in Texts
      PROVE  /\ RuleOf(c, text) \in DOMAIN c.rules
             /\ RuleOf(c, text) = Len(c.rules)
                  <=> \A i \in DOMAIN c.rules : ~Mentions(text, c.rules[i])
             /\ \A d \in Dimensions : InTaxonomy(c, d, c.rules[RuleOf(c, text)].triage[d])
  <2> DEFINE S == Deciding(c, text)
  <2>1. S \subseteq Nat /\ S \subseteq DOMAIN c.rules
    BY <1>2 DEF Deciding
  <2>2. Len(c.rules) \in S
    BY <1>3, <1>5 DEF Deciding
  <2>3. RuleOf(c, text) \in S /\ \A i \in S : RuleOf(c, text) <= i
    <3> HIDE DEF S
    <3>1. S # {}
      BY <2>2
    <3>2. First(S) \in S /\ \A i \in S : First(S) <= i
      BY <2>1, <3>1, FirstOfPositions
    <3> QED BY <3>2 DEF RuleOf, S
  <2>4. ~Mentions(text, c.rules[Len(c.rules)])
    <3>1. c.rules[Len(c.rules)].keywords = <<>>
      BY <1>3, <1>5 DEF IsFallback
    <3> QED BY <3>1 DEF Mentions, Elements
  <2>5. \A i \in DOMAIN c.rules : i < Len(c.rules) => (i \in S <=> Mentions(text, c.rules[i]))
    BY <1>2, <1>3 DEF Deciding
  <2>6. RuleOf(c, text) \in DOMAIN c.rules
    BY <2>1, <2>3
  <2>7. RuleOf(c, text) = Len(c.rules)
          <=> \A i \in DOMAIN c.rules : ~Mentions(text, c.rules[i])
    <3> DEFINE r == RuleOf(c, text)
    <3>1. CASE r = Len(c.rules)
      <4>1. ASSUME NEW i \in DOMAIN c.rules, Mentions(text, c.rules[i])
            PROVE  FALSE
        <5>1. i # Len(c.rules)
          BY <2>4, <4>1
        <5>2. i < Len(c.rules) /\ i \in Nat
          BY <1>2, <5>1
        <5>3. i \in S
          BY <2>5, <4>1, <5>2
        <5>4. r <= i
          BY <2>3, <5>3
        <5> HIDE DEF r
        <5> QED BY <1>2, <3>1, <5>2, <5>4
      <4> QED BY <3>1, <4>1
    <3>2. CASE r # Len(c.rules)
      <4>1. r < Len(c.rules)
        <5> HIDE DEF r, S
        <5>1. r \in DOMAIN c.rules
          BY <2>6 DEF r
        <5> QED BY <1>2, <3>2, <5>1
      <4>2. Mentions(text, c.rules[r])
        BY <2>3, <2>5, <2>6, <4>1
      <4> QED BY <2>6, <3>2, <4>2
    <3> QED BY <3>1, <3>2
  <2>8. \A d \in Dimensions : InTaxonomy(c, d, c.rules[RuleOf(c, text)].triage[d])
    BY <2>6 DEF Valid, RulesSound
  <2> QED BY <2>6, <2>7, <2>8
<1>7. ASSUME NEW triage \in Triage
      PROVE  /\ RouteOf(c, triage) \in DOMAIN c.routing
             /\ c.routing[RouteOf(c, triage)].recipients # <<>>
  <2> DEFINE S == Taking(c, triage)
  <2>1. S \subseteq Nat /\ S \subseteq DOMAIN c.routing
    BY <1>2 DEF Taking
  <2>2. Len(c.routing) \in S
    BY <1>4, <1>5 DEF Taking, Takes
  <2>3. RouteOf(c, triage) \in S
    <3> HIDE DEF S
    <3>1. S # {}
      BY <2>2
    <3>2. First(S) \in S
      BY <2>1, <3>1, FirstOfPositions
    <3> QED BY <3>2 DEF RouteOf, S
  <2>4. RouteOf(c, triage) \in DOMAIN c.routing
    BY <2>1, <2>3
  <2>5. c.routing[RouteOf(c, triage)].recipients # <<>>
    BY <2>4 DEF Valid, RoutingSound, RouteSound
  <2> QED BY <2>4, <2>5
<1>8. ASSUME NEW i \in DOMAIN c.routing, NEW j \in DOMAIN c.routing,
             i < j, ~IsDefault(c.routing[j])
      PROVE  \E triage \in Triage : Takes(c.routing[j], triage) /\ ~Takes(c.routing[i], triage)
  <2> DEFINE e == c.routing[i].when
             l == c.routing[j].when
  <2>1. ~Shadows(c.routing[i], c.routing[j])
    BY <1>8 DEF Valid, RoutingSound
  <2>2. ~IsDefault(c.routing[i])
    BY <1>2, <1>4, <1>8
  <2>3. e \in [Dimensions -> Names \cup {Open}] /\ l \in [Dimensions -> Names \cup {Open}]
    BY <1>2, <1>8, <2>2 DEF Route, IsDefault
  <2>4. PICK d \in Dimensions : e[d] # Open /\ <<d, e[d]>> \notin Items(l)
    BY <2>1 DEF Shadows, Items
  <2>5. l[d] # e[d]
    BY <2>4 DEF Items
  <2>6. PICK x \in Names : x # e[d]
    BY NamesAssumption
  <2> DEFINE label(k) == IF l[k] # Open THEN l[k] ELSE x
             triage == [k \in Dimensions |-> label(k)]
  <2>7. triage \in Triage
    BY <2>3, <2>6 DEF Triage
  <2>8. Takes(c.routing[j], triage)
    BY <2>3 DEF Takes
  <2>9. ~Takes(c.routing[i], triage)
    <3>1. triage[d] # e[d]
      BY <2>4, <2>5, <2>6
    <3>2. e[d] \notin {Open, triage[d]}
      BY <2>4, <3>1
    <3> QED BY <2>2, <2>4, <3>2 DEF Takes
  <2> QED BY <2>7, <2>8, <2>9
<1> QED BY <1>6, <1>7, <1>8 DEF Fits
-----------------------------------------------------------------------------
(* The store *)

(* What holds of the two faces of the database.                            *)
DatabaseOK ==
  /\ RecordedMeansApplied(committed) /\ RecordedMeansApplied(working)
  /\ committed.schema \subseteq working.schema
  /\ committed.recorded \subseteq working.recorded
  /\ writer = NoOne => working = committed

(* How far a process has brought the database it sees: the tables before   *)
(* its position in create_all, the migrations before its version, and the  *)
(* statements of the current one before its position.                      *)
CreateOK(p) ==
  At(p, "create") =>
    /\ process[p].at \in DOMAIN CreateAll
    /\ process[p].existing \subseteq committed.schema
    /\ \A i \in DOMAIN CreateAll :
         i < process[p].at /\ CreateAll[i].kind = "table" =>
           CreateAll[i].name \in committed.schema

TablesOK(p) ==
  process[p].pc \in {"ledger", "read", "migrate", "apply", "record"} =>
    Tables \subseteq committed.schema

MigrateOK(p) ==
  process[p].pc \in {"migrate", "apply", "record"} =>
    /\ process[p].version \in 1..5
    /\ process[p].pc # "migrate" => process[p].version \in Versions
    /\ process[p].seen \subseteq committed.recorded
    /\ \A v \in Versions :
         v < process[p].version =>
           Added(v) \subseteq View(p).schema /\ <<v, Migrations[v].name>> \in View(p).recorded

ApplyOK(p) ==
  At(p, "apply") =>
    LET adds == Migrations[process[p].version].adds
    IN  /\ process[p].at \in DOMAIN adds
        /\ process[p].existing \subseteq View(p).schema
        /\ \A i \in DOMAIN adds : i < process[p].at => adds[i] \in View(p).schema

RecordOK(p) ==
  At(p, "record") => Added(process[p].version) \subseteq View(p).schema

(* Only the migration runner holds a transaction. *)
WriterOK(p) ==
  writer = p => process[p].pc \in {"migrate", "apply", "record"}

ServingOK(p) ==
  At(p, "serving") =>
    CurrentSchema \subseteq committed.schema /\ Records \subseteq committed.recorded

(* Every list is entered at its beginning. *)
PositionOK(p) == ~At(p, "create") /\ ~At(p, "apply") => process[p].at = 1
FirstVersionOK(p) ==
  process[p].pc \in {"off", "inspect", "create", "ledger", "read"} => process[p].version = 1

ConfigOK(p) == ~At(p, "off") => process[p].config \in Config /\ Fits(process[p].config)

ProcessOK(p) ==
  /\ CreateOK(p) /\ TablesOK(p) /\ MigrateOK(p) /\ ApplyOK(p) /\ RecordOK(p)
  /\ WriterOK(p) /\ ServingOK(p) /\ PositionOK(p) /\ FirstVersionOK(p)
  /\ ConfigOK(p)

StoreInv == TypeOK /\ DatabaseOK /\ \A p \in Procs : ProcessOK(p)

(* What the lists of statements look like, all that is used of them.       *)
LEMMA Lists ==
  /\ Versions = 1..4
  /\ \A v \in Versions :
       /\ Len(Migrations[v].adds) \in Nat \ {0}
       /\ DOMAIN Migrations[v].adds = 1..Len(Migrations[v].adds)
       /\ Added(v) \subseteq Objects
  /\ Len(CreateAll) \in Nat \ {0} /\ DOMAIN CreateAll = 1..Len(CreateAll)
  /\ \A i \in DOMAIN CreateAll :
       CreateAll[i].kind = "table" => CreateAll[i].table = CreateAll[i].name
  /\ \A t : ColumnsOf(t) \subseteq Objects
  /\ Tables = {CreateAll[i].name : i \in {j \in DOMAIN CreateAll : CreateAll[j].kind = "table"}}
<1>1. Versions = 1..4
  BY DEF Migrations, Versions
<1>2. \A v \in 1..4 : v \in {1, 2, 3, 4}
  OBVIOUS
<1>3. \A v \in 1..4 :
        Migrations[v].adds \in Seq(Elements(Migrations[v].adds)) /\ Migrations[v].adds # <<>>
  <2>1. Migrations[1].adds = DraftRevisionColumns /\ Migrations[2].adds = AuditSnapshotColumns
    BY DEF Migrations
  <2>2. /\ Migrations[3].adds = <<"ux_draftrevision_draft_id_revision">>
        /\ Migrations[4].adds =
             <<"ix_draft_queue_status_created_id", "ix_auditentry_draft_id_id">>
    BY DEF Migrations
  <2>3. /\ DraftRevisionColumns \in Seq(Elements(DraftRevisionColumns))
        /\ DraftRevisionColumns # <<>>
    BY DEF DraftRevisionColumns, Elements
  <2>4. /\ AuditSnapshotColumns \in Seq(Elements(AuditSnapshotColumns))
        /\ AuditSnapshotColumns # <<>>
    BY DEF AuditSnapshotColumns, Elements
  <2>5. Migrations[3].adds \in Seq(Elements(Migrations[3].adds)) /\ Migrations[3].adds # <<>>
    BY <2>2 DEF Elements
  <2>6. Migrations[4].adds \in Seq(Elements(Migrations[4].adds)) /\ Migrations[4].adds # <<>>
    BY <2>2 DEF Elements
  <2> QED BY <1>2, <2>1, <2>3, <2>4, <2>5, <2>6
<1>4. \A v \in 1..4 : /\ Len(Migrations[v].adds) \in Nat \ {0}
                      /\ DOMAIN Migrations[v].adds = 1..Len(Migrations[v].adds)
  <2> TAKE v \in 1..4
  <2> DEFINE s == Migrations[v].adds
  <2>1. s \in Seq(Elements(s)) /\ s # <<>>
    BY <1>3
  <2> HIDE DEF s
  <2>2. Len(s) \in Nat \ {0} /\ DOMAIN s = 1..Len(s)
    BY <2>1
  <2> QED BY <2>2 DEF s
<1>5. \A v \in Versions : Added(v) \subseteq Objects
  BY DEF Objects, CurrentSchema
<1>6. Len(CreateAll) = 6 /\ DOMAIN CreateAll = 1..6
  BY DEF CreateAll
<1>7. \A i \in 1..6 : i \in {1, 2, 3, 4, 5, 6}
  OBVIOUS
<1>8. /\ CreateAll[1].name = "draft" /\ CreateAll[1].kind = "table"
      /\ CreateAll[1].table = "draft"
  BY DEF CreateAll
<1>9. /\ CreateAll[2].name = "auditentry" /\ CreateAll[2].kind = "table"
      /\ CreateAll[2].table = "auditentry"
  BY DEF CreateAll
<1>10. /\ CreateAll[5].name = "draftrevision" /\ CreateAll[5].kind = "table"
       /\ CreateAll[5].table = "draftrevision"
  BY DEF CreateAll
<1>11. CreateAll[3].kind = "index" /\ CreateAll[4].kind = "index" /\ CreateAll[6].kind = "index"
  BY DEF CreateAll
<1>12. \A i \in 1..6 : CreateAll[i].kind = "table" => CreateAll[i].table = CreateAll[i].name
  BY <1>7, <1>8, <1>9, <1>10, <1>11
<1>13. Tables = {CreateAll[i].name : i \in {j \in 1..6 : CreateAll[j].kind = "table"}}
  BY <1>7, <1>8, <1>9, <1>10, <1>11 DEF Tables
<1>14. \A t : ColumnsOf(t) \subseteq Objects
  <2>1. /\ Added(1) = Elements(DraftRevisionColumns)
        /\ Added(2) = Elements(AuditSnapshotColumns)
    BY DEF Added, Migrations
  <2>2. Added(1) \subseteq Objects /\ Added(2) \subseteq Objects
    BY <1>1, <1>5
  <2> QED BY <2>1, <2>2 DEF ColumnsOf
<1> QED BY <1>1, <1>4, <1>5, <1>6, <1>12, <1>13, <1>14

LEMMA InitStore == Init => StoreInv
<1> SUFFICES ASSUME Init PROVE StoreInv
  OBVIOUS
<1>1. \A p \in Procs : process[p] = Idle
  BY DEF Init
<1>2. TypeOK
  BY DatabasesAssumption, ProcsAssumption DEF Init, TypeOK, Idle, State
<1>3. DatabaseOK
  BY DatabasesAssumption DEF Init, DatabaseOK
<1>4. ASSUME NEW p \in Procs
      PROVE  ProcessOK(p)
  <2>1. /\ process[p].pc = "off" /\ process[p].at = 1 /\ process[p].version = 1
        /\ writer # p
    BY <1>1, ProcsAssumption DEF Idle, Init
  <2> QED BY <2>1 DEF ProcessOK, CreateOK, TablesOK, MigrateOK, ApplyOK, RecordOK, WriterOK,
                      ServingOK, PositionOK, FirstVersionOK, ConfigOK, At
<1> QED BY <1>2, <1>3, <1>4 DEF StoreInv

-----------------------------------------------------------------------------
(* What a step of q does to the database and to what the others see of it. *)
Grows(q) ==
  /\ {committed', working'} \subseteq Database
  /\ writer' \in Procs \cup {NoOne}
  /\ DatabaseOK'
  /\ committed.schema \subseteq committed'.schema
  /\ committed.recorded \subseteq committed'.recorded
  /\ \A p \in Procs \ {q} :
       /\ writer' = p => writer = p
       /\ View(p).schema \subseteq View(p)'.schema
       /\ View(p).recorded \subseteq View(p)'.recorded

LEMMA ReadingGrows ==
  ASSUME TypeOK, DatabaseOK, NEW q \in Procs, ReadsOnly
  PROVE  Grows(q)
BY DEF TypeOK, DatabaseOK, RecordedMeansApplied, ReadsOnly, Grows, View

LEMMA SchemaFields ==
  ASSUME NEW db \in Database, NEW names, names \subseteq Objects
  PROVE  /\ Schema(db, names) \in Database
         /\ Schema(db, names).schema = db.schema \cup names
         /\ Schema(db, names).recorded = db.recorded
         /\ RecordedMeansApplied(db) => RecordedMeansApplied(Schema(db, names))
<1>1. /\ Schema(db, names) \in Database
      /\ Schema(db, names).schema = db.schema \cup names
      /\ Schema(db, names).recorded = db.recorded
  BY DEF Schema, Database
<1> QED BY <1>1 DEF RecordedMeansApplied

LEMMA ChangingGrows ==
  ASSUME TypeOK, DatabaseOK, NEW q \in Procs, NEW names, names \subseteq Objects,
         Changes(q, Schema(View(q), names))
  PROVE  /\ Grows(q)
         /\ View(q)'.schema = View(q).schema \cup names
         /\ View(q)'.recorded = View(q).recorded
         /\ writer' = writer
<1> DEFINE db == Schema(View(q), names)
<1>1. View(q) \in Database /\ RecordedMeansApplied(View(q))
  BY DEF TypeOK, DatabaseOK, View
<1>2. /\ db \in Database /\ RecordedMeansApplied(db)
      /\ db.schema = View(q).schema \cup names /\ db.recorded = View(q).recorded
  BY <1>1, SchemaFields
<1> HIDE DEF db
<1>3. writer \in {NoOne, q} /\ working' = db /\ writer' = writer
  BY DEF Changes, db
<1>4. CASE writer = q
  <2>1. committed' = committed /\ View(q) = working /\ View(q)' = db
    BY <1>3, <1>4 DEF Changes, View
  <2>2. DatabaseOK'
    BY <1>2, <1>3, <1>4, <2>1, ProcsAssumption DEF DatabaseOK, RecordedMeansApplied
  <2>3. \A p \in Procs \ {q} : View(p) = committed /\ View(p)' = committed
    BY <1>3, <1>4, <2>1 DEF View
  <2> QED BY <1>2, <1>3, <2>1, <2>2, <2>3 DEF Grows, TypeOK
<1>5. CASE writer # q
  <2>1. /\ writer = NoOne /\ committed' = db /\ working = committed
        /\ View(q) = committed /\ View(q)' = db
    BY <1>3, <1>5 DEF Changes, View, DatabaseOK, db
  <2>2. DatabaseOK'
    BY <1>2, <1>3, <2>1 DEF DatabaseOK, RecordedMeansApplied
  <2>3. \A p \in Procs \ {q} : View(p) = committed /\ View(p)' = db
    BY <1>3, <2>1, ProcsAssumption DEF View
  <2> QED BY <1>2, <1>3, <2>1, <2>2, <2>3 DEF Grows, TypeOK
<1> QED BY <1>4, <1>5

LEMMA EndingGrows ==
  ASSUME TypeOK, DatabaseOK, NEW q \in Procs, Ends(q)
  PROVE  Grows(q) /\ writer' # q /\ process' = [process EXCEPT ![q] = Idle]
<1>1. process' = [process EXCEPT ![q] = Idle]
  BY DEF Ends, Becomes
<1>2. CASE writer = q
  <2>1. working' = committed /\ writer' = NoOne /\ committed' = committed
    BY <1>2 DEF Ends
  <2>2. DatabaseOK'
    BY <2>1 DEF DatabaseOK, RecordedMeansApplied
  <2>3. \A p \in Procs \ {q} : View(p) = committed /\ View(p)' = committed /\ writer' # p
    BY <1>2, <2>1, ProcsAssumption DEF View
  <2> QED BY <1>1, <2>1, <2>2, <2>3, ProcsAssumption DEF Grows, TypeOK
<1>3. CASE writer # q
  <2>1. ReadsOnly
    BY <1>3 DEF Ends
  <2> QED BY <1>1, <1>3, <2>1, ReadingGrows DEF ReadsOnly
<1> QED BY <1>2, <1>3

LEMMA RecordingGrows ==
  ASSUME TypeOK, DatabaseOK, NEW q \in Procs, NEW v \in Versions,
         Added(v) \subseteq View(q).schema, writer \in {NoOne, q},
         working' = Recording(View(q), v), writer' = q, UNCHANGED committed
  PROVE  /\ Grows(q)
         /\ View(q)'.schema = View(q).schema
         /\ View(q)'.recorded = View(q).recorded \cup {<<v, Migrations[v].name>>}
<1> DEFINE db == Recording(View(q), v)
<1>1. View(q) \in Database /\ RecordedMeansApplied(View(q))
  BY DEF TypeOK, DatabaseOK, View
<1>2. <<v, Migrations[v].name>> \in Nat \X Titles
  BY Lists, TitlesAssumption
<1>3. /\ db \in Database /\ db.schema = View(q).schema
      /\ db.recorded = View(q).recorded \cup {<<v, Migrations[v].name>>}
  BY <1>1, <1>2 DEF Recording, Database
<1>4. RecordedMeansApplied(db)
  <2> HIDE DEF db
  <2> SUFFICES ASSUME NEW u \in Versions, <<u, Migrations[u].name>> \in db.recorded
               PROVE  Added(u) \subseteq db.schema
    BY DEF RecordedMeansApplied
  <2>1. CASE u = v
    BY <1>3, <2>1
  <2>2. CASE u # v
    BY <1>1, <1>3, <2>2 DEF RecordedMeansApplied
  <2> QED BY <2>1, <2>2
<1>5. working' = db /\ View(q)' = db
  BY DEF View
<1> HIDE DEF db
<1>6. /\ View(q).schema = working.schema
      /\ View(q).recorded = working.recorded
      /\ committed.schema \subseteq View(q).schema
      /\ committed.recorded \subseteq View(q).recorded
  BY DEF View, DatabaseOK
<1>7. DatabaseOK'
  BY <1>3, <1>4, <1>5, <1>6, ProcsAssumption DEF DatabaseOK, RecordedMeansApplied
<1>8. \A p \in Procs \ {q} : View(p) = committed /\ View(p)' = committed
  BY ProcsAssumption DEF View
<1> QED BY <1>3, <1>5, <1>7, <1>8 DEF Grows, TypeOK

LEMMA CommittingGrows ==
  ASSUME TypeOK, DatabaseOK, NEW q \in Procs, writer = q,
         committed' = working, writer' = NoOne, UNCHANGED working
  PROVE  Grows(q) /\ committed' = View(q) /\ writer' # q
<1>1. committed' = View(q) /\ writer' # q
  BY ProcsAssumption DEF View
<1>2. DatabaseOK'
  BY DEF DatabaseOK, RecordedMeansApplied
<1>3. \A p \in Procs \ {q} :
        View(p) = committed /\ View(p)' = working /\ writer' # p
  BY ProcsAssumption DEF View
<1> QED BY <1>1, <1>2, <1>3 DEF Grows, TypeOK, DatabaseOK

(* A process that took no step stays as far as it was. *)
LEMMA OthersKeep ==
  ASSUME StoreInv, NEW q \in Procs, NEW p \in Procs \ {q}, Grows(q),
         process'[p] = process[p]
  PROVE  ProcessOK(p)'
<1> DEFINE s == process[p]
<1>1. /\ committed.schema \subseteq committed'.schema
      /\ committed.recorded \subseteq committed'.recorded
      /\ View(p).schema \subseteq View(p)'.schema
      /\ View(p).recorded \subseteq View(p)'.recorded
      /\ writer' = p => writer = p
  BY DEF Grows
<1>2. ProcessOK(p)
  BY DEF StoreInv
<1>4. CreateOK(p)'
  BY <1>1, <1>2 DEF ProcessOK, CreateOK, At
<1>5. TablesOK(p)'
  BY <1>1, <1>2 DEF ProcessOK, TablesOK
<1>6. MigrateOK(p)'
  <2> DEFINE Past == View(p)
             Now == View(p)'
  <2> HIDE DEF Past, Now
  <2>1. Past.schema \subseteq Now.schema /\ Past.recorded \subseteq Now.recorded
    BY <1>1 DEF Past, Now
  <2>2. SUFFICES ASSUME s.pc \in {"migrate", "apply", "record"}
                 PROVE  /\ s.version \in 1..5
                        /\ s.pc # "migrate" => s.version \in Versions
                        /\ s.seen \subseteq committed'.recorded
                        /\ \A v \in Versions :
                             v < s.version =>
                               /\ Added(v) \subseteq Now.schema
                               /\ <<v, Migrations[v].name>> \in Now.recorded
    BY DEF MigrateOK, Now
  <2> QED BY <1>1, <1>2, <2>1, <2>2 DEF ProcessOK, MigrateOK, Past
<1>7. ApplyOK(p)'
  BY <1>1, <1>2 DEF ProcessOK, ApplyOK, At
<1>8. RecordOK(p)'
  BY <1>1, <1>2 DEF ProcessOK, RecordOK, At
<1>9. /\ WriterOK(p)' /\ ServingOK(p)' /\ PositionOK(p)' /\ FirstVersionOK(p)'
      /\ ConfigOK(p)'
  BY <1>1, <1>2 DEF ProcessOK, WriterOK, ServingOK, PositionOK, FirstVersionOK, ConfigOK, At
<1> QED BY <1>4, <1>5, <1>6, <1>7, <1>8, <1>9 DEF ProcessOK

LEMMA IdleIsOK ==
  ASSUME NEW q \in Procs, process'[q] = Idle, writer' # q
  PROVE  ProcessOK(q)'
BY DEF Idle, ProcessOK, CreateOK, TablesOK, MigrateOK, ApplyOK, RecordOK, WriterOK,
       ServingOK, PositionOK, FirstVersionOK, ConfigOK, At

(* A step is sound if it leaves the one that took it sound. *)
LEMMA StepKeeps ==
  ASSUME StoreInv, NEW q \in Procs, Grows(q), NEW s \in State, Becomes(q, s),
         crashes' \in 0..MaxCrashes,
         process'[q] = s => ProcessOK(q)'
  PROVE  StoreInv'
<1>1. process \in [Procs -> State] /\ process' = [process EXCEPT ![q] = s]
  BY DEF StoreInv, TypeOK, Becomes
<1>2. process' \in [Procs -> State] /\ process'[q] = s
  BY <1>1
<1>3. \A p \in Procs \ {q} : process'[p] = process[p]
  BY <1>1
<1>4. TypeOK'
  BY <1>2 DEF TypeOK, Grows
<1>5. \A p \in Procs \ {q} : ProcessOK(p)'
  BY <1>3, OthersKeep
<1>6. ProcessOK(q)'
  BY <1>2
<1> QED BY <1>4, <1>5, <1>6 DEF StoreInv, Grows

LEMMA EndKeeps ==
  ASSUME StoreInv, NEW q \in Procs, Ends(q), crashes' \in 0..MaxCrashes
  PROVE  StoreInv'
<1>1. Grows(q) /\ writer' # q /\ process' = [process EXCEPT ![q] = Idle]
  BY EndingGrows DEF StoreInv
<1>2. Idle \in State
  BY DEF Idle, State
<1>3. process'[q] = Idle => ProcessOK(q)'
  BY <1>1, IdleIsOK
<1> QED BY <1>1, <1>2, <1>3, StepKeeps DEF Becomes

-----------------------------------------------------------------------------
(* Each operation keeps the invariant *)

LEMMA LoadKeeps ==
  ASSUME StoreInv, NEW q \in Procs, Load(q)
  PROVE  StoreInv'
<1>1. PICK c \in Documents : Valid(c) /\ Becomes(q, [Idle EXCEPT !.pc = "inspect", !.config = c])
  BY DEF Load
<1> DEFINE s == [Idle EXCEPT !.pc = "inspect", !.config = c]
<1>2. c \in Config /\ Fits(c)
  BY <1>1, DocumentsAssumption, LoadedConfigFits
<1>3. /\ s \in State /\ s.pc = "inspect" /\ s.at = 1 /\ s.version = 1 /\ s.config = c
  BY <1>2 DEF Idle, State
<1>4. Grows(q) /\ writer' = writer /\ crashes' = crashes
  BY ReadingGrows DEF Load, StoreInv, ReadsOnly
<1>5. writer # q
  <2>1. process[q].pc = "off" /\ WriterOK(q)
    BY DEF Load, At, StoreInv, ProcessOK
  <2> QED BY <2>1 DEF WriterOK
<1> HIDE DEF s
<1>6. ASSUME process'[q] = s
      PROVE  ProcessOK(q)'
  BY <1>2, <1>3, <1>4, <1>5, <1>6
     DEF ProcessOK, CreateOK, TablesOK, MigrateOK, ApplyOK, RecordOK, WriterOK, ServingOK,
         PositionOK, FirstVersionOK, ConfigOK, At
<1>7. crashes' \in 0..MaxCrashes
  BY <1>4 DEF StoreInv, TypeOK
<1> QED BY <1>1, <1>3, <1>4, <1>6, <1>7, StepKeeps DEF s

(* A process outside the migrations sees what is committed. *)
LEMMA OutsideSeesCommitted ==
  ASSUME StoreInv, NEW q \in Procs, process[q].pc \notin {"migrate", "apply", "record"}
  PROVE  writer # q /\ View(q) = committed
BY DEF StoreInv, ProcessOK, WriterOK, View

LEMMA InspectKeeps ==
  ASSUME StoreInv, NEW q \in Procs, Inspect(q)
  PROVE  StoreInv'
<1> DEFINE found == Tables \cap View(q).schema
           s == [process[q] EXCEPT !.pc = "create", !.existing = found]
<1>1. process[q] \in State /\ process[q].pc = "inspect" /\ ProcessOK(q)
  BY DEF Inspect, At, StoreInv, TypeOK
<1>2. writer # q /\ View(q) = committed /\ committed \in Database
  BY <1>1, OutsideSeesCommitted DEF StoreInv, TypeOK
<1>3. found \subseteq committed.schema /\ found \subseteq Objects
  BY <1>2 DEF Database
<1> HIDE DEF found
<1>4. /\ s \in State /\ s.pc = "create" /\ s.existing = found
      /\ s.at = process[q].at /\ s.version = process[q].version
      /\ s.config = process[q].config
  BY <1>1, <1>3 DEF State
<1>5. s.at = 1 /\ s.version = 1 /\ s.config \in Config /\ Fits(s.config)
  BY <1>1, <1>4 DEF ProcessOK, PositionOK, FirstVersionOK, ConfigOK, At
<1> HIDE DEF s
<1>6. Grows(q) /\ writer' = writer /\ crashes' = crashes /\ committed' = committed
  BY ReadingGrows DEF Inspect, StoreInv, ReadsOnly
<1>7. ASSUME process'[q] = s
      PROVE  ProcessOK(q)'
  <2>1. \A i \in DOMAIN CreateAll : ~(i < 1)
    BY Lists
  <2>2. 1 \in DOMAIN CreateAll
    BY Lists
  <2>3. CreateOK(q)'
    BY <1>3, <1>4, <1>5, <1>6, <1>7, <2>1, <2>2 DEF CreateOK, At
  <2> QED BY <1>2, <1>4, <1>5, <1>6, <1>7, <2>3
          DEF ProcessOK, TablesOK, MigrateOK, ApplyOK, RecordOK, WriterOK, ServingOK,
              PositionOK, FirstVersionOK, ConfigOK, At
<1>8. crashes' \in 0..MaxCrashes
  BY <1>6 DEF StoreInv, TypeOK
<1>9. Becomes(q, s)
  BY DEF Inspect, s, found
<1> QED BY <1>4, <1>6, <1>7, <1>8, <1>9, StepKeeps

(* A process after a statement of a list. *)
LEMMA AfterFields ==
  ASSUME NEW s \in State, NEW last \in Nat,
         NEW next \in {"ledger", "record"}
  PROVE  /\ After(s, last, next) \in State
         /\ After(s, last, next).config = s.config
         /\ After(s, last, next).version = s.version
         /\ After(s, last, next).seen = s.seen
         /\ s.at < last =>
              /\ After(s, last, next).at = s.at + 1
              /\ After(s, last, next).existing = s.existing
              /\ After(s, last, next).pc = s.pc
         /\ ~(s.at < last) =>
              After(s, last, next).at = 1 /\ After(s, last, next).pc = next
<1>1. CASE s.at < last
  <2>1. After(s, last, next) = [s EXCEPT !.at = @ + 1]
    BY <1>1 DEF After
  <2> QED BY <1>1, <2>1 DEF State
<1>2. CASE ~(s.at < last)
  <2>1. After(s, last, next) = [s EXCEPT !.at = 1, !.existing = {}, !.pc = next]
    BY <1>2 DEF After
  <2>2. [s EXCEPT !.at = 1, !.existing = {}, !.pc = next] \in State
    BY DEF State
  <2>3. After(s, last, next).at = 1 /\ After(s, last, next).pc = next
    BY <2>1 DEF State
  <2>4. /\ After(s, last, next).config = s.config
        /\ After(s, last, next).version = s.version
        /\ After(s, last, next).seen = s.seen
    BY <2>1 DEF State
  <2> QED BY <1>2, <2>1, <2>2, <2>3, <2>4
<1> QED BY <1>1, <1>2

LEMMA CreateKeeps ==
  ASSUME StoreInv, NEW q \in Procs, Create(q)
  PROVE  StoreInv'
<1> DEFINE o == CreateAll[process[q].at]
           s == After(process[q], Len(CreateAll), "ledger")
           names == {o.name} \cup IF o.kind = "table" THEN ColumnsOf(o.name) ELSE {}
<1>1. process[q] \in State /\ process[q].pc = "create" /\ ProcessOK(q)
  BY DEF Create, At, StoreInv, TypeOK
<1>2. writer # q /\ View(q) = committed
  BY <1>1, OutsideSeesCommitted
<1>3. crashes' \in 0..MaxCrashes
  BY DEF Create, StoreInv, TypeOK
<1>4. /\ process[q].at \in DOMAIN CreateAll /\ process[q].existing \subseteq committed.schema
      /\ \A i \in DOMAIN CreateAll :
           i < process[q].at /\ CreateAll[i].kind = "table" =>
             CreateAll[i].name \in committed.schema
  BY <1>1 DEF ProcessOK, CreateOK, At
<1>5. /\ process[q].config \in Config /\ Fits(process[q].config)
      /\ process[q].version = 1
  BY <1>1 DEF ProcessOK, FirstVersionOK, ConfigOK, At
<1>6. names \subseteq Objects
  BY <1>4, Lists DEF Objects
<1>7. /\ s \in State /\ s.config = process[q].config /\ s.version = process[q].version
      /\ process[q].at < Len(CreateAll) =>
           /\ s.at = process[q].at + 1 /\ s.pc = "create"
           /\ s.existing = process[q].existing
      /\ ~(process[q].at < Len(CreateAll)) => s.at = 1 /\ s.pc = "ledger"
  BY <1>1, AfterFields, Lists
<1> HIDE DEF s
<1>8. ASSUME process'[q] = s, writer' # q,
             committed.schema \subseteq committed'.schema,
             o.kind = "table" => o.name \in committed'.schema
      PROVE  ProcessOK(q)'
  <2>1. \A i \in DOMAIN CreateAll :
          i <= process[q].at /\ CreateAll[i].kind = "table" =>
            CreateAll[i].name \in committed'.schema
    <3>1. \A i \in DOMAIN CreateAll : i <= process[q].at => i < process[q].at \/ i = process[q].at
      BY <1>4, Lists
    <3> QED BY <1>4, <1>8, <3>1
  <2>2. CASE process[q].at < Len(CreateAll)
    <3>1. \A i \in DOMAIN CreateAll : i < process[q].at + 1 => i <= process[q].at
      BY <1>4, Lists
    <3>2. process[q].at + 1 \in DOMAIN CreateAll
      BY <1>4, <2>2, Lists
    <3>3. CreateOK(q)'
      BY <1>4, <1>7, <1>8, <2>1, <2>2, <3>1, <3>2 DEF CreateOK, At
    <3> QED BY <1>5, <1>7, <1>8, <2>2, <3>3
            DEF ProcessOK, TablesOK, MigrateOK, ApplyOK, RecordOK, WriterOK, ServingOK,
                PositionOK, FirstVersionOK, ConfigOK, At
  <2>3. CASE ~(process[q].at < Len(CreateAll))
    <3>1. \A i \in DOMAIN CreateAll : i <= process[q].at
      BY <1>4, <2>3, Lists
    <3>2. Tables \subseteq committed'.schema
      BY <2>1, <3>1, Lists
    <3> QED BY <1>5, <1>7, <1>8, <2>3, <3>2
            DEF ProcessOK, CreateOK, TablesOK, MigrateOK, ApplyOK, RecordOK, WriterOK,
                ServingOK, PositionOK, FirstVersionOK, ConfigOK, At
  <2> QED BY <2>2, <2>3
<1>9. CASE o.table \in process[q].existing /\ Becomes(q, s) /\ ReadsOnly
  <2>1. Grows(q)
    BY <1>9, ReadingGrows DEF StoreInv
  <2>2. writer' # q /\ committed' = committed
    BY <1>2, <1>9 DEF ReadsOnly
  <2>3. o.kind = "table" => o.name \in committed'.schema
    BY <1>4, <1>9, <2>2, Lists
  <2>4. process'[q] = s => ProcessOK(q)'
    BY <1>8, <2>2, <2>3
  <2> QED BY <1>3, <1>7, <1>9, <2>1, <2>4, StepKeeps
<1>10. CASE Ends(q)
  BY <1>3, <1>10, EndKeeps
<1>11. CASE Changes(q, Schema(View(q), names)) /\ Becomes(q, s)
  <2>1. Grows(q) /\ View(q)'.schema = View(q).schema \cup names /\ writer' = writer
    BY <1>6, <1>11, ChangingGrows DEF StoreInv
  <2>2. View(q)' = committed'
    BY <1>2, <2>1 DEF View
  <2>3. o.name \in committed'.schema /\ committed.schema \subseteq committed'.schema
    BY <2>1, <2>2 DEF Grows
  <2>4. process'[q] = s => ProcessOK(q)'
    BY <1>2, <1>8, <2>1, <2>3
  <2> QED BY <1>3, <1>7, <1>11, <2>1, <2>4, StepKeeps
<1>12. \/ o.table \in process[q].existing /\ Becomes(q, s) /\ ReadsOnly
       \/ Ends(q)
       \/ Changes(q, Schema(View(q), names)) /\ Becomes(q, s)
  BY DEF Create, s
<1> QED BY <1>9, <1>10, <1>11, <1>12

LEMMA CreateLedgerKeeps ==
  ASSUME StoreInv, NEW q \in Procs, CreateLedger(q)
  PROVE  StoreInv'
<1> DEFINE s == [process[q] EXCEPT !.pc = "read"]
<1>1. process[q] \in State /\ process[q].pc = "ledger" /\ ProcessOK(q)
  BY DEF CreateLedger, At, StoreInv, TypeOK
<1>2. writer # q
  BY <1>1, OutsideSeesCommitted
<1>3. /\ s \in State /\ s.pc = "read" /\ s.at = 1 /\ s.version = 1
      /\ s.config \in Config /\ Fits(s.config)
  BY <1>1 DEF State, ProcessOK, PositionOK, FirstVersionOK, ConfigOK, At
<1>4. Tables \subseteq committed.schema
  BY <1>1 DEF ProcessOK, TablesOK
<1>5. crashes' \in 0..MaxCrashes
  BY DEF CreateLedger, StoreInv, TypeOK
<1>6. Grows(q) /\ writer' # q
  <2>1. CASE ReadsOnly
    BY <1>2, <2>1, ReadingGrows DEF StoreInv, ReadsOnly
  <2>2. CASE Changes(q, Schema(View(q), {"schema_migration"}))
    <3>1. {"schema_migration"} \subseteq Objects
      BY DEF Objects
    <3> QED BY <1>2, <2>2, <3>1, ChangingGrows DEF StoreInv
  <2> QED BY <2>1, <2>2 DEF CreateLedger
<1> HIDE DEF s
<1>7. ASSUME process'[q] = s
      PROVE  ProcessOK(q)'
  <2>1. Tables \subseteq committed'.schema
    BY <1>4, <1>6 DEF Grows
  <2> QED BY <1>3, <1>6, <1>7, <2>1
          DEF ProcessOK, CreateOK, TablesOK, MigrateOK, ApplyOK, RecordOK, WriterOK,
              ServingOK, PositionOK, FirstVersionOK, ConfigOK, At
<1>8. Becomes(q, s)
  BY DEF CreateLedger, s
<1> QED BY <1>3, <1>5, <1>6, <1>7, <1>8, StepKeeps

LEMMA ReadLedgerKeeps ==
  ASSUME StoreInv, NEW q \in Procs, ReadLedger(q)
  PROVE  StoreInv'
<1> DEFINE rows == View(q).recorded
           s == [process[q] EXCEPT !.pc = "migrate", !.seen = rows]
<1>1. process[q] \in State /\ process[q].pc = "read" /\ ProcessOK(q)
  BY DEF ReadLedger, At, StoreInv, TypeOK
<1>2. writer # q /\ View(q) = committed /\ committed \in Database
  BY <1>1, OutsideSeesCommitted DEF StoreInv, TypeOK
<1>3. crashes' \in 0..MaxCrashes
  BY DEF ReadLedger, StoreInv, TypeOK
<1>4. CASE Ends(q)
  BY <1>3, <1>4, EndKeeps
<1>5. CASE Becomes(q, s) /\ ReadsOnly
  <2>1. Grows(q) /\ writer' = writer /\ committed' = committed
    BY <1>5, ReadingGrows DEF StoreInv, ReadsOnly
  <2>2. /\ s \in State /\ s.pc = "migrate" /\ s.at = 1 /\ s.seen = committed.recorded
        /\ s.version = process[q].version
        /\ s.config \in Config /\ Fits(s.config)
    BY <1>1, <1>2 DEF State, ProcessOK, PositionOK, FirstVersionOK, ConfigOK, At, Database
  <2>3. Tables \subseteq committed.schema
    BY <1>1 DEF ProcessOK, TablesOK
  <2>4. s.version = 1
    BY <1>1, <2>2 DEF ProcessOK, FirstVersionOK
  <2> HIDE DEF s
  <2>5. ASSUME process'[q] = s
        PROVE  ProcessOK(q)'
    <3>1. \A v \in Versions : ~(v < 1)
      BY Lists
    <3>2. MigrateOK(q)'
      BY <2>1, <2>2, <2>4, <2>5, <3>1 DEF MigrateOK
    <3> QED BY <1>2, <2>1, <2>2, <2>3, <2>5, <3>2
            DEF ProcessOK, CreateOK, TablesOK, ApplyOK, RecordOK, WriterOK, ServingOK,
                PositionOK, FirstVersionOK, ConfigOK, At
  <2> QED BY <1>3, <1>5, <2>1, <2>2, <2>5, StepKeeps
<1> QED BY <1>4, <1>5 DEF ReadLedger

LEMMA MigrateKeeps ==
  ASSUME StoreInv, NEW q \in Procs, Migrate(q)
  PROVE  StoreInv'
<1> DEFINE v == process[q].version
           title == <<v, Migrations[v].name>>
           skipped == [process[q] EXCEPT !.version = v + 1]
           begun == [process[q] EXCEPT !.pc = "apply", !.existing = Columns(q, v)]
<1>1. /\ process[q] \in State /\ process[q].pc = "migrate" /\ v \in Versions
      /\ ProcessOK(q)
  BY DEF Migrate, At, StoreInv, TypeOK
<1>2. crashes' \in 0..MaxCrashes
  BY DEF Migrate, StoreInv, TypeOK
<1>3. /\ process[q].seen \subseteq committed.recorded
      /\ \A u \in Versions : u < v => /\ Added(u) \subseteq View(q).schema
                                      /\ <<u, Migrations[u].name>> \in View(q).recorded
  BY <1>1 DEF ProcessOK, MigrateOK
<1>4. /\ Tables \subseteq committed.schema /\ process[q].at = 1
      /\ process[q].config \in Config /\ Fits(process[q].config)
  BY <1>1 DEF ProcessOK, TablesOK, PositionOK, ConfigOK, At
<1>5. View(q) \in Database /\ RecordedMeansApplied(View(q))
      /\ committed.recorded \subseteq View(q).recorded
  BY DEF StoreInv, TypeOK, DatabaseOK, View
<1>6. v \in 1..4 /\ Versions = 1..4
  BY <1>1, Lists
<1>7. CASE Ends(q)
  BY <1>2, <1>7, EndKeeps
<1>8. ASSUME ReadsOnly
      PROVE  Grows(q) /\ View(q)' = View(q) /\ writer' = writer /\ committed' = committed
  BY <1>8, ReadingGrows DEF StoreInv, ReadsOnly, View
<1>9. CASE title \in process[q].seen /\ Becomes(q, skipped) /\ ReadsOnly
  <2>1. /\ skipped \in State /\ skipped.pc = "migrate" /\ skipped.at = 1
        /\ skipped.version = v + 1 /\ skipped.seen = process[q].seen
        /\ skipped.config = process[q].config
    BY <1>1, <1>4, <1>6 DEF State
  <2>2. Added(v) \subseteq View(q).schema /\ title \in View(q).recorded
    BY <1>1, <1>3, <1>5, <1>9 DEF RecordedMeansApplied
  <2>3. \A u \in Versions :
          u < v + 1 => /\ Added(u) \subseteq View(q).schema
                       /\ <<u, Migrations[u].name>> \in View(q).recorded
    <3>1. \A u \in Versions : u < v + 1 => u < v \/ u = v
      BY <1>6
    <3> QED BY <1>3, <2>2, <3>1
  <2>4. v + 1 \in 1..5
    BY <1>6
  <2> HIDE DEF skipped
  <2>5. ASSUME process'[q] = skipped
        PROVE  ProcessOK(q)'
    <3>1. MigrateOK(q)'
      BY <1>3, <1>8, <1>9, <2>1, <2>3, <2>4, <2>5 DEF MigrateOK
    <3> QED BY <1>4, <1>8, <1>9, <2>1, <2>5, <3>1
            DEF ProcessOK, CreateOK, TablesOK, ApplyOK, RecordOK, WriterOK, ServingOK,
                PositionOK, FirstVersionOK, ConfigOK, At
  <2> QED BY <1>2, <1>8, <1>9, <2>1, <2>5, StepKeeps
<1>10. CASE Becomes(q, begun) /\ ReadsOnly
  <2>1. Columns(q, v) \subseteq View(q).schema /\ View(q).schema \subseteq Objects
    BY <1>5 DEF Columns, Database
  <2>2. /\ begun \in State /\ begun.pc = "apply" /\ begun.at = 1 /\ begun.version = v
        /\ begun.seen = process[q].seen /\ begun.config = process[q].config
        /\ begun.existing = Columns(q, v)
    BY <1>1, <1>4, <2>1 DEF State
  <2>3. 1 \in DOMAIN Migrations[v].adds /\ \A i \in DOMAIN Migrations[v].adds : ~(i < 1)
    BY <1>1, Lists
  <2> HIDE DEF begun
  <2>4. ASSUME process'[q] = begun
        PROVE  ProcessOK(q)'
    <3>1. MigrateOK(q)'
      BY <1>1, <1>3, <1>6, <1>8, <1>10, <2>2, <2>4 DEF MigrateOK
    <3>2. ApplyOK(q)'
      BY <1>8, <1>10, <2>1, <2>2, <2>3, <2>4 DEF ApplyOK
    <3> QED BY <1>4, <1>8, <1>10, <2>2, <2>4, <3>1, <3>2
            DEF ProcessOK, CreateOK, TablesOK, RecordOK, WriterOK, ServingOK,
                PositionOK, FirstVersionOK, ConfigOK, At
  <2> QED BY <1>2, <1>8, <1>10, <2>2, <2>4, StepKeeps
<1> QED BY <1>7, <1>9, <1>10 DEF Migrate

LEMMA ApplyKeeps ==
  ASSUME StoreInv, NEW q \in Procs, Apply(q)
  PROVE  StoreInv'
<1> DEFINE v == process[q].version
           adds == Migrations[v].adds
           s == After(process[q], Len(adds), "record")
<1>1. process[q] \in State /\ process[q].pc = "apply" /\ ProcessOK(q)
  BY DEF Apply, At, StoreInv, TypeOK
<1>2. crashes' \in 0..MaxCrashes
  BY DEF Apply, StoreInv, TypeOK
<1>3. /\ v \in Versions /\ v \in 1..5 /\ process[q].seen \subseteq committed.recorded
      /\ \A u \in Versions : u < v => /\ Added(u) \subseteq View(q).schema
                                      /\ <<u, Migrations[u].name>> \in View(q).recorded
  BY <1>1 DEF ProcessOK, MigrateOK
<1>4. /\ Tables \subseteq committed.schema
      /\ process[q].config \in Config /\ Fits(process[q].config)
  BY <1>1 DEF ProcessOK, TablesOK, ConfigOK, At
<1>5. /\ process[q].at \in DOMAIN adds /\ process[q].existing \subseteq View(q).schema
      /\ \A i \in DOMAIN adds : i < process[q].at => adds[i] \in View(q).schema
  BY <1>1 DEF ProcessOK, ApplyOK, At
<1>6. /\ Len(adds) \in Nat \ {0} /\ DOMAIN adds = 1..Len(adds)
      /\ Added(v) \subseteq Objects /\ Added(v) = {adds[i] : i \in DOMAIN adds}
  BY <1>3, Lists DEF Added, Elements
<1>7. /\ s \in State /\ s.config = process[q].config /\ s.version = v
      /\ s.seen = process[q].seen
      /\ process[q].at < Len(adds) =>
           /\ s.at = process[q].at + 1 /\ s.pc = "apply"
           /\ s.existing = process[q].existing
      /\ ~(process[q].at < Len(adds)) => s.at = 1 /\ s.pc = "record"
  BY <1>1, <1>6, AfterFields
<1> HIDE DEF s, adds
<1>8. ASSUME process'[q] = s, writer' = writer, Grows(q),
             View(q).schema \subseteq View(q)'.schema,
             View(q).recorded \subseteq View(q)'.recorded,
             adds[process[q].at] \in View(q)'.schema
      PROVE  ProcessOK(q)'
  <2>1. \A i \in DOMAIN adds : i <= process[q].at => adds[i] \in View(q)'.schema
    <3>1. \A i \in DOMAIN adds : i <= process[q].at => i < process[q].at \/ i = process[q].at
      BY <1>5, <1>6
    <3> QED BY <1>5, <1>8, <3>1
  <2>2. /\ committed.schema \subseteq committed'.schema
        /\ committed.recorded \subseteq committed'.recorded
    BY <1>8 DEF Grows
  <2>3. \A u \in Versions : u < v => /\ Added(u) \subseteq View(q)'.schema
                                     /\ <<u, Migrations[u].name>> \in View(q)'.recorded
    BY <1>3, <1>8
  <2>4. MigrateOK(q)'
    BY <1>3, <1>7, <1>8, <2>2, <2>3 DEF MigrateOK
  <2>5. CASE process[q].at < Len(adds)
    <3>1. \A i \in DOMAIN adds : i < process[q].at + 1 => i <= process[q].at
      BY <1>5, <1>6
    <3>2. process[q].at + 1 \in DOMAIN adds
      BY <1>5, <1>6, <2>5
    <3>3. process[q].existing \subseteq View(q)'.schema
      BY <1>5, <1>8
    <3>4. ApplyOK(q)'
      BY <1>7, <1>8, <2>1, <2>5, <3>1, <3>2, <3>3 DEF ApplyOK, adds
    <3> QED BY <1>4, <1>7, <1>8, <2>2, <2>4, <2>5, <3>4
            DEF ProcessOK, CreateOK, TablesOK, RecordOK, WriterOK, ServingOK,
                PositionOK, FirstVersionOK, ConfigOK, At
  <2>6. CASE ~(process[q].at < Len(adds))
    <3>1. \A i \in DOMAIN adds : i <= process[q].at
      BY <1>5, <1>6, <2>6
    <3>2. Added(v) \subseteq View(q)'.schema
      BY <1>6, <2>1, <3>1
    <3> QED BY <1>4, <1>7, <1>8, <2>2, <2>4, <2>6, <3>2
            DEF ProcessOK, CreateOK, TablesOK, ApplyOK, RecordOK, WriterOK, ServingOK,
                PositionOK, FirstVersionOK, ConfigOK, At
  <2> QED BY <2>5, <2>6
<1>9. CASE NotDue(q) /\ Becomes(q, s) /\ ReadsOnly
  <2>1. Grows(q) /\ View(q)' = View(q) /\ writer' = writer
    BY <1>9, ReadingGrows DEF StoreInv, ReadsOnly, View
  <2>2. adds[process[q].at] \in View(q)'.schema
    BY <1>5, <1>9, <2>1 DEF NotDue, adds
  <2>3. process'[q] = s => ProcessOK(q)'
    BY <1>8, <2>1, <2>2
  <2> QED BY <1>2, <1>7, <1>9, <2>1, <2>3, StepKeeps
<1>10. CASE Ends(q)
  BY <1>2, <1>10, EndKeeps
<1>11. CASE Changes(q, Schema(View(q), {adds[process[q].at]})) /\ Becomes(q, s)
  <2>1. {adds[process[q].at]} \subseteq Objects
    BY <1>5, <1>6
  <2>2. /\ Grows(q) /\ writer' = writer
        /\ View(q)'.schema = View(q).schema \cup {adds[process[q].at]}
        /\ View(q)'.recorded = View(q).recorded
    BY <1>11, <2>1, ChangingGrows DEF StoreInv
  <2>3. process'[q] = s => ProcessOK(q)'
    BY <1>8, <2>2
  <2> QED BY <1>2, <1>7, <1>11, <2>2, <2>3, StepKeeps
<1> QED BY <1>9, <1>10, <1>11 DEF Apply, s, adds

LEMMA RecordKeeps ==
  ASSUME StoreInv, NEW q \in Procs, Record(q)
  PROVE  StoreInv'
<1> DEFINE v == process[q].version
           s == [process[q] EXCEPT !.pc = "migrate", !.version = v + 1]
<1>1. process[q] \in State /\ process[q].pc = "record" /\ ProcessOK(q)
  BY DEF Record, At, StoreInv, TypeOK
<1>2. crashes' \in 0..MaxCrashes
  BY DEF Record, StoreInv, TypeOK
<1>3. /\ v \in Versions /\ v \in 1..5 /\ process[q].seen \subseteq committed.recorded
      /\ \A u \in Versions : u < v => /\ Added(u) \subseteq View(q).schema
                                      /\ <<u, Migrations[u].name>> \in View(q).recorded
  BY <1>1 DEF ProcessOK, MigrateOK
<1>4. /\ Tables \subseteq committed.schema /\ process[q].at = 1
      /\ process[q].config \in Config /\ Fits(process[q].config)
      /\ Added(v) \subseteq View(q).schema
  BY <1>1 DEF ProcessOK, TablesOK, PositionOK, ConfigOK, RecordOK, At
<1>5. v \in 1..4 /\ Versions = 1..4
  BY <1>3, Lists
<1>6. CASE Ends(q)
  BY <1>2, <1>6, EndKeeps
<1>7. CASE /\ working' = Recording(View(q), v) /\ writer' = q
           /\ Becomes(q, s) /\ UNCHANGED committed
  <2>1. writer \in {NoOne, q}
    BY DEF Record
  <2>2. /\ Grows(q) /\ View(q)'.schema = View(q).schema
        /\ View(q)'.recorded = View(q).recorded \cup {<<v, Migrations[v].name>>}
    BY <1>3, <1>4, <1>7, <2>1, RecordingGrows DEF StoreInv
  <2>3. /\ s \in State /\ s.pc = "migrate" /\ s.at = 1 /\ s.version = v + 1
        /\ s.seen = process[q].seen /\ s.config = process[q].config
    <3>1. v + 1 \in Nat
      BY <1>5
    <3> HIDE DEF v
    <3>2. s \in State
      BY <1>1, <3>1 DEF State
    <3>3. /\ s.pc = "migrate" /\ s.at = process[q].at /\ s.version = v + 1
          /\ s.seen = process[q].seen /\ s.config = process[q].config
      BY <1>1 DEF State
    <3> QED BY <1>4, <3>2, <3>3
  <2>4. \A u \in Versions :
          u < v + 1 => /\ Added(u) \subseteq View(q)'.schema
                       /\ <<u, Migrations[u].name>> \in View(q)'.recorded
    <3>1. \A u \in Versions : u < v + 1 => u < v \/ u = v
      BY <1>5
    <3> QED BY <1>3, <1>4, <2>2, <3>1
  <2>5. v + 1 \in 1..5
    BY <1>5
  <2> HIDE DEF s
  <2>6. ASSUME process'[q] = s
        PROVE  ProcessOK(q)'
    <3>1. MigrateOK(q)'
      BY <1>3, <1>7, <2>3, <2>4, <2>5, <2>6 DEF MigrateOK
    <3> QED BY <1>4, <1>7, <2>3, <2>6, <3>1
            DEF ProcessOK, CreateOK, TablesOK, ApplyOK, RecordOK, WriterOK, ServingOK,
                PositionOK, FirstVersionOK, ConfigOK, At
  <2> QED BY <1>2, <1>7, <2>2, <2>3, <2>6, StepKeeps
<1> QED BY <1>6, <1>7 DEF Record

LEMMA CommitKeeps ==
  ASSUME StoreInv, NEW q \in Procs, Commit(q)
  PROVE  StoreInv'
<1> DEFINE s == [Idle EXCEPT !.pc = "serving", !.config = process[q].config]
<1>1. /\ process[q] \in State /\ process[q].pc = "migrate" /\ ProcessOK(q)
      /\ process[q].version \notin Versions /\ Becomes(q, s)
  BY DEF Commit, At, StoreInv, TypeOK
<1>2. crashes' \in 0..MaxCrashes
  BY DEF Commit, StoreInv, TypeOK
<1>3. \A u \in Versions : u < process[q].version
  <2>1. process[q].version \in 1..5
    BY <1>1 DEF ProcessOK, MigrateOK
  <2> QED BY <1>1, <2>1, Lists
<1>4. \A u \in Versions : /\ Added(u) \subseteq View(q).schema
                          /\ <<u, Migrations[u].name>> \in View(q).recorded
  BY <1>1, <1>3 DEF ProcessOK, MigrateOK
<1>5. /\ process[q].config \in Config /\ Fits(process[q].config)
      /\ Tables \subseteq committed.schema
  BY <1>1 DEF ProcessOK, TablesOK, ConfigOK, At
<1>6. Grows(q) /\ committed' = View(q) /\ writer' # q
  <2>1. CASE writer = q
    BY <2>1, CommittingGrows DEF Commit, StoreInv
  <2>2. CASE writer # q
    <3>1. ReadsOnly
      BY <2>2 DEF Commit
    <3> QED BY <2>2, <3>1, ReadingGrows DEF StoreInv, ReadsOnly, View
  <2> QED BY <2>1, <2>2
<1>7. CurrentSchema \subseteq committed'.schema
  <2>1. Tables \subseteq committed'.schema
    BY <1>5, <1>6 DEF Grows
  <2> QED BY <1>4, <1>6, <2>1 DEF CurrentSchema
<1>8. Records \subseteq committed'.recorded
  BY <1>4, <1>6 DEF Records
<1>9. /\ s \in State /\ s.pc = "serving" /\ s.at = 1 /\ s.config = process[q].config
  BY <1>5 DEF State, Idle
<1> HIDE DEF s
<1>10. ASSUME process'[q] = s
       PROVE  ProcessOK(q)'
  BY <1>5, <1>6, <1>7, <1>8, <1>9, <1>10
     DEF ProcessOK, CreateOK, TablesOK, MigrateOK, ApplyOK, RecordOK, WriterOK, ServingOK,
         PositionOK, FirstVersionOK, ConfigOK, At
<1> QED BY <1>1, <1>2, <1>6, <1>9, <1>10, StepKeeps

LEMMA NextStore == StoreInv /\ [Next]_vars => StoreInv'
<1> SUFFICES ASSUME StoreInv, [Next]_vars PROVE StoreInv'
  OBVIOUS
<1>1. ASSUME NEW p \in Procs, Proceeds(p)
      PROVE  StoreInv'
  BY <1>1, LoadKeeps, InspectKeeps, CreateKeeps, CreateLedgerKeeps, ReadLedgerKeeps,
     MigrateKeeps, ApplyKeeps, RecordKeeps, CommitKeeps DEF Proceeds
<1>2. ASSUME NEW p \in Procs, BusyTimesOut(p) \/ Crash(p) \/ Stop(p)
      PROVE  StoreInv'
  <2>1. Ends(p)
    BY <1>2 DEF BusyTimesOut, Crash, Stop
  <2>2. crashes \in 0..MaxCrashes
    BY DEF StoreInv, TypeOK
  <2>3. crashes' \in 0..MaxCrashes
    BY <1>2, <2>2, ProcsAssumption DEF BusyTimesOut, Crash, Stop
  <2> QED BY <2>1, <2>3, EndKeeps
<1>3. CASE UNCHANGED vars
  BY <1>3 DEF vars, StoreInv, TypeOK, DatabaseOK, RecordedMeansApplied, ProcessOK, CreateOK,
     TablesOK, MigrateOK, ApplyOK, RecordOK, WriterOK, ServingOK, PositionOK,
     FirstVersionOK, ConfigOK, At, View
<1> QED BY <1>1, <1>2, <1>3 DEF Next

(* The inductive invariant: how far each process has brought the database  *)
(* it sees, over a database in which a recorded migration was applied      *)
(* (init_db and _apply_migrations, whatever they are interrupted by).      *)
THEOREM StoreInvariant == Spec => []StoreInv
<1> QED BY InitStore, NextStore, PTL DEF Spec

(* The store and the processes that open it stay of their types.           *)
THEOREM TypeCorrect == Spec => []TypeOK
<1>1. StoreInv => TypeOK
  BY DEF StoreInv
<1> QED BY <1>1, StoreInvariant, PTL

(* A process serves only from the current schema with every migration      *)
(* recorded, for any number of processes, crashes and databases left by    *)
(* other builds (init_db).                                                 *)
THEOREM SchemaIsCurrent == Spec => []ServesCurrentSchema
<1>1. StoreInv => ServesCurrentSchema
  BY DEF StoreInv, ProcessOK, ServingOK, ServesCurrentSchema
<1> QED BY <1>1, StoreInvariant, PTL

(* A process that touches the database runs with a configuration that      *)
(* classifies and routes everything (load_config before init_db).          *)
THEOREM ConfigFits == Spec => []ServedConfigFits
<1>1. StoreInv => ServedConfigFits
  BY DEF StoreInv, ProcessOK, ConfigOK, ServedConfigFits
<1> QED BY <1>1, StoreInvariant, PTL
-----------------------------------------------------------------------------
(* The ledger *)

(* A version is recorded once, and only by a migration of this build       *)
(* beyond what was committed.                                              *)
RowsOK ==
  /\ OneRecordEach(committed.recorded) /\ OneRecordEach(working.recorded)
  /\ working.recorded \subseteq committed.recorded \cup Records

(* What a process in the migrations read of the ledger: versions of this   *)
(* build, under this build's names as far as it has come; whatever else is *)
(* committed came later, from this build.                                  *)
SeenOK(p) ==
  process[p].pc \in {"migrate", "apply", "record"} =>
    /\ \A r \in process[p].seen : r[1] \in Versions
    /\ \A v \in Versions :
         v < process[p].version /\ IsRecorded(process[p].seen, v) =>
           <<v, Migrations[v].name>> \in process[p].seen
    /\ committed.recorded \subseteq process[p].seen \cup Records

ServedOK(p) == At(p, "serving") => committed.recorded \subseteq Records

LedgerInv == RowsOK /\ \A p \in Procs : SeenOK(p) /\ ServedOK(p)

(* What a step does to the ledger and to the schema.                       *)
LedgerGrows ==
  /\ RowsOK'
  /\ committed.schema \subseteq committed'.schema
  /\ committed'.recorded \subseteq committed.recorded \cup Records

LEMMA InitLedger == Init => LedgerInv
<1> SUFFICES ASSUME Init PROVE LedgerInv
  OBVIOUS
<1>1. RowsOK
  BY DatabasesAssumption DEF Init, RowsOK
<1>2. \A p \in Procs : process[p].pc = "off"
  BY DEF Init, Idle
<1> QED BY <1>1, <1>2 DEF LedgerInv, SeenOK, ServedOK, At

LEMMA ReadingLedger ==
  ASSUME RowsOK, ReadsOnly
  PROVE  LedgerGrows /\ committed' = committed
BY DEF ReadsOnly, RowsOK, OneRecordEach, LedgerGrows

LEMMA ChangingLedger ==
  ASSUME TypeOK, DatabaseOK, RowsOK, NEW q \in Procs, NEW names,
         Changes(q, Schema(View(q), names))
  PROVE  LedgerGrows /\ committed'.recorded = committed.recorded
<1> DEFINE db == Schema(View(q), names)
<1>1. View(q) \in Database
  BY DEF TypeOK, View
<1>2. db.recorded = View(q).recorded /\ db.schema = View(q).schema \cup names
  BY <1>1 DEF Schema, Database
<1>3. writer \in {NoOne, q} /\ working' = db
  BY DEF Changes
<1>4. CASE writer = q
  <2>1. committed' = committed /\ View(q) = working
    BY <1>4 DEF Changes, View
  <2>2. working'.recorded = working.recorded
    BY <1>2, <1>3, <2>1
  <2> QED BY <2>1, <2>2 DEF RowsOK, OneRecordEach, LedgerGrows
<1>5. CASE writer # q
  <2>1. committed' = db /\ View(q) = committed
    BY <1>5 DEF Changes, View
  <2>2. /\ committed'.recorded = committed.recorded
        /\ working'.recorded = committed.recorded
        /\ committed.schema \subseteq committed'.schema
    BY <1>2, <1>3, <2>1
  <2> QED BY <2>2 DEF RowsOK, OneRecordEach, LedgerGrows
<1> QED BY <1>4, <1>5

LEMMA EndingLedger ==
  ASSUME RowsOK, NEW q \in Procs, Ends(q)
  PROVE  LedgerGrows /\ committed' = committed
BY DEF Ends, ReadsOnly, RowsOK, OneRecordEach, LedgerGrows

LEMMA RecordingLedger ==
  ASSUME TypeOK, RowsOK, NEW q \in Procs, NEW v \in Versions,
         ~IsRecorded(View(q).recorded, v),
         working' = Recording(View(q), v), UNCHANGED committed
  PROVE  LedgerGrows /\ committed' = committed
<1> DEFINE row == <<v, Migrations[v].name>>
<1>1. View(q) \in Database
  BY DEF TypeOK, View
<1>2. working'.recorded = View(q).recorded \cup {row}
  BY <1>1 DEF Recording, Database
<1>3. row[1] = v /\ row \in Records
  BY DEF Records
<1>4. \A r \in View(q).recorded : r[1] # v
  BY DEF IsRecorded
<1>5. OneRecordEach(View(q).recorded)
  BY DEF RowsOK, View
<1>6. View(q).recorded \subseteq committed.recorded \cup Records
  BY DEF RowsOK, View
<1> HIDE DEF row
<1>7. OneRecordEach(working'.recorded)
  BY <1>2, <1>3, <1>4, <1>5 DEF OneRecordEach
<1> QED BY <1>2, <1>3, <1>6, <1>7 DEF RowsOK, OneRecordEach, LedgerGrows

LEMMA CommittingLedger ==
  ASSUME DatabaseOK, RowsOK, NEW q \in Procs, Commit(q)
  PROVE  LedgerGrows
<1>1. CASE writer = q
  <2>1. committed' = working /\ working' = working
    BY <1>1 DEF Commit
  <2> QED BY <2>1 DEF RowsOK, DatabaseOK, OneRecordEach, LedgerGrows
<1>2. CASE writer # q
  BY <1>2, ReadingLedger DEF Commit
<1> QED BY <1>1, <1>2

(* The ledger and the schema grow with every step, and the committed       *)
(* ledger changes only where a transaction ends.                           *)
LEMMA StepLedger ==
  ASSUME StoreInv, RowsOK, NEW q \in Procs,
         Proceeds(q) \/ BusyTimesOut(q) \/ Crash(q) \/ Stop(q)
  PROVE  /\ LedgerGrows
         /\ ~Commit(q) => committed'.recorded = committed.recorded
<1> USE DEF StoreInv
<1>1. CASE Load(q) \/ Inspect(q)
  BY <1>1, ReadingLedger DEF Load, Inspect
<1>2. CASE BusyTimesOut(q) \/ Crash(q) \/ Stop(q) \/ Ends(q)
  BY <1>2, EndingLedger DEF BusyTimesOut, Crash, Stop
<1>3. CASE Create(q)
  BY <1>3, ReadingLedger, ChangingLedger, EndingLedger DEF Create
<1>4. CASE CreateLedger(q)
  BY <1>4, ReadingLedger, ChangingLedger DEF CreateLedger
<1>5. CASE ReadLedger(q)
  BY <1>5, ReadingLedger, EndingLedger DEF ReadLedger
<1>6. CASE Migrate(q)
  BY <1>6, ReadingLedger, EndingLedger DEF Migrate
<1>7. CASE Apply(q)
  BY <1>7, ReadingLedger, ChangingLedger, EndingLedger DEF Apply
<1>8. CASE Record(q)
  <2>1. CASE Ends(q)
    BY <2>1, <1>2
  <2>2. CASE ~Ends(q)
    <3>1. /\ ~IsRecorded(View(q).recorded, process[q].version)
          /\ working' = Recording(View(q), process[q].version) /\ UNCHANGED committed
      BY <1>8, <2>2 DEF Record
    <3>2. process[q].version \in Versions
      BY <1>8 DEF Record, At, ProcessOK, MigrateOK
    <3> QED BY <3>1, <3>2, RecordingLedger
  <2> QED BY <2>1, <2>2
<1>9. CASE Commit(q)
  BY <1>9, CommittingLedger
<1> QED BY <1>1, <1>2, <1>3, <1>4, <1>5, <1>6, <1>7, <1>8, <1>9 DEF Proceeds

LEMMA OthersStay ==
  ASSUME StoreInv, NEW q \in Procs,
         Proceeds(q) \/ BusyTimesOut(q) \/ Crash(q) \/ Stop(q)
  PROVE  \A p \in Procs \ {q} : process'[p] = process[p]
<1>1. \A s : Becomes(q, s) => \A p \in Procs \ {q} : process'[p] = process[p]
  BY DEF StoreInv, TypeOK, Becomes
<1> QED BY <1>1 DEF Proceeds, BusyTimesOut, Crash, Stop, Ends, Load, Inspect, Create,
                    CreateLedger, ReadLedger, Migrate, Apply, Record, Commit

(* What a process read and what it serves stand while the ledger grows.    *)
LEMMA LedgerKept ==
  ASSUME NEW p \in Procs, SeenOK(p), ServedOK(p), LedgerGrows, process'[p] = process[p]
  PROVE  SeenOK(p)' /\ ServedOK(p)'
BY DEF SeenOK, ServedOK, LedgerGrows, At

(* At the end of the list, the committed ledger is this build's.           *)
LEMMA SeenAll ==
  ASSUME RowsOK, NEW p \in Procs, ProcessOK(p), SeenOK(p),
         At(p, "migrate"), process[p].version \notin Versions
  PROVE  committed.recorded \subseteq Records
<1>1. process[p].version = 5 /\ process[p].seen \subseteq committed.recorded
  BY Lists DEF ProcessOK, MigrateOK, At
<1>2. ASSUME NEW r \in process[p].seen
      PROVE  r \in Records
  <2>1. r[1] \in Versions /\ IsRecorded(process[p].seen, r[1])
    BY DEF SeenOK, At, IsRecorded
  <2>2. r[1] < process[p].version
    BY <1>1, <2>1, Lists
  <2>3. <<r[1], Migrations[r[1]].name>> \in process[p].seen
    BY <2>1, <2>2 DEF SeenOK, At
  <2>4. r = <<r[1], Migrations[r[1]].name>>
    BY <1>1, <2>3 DEF RowsOK, OneRecordEach
  <2> QED BY <2>1, <2>4 DEF Records
<1> QED BY <1>2 DEF SeenOK, At

(* The process that took the step knows no less of the ledger.             *)
LEMMA SeenKept ==
  ASSUME LedgerGrows, NEW q \in Procs, ProcessOK(q), SeenOK(q),
         process[q].pc \in {"migrate", "apply", "record"},
         process'[q].pc \in {"migrate", "apply", "record"},
         process'[q].seen = process[q].seen,
         \/ process'[q].version = process[q].version
         \/ /\ process'[q].version = process[q].version + 1
            /\ IsRecorded(process[q].seen, process[q].version) =>
                 <<process[q].version, Migrations[process[q].version].name>> \in process[q].seen
  PROVE  SeenOK(q)' /\ ServedOK(q)'
<1> DEFINE seen == process[q].seen
<1>1. process[q].version \in 1..5
  BY DEF ProcessOK, MigrateOK
<1>2. \A v \in Versions :
        v < process'[q].version /\ IsRecorded(seen, v) => <<v, Migrations[v].name>> \in seen
  <2> SUFFICES ASSUME NEW v \in Versions, v < process'[q].version, IsRecorded(seen, v)
               PROVE  <<v, Migrations[v].name>> \in seen
    OBVIOUS
  <2>1. \/ v < process[q].version
        \/ v = process[q].version /\ process'[q].version = process[q].version + 1
    BY <1>1, Lists
  <2>2. CASE v < process[q].version
    BY <2>2 DEF SeenOK
  <2>3. CASE v = process[q].version /\ process'[q].version = process[q].version + 1
    <3>1. process'[q].version # process[q].version
      BY <1>1, <2>3
    <3> QED BY <2>3, <3>1
  <2> QED BY <2>1, <2>2, <2>3
<1>3. committed'.recorded \subseteq seen \cup Records
  BY DEF SeenOK, LedgerGrows
<1>4. \A r \in seen : r[1] \in Versions
  BY DEF SeenOK
<1>5. SeenOK(q)'
  BY <1>2, <1>3, <1>4 DEF SeenOK
<1> QED BY <1>5 DEF ServedOK, At

LEMMA StepSeen ==
  ASSUME StoreInv, LedgerInv, LedgerGrows, NEW q \in Procs,
         Proceeds(q) \/ BusyTimesOut(q) \/ Crash(q) \/ Stop(q)
  PROVE  SeenOK(q)' /\ ServedOK(q)'
<1>1. /\ process \in [Procs -> State] /\ process[q] \in State
      /\ ProcessOK(q) /\ SeenOK(q) /\ RowsOK
      /\ \A s : Becomes(q, s) => process'[q] = s
  BY DEF StoreInv, TypeOK, LedgerInv, Becomes
<1>2. ASSUME process'[q].pc \in {"off", "inspect", "create", "ledger", "read"}
      PROVE  SeenOK(q)' /\ ServedOK(q)'
  BY <1>2 DEF SeenOK, ServedOK, At
<1>3. CASE Ends(q)
  BY <1>1, <1>2, <1>3 DEF Ends, Idle
<1>4. CASE Load(q)
  <2>1. PICK c \in Documents : Becomes(q, [Idle EXCEPT !.pc = "inspect", !.config = c])
    BY <1>4 DEF Load
  <2>2. process'[q].pc = "inspect"
    BY <1>1, <2>1 DEF Idle
  <2> QED BY <1>2, <2>2
<1>5. CASE Inspect(q)
  BY <1>1, <1>2, <1>5 DEF Inspect, State
<1>6. CASE Create(q) /\ ~Ends(q)
  <2>1. process'[q] = After(process[q], Len(CreateAll), "ledger") /\ process[q].pc = "create"
    BY <1>1, <1>6 DEF Create, At
  <2>2. process'[q].pc \in {"create", "ledger"}
    <3>1. After(process[q], Len(CreateAll), "ledger").pc \in {"create", "ledger"}
      BY <1>1, <2>1, AfterFields, Lists
    <3> QED BY <2>1, <3>1
  <2> QED BY <1>2, <2>2
<1>7. CASE CreateLedger(q)
  BY <1>1, <1>2, <1>7 DEF CreateLedger, State
<1>8. CASE ReadLedger(q) /\ ~Ends(q)
  <2>1. /\ process[q].pc = "read" /\ process[q].version = 1
        /\ View(q) = committed /\ committed' = committed
    BY <1>1, <1>8, OutsideSeesCommitted DEF ReadLedger, At, ProcessOK, FirstVersionOK, ReadsOnly
  <2>2. \A r \in committed.recorded : r[1] \in Versions
    BY <1>8, <2>1 DEF ReadLedger
  <2>3. process'[q] = [process[q] EXCEPT !.pc = "migrate", !.seen = committed.recorded]
    BY <1>1, <1>8, <2>1 DEF ReadLedger
  <2>4. /\ process'[q].pc = "migrate" /\ process'[q].seen = committed.recorded
        /\ process'[q].version = 1
    BY <1>1, <2>1, <2>3 DEF State
  <2>5. \A v \in Versions : ~(v < 1)
    BY Lists
  <2> QED BY <2>1, <2>2, <2>4, <2>5 DEF SeenOK, ServedOK, At
<1>9. CASE Migrate(q) /\ ~Ends(q)
  <2> DEFINE v == process[q].version
  <2>1. /\ process[q].pc = "migrate" /\ v \in Nat
        /\ \/ /\ process'[q] = [process[q] EXCEPT !.version = v + 1]
              /\ <<v, Migrations[v].name>> \in process[q].seen
           \/ process'[q] = [process[q] EXCEPT !.pc = "apply", !.existing = Columns(q, v)]
    BY <1>1, <1>9 DEF Migrate, At, State
  <2>2. /\ process'[q].pc \in {"migrate", "apply"} /\ process'[q].seen = process[q].seen
        /\ \/ process'[q].version = v
           \/ process'[q].version = v + 1 /\ <<v, Migrations[v].name>> \in process[q].seen
    BY <1>1, <2>1 DEF State
  <2> QED BY <1>1, <2>1, <2>2, SeenKept
<1>10. CASE Apply(q) /\ ~Ends(q)
  <2> DEFINE last == Len(Migrations[process[q].version].adds)
  <2>1. process'[q] = After(process[q], last, "record") /\ process[q].pc = "apply"
    BY <1>1, <1>10 DEF Apply, At
  <2>2. last \in Nat
    BY <1>1, <2>1, Lists DEF ProcessOK, MigrateOK
  <2>3. /\ process'[q].pc \in {"apply", "record"} /\ process'[q].seen = process[q].seen
        /\ process'[q].version = process[q].version
    <3> HIDE DEF last
    <3> QED BY <1>1, <2>1, <2>2, AfterFields
  <2> QED BY <1>1, <2>1, <2>3, SeenKept
<1>11. CASE Record(q) /\ ~Ends(q)
  <2> DEFINE v == process[q].version
  <2>1. /\ process[q].pc = "record" /\ ~IsRecorded(View(q).recorded, v)
        /\ process'[q] = [process[q] EXCEPT !.pc = "migrate", !.version = v + 1]
    BY <1>1, <1>11 DEF Record, At
  <2>2. process[q].seen \subseteq View(q).recorded
    BY <1>1, <2>1 DEF ProcessOK, MigrateOK, StoreInv, DatabaseOK, View
  <2>3. ~IsRecorded(process[q].seen, v)
    BY <2>1, <2>2 DEF IsRecorded
  <2>4. /\ process'[q].pc = "migrate" /\ process'[q].seen = process[q].seen
        /\ process'[q].version = v + 1
    BY <1>1, <2>1 DEF State
  <2> QED BY <1>1, <2>1, <2>3, <2>4, SeenKept
<1>12. CASE Commit(q)
  <2>1. process'[q].pc = "serving"
    BY <1>1, <1>12 DEF Commit, Idle
  <2>2. committed.recorded \subseteq Records
    BY <1>1, <1>12, SeenAll DEF Commit
  <2>3. committed'.recorded \subseteq Records
    BY <2>2 DEF LedgerGrows
  <2> QED BY <2>1, <2>3 DEF SeenOK, ServedOK, At
<1> QED BY <1>3, <1>4, <1>5, <1>6, <1>7, <1>8, <1>9, <1>10, <1>11, <1>12
        DEF Proceeds, BusyTimesOut, Crash, Stop

LEMMA NextLedger == StoreInv /\ LedgerInv /\ [Next]_vars => LedgerInv'
<1> SUFFICES ASSUME StoreInv, LedgerInv, [Next]_vars PROVE LedgerInv'
  OBVIOUS
<1>1. ASSUME NEW q \in Procs, Proceeds(q) \/ BusyTimesOut(q) \/ Crash(q) \/ Stop(q)
      PROVE  LedgerInv'
  <2>1. LedgerGrows
    BY <1>1, StepLedger DEF LedgerInv
  <2>2. SeenOK(q)' /\ ServedOK(q)'
    BY <1>1, <2>1, StepSeen
  <2>3. \A p \in Procs \ {q} : process'[p] = process[p]
    BY <1>1, OthersStay
  <2>4. \A p \in Procs \ {q} : SeenOK(p)' /\ ServedOK(p)'
    BY <2>1, <2>3, LedgerKept DEF LedgerInv
  <2> QED BY <2>1, <2>2, <2>4 DEF LedgerGrows, LedgerInv
<1>2. CASE UNCHANGED vars
  BY <1>2 DEF vars, LedgerInv, RowsOK, OneRecordEach, SeenOK, ServedOK, At
<1> QED BY <1>1, <1>2 DEF Next

(* Half-applied starts leave nothing in the ledger, and a store that       *)
(* another build has migrated is not served, however the starts            *)
(* interleave and wherever they die (_apply_migrations).                   *)
THEOREM LedgerInvariant == Spec => [](StoreInv /\ LedgerInv)
<1> QED BY InitStore, NextStore, InitLedger, NextLedger, PTL DEF Spec

-----------------------------------------------------------------------------
(* Startup implements StoreContract *)

Serving == {p \in Procs : At(p, "serving")}

LEMMA ServingMoves ==
  ASSUME StoreInv, NEW q \in Procs, NEW s, Becomes(q, s)
  PROVE  Serving' = IF s.pc = "serving" THEN Serving \cup {q} ELSE Serving \ {q}
<1>1. process'[q] = s /\ \A p \in Procs \ {q} : process'[p] = process[p]
  BY DEF StoreInv, TypeOK, Becomes
<1> QED BY <1>1 DEF Serving, At

(* The process that commits serves, one that ends no longer does, and no   *)
(* other step changes who serves.                                          *)
LEMMA WhoServes ==
  ASSUME StoreInv, NEW q \in Procs,
         Proceeds(q) \/ BusyTimesOut(q) \/ Crash(q) \/ Stop(q)
  PROVE  \/ Commit(q) /\ q \notin Serving /\ Serving' = Serving \cup {q}
         \/ Ends(q) /\ Serving' = Serving \ {q}
         \/ ~Commit(q) /\ Serving' = Serving
<1>1. process[q] \in State /\ \A s : Becomes(q, s) => process'[q] = s
  BY DEF StoreInv, TypeOK, Becomes
<1>2. ASSUME NEW s, Becomes(q, s), s.pc # "serving", ~At(q, "serving")
      PROVE  Serving' = Serving
  BY <1>2, ServingMoves DEF Serving
<1>3. CASE Ends(q)
  <2>1. Becomes(q, Idle) /\ Idle.pc # "serving"
    BY <1>3 DEF Ends, Idle
  <2> QED BY <1>3, <2>1, ServingMoves
<1>4. CASE Commit(q)
  <2> DEFINE s == [Idle EXCEPT !.pc = "serving", !.config = process[q].config]
  <2>1. Becomes(q, s) /\ process[q].pc = "migrate"
    BY <1>4 DEF Commit, At
  <2>2. s.pc = "serving"
    BY DEF Idle
  <2>3. q \notin Serving
    BY <2>1 DEF Serving, At
  <2> HIDE DEF s
  <2> QED BY <1>4, <2>1, <2>2, <2>3, ServingMoves
<1>5. ASSUME ~Ends(q), ~Commit(q)
      PROVE  \E s : Becomes(q, s) /\ s.pc # "serving" /\ ~At(q, "serving")
  <2>1. CASE Load(q)
    <3>1. PICK c \in Documents : Becomes(q, [Idle EXCEPT !.pc = "inspect", !.config = c])
      BY <2>1 DEF Load
    <3>2. [Idle EXCEPT !.pc = "inspect", !.config = c].pc # "serving"
      BY DEF Idle
    <3> QED BY <2>1, <3>1, <3>2 DEF Load, At
  <2>2. CASE Inspect(q)
    <3> DEFINE s == [process[q] EXCEPT !.pc = "create",
                                       !.existing = Tables \cap View(q).schema]
    <3>1. Becomes(q, s) /\ process[q].pc = "inspect"
      BY <2>2 DEF Inspect, At
    <3>2. s.pc = "create"
      BY <1>1 DEF State
    <3> QED BY <3>1, <3>2 DEF At
  <2>3. CASE Create(q)
    <3> DEFINE s == After(process[q], Len(CreateAll), "ledger")
    <3>1. Becomes(q, s) /\ process[q].pc = "create"
      BY <1>5, <2>3 DEF Create, At
    <3>2. s.pc \in {"create", "ledger"}
      BY <1>1, <3>1, AfterFields, Lists
    <3> QED BY <3>1, <3>2 DEF At
  <2>4. CASE CreateLedger(q)
    <3> DEFINE s == [process[q] EXCEPT !.pc = "read"]
    <3>1. Becomes(q, s) /\ process[q].pc = "ledger"
      BY <2>4 DEF CreateLedger, At
    <3>2. s.pc = "read"
      BY <1>1 DEF State
    <3> QED BY <3>1, <3>2 DEF At
  <2>5. CASE ReadLedger(q)
    <3> DEFINE s == [process[q] EXCEPT !.pc = "migrate", !.seen = View(q).recorded]
    <3>1. Becomes(q, s) /\ process[q].pc = "read"
      BY <1>5, <2>5 DEF ReadLedger, At
    <3>2. s.pc = "migrate"
      BY <1>1 DEF State
    <3> QED BY <3>1, <3>2 DEF At
  <2>6. CASE Migrate(q)
    <3> DEFINE v == process[q].version
               skipped == [process[q] EXCEPT !.version = v + 1]
               begun == [process[q] EXCEPT !.pc = "apply", !.existing = Columns(q, v)]
    <3>1. process[q].pc = "migrate" /\ (Becomes(q, skipped) \/ Becomes(q, begun))
      BY <1>5, <2>6 DEF Migrate, At
    <3>2. skipped.pc = "migrate" /\ begun.pc = "apply"
      BY <1>1, <3>1 DEF State
    <3> QED BY <3>1, <3>2 DEF At
  <2>7. CASE Apply(q)
    <3> DEFINE s == After(process[q], Len(Migrations[process[q].version].adds), "record")
    <3>1. Becomes(q, s) /\ process[q].pc = "apply"
      BY <1>5, <2>7 DEF Apply, At
    <3>2. s.pc \in {"apply", "record"}
      <4>1. Len(Migrations[process[q].version].adds) \in Nat
        BY <3>1, Lists DEF StoreInv, ProcessOK, MigrateOK
      <4> QED BY <1>1, <3>1, <4>1, AfterFields
    <3> QED BY <3>1, <3>2 DEF At
  <2>8. CASE Record(q)
    <3> DEFINE s == [process[q] EXCEPT !.pc = "migrate", !.version = @ + 1]
    <3>1. Becomes(q, s) /\ process[q].pc = "record"
      BY <1>5, <2>8 DEF Record, At
    <3>2. s.pc = "migrate"
      BY <1>1 DEF State
    <3> QED BY <3>1, <3>2 DEF At
  <2> QED BY <1>5, <2>1, <2>2, <2>3, <2>4, <2>5, <2>6, <2>7, <2>8
          DEF Proceeds, BusyTimesOut, Crash, Stop
<1> QED BY <1>2, <1>3, <1>4, <1>5

LEMMA StoreMoves ==
  ASSUME StoreInv, LedgerInv, NEW q \in Procs, LedgerGrows,
         Proceeds(q) \/ BusyTimesOut(q) \/ Crash(q) \/ Stop(q)
  PROVE  [Store!Next]_(Store!vars)
<1>1. CASE Commit(q) /\ q \notin Serving /\ Serving' = Serving \cup {q}
  <2>1. committed.recorded \subseteq Records
    BY <1>1, SeenAll DEF Commit, StoreInv, LedgerInv
  <2>2. StoreInv' /\ process'[q].pc = "serving"
    <3>1. process'[q] = [Idle EXCEPT !.pc = "serving", !.config = process[q].config]
      BY <1>1 DEF Commit, Becomes, StoreInv, TypeOK
    <3> QED BY <1>1, <3>1, CommitKeeps DEF Idle
  <2>3. CurrentSchema \subseteq committed'.schema /\ Records \subseteq committed'.recorded
    BY <2>2 DEF StoreInv, ProcessOK, ServingOK, At
  <2>4. committed'.recorded = Records
    BY <2>1, <2>3 DEF LedgerGrows
  <2>5. Store!Serve(q)
    BY <1>1, <2>1, <2>3, <2>4 DEF Store!Serve, Serving, LedgerGrows
  <2> QED BY <2>5 DEF Store!Next
<1>2. CASE Ends(q) /\ Serving' = Serving \ {q}
  <2>1. Store!Close(q)
    BY <1>2, EndingLedger DEF Store!Close, Serving, LedgerInv
  <2> QED BY <2>1 DEF Store!Next
<1>3. CASE ~Commit(q) /\ Serving' = Serving
  <2>1. Store!Extend
    BY <1>3, StepLedger DEF Store!Extend, Serving, LedgerGrows, LedgerInv
  <2> QED BY <2>1 DEF Store!Next
<1> QED BY <1>1, <1>2, <1>3, WhoServes

(* The store keeps its contract: its schema only grows, its ledger goes in *)
(* one step from what it was to all of this build's migrations once their  *)
(* objects are there, and a store with any other row is never served, for  *)
(* any processes, crashes and databases left by other builds (init_db).    *)
THEOREM StartupImplementsStore == Spec => ImplementsStore
<1>1. Init => Store!Init
  <2> SUFFICES ASSUME Init PROVE Store!Init
    OBVIOUS
  <2>1. \A p \in Procs : process[p].pc = "off"
    BY DEF Init, Idle
  <2> QED BY <2>1 DEF Store!Init, At
<1>2. StoreInv /\ LedgerInv /\ [Next]_vars => [Store!Next]_(Store!vars)
  <2> SUFFICES ASSUME StoreInv, LedgerInv, [Next]_vars PROVE [Store!Next]_(Store!vars)
    OBVIOUS
  <2>1. ASSUME NEW q \in Procs, Proceeds(q) \/ BusyTimesOut(q) \/ Crash(q) \/ Stop(q)
        PROVE  [Store!Next]_(Store!vars)
    BY <2>1, StepLedger, StoreMoves DEF LedgerInv
  <2>2. CASE UNCHANGED vars
    BY <2>2 DEF vars, Store!vars, At
  <2> QED BY <2>1, <2>2 DEF Next
<1> QED BY <1>1, <1>2, LedgerInvariant, PTL DEF Spec, ImplementsStore, Store!Spec
=============================================================================
