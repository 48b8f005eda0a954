------------------------------ MODULE MCStartup ------------------------------
(* A server and a pipeline on one database, given documents of which two     *)
(* load and each other breaks one check.                                     *)
EXTENDS Startup, TLC

CONSTANTS p1, p2

MCNames == {"a", "A", "b", "c", " c"}
MCClean == {"a", "A", "b", "c"}
MCFolded == "a" :> "a" @@ "A" :> "a" @@ "b" :> "b" @@ "c" :> "c" @@ " c" :> " c"

\* gate and portao differ for the checks; dashes leave nothing to look for.
MCKeywords == {"gate", "Gate", "portao", "--", " "}
MCKeyFolded ==
  "gate" :> "gate" @@ "Gate" :> "gate" @@ "portao" :> "portao" @@ "--" :> "--" @@ " " :> Blank
MCSurface ==
  "gate" :> "gate" @@ "Gate" :> "gate" @@ "portao" :> "portao" @@ "--" :> Blank @@ " " :> Blank
MCTexts == {{}, {"gate"}, {"portao"}, {"gate", "portao"}}

All(label) == [d \in Dimensions |-> label]
When(d, label) == [All(Open) EXCEPT ![d] = label]
Both(label) == [When("type", label) EXCEPT !.urgency = label]

Base ==
  [canonical |-> TRUE,
   labels |-> All(<<"a", "b">>),
   rules |-> <<[id |-> "a", keywords |-> <<"gate", "--">>, triage |-> All("a")],
               [id |-> "b", keywords |-> <<>>, triage |-> All("b")]>>,
   routing |-> <<[id |-> "a", when |-> Both("a"), recipients |-> <<"a">>],
                 [id |-> "b", when |-> NoCondition, recipients |-> <<"b">>]>>,
   deadline |-> 120]

\* A condition, one that is more general, the default.
General ==
  [Base EXCEPT !.routing =
     <<[id |-> "a", when |-> Both("a"), recipients |-> <<"a">>],
       [id |-> "b", when |-> When("type", "a"), recipients |-> <<"a", "b">>]>>]
Shadowed == [General EXCEPT !.routing = <<@[2], @[1]>>]

WithThird(c) ==
  [c EXCEPT !.routing =
     Append(@, [id |-> "c", when |-> NoCondition, recipients |-> <<"b">>])]

MCDocuments ==
  {Base, WithThird(General), WithThird(Shadowed), General,
   [Base EXCEPT !.canonical = FALSE],
   [Base EXCEPT !.deadline = 0],
   [Base EXCEPT !.labels.type = <<"a", "A">>],
   [Base EXCEPT !.labels.type = <<"a">>],
   [Base EXCEPT !.rules = <<@[2], @[1]>>],
   [Base EXCEPT !.rules = <<@[1]>>],
   [Base EXCEPT !.rules[1].keywords = <<" ">>],
   [Base EXCEPT !.rules = <<@[1], [id |-> " c", keywords |-> <<"Gate">>, triage |-> All("b")], @[2]>>],
   [Base EXCEPT !.routing = <<@[2], @[1]>>],
   [Base EXCEPT !.routing[1].when = All(Open)],
   [Base EXCEPT !.routing[1].when = Both("c")],
   [Base EXCEPT !.routing[1].recipients = <<>>]}

Empty == [schema |-> {}, recorded |-> {}, doubled |-> FALSE]

\* A store older than the revisions: the draft table alone.
Oldest == [Empty EXCEPT !.schema = {"draft"}]

\* The store of a build that knew the first n migrations.
Left(n) ==
  [schema |-> Tables \cup {"schema_migration"} \cup UNION {Added(v) : v \in 1..n},
   recorded |-> {<<v, Migrations[v].name>> : v \in 1..n}, doubled |-> FALSE]

MCTitles == {Migrations[v].name : v \in Versions} \cup {"later", "renamed"}
MCDatabases ==
  {Empty, Oldest, Left(1), Left(2), Left(4), [Left(2) EXCEPT !.doubled = TRUE],
   [Left(4) EXCEPT !.recorded = @ \cup {<<5, "later">>}],
   [Left(1) EXCEPT !.recorded = @ \cup {<<2, "renamed">>}]}
=============================================================================
