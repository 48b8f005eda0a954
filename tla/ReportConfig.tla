---------------------------- MODULE ReportConfig ----------------------------
(***************************************************************************)
(* The report configuration: which documents load, and how a loaded one    *)
(* classifies a text and routes a triage.  Names are compared exactly by   *)
(* the matchers and case-folded by the checks of uniqueness; keywords are  *)
(* case-folded by the checks and reduced to their letters and digits by    *)
(* the classifier.  The canonical form of the fields, which the checks     *)
(* compare with one constant, is a flag.                                   *)
(***************************************************************************)
EXTENDS Integers, Sequences

CONSTANTS
  Names,        \* identifiers and labels a document may contain
  Clean,        \* those neither blank nor surrounded by blanks
  Folded,       \* a name, case-folded
  Keywords,     \* keywords a document may contain
  KeyFolded,    \* a keyword, stripped and case-folded
  Surface,      \* a keyword as the classifier looks for it
  Blank,        \* nothing is left of a keyword
  Texts,        \* texts, as the set of the surfaces that occur in them
  Open,         \* a dimension a condition leaves open
  NoCondition   \* the `when` of the default rule

Dimensions == {"type", "urgency", "sector"}
Triage == [Dimensions -> Names]

Rule == [id : Names, keywords : Seq(Keywords), triage : Triage]
Route ==
  [id : Names, when : [Dimensions -> Names \cup {Open}] \cup {NoCondition},
   recipients : Seq(Names)]

Config ==
  [canonical : BOOLEAN, labels : [Dimensions -> Seq(Names)],
   rules : Seq(Rule), routing : Seq(Route), deadline : Int]

ASSUME NamesAssumption ==
  /\ Clean \subseteq Names
  /\ \E x, y \in Names : x # y
  /\ Open \notin Names

ASSUME TextsAssumption == \A text \in Texts : Blank \notin text

Elements(s) == {s[i] : i \in DOMAIN s}

-----------------------------------------------------------------------------
(* What a document must satisfy *)

(* _validate_identifiers *)
Identifiers(names) ==
  /\ Elements(names) \subseteq Clean
  /\ \A i, j \in DOMAIN names : i # j => Folded[names[i]] # Folded[names[j]]

InTaxonomy(c, dimension, label) == label \in Elements(c.labels[dimension])

LabelsSound(c) ==
  \A d \in Dimensions : c.labels[d] # <<>> /\ Identifiers(c.labels[d])

Ids(entries) == [i \in DOMAIN entries |-> entries[i].id]

(* The entries P singles out are the last one, and only it. *)
OnlyLast(entries, P(_)) ==
  /\ entries # <<>>
  /\ \A i \in DOMAIN entries : P(entries[i]) <=> i = Len(entries)

IsFallback(rule) == rule.keywords = <<>>
IsDefault(rt) == rt.when = NoCondition

FoldedKeywords(rule) == {KeyFolded[k] : k \in Elements(rule.keywords)}

RulesSound(c) ==
  /\ Identifiers(Ids(c.rules))
  /\ OnlyLast(c.rules, IsFallback)
  /\ \A i \in DOMAIN c.rules :
       /\ \A d \in Dimensions : InTaxonomy(c, d, c.rules[i].triage[d])
       /\ Blank \notin FoldedKeywords(c.rules[i])
  /\ \A i, j \in DOMAIN c.rules :
       i < j => FoldedKeywords(c.rules[i]) \cap FoldedKeywords(c.rules[j]) = {}

(* A condition as the items of its dict. *)
Items(when) == {<<d, when[d]>> : d \in {e \in Dimensions : when[e] # Open}}

(* The comparison the other way round. *)
ShadowsReversed(earlier, later) == Items(later.when) \subseteq Items(earlier.when)

(* An earlier condition shadows a later one whose items include its own.   *)
Shadows(earlier, later) == Items(earlier.when) \subseteq Items(later.when)

RouteSound(c, rt) ==
  /\ rt.recipients # <<>> /\ Identifiers(rt.recipients)
  /\ ~IsDefault(rt) =>
       /\ Items(rt.when) # {}
       /\ \A item \in Items(rt.when) : InTaxonomy(c, item[1], item[2])

RoutingSound(c) ==
  /\ Identifiers(Ids(c.routing))
  /\ OnlyLast(c.routing, IsDefault)
  /\ \A i \in DOMAIN c.routing : RouteSound(c, c.routing[i])
  /\ \A i, j \in DOMAIN c.routing :
       i < j /\ ~IsDefault(c.routing[j]) => ~Shadows(c.routing[i], c.routing[j])

(* ReportConfig.model_validate *)
Valid(c) ==
  /\ c.canonical
  /\ LabelsSound(c)
  /\ RulesSound(c)
  /\ RoutingSound(c)
  /\ c.deadline \in 1..900

-----------------------------------------------------------------------------
(* What the pipeline does with it *)

First(S) == CHOOSE i \in S : \A j \in S : i <= j

Mentions(text, rule) ==
  \E k \in Elements(rule.keywords) : Surface[k] # Blank /\ Surface[k] \in text

Deciding(c, text) ==
  {i \in DOMAIN c.rules : IsFallback(c.rules[i]) \/ Mentions(text, c.rules[i])}

(* RuleBasedIncidentClassifier.classify *)
RuleOf(c, text) == First(Deciding(c, text))

Takes(rt, triage) ==
  IsDefault(rt) \/ \A d \in Dimensions : rt.when[d] \in {Open, triage[d]}

Taking(c, triage) == {i \in DOMAIN c.routing : Takes(c.routing[i], triage)}

(* select_route *)
RouteOf(c, triage) == First(Taking(c, triage))

(* What the rest of the pipeline takes for granted of the configuration it *)
(* runs with: every text is decided by one of its rules, by the fallback   *)
(* only when no other mentions it, and with labels of its taxonomy; every  *)
(* triage, those of a client included, has a route with recipients; and no *)
(* route but the default stands behind one that takes all it would take.   *)
Fits(c) ==
  /\ \A text \in Texts :
       LET r == RuleOf(c, text)
       IN  /\ r \in DOMAIN c.rules
           /\ r = Len(c.rules) <=> \A i \in DOMAIN c.rules : ~Mentions(text, c.rules[i])
           /\ \A d \in Dimensions : InTaxonomy(c, d, c.rules[r].triage[d])
  /\ \A triage \in Triage :
       LET r == RouteOf(c, triage)
       IN  r \in DOMAIN c.routing /\ c.routing[r].recipients # <<>>
  /\ \A i, j \in DOMAIN c.routing :
       i < j /\ ~IsDefault(c.routing[j]) =>
         \E triage \in Triage : Takes(c.routing[j], triage) /\ ~Takes(c.routing[i], triage)
=============================================================================
