-------------------------- MODULE QueuePagingProofs ---------------------------
(***************************************************************************)
(* What TLAPS proves of QueuePaging, for any number of drafts, any clock   *)
(* and any page size: one walk lists no draft twice and misses none that   *)
(* stays in its filter.                                                    *)
(***************************************************************************)
EXTENDS QueuePaging, FiniteSetTheorems, NaturalsInduction, WellFoundedInduction, TLAPS

(* A set of naturals that is not empty has a least element. *)
LEMMA LeastNatural ==
  ASSUME NEW T \in SUBSET Nat, T # {}
  PROVE  \E n \in T : \A m \in T : n <= m
<1> DEFINE Below == OpToRel(<, Nat)
<1>1. IsWellFoundedOn(Below, Nat)
  BY NatLessThanWellFounded
<1>2. \A x \in Nat, y \in Nat : y < x => <<y, x>> \in Below
  BY DEF OpToRel
<1> HIDE DEF Below
<1>3. PICK n \in T : \A m \in T : <<m, n>> \notin Below
  BY <1>1, WFMin
<1>4. \A m \in T : ~(m < n)
  BY <1>2, <1>3
<1> QED
  BY <1>4

-----------------------------------------------------------------------------
(* What the cursor says.  Everything listed is at or before it, and what   *)
(* stayed in the filter and is not listed comes after it; drafts inserted  *)
(* meanwhile take ids of their own.                                        *)
WalkInv ==
  /\ \A d \in stayed : Matches(rows[d], filter)
  /\ walking =>
       /\ cursor = Start => shown = {}
       /\ \A d \in shown : ~Older(Key(d), cursor)
       /\ \A d \in stayed \ shown : cursor = Start \/ Older(Key(d), cursor)

QueueInv ==
  /\ TypeOK
  /\ DOMAIN rows = 1..Cardinality(DOMAIN rows)
  /\ \A d \in DOMAIN rows : IF rows[d].simulated THEN rows[d].status \in {"approved", "simulated"}
                                                 ELSE rows[d].status # "simulated"
  /\ WalkInv
  /\ NothingListedTwice
  /\ WalkIsComplete

-----------------------------------------------------------------------------
(* The order of the listing is strict and total on the drafts. *)
Keys == [created : Times, id : Ids]

LEMMA KeyType ==
  ASSUME TypeOK, NEW d \in DOMAIN rows
  PROVE  Key(d) \in Keys /\ Key(d).id = d /\ Key(d) # Start
BY DEF TypeOK, Key, Keys, Ids, Start

LEMMA KeyFields == \A k \in Keys : k.created \in Int /\ k.id \in Int
<1> SUFFICES ASSUME NEW k \in Keys
             PROVE  k.created \in Int /\ k.id \in Int
  OBVIOUS
<1>1. k.created \in Times /\ k.id \in Ids
  BY DEF Keys
<1>2. Ids \subseteq Int /\ Times \subseteq Int
  BY PagingAssumption DEF Ids
<1> QED
  BY <1>1, <1>2

LEMMA OlderTransitive ==
  ASSUME NEW k \in Keys, NEW l \in Keys, NEW m \in Keys, Older(k, l), Older(l, m)
  PROVE  Older(k, m)
<1>1. /\ k.created \in Int /\ l.created \in Int /\ m.created \in Int
      /\ k.id \in Int /\ l.id \in Int /\ m.id \in Int
  BY KeyFields
<1> QED
  BY <1>1 DEF Older

LEMMA OlderTotal ==
  ASSUME TypeOK, NEW d \in DOMAIN rows, NEW e \in DOMAIN rows
  PROVE  /\ Older(Key(d), Key(e)) => ~Older(Key(e), Key(d)) /\ d # e
         /\ d = e \/ Older(Key(d), Key(e)) \/ Older(Key(e), Key(d))
<1>1. /\ Key(d).created \in Int /\ Key(e).created \in Int
      /\ Key(d).id = d /\ Key(e).id = e /\ Key(d).id \in Int /\ Key(e).id \in Int
  BY KeyType, KeyFields
<1> QED
  BY <1>1 DEF Older

-----------------------------------------------------------------------------
(* Ranks: how many selected rows come before one. *)
Newer(d) == {e \in Selected : Older(Key(d), Key(e))}

LEMMA SelectedFinite ==
  ASSUME TypeOK
  PROVE  /\ Selected \subseteq DOMAIN rows
         /\ IsFiniteSet(DOMAIN rows) /\ IsFiniteSet(Selected)
         /\ \A d : IsFiniteSet(Newer(d)) /\ Cardinality(Newer(d)) \in Nat
<1>1. IsFiniteSet(Ids)
  BY PagingAssumption, FS_Interval DEF Ids
<1>2. IsFiniteSet(DOMAIN rows)
  BY <1>1, FS_Subset DEF TypeOK
<1>3. Selected \subseteq DOMAIN rows
  BY DEF Selected
<1>4. IsFiniteSet(Selected)
  BY <1>2, <1>3, FS_Subset
<1>5. \A d : IsFiniteSet(Newer(d))
  BY <1>4, FS_Subset DEF Newer
<1> QED
  BY <1>2, <1>3, <1>4, <1>5, FS_CardinalityType

(* A row has a higher rank than those before it, and counts all of them. *)
LEMMA RankGrows ==
  ASSUME TypeOK, NEW d \in Selected, NEW e \in Selected, Older(Key(d), Key(e))
  PROVE  Cardinality(Newer(e)) + 1 <= Cardinality(Newer(d))
<1>0. d \in DOMAIN rows /\ e \in DOMAIN rows
  BY SelectedFinite
<1>1. Newer(e) \cup {e} \subseteq Newer(d)
  <2>1. ASSUME NEW x \in Newer(e)
        PROVE  x \in Newer(d)
    <3>1. x \in Selected /\ x \in DOMAIN rows /\ Older(Key(e), Key(x))
      BY <2>1, SelectedFinite DEF Newer
    <3> QED
      BY <1>0, <3>1, KeyType, OlderTransitive DEF Newer
  <2>2. e \in Newer(d)
    BY DEF Newer
  <2> QED
    BY <2>1, <2>2
<1>2. e \notin Newer(e)
  BY <1>0, OlderTotal DEF Newer
<1>3. Cardinality(Newer(e) \cup {e}) = Cardinality(Newer(e)) + 1
  BY <1>2, SelectedFinite, FS_AddElement
<1>4. Cardinality(Newer(e) \cup {e}) <= Cardinality(Newer(d))
  BY <1>1, SelectedFinite, FS_Subset
<1> QED
  BY <1>3, <1>4

LEMMA NewestByRank == \A n : Newest(n) = {d \in Selected : Cardinality(Newer(d)) < n}
BY DEF Newest, Newer

(* What a page leaves out comes after everything on it. *)
LEMMA PageBeforeRest ==
  ASSUME TypeOK, NEW n \in Nat, NEW d \in Selected \ Newest(n), NEW e \in Newest(n)
  PROVE  Older(Key(d), Key(e))
<1>1. d \in DOMAIN rows /\ e \in Selected /\ e \in DOMAIN rows /\ d # e
  BY SelectedFinite, NewestByRank
<1>2. CASE Older(Key(e), Key(d))
  <2>1. Cardinality(Newer(d)) + 1 <= Cardinality(Newer(e))
    BY <1>1, <1>2, RankGrows
  <2>2. Cardinality(Newer(e)) < n /\ ~(Cardinality(Newer(d)) < n)
    BY NewestByRank
  <2> QED
    BY <2>1, <2>2, SelectedFinite
<1> QED
  BY <1>1, <1>2, OlderTotal

(* One row more is fetched if and only if the page leaves one out. *)
LEMMA ExtraRowTells ==
  ASSUME TypeOK, NEW n \in Nat \ {0}, Newest(n + 1) = Newest(n)
  PROVE  Newest(n) = Selected
<1> SUFFICES ASSUME Newest(n) # Selected
             PROVE  FALSE
  OBVIOUS
<1> DEFINE left == Selected \ Newest(n)
           rank(d) == Cardinality(Newer(d))
<1>0. \A d : rank(d) \in Nat /\ IsFiniteSet(Newer(d))
  BY SelectedFinite
<1>1. left # {} /\ \A d \in left : d \in Selected /\ rank(d) >= n
  BY <1>0, NewestByRank
<1>2. PICK d \in left : \A e \in left : rank(d) <= rank(e)
  <2> DEFINE ranks == {rank(e) : e \in left}
  <2>1. ranks \in SUBSET Nat /\ ranks # {}
    BY <1>0, <1>1
  <2>2. \E m \in ranks : \A k \in ranks : m <= k
    <3> HIDE DEF ranks
    <3> QED BY <2>1, LeastNatural
  <2> QED
    BY <2>2
<1>3. \A e \in Newer(d) : e \in Selected /\ rank(e) + 1 <= rank(d) /\ rank(e) < n
  <2> SUFFICES ASSUME NEW e \in Newer(d)
               PROVE  e \in Selected /\ rank(e) + 1 <= rank(d) /\ rank(e) < n
    OBVIOUS
  <2>1. e \in Selected /\ rank(e) + 1 <= rank(d)
    BY <1>1, RankGrows DEF Newer
  <2>2. e \notin left
    BY <1>0, <1>2, <2>1
  <2> QED
    BY <2>1, <2>2, NewestByRank
<1>4. Newer(d) # {}
  <2>1. rank(d) # 0
    BY <1>0, <1>1
  <2> QED
    BY <2>1, FS_EmptySet
<1>5. PICK e \in Newer(d) : \A x \in Newer(d) : rank(x) <= rank(e)
  <2> DEFINE gaps == {rank(d) - rank(x) : x \in Newer(d)}
  <2>1. gaps \in SUBSET Nat /\ gaps # {}
    <3>1. \A x \in Newer(d) : rank(d) - rank(x) \in Nat
      BY <1>0, <1>3
    <3> HIDE DEF rank
    <3> QED
      BY <1>4, <3>1
  <2>2. \E m \in gaps : \A k \in gaps : m <= k
    <3> HIDE DEF gaps
    <3> QED BY <2>1, LeastNatural
  <2>3. PICK x \in Newer(d) : \A y \in Newer(d) : rank(d) - rank(x) <= rank(d) - rank(y)
    BY <2>2
  <2>4. \A y \in Newer(d) : rank(y) <= rank(x)
    BY <1>0, <2>3
  <2> QED
    BY <2>4
<1>6. Newer(d) \subseteq Newer(e) \cup {e}
  <2> SUFFICES ASSUME NEW x \in Newer(d), x # e
               PROVE  x \in Newer(e)
    OBVIOUS
  <2>1. x \in Selected /\ e \in Selected /\ x \in DOMAIN rows /\ e \in DOMAIN rows
    BY <1>3, SelectedFinite
  <2>2. ~Older(Key(x), Key(e))
    <3>1. ASSUME Older(Key(x), Key(e))
          PROVE  FALSE
      <4>1. rank(e) + 1 <= rank(x)
        BY <2>1, <3>1, RankGrows
      <4> QED
        BY <1>0, <1>5, <4>1
    <3> QED
      BY <3>1
  <2> QED
    BY <2>1, <2>2, OlderTotal DEF Newer
<1>7. rank(d) <= rank(e) + 1
  <2>1. IsFiniteSet(Newer(e) \cup {e}) /\ Cardinality(Newer(e) \cup {e}) <= rank(e) + 1
    <3>1. /\ IsFiniteSet(Newer(e) \cup {e})
          /\ Cardinality(Newer(e) \cup {e}) = IF e \in Newer(e) THEN rank(e) ELSE rank(e) + 1
      BY <1>0, FS_AddElement
    <3>2. rank(e) \in Nat
      BY <1>0
    <3> QED
      BY <3>1, <3>2
  <2>2. rank(d) <= Cardinality(Newer(e) \cup {e})
    BY <1>6, <2>1, FS_Subset
  <2>3. Cardinality(Newer(e) \cup {e}) \in Nat
    BY <2>1, FS_CardinalityType
  <2> QED
    BY <1>0, <2>1, <2>2, <2>3
<1>8. rank(d) < n + 1
  BY <1>0, <1>3, <1>7
<1>9. d \in Newest(n + 1) /\ d \notin Newest(n)
  BY <1>8, NewestByRank
<1> QED
  BY <1>9

-----------------------------------------------------------------------------
(* The steps *)

LEMMA InitQueue == Init => QueueInv
<1> SUFFICES ASSUME Init
             PROVE  QueueInv
  OBVIOUS
<1>0. /\ DOMAIN rows \in {{}, {1}} /\ DOMAIN rows \subseteq Ids
      /\ \A d \in DOMAIN rows :
           rows[d] \in [created : Times, status : Statuses, simulated : BOOLEAN]
  <2>1. CASE rows \in [{} -> {}]
    <3>1. DOMAIN rows = {}
      BY <2>1
    <3> QED
      BY <3>1
  <2>2. CASE rows \in [{1} -> [created : Times, status : {"approved"}, simulated : {TRUE}]]
    <3>1. DOMAIN rows = {1} /\ 1 \in Ids
      BY <2>2, PagingAssumption DEF Ids
    <3>2. rows[1] \in [created : Times, status : Statuses, simulated : BOOLEAN]
      <4>1. rows[1] \in [created : Times, status : {"approved"}, simulated : {TRUE}]
        BY <2>2
      <4> QED
        BY <4>1 DEF Statuses
    <3> QED
      BY <3>1, <3>2
  <2> QED
    BY <2>1, <2>2 DEF Init
<1>1. TypeOK
  BY <1>0 DEF Init, TypeOK, Filters
<1>2. DOMAIN rows = 1..Cardinality(DOMAIN rows)
  <2>1. DOMAIN rows = {} \/ DOMAIN rows = {1}
    BY DEF Init
  <2>2. Cardinality({}) = 0 /\ Cardinality({1}) = 1
    BY FS_EmptySet, FS_Singleton
  <2>3. 1..0 = {} /\ 1..1 = {1}
    OBVIOUS
  <2> QED
    BY <2>1, <2>2, <2>3
<1>3. \A d \in DOMAIN rows : rows[d].simulated /\ rows[d].status = "approved"
  BY DEF Init
<1>4. WalkInv /\ NothingListedTwice /\ WalkIsComplete
  BY FS_EmptySet DEF Init, WalkInv, NothingListedTwice, WalkIsComplete
<1> QED
  BY <1>1, <1>2, <1>3, <1>4 DEF QueueInv

LEMMA OpenStep ==
  ASSUME QueueInv, NEW f \in Filters, Open(f)
  PROVE  QueueInv'
<1>1. /\ rows' = rows /\ filter' = f /\ cursor' = Start /\ shown' = {} /\ listed' = 0
      /\ stayed' = {d \in DOMAIN rows : Matches(rows[d], f)} /\ walking' = TRUE
  BY DEF Open
<1>2. TypeOK'
  BY <1>1 DEF QueueInv, TypeOK
<1>3. NothingListedTwice'
  BY <1>1, FS_EmptySet DEF NothingListedTwice
<1>4. WalkInv' /\ WalkIsComplete'
  BY <1>1 DEF WalkInv, WalkIsComplete
<1> QED
  BY <1>1, <1>2, <1>3, <1>4 DEF QueueInv

LEMMA TurnPageStep ==
  ASSUME QueueInv, TurnPage
  PROVE  QueueInv'
<1> DEFINE page == Newest(PageSize)
           more == Newest(PageSize + 1) # page
<1>0. /\ TypeOK /\ WalkInv /\ walking
      /\ page \subseteq Selected /\ Selected \subseteq DOMAIN rows
      /\ PageSize \in Nat \ {0}
  BY SelectedFinite, NewestByRank, PagingAssumption DEF QueueInv, TurnPage
<1>1. /\ shown' = shown \cup page /\ listed' = listed + Cardinality(page)
      /\ walking' = more /\ UNCHANGED <<rows, filter, stayed>>
  BY DEF TurnPage
<1>2. more => \E d \in page : /\ \A e \in page : e = d \/ Older(Key(d), Key(e))
                              /\ cursor' = Key(d)
  BY DEF TurnPage
<1>3. ~more => cursor' = cursor /\ page = Selected
  BY <1>0, ExtraRowTells DEF TurnPage
<1> HIDE DEF page, more
<1>4. IsFiniteSet(page) /\ IsFiniteSet(shown) /\ page \cap shown = {}
  <2>1. IsFiniteSet(page) /\ IsFiniteSet(shown)
    BY <1>0, SelectedFinite, FS_Subset DEF TypeOK
  <2>2. ASSUME NEW d \in page, d \in shown
        PROVE  FALSE
    BY <1>0, <2>2 DEF WalkInv, Selected
  <2> QED
    BY <2>1, <2>2
<1>5. NothingListedTwice'
  <2>1. Cardinality(shown \cup page) = Cardinality(shown) + Cardinality(page)
    <3>1. /\ Cardinality(shown \cup page)
               = Cardinality(shown) + Cardinality(page) - Cardinality(shown \cap page)
      BY <1>4, FS_Union
    <3>2. Cardinality(shown \cap page) = 0
      <4>1. shown \cap page = {}
        BY <1>4
      <4> QED
        BY <4>1, FS_EmptySet
    <3>3. Cardinality(shown) \in Nat /\ Cardinality(page) \in Nat
      BY <1>4, FS_CardinalityType
    <3> QED
      BY <3>1, <3>2, <3>3
  <2> QED
    BY <1>1, <2>1 DEF QueueInv, NothingListedTwice
<1>6. \A d \in DOMAIN rows : Key(d)' = Key(d)
  BY <1>1 DEF Key
<1>7. TypeOK'
  <2>1. cursor' = Start \/ cursor' \in Keys
    <3>1. CASE more
      <4>1. PICK d \in page : cursor' = Key(d)
        BY <1>2, <3>1
      <4> QED
        BY <1>0, <4>1, KeyType
    <3>2. CASE ~more
      BY <1>0, <1>3, <3>2 DEF TypeOK, Keys
    <3> QED
      BY <3>1, <3>2
  <2>2. listed' \in Nat
    BY <1>0, <1>1, <1>4, FS_CardinalityType DEF TypeOK
  <2>3. shown' \subseteq DOMAIN rows' /\ walking' \in BOOLEAN
    BY <1>0, <1>1 DEF TypeOK, more
  <2> QED
    BY <1>0, <1>1, <2>1, <2>2, <2>3 DEF TypeOK, Keys
<1>8. WalkInv' /\ WalkIsComplete'
  <2>1. \A d \in stayed' : Matches(rows'[d], filter')
    BY <1>0, <1>1 DEF WalkInv
  <2>2. \A d \in stayed \ shown : d \in Selected
    BY <1>0 DEF WalkInv, Selected, TypeOK
  <2>3. CASE more
    <3>1. PICK last \in page : /\ \A e \in page : e = last \/ Older(Key(last), Key(e))
                               /\ cursor' = Key(last)
      BY <1>2, <2>3
    <3>2. last \in Selected /\ last \in DOMAIN rows /\ cursor' # Start /\ Key(last) \in Keys
      BY <1>0, <3>1, KeyType
    <3>3. \A d \in shown' : ~Older(Key(d), Key(last))
      <4>1. ASSUME NEW d \in page
            PROVE  ~Older(Key(d), Key(last))
        <5>1. d \in DOMAIN rows
          BY <1>0
        <5> QED
          BY <1>0, <3>1, <3>2, <5>1, OlderTotal
      <4>2. ASSUME NEW d \in shown, Older(Key(d), Key(last))
            PROVE  FALSE
        <5>1. cursor # Start /\ ~Older(Key(d), cursor) /\ cursor \in Keys
          BY <1>0 DEF WalkInv, TypeOK, Keys
        <5>2. Older(Key(last), cursor)
          BY <3>2, <5>1 DEF Selected
        <5>3. Key(d) \in Keys
          BY <1>0, KeyType DEF TypeOK
        <5> QED
          BY <3>2, <4>2, <5>1, <5>2, <5>3, OlderTransitive
      <4> QED
        BY <1>1, <4>1, <4>2
    <3>4. \A d \in stayed' \ shown' : Older(Key(d), Key(last))
      BY <1>0, <1>1, <2>2, <3>1, PageBeforeRest DEF page
    <3>5. shown' \subseteq DOMAIN rows /\ stayed' \subseteq DOMAIN rows
      BY <1>0, <1>1 DEF TypeOK
    <3> QED
      BY <1>1, <1>6, <2>1, <2>3, <3>1, <3>2, <3>3, <3>4, <3>5 DEF WalkInv, WalkIsComplete
  <2>4. CASE ~more
    <3>1. stayed' \subseteq shown'
      BY <1>1, <1>3, <2>2, <2>4
    <3> QED
      BY <1>1, <2>1, <2>4, <3>1 DEF WalkInv, WalkIsComplete
  <2> QED
    BY <2>3, <2>4
<1> QED
  BY <1>1, <1>5, <1>7, <1>8 DEF QueueInv

(* A draft keeps its key for good; what changes is which filter it is in. *)
LEMMA InsertStep ==
  ASSUME QueueInv, NEW time \in Times, Insert(time)
  PROVE  QueueInv'
<1> DEFINE d == Cardinality(DOMAIN rows) + 1
<1>0. TypeOK /\ Cardinality(DOMAIN rows) \in Nat
  BY SelectedFinite, FS_CardinalityType DEF QueueInv
<1>1. /\ d \in Ids /\ d \notin DOMAIN rows
      /\ rows' = [e \in DOMAIN rows \cup {d} |->
                    IF e = d THEN [created |-> time, status |-> "pending", simulated |-> FALSE]
                    ELSE rows[e]]
      /\ UNCHANGED <<filter, cursor, shown, listed, stayed, walking>>
  BY <1>0 DEF QueueInv, Insert
<1>2. DOMAIN rows' = 1..d /\ Cardinality(DOMAIN rows') = d
  <2>1. DOMAIN rows' = 1..d
    BY <1>0, <1>1 DEF QueueInv
  <2>2. Cardinality(1..d) = d
    BY <1>0, FS_Interval
  <2> QED
    BY <2>1, <2>2
<1> HIDE DEF d
<1>3. /\ \A e \in DOMAIN rows : rows'[e] = rows[e] /\ Key(e)' = Key(e)
      /\ rows'[d] = [created |-> time, status |-> "pending", simulated |-> FALSE]
      /\ DOMAIN rows' = DOMAIN rows \cup {d}
  BY <1>1 DEF Key
<1>4. TypeOK'
  BY <1>0, <1>1, <1>3 DEF TypeOK, Statuses
<1>5. \A e \in DOMAIN rows' : IF rows'[e].simulated
                              THEN rows'[e].status \in {"approved", "simulated"}
                              ELSE rows'[e].status # "simulated"
  BY <1>3 DEF QueueInv
<1>6. WalkInv' /\ NothingListedTwice' /\ WalkIsComplete'
  BY <1>0, <1>1, <1>3 DEF QueueInv, TypeOK, WalkInv, NothingListedTwice, WalkIsComplete
<1> QED
  BY <1>2, <1>4, <1>5, <1>6 DEF QueueInv

LEMMA DecideStep ==
  ASSUME QueueInv, NEW d \in DOMAIN rows, NEW status \in Statuses, Decide(d, status)
  PROVE  QueueInv'
<1>0. TypeOK
  BY DEF QueueInv
<1>1. /\ DOMAIN rows' = DOMAIN rows
      /\ \A e \in DOMAIN rows \ {d} : rows'[e] = rows[e]
      /\ rows'[d] = [rows[d] EXCEPT !.status = status, !.simulated = (status = "simulated")]
      /\ UNCHANGED <<filter, cursor, shown, listed, walking>>
      /\ stayed' \subseteq stayed
      /\ d \in stayed' => Matches(rows'[d], filter)
  BY <1>0 DEF Decide, TypeOK
<1>2. rows[d] \in [created : Times, status : Statuses, simulated : BOOLEAN]
  BY <1>0 DEF TypeOK
<1>3. /\ rows'[d] \in [created : Times, status : Statuses, simulated : BOOLEAN]
      /\ rows'[d].created = rows[d].created /\ rows'[d].status = status
      /\ rows'[d].simulated = (status = "simulated")
  BY <1>1, <1>2
<1>4. \A e \in DOMAIN rows : Key(e)' = Key(e)
  BY <1>1, <1>3 DEF Key
<1>5. TypeOK'
  BY <1>0, <1>1, <1>3 DEF TypeOK
<1>6. \A e \in DOMAIN rows' : IF rows'[e].simulated
                              THEN rows'[e].status \in {"approved", "simulated"}
                              ELSE rows'[e].status # "simulated"
  <2> SUFFICES ASSUME NEW e \in DOMAIN rows'
               PROVE  IF rows'[e].simulated THEN rows'[e].status \in {"approved", "simulated"}
                                            ELSE rows'[e].status # "simulated"
    OBVIOUS
  <2>1. CASE e = d /\ status = "simulated"
    BY <1>3, <2>1
  <2>2. CASE e = d /\ status # "simulated"
    BY <1>3, <2>2
  <2>3. CASE e # d
    BY <1>1, <2>3 DEF QueueInv
  <2> QED
    BY <2>1, <2>2, <2>3
<1>7. WalkInv' /\ NothingListedTwice' /\ WalkIsComplete'
  BY <1>0, <1>1, <1>4 DEF QueueInv, TypeOK, WalkInv, NothingListedTwice, WalkIsComplete
<1> QED
  BY <1>1, <1>5, <1>6, <1>7 DEF QueueInv

(* The inductive invariant of the queue and of one walk through it. *)
THEOREM QueueInvariant == Spec => []QueueInv
<1>1. QueueInv /\ [Next]_vars => QueueInv'
  <2> SUFFICES ASSUME QueueInv, [Next]_vars
               PROVE  QueueInv'
    OBVIOUS
  <2>1. CASE Next
    BY <2>1, OpenStep, TurnPageStep, InsertStep, DecideStep DEF Next
  <2>2. CASE UNCHANGED vars
    BY <2>2 DEF vars, QueueInv, TypeOK, WalkInv, NothingListedTwice, WalkIsComplete, Key
  <2> QED
    BY <2>1, <2>2
<1> QED
  BY <1>1, InitQueue, PTL DEF Spec

(* The variables of the queue keep their types. *)
THEOREM TypeCorrect == Spec => []TypeOK
<1>1. QueueInv => TypeOK
  BY DEF QueueInv
<1> QED
  BY <1>1, QueueInvariant, PTL

(* One walk lists no draft twice, whatever arrives or is decided between   *)
(* its pages (list_draft_page's cursor).                                   *)
THEOREM NothingListedTwiceHolds == Spec => []NothingListedTwice
<1>1. QueueInv => NothingListedTwice
  BY DEF QueueInv
<1> QED
  BY <1>1, QueueInvariant, PTL

(* A finished walk has listed every draft that stayed in its filter. *)
THEOREM WalkIsCompleteHolds == Spec => []WalkIsComplete
<1>1. QueueInv => WalkIsComplete
  BY DEF QueueInv
<1> QED
  BY <1>1, QueueInvariant, PTL

(* Every draft is under exactly one of the status filters. *)
THEOREM FiltersPartitionHolds == Spec => []FiltersPartition
<1>1. QueueInv => FiltersPartition
  <2> SUFFICES ASSUME QueueInv, NEW d \in DOMAIN rows
               PROVE  Cardinality({f \in Statuses : Matches(rows[d], f)}) = 1
    BY DEF FiltersPartition
  <2>1. \E s \in Statuses : {f \in Statuses : Matches(rows[d], f)} = {s}
    <3>1. rows[d].status \in Statuses /\ rows[d].simulated \in BOOLEAN
      BY DEF QueueInv, TypeOK
    <3>2. CASE rows[d].simulated
      <4>1. rows[d].status \in {"approved", "simulated"}
        BY <3>2 DEF QueueInv
      <4>2. {f \in Statuses : Matches(rows[d], f)} = {"simulated"}
        BY <3>2, <4>1 DEF Statuses, Matches
      <4> QED
        BY <4>2 DEF Statuses
    <3>3. CASE ~rows[d].simulated
      <4>1. rows[d].status \in {"pending", "approved", "rejected"}
        BY <3>1, <3>3 DEF QueueInv, Statuses
      <4>2. {f \in Statuses : Matches(rows[d], f)} = {rows[d].status}
        BY <3>3, <4>1 DEF Statuses, Matches
      <4> QED
        BY <3>1, <4>2
    <3> QED
      BY <3>2, <3>3
  <2> QED
    BY <2>1, FS_Singleton
<1> QED
  BY <1>1, QueueInvariant, PTL
=============================================================================
