--------------------------- MODULE DraftLockProofs ---------------------------
(***************************************************************************)
(* Mutual exclusion of draft_operation_lock for any number of threads,     *)
(* drafts and entries, and that the registry implements DraftMutex.        *)
(***************************************************************************)
EXTENDS DraftLock, FiniteSetTheorems, TLAPS

(* The threads that hold a counted reference to entry e. *)
Users(e) == {t \in Threads : pc[t] \in Counted /\ entry[t] = e}

(* The guard is held exactly by the thread inside a guarded section. *)
GuardInv == \A t \in Threads : pc[t] \in Guarded <=> guard = t

(* An entry in use is the one registered under its user's key. *)
EntryInv ==
  \A t \in Threads : pc[t] \in Counted \cup Guarded =>
    /\ entry[t] \in Entries
    /\ registry[key[t]] = entry[t]

(* No entry is registered under two keys. *)
InjectiveInv ==
  \A k, j \in Keys : registry[k] # NoEntry /\ registry[k] = registry[j] => k = j

(* A registered entry counts its users. *)
CountInv ==
  \A k \in Keys, e \in Entries :
    registry[k] = e => references[e] = Cardinality(Users(e))

(* A thread inside owns its entry's lock. *)
OwnerInv == \A t \in Threads : pc[t] = "inside" => owner[entry[t]] = t

(* A thread in a call has one left to finish. *)
BoundInv == \A t \in Threads : pc[t] # "idle" => calls[t] < MaxCalls

LockInv ==
  /\ TypeOK
  /\ BoundInv
  /\ GuardInv
  /\ EntryInv
  /\ InjectiveInv
  /\ CountInv
  /\ OwnerInv
  /\ RegistryReclaimed

-----------------------------------------------------------------------------
(* The users of an entry are finitely many. *)
LEMMA UsersFinite ==
  ASSUME NEW e
  PROVE  IsFiniteSet(Users(e)) /\ Cardinality(Users(e)) \in Nat
<1>1. Users(e) \in SUBSET Threads
  BY DEF Users
<1>2. IsFiniteSet(Users(e))
  BY <1>1, FS_Subset, ThreadsAssumption
<1> QED
  BY <1>2, FS_CardinalityType

LEMMA InitLockInv == Init => LockInv
<1> SUFFICES ASSUME Init PROVE LockInv
  OBVIOUS
<1>1. TypeOK /\ BoundInv
  BY MaxCallsAssumption DEF Init, TypeOK, Steps, BoundInv
<1>2. GuardInv
  BY ThreadsAssumption DEF Init, GuardInv, Guarded
<1>3. EntryInv
  BY DEF Init, EntryInv, Counted, Guarded
<1>4. InjectiveInv /\ CountInv /\ RegistryReclaimed
  BY EntriesAssumption DEF Init, InjectiveInv, CountInv, RegistryReclaimed
<1>5. OwnerInv
  BY DEF Init, OwnerInv
<1> QED
  BY <1>1, <1>2, <1>3, <1>4, <1>5 DEF LockInv

LEMMA CallLockInv ==
  ASSUME LockInv, NEW t \in Threads, Call(t)
  PROVE  LockInv'
<1> USE DEF LockInv, Call, Goto
<1>1. TypeOK' /\ BoundInv'
  BY MaxCallsAssumption DEF TypeOK, Steps, BoundInv
<1>2. GuardInv'
  BY DEF TypeOK, GuardInv, Guarded
<1>3. EntryInv'
  BY DEF TypeOK, EntryInv, Counted, Guarded
<1>4. InjectiveInv'
  BY DEF InjectiveInv
<1>5. CountInv'
  <2>1. \A e : Users(e)' = Users(e)
    BY DEF Users, TypeOK, Counted
  <2> QED
    BY <2>1 DEF CountInv
<1>6. OwnerInv'
  BY DEF TypeOK, OwnerInv
<1>7. RegistryReclaimed'
  BY DEF TypeOK, RegistryReclaimed
<1> QED
  BY <1>1, <1>2, <1>3, <1>4, <1>5, <1>6, <1>7

LEMMA LookupLockInv ==
  ASSUME LockInv, NEW t \in Threads, Lookup(t)
  PROVE  LockInv'
<1> USE DEF LockInv, Goto
<1> DEFINE Known == registry[key[t]]
<1>1. CASE /\ Known # NoEntry
           /\ entry' = [entry EXCEPT ![t] = Known]
           /\ UNCHANGED <<registry, references, owner>>
  <2> USE <1>1 DEF Lookup
  <2>1. TypeOK' /\ BoundInv'
    BY DEF TypeOK, Steps, BoundInv
  <2>2. GuardInv'
    BY ThreadsAssumption DEF TypeOK, GuardInv, Guarded
  <2>3. EntryInv'
    BY DEF TypeOK, EntryInv, Counted, Guarded
  <2>4. InjectiveInv'
    BY DEF InjectiveInv
  <2>5. CountInv'
    <3>1. \A e : Users(e)' = Users(e)
      BY DEF Users, TypeOK, Counted
    <3> QED
      BY <3>1 DEF CountInv
  <2>6. OwnerInv'
    BY DEF TypeOK, OwnerInv
  <2>7. RegistryReclaimed'
    BY DEF TypeOK, RegistryReclaimed
  <2> QED
    BY <2>1, <2>2, <2>3, <2>4, <2>5, <2>6, <2>7
<1>2. ASSUME NEW e \in Unreachable,
             Known = NoEntry,
             registry' = [registry EXCEPT ![key[t]] = e],
             entry' = [entry EXCEPT ![t] = e],
             references' = [references EXCEPT ![e] = 0],
             owner' = [owner EXCEPT ![e] = Nobody]
      PROVE  LockInv'
  <2> USE <1>2 DEF Lookup
  <2>0. e \in Entries /\ e # NoEntry
    BY EntriesAssumption DEF Unreachable
  <2>1. TypeOK' /\ BoundInv'
    BY <2>0 DEF TypeOK, Steps, BoundInv
  <2>2. GuardInv'
    BY ThreadsAssumption DEF TypeOK, GuardInv, Guarded
  <2>3. EntryInv'
    BY <2>0, EntriesAssumption DEF TypeOK, EntryInv, Counted, Guarded
  <2>4. InjectiveInv'
    BY DEF TypeOK, InjectiveInv, Unreachable
  <2>5. CountInv'
    <3> SUFFICES ASSUME NEW k \in Keys, NEW f \in Entries, registry'[k] = f
                 PROVE  references'[f] = Cardinality(Users(f)')
      BY DEF CountInv
    <3>1. CASE f = e
      <4>1. Users(e)' = {}
        BY DEF Users, TypeOK, Counted, Unreachable
      <4> QED
        BY <3>1, <4>1, <2>0, FS_EmptySet DEF TypeOK
    <3>2. CASE f # e
      <4>1. Users(f)' = Users(f)
        BY <3>2 DEF Users, TypeOK, Counted
      <4>2. registry[k] = f
        BY <3>2 DEF TypeOK
      <4> QED
        BY <3>2, <4>1, <4>2 DEF TypeOK, CountInv
    <3> QED
      BY <3>1, <3>2
  <2>6. OwnerInv'
    BY DEF TypeOK, OwnerInv, Unreachable
  <2>7. RegistryReclaimed'
    BY DEF TypeOK, RegistryReclaimed
  <2> QED
    BY <2>1, <2>2, <2>3, <2>4, <2>5, <2>6, <2>7
<1> QED
  BY <1>1, <1>2 DEF Lookup

LEMMA CountLockInv ==
  ASSUME LockInv, NEW t \in Threads, Count(t)
  PROVE  LockInv'
<1> USE DEF LockInv, Count, Goto
<1>0. entry[t] \in Entries /\ registry[key[t]] = entry[t]
  BY DEF EntryInv, Guarded
<1>1. TypeOK' /\ BoundInv'
  BY <1>0 DEF TypeOK, Steps, BoundInv
<1>2. GuardInv'
  BY ThreadsAssumption DEF TypeOK, GuardInv, Guarded
<1>3. EntryInv'
  BY DEF TypeOK, EntryInv, Counted, Guarded
<1>4. InjectiveInv'
  BY DEF InjectiveInv
<1>5. CountInv'
  <2> SUFFICES ASSUME NEW k \in Keys, NEW e \in Entries, registry[k] = e
               PROVE  references'[e] = Cardinality(Users(e)')
    BY DEF CountInv
  <2>1. references[e] = Cardinality(Users(e))
    BY DEF CountInv
  <2>2. CASE e = entry[t]
    <3>1. Users(e)' = Users(e) \cup {t} /\ t \notin Users(e)
      BY <2>2 DEF Users, TypeOK, Counted
    <3>2. Cardinality(Users(e) \cup {t}) = Cardinality(Users(e)) + 1
      BY <3>1, UsersFinite, FS_AddElement
    <3> QED
      BY <3>1, <3>2, <2>1, <2>2 DEF TypeOK
  <2>3. CASE e # entry[t]
    <3>1. Users(e)' = Users(e)
      BY <2>3 DEF Users, TypeOK, Counted
    <3> QED
      BY <3>1, <2>1, <2>3 DEF TypeOK
  <2> QED
    BY <2>2, <2>3
<1>6. OwnerInv'
  BY DEF TypeOK, OwnerInv
<1>7. RegistryReclaimed'
  BY DEF TypeOK, RegistryReclaimed
<1> QED
  BY <1>1, <1>2, <1>3, <1>4, <1>5, <1>6, <1>7

(* Acquire, Refuse and Release leave the registry and the counts alone. *)
LEMMA HoldLockInv ==
  ASSUME LockInv, NEW t \in Threads, Acquire(t) \/ Refuse(t) \/ Release(t)
  PROVE  LockInv'
<1> USE DEF LockInv, Acquire, Refuse, Release, Goto
<1>0. entry[t] \in Entries
  BY DEF EntryInv, Counted
<1>1. TypeOK' /\ BoundInv'
  BY <1>0 DEF TypeOK, Steps, BoundInv
<1>2. GuardInv'
  BY DEF TypeOK, GuardInv, Guarded
<1>3. EntryInv'
  BY DEF TypeOK, EntryInv, Counted, Guarded
<1>4. InjectiveInv'
  BY DEF InjectiveInv
<1>5. CountInv'
  <2>1. \A e : Users(e)' = Users(e)
    BY DEF Users, TypeOK, Counted
  <2> QED
    BY <2>1 DEF CountInv
<1>6. OwnerInv'
  <2>1. CASE Acquire(t)
    BY <2>1, <1>0, ThreadsAssumption DEF TypeOK, OwnerInv
  <2>2. CASE Refuse(t)
    BY <2>2 DEF TypeOK, OwnerInv
  <2>3. CASE Release(t)
    BY <2>3, <1>0 DEF TypeOK, OwnerInv
  <2> QED
    BY <2>1, <2>2, <2>3
<1>7. RegistryReclaimed'
  BY DEF TypeOK, RegistryReclaimed
<1> QED
  BY <1>1, <1>2, <1>3, <1>4, <1>5, <1>6, <1>7

LEMMA UncountLockInv ==
  ASSUME LockInv, NEW t \in Threads, Uncount(t)
  PROVE  LockInv'
<1> USE DEF LockInv, Uncount, Goto
<1>0. entry[t] \in Entries /\ registry[key[t]] = entry[t]
  BY DEF EntryInv, Counted
<1>1. /\ references[entry[t]] = Cardinality(Users(entry[t]))
      /\ Users(entry[t])' = Users(entry[t]) \ {t}
      /\ t \in Users(entry[t])
  BY <1>0 DEF CountInv, Users, TypeOK, Counted
<1>2. /\ Cardinality(Users(entry[t]) \ {t}) = references[entry[t]] - 1
      /\ Cardinality(Users(entry[t]) \ {t}) \in Nat
  BY <1>1, UsersFinite, FS_RemoveElement, FS_CardinalityType
<1>3. TypeOK' /\ BoundInv'
  BY <1>0, <1>2 DEF TypeOK, Steps, BoundInv
<1>4. GuardInv'
  BY ThreadsAssumption DEF TypeOK, GuardInv, Guarded
<1>5. EntryInv'
  BY DEF TypeOK, EntryInv, Counted, Guarded
<1>6. InjectiveInv'
  BY DEF InjectiveInv
<1>7. CountInv'
  <2> SUFFICES ASSUME NEW k \in Keys, NEW e \in Entries, registry[k] = e
               PROVE  references'[e] = Cardinality(Users(e)')
    BY DEF CountInv
  <2>1. CASE e = entry[t]
    <3>1. Users(e)' = Users(entry[t]) \ {t}
      BY <2>1 DEF Users, TypeOK, Counted
    <3> QED
      BY <3>1, <1>2, <2>1 DEF TypeOK
  <2>2. CASE e # entry[t]
    <3>1. Users(e)' = Users(e)
      BY <2>2 DEF Users, TypeOK, Counted
    <3> QED
      BY <3>1, <2>2 DEF TypeOK, CountInv
  <2> QED
    BY <2>1, <2>2
<1>8. OwnerInv'
  BY DEF TypeOK, OwnerInv
<1>9. RegistryReclaimed'
  BY DEF TypeOK, RegistryReclaimed
<1> QED
  BY <1>3, <1>4, <1>5, <1>6, <1>7, <1>8, <1>9

(* The heart of the argument: under the guard a count of zero means that   *)
(* no other thread can reach the entry, so popping it strands nobody; a    *)
(* positive count names a thread that will reclaim it later.               *)
LEMMA ReclaimLockInv ==
  ASSUME LockInv, NEW t \in Threads, Reclaim(t)
  PROVE  LockInv'
<1> USE DEF LockInv, Reclaim, Goto
<1> DEFINE e == entry[t]
<1>0. e \in Entries /\ registry[key[t]] = e /\ e # NoEntry
  BY EntriesAssumption DEF EntryInv, Guarded
<1>1. references[e] = Cardinality(Users(e))
  BY <1>0 DEF CountInv, TypeOK
<1>2. references[e] = 0 => Users(e) = {}
  BY <1>1, UsersFinite, FS_EmptySet
<1>3. references[e] # 0 => \E u \in Threads : pc[u] \in Counted /\ entry[u] = e
  <2>1. references[e] # 0 => Users(e) # {}
    BY <1>1, FS_EmptySet
  <2> QED
    BY <2>1 DEF Users
<1>4. \A u \in Threads \ {t} : pc[u] \notin Guarded
  BY DEF GuardInv, Guarded
<1>5. TypeOK' /\ BoundInv'
  BY <1>0, MaxCallsAssumption DEF TypeOK, Steps, BoundInv
<1>6. GuardInv'
  BY <1>4, ThreadsAssumption DEF TypeOK, GuardInv, Guarded
<1>7. EntryInv'
  <2> SUFFICES ASSUME NEW u \in Threads, pc'[u] \in Counted \cup Guarded
               PROVE  entry'[u] \in Entries /\ registry'[key'[u]] = entry'[u]
    BY DEF EntryInv
  <2>1. u # t /\ pc[u] \in Counted /\ entry'[u] = entry[u]
    BY <1>4 DEF TypeOK, Counted, Guarded
  <2>2. entry[u] \in Entries /\ registry[key[u]] = entry[u]
    BY <2>1 DEF EntryInv
  <2>3. CASE key[u] = key[t]
    BY <1>0, <1>2, <2>1, <2>2, <2>3 DEF TypeOK, Users
  <2>4. CASE key[u] # key[t]
    BY <2>1, <2>2, <2>4 DEF TypeOK
  <2> QED
    BY <2>3, <2>4
<1>8. InjectiveInv'
  BY DEF TypeOK, InjectiveInv
<1>9. CountInv'
  <2> SUFFICES ASSUME NEW k \in Keys, NEW f \in Entries, registry'[k] = f
               PROVE  references'[f] = Cardinality(Users(f)')
    BY DEF CountInv
  <2>1. Users(f)' = Users(f)
    BY DEF Users, TypeOK, Counted
  <2>2. registry[k] = f
    BY EntriesAssumption DEF TypeOK
  <2> QED
    BY <2>1, <2>2 DEF CountInv
<1>10. OwnerInv'
  BY DEF TypeOK, OwnerInv
<1>11. RegistryReclaimed'
  <2> SUFFICES ASSUME NEW k \in Keys, registry'[k] # NoEntry
               PROVE  \E u \in Threads : key'[u] = k /\ pc'[u] \notin {"idle", "lookup"}
    BY DEF RegistryReclaimed
  <2>1. CASE k = key[t]
    <3>1. PICK u \in Threads : pc[u] \in Counted /\ entry[u] = e
      BY <1>3, <2>1 DEF TypeOK
    <3>2. u # t /\ registry[key[u]] = e
      BY <3>1 DEF EntryInv, Counted
    <3>3. key[u] = k
      BY <3>2, <1>0, <2>1 DEF InjectiveInv, TypeOK
    <3> QED
      BY <3>1, <3>2, <3>3 DEF TypeOK, Counted
  <2>2. CASE k # key[t]
    BY <2>2 DEF TypeOK, RegistryReclaimed
  <2> QED
    BY <2>1, <2>2
<1> QED
  BY <1>5, <1>6, <1>7, <1>8, <1>9, <1>10, <1>11

LEMMA StepLockInv == LockInv /\ [Next]_vars => LockInv'
<1> SUFFICES ASSUME LockInv, [Next]_vars PROVE LockInv'
  OBVIOUS
<1>1. CASE UNCHANGED vars
  <2>1. \A e : Users(e)' = Users(e)
    BY <1>1 DEF Users, vars
  <2> QED
    BY <1>1, <2>1 DEF vars, LockInv, TypeOK, BoundInv, GuardInv, EntryInv, InjectiveInv,
                      CountInv, OwnerInv, RegistryReclaimed
<1>2. CASE \E t \in Threads : Call(t) \/ Run(t)
  BY <1>2, CallLockInv, LookupLockInv, CountLockInv, HoldLockInv, UncountLockInv,
     ReclaimLockInv DEF Run
<1> QED
  BY <1>1, <1>2 DEF Next

(* The lock invariant holds in every reachable state. *)
THEOREM LockInvariant == Spec => []LockInv
  BY InitLockInv, StepLockInv, PTL DEF Spec

(* Every variable of the registry keeps its type; in particular no         *)
(* reference count ever drops below zero.                                  *)
THEOREM TypeCorrect == Spec => []TypeOK
<1>1. LockInv => TypeOK
  BY DEF LockInv
<1> QED
  BY <1>1, LockInvariant, PTL

LEMMA InvMutualExclusion == LockInv => MutualExclusion
<1> SUFFICES ASSUME LockInv, NEW t \in Threads, NEW u \in Threads,
                    pc[t] = "inside", pc[u] = "inside", key[t] = key[u]
             PROVE  t = u
  BY DEF MutualExclusion
<1>1. entry[t] = entry[u]
  BY DEF LockInv, EntryInv, Counted
<1> QED
  BY <1>1 DEF LockInv, OwnerInv

(* No two threads are inside the operation of one draft. *)
THEOREM MutualExclusionHolds == Spec => []MutualExclusion
  BY InvMutualExclusion, LockInvariant, PTL

(* A registered entry always has a caller that will reclaim it. *)
THEOREM RegistryReclaimedHolds == Spec => []RegistryReclaimed
<1>1. LockInv => RegistryReclaimed
  BY DEF LockInv
<1> QED
  BY <1>1, LockInvariant, PTL

-----------------------------------------------------------------------------
(* What LockInv leaves open about waiting: whoever owns a registered entry *)
(* is inside its operation, and a thread without a call has no entry.      *)
HeldInv ==
  /\ \A k \in Keys : registry[k] # NoEntry /\ owner[registry[k]] # Nobody =>
       \E t \in Threads : pc[t] = "inside" /\ entry[t] = registry[k]
  /\ \A t \in Threads : pc[t] \in {"idle", "lookup"} => entry[t] = NoEntry

LEMMA LookupHeldInv ==
  ASSUME LockInv, HeldInv, NEW t \in Threads, Lookup(t)
  PROVE  HeldInv'
<1> USE DEF LockInv, TypeOK, HeldInv, Lookup, Goto
<1>1. CASE registry[key[t]] # NoEntry
  <2>1. UNCHANGED <<registry, owner>> /\ \A u \in Threads : pc[u] = "inside" =>
          pc'[u] = "inside" /\ entry'[u] = entry[u]
    BY <1>1
  <2> QED
    BY <2>1, <1>1
<1>2. CASE registry[key[t]] = NoEntry
  <2>1. PICK e \in Unreachable :
          /\ registry' = [registry EXCEPT ![key[t]] = e]
          /\ entry' = [entry EXCEPT ![t] = e]
          /\ owner' = [owner EXCEPT ![e] = Nobody]
    BY <1>2
  <2>2. e \in Entries /\ (\A k \in Keys : registry[k] # e)
    BY DEF Unreachable
  <2>3. ASSUME NEW k \in Keys, registry'[k] # NoEntry, owner'[registry'[k]] # Nobody
        PROVE  \E u \in Threads : pc'[u] = "inside" /\ entry'[u] = registry'[k]
    <3>1. k # key[t] /\ registry'[k] = registry[k] /\ owner[registry[k]] # Nobody
      BY <2>1, <2>2, <2>3
    <3>2. PICK u \in Threads : pc[u] = "inside" /\ entry[u] = registry[k]
      BY <3>1, <2>3
    <3> QED
      BY <3>1, <3>2, <2>1
  <2>4. \A u \in Threads : pc'[u] \in {"idle", "lookup"} => entry'[u] = NoEntry
    BY <2>1
  <2> QED
    BY <2>3, <2>4
<1> QED
  BY <1>1, <1>2

LEMMA StepHeldInv == LockInv /\ HeldInv /\ [Next]_vars => HeldInv'
<1> SUFFICES ASSUME LockInv, HeldInv, [Next]_vars PROVE HeldInv'
  OBVIOUS
<1> USE DEF LockInv, TypeOK, Goto
<1>1. CASE UNCHANGED vars
  BY <1>1 DEF vars, HeldInv
<1>2. ASSUME NEW t \in Threads, Call(t) PROVE HeldInv'
  BY <1>2 DEF Call, HeldInv
<1>3. ASSUME NEW t \in Threads, Lookup(t) PROVE HeldInv'
  BY <1>3, LookupHeldInv
<1>4. ASSUME NEW t \in Threads, Count(t) \/ Refuse(t) \/ Uncount(t) PROVE HeldInv'
  BY <1>4 DEF Count, Refuse, Uncount, HeldInv
<1>5. ASSUME NEW t \in Threads, Acquire(t) PROVE HeldInv'
  <2>1. entry[t] \in Entries
    BY <1>5 DEF Acquire, EntryInv, Counted
  <2> QED
    BY <1>5, <2>1 DEF Acquire, HeldInv
<1>6. ASSUME NEW t \in Threads, Release(t) PROVE HeldInv'
  <2>1. entry[t] \in Entries
    BY <1>6 DEF Release, EntryInv, Counted
  <2> QED
    BY <1>6, <2>1, EntriesAssumption DEF Release, HeldInv
<1>7. ASSUME NEW t \in Threads, Reclaim(t) PROVE HeldInv'
  BY <1>7, EntriesAssumption DEF Reclaim, HeldInv
<1> QED
  BY <1>1, <1>2, <1>3, <1>4, <1>5, <1>6, <1>7 DEF Next, Run

(* A thread that looks its entry up leaves room for it: what the program   *)
(* can still reach are entries of the other threads.                       *)
LEMMA RoomForEntry ==
  ASSUME LockInv, HeldInv, NEW t \in Threads, pc[t] = "lookup"
  PROVE  Unreachable # {}
<1> DEFINE others == Threads \ {t}
           taken == {entry[u] : u \in others}
<1>1. SUFFICES ASSUME Unreachable = {} PROVE Entries \subseteq taken
  <2>1. /\ IsFiniteSet(others) /\ Cardinality(others) = Cardinality(Threads) - 1
        /\ Cardinality(Threads) \in Nat
    BY ThreadsAssumption, FS_RemoveElement, FS_CardinalityType
  <2>2. IsFiniteSet(taken) /\ Cardinality(taken) <= Cardinality(others)
    <3> DEFINE f == [u \in others |-> entry[u]]
    <3>1. f \in Surjection(others, taken)
      BY DEF Surjection
    <3> QED
      BY <3>1, <2>1, FS_Surjection DEF ExistsSurjection
  <2>3. ~(Entries \subseteq taken)
    <3> SUFFICES ASSUME Entries \subseteq taken PROVE FALSE
      OBVIOUS
    <3> HIDE DEF taken, others
    <3>1. Cardinality(Entries) <= Cardinality(taken)
      BY <2>2, FS_Subset
    <3> QED
      BY <3>1, <2>1, <2>2, HeapAssumption, FS_CardinalityType
  <2> QED
    BY <2>3
<1>2. ASSUME NEW e \in Entries, NEW k \in Keys, registry[k] = e PROVE e \in taken
  <2>1. PICK u \in Threads : key[u] = k /\ pc[u] \notin {"idle", "lookup"}
    BY <1>2, EntriesAssumption DEF LockInv, RegistryReclaimed
  <2>2. pc[u] \in Counted \cup Guarded
    BY <2>1 DEF LockInv, TypeOK, Steps, Counted, Guarded
  <2>3. entry[u] = e
    BY <2>1, <2>2, <1>2 DEF LockInv, EntryInv
  <2> QED
    BY <2>1, <2>3
<1>3. ASSUME NEW e \in Entries, NEW u \in Threads, entry[u] = e PROVE e \in taken
  <2>1. u # t
    BY <1>3, EntriesAssumption DEF HeldInv
  <2> QED
    BY <2>1, <1>3
<1> QED
  BY <1>1, <1>2, <1>3 DEF Unreachable

LEMMA InvNeverStuck == LockInv /\ HeldInv => NeverStuck
<1> SUFFICES ASSUME LockInv, HeldInv, NEW t \in Threads, pc[t] # "idle"
             PROVE  \E u \in Threads : CanRun(u)
  BY DEF NeverStuck
<1>1. CASE guard # Nobody
  <2>1. guard \in Threads /\ pc[guard] \in Guarded
    BY <1>1 DEF LockInv, TypeOK, GuardInv
  <2> QED
    BY <2>1 DEF CanRun, Guarded
<1>2. CASE guard = Nobody /\ pc[t] = "lookup"
  BY <1>2, RoomForEntry DEF CanRun
<1>3. CASE guard = Nobody /\ pc[t] = "acquire"
  <2>1. entry[t] \in Entries /\ key[t] \in Keys /\ registry[key[t]] = entry[t]
    BY <1>3 DEF LockInv, EntryInv, TypeOK, Counted
  <2>2. CASE owner[entry[t]] = Nobody
    BY <2>2, <1>3 DEF CanRun
  <2>3. CASE owner[entry[t]] # Nobody
    <3>1. \E u \in Threads : pc[u] = "inside"
      BY <2>1, <2>3, EntriesAssumption DEF HeldInv
    <3> QED
      BY <3>1 DEF CanRun
  <2> QED
    BY <2>2, <2>3
<1>4. CASE guard = Nobody /\ pc[t] \in {"count", "inside", "uncount", "reclaim"}
  BY <1>4 DEF CanRun
<1> QED
  BY <1>1, <1>2, <1>3, <1>4 DEF LockInv, TypeOK, Steps

(* No call waits for ever on calls that wait for it: however many threads  *)
(* and drafts, while a call is in progress some thread can go on.          *)
THEOREM NeverStuckHolds == Spec => []NeverStuck
<1>1. Init => HeldInv
  BY DEF Init, HeldInv
<1> QED
  BY <1>1, LockInvariant, StepHeldInv, InvNeverStuck, PTL DEF Spec

-----------------------------------------------------------------------------
(* Inside(k) is the thread inside k's operation, if there is one. *)
LEMMA InsideIsHolder ==
  ASSUME MutualExclusion, NEW k \in Keys
  PROVE  /\ \A t \in Threads : pc[t] = "inside" /\ key[t] = k => Inside(k) = t
         /\ Inside(k) # Nobody =>
              /\ Inside(k) \in Threads
              /\ pc[Inside(k)] = "inside"
              /\ key[Inside(k)] = k
BY DEF MutualExclusion, Inside

(* A step that moves no thread into or out of an operation stutters. *)
LEMMA InsideUnchanged ==
  ASSUME \A t \in Threads : /\ pc'[t] = "inside" <=> pc[t] = "inside"
                            /\ pc[t] = "inside" => key'[t] = key[t],
         NEW k \in Keys
  PROVE  Inside(k)' = Inside(k)
<1>1. \A t \in Threads :
        (pc'[t] = "inside" /\ key'[t] = k) <=> (pc[t] = "inside" /\ key[t] = k)
  OBVIOUS
<1> QED
  BY <1>1 DEF Inside

LEMMA AcquireEnters ==
  ASSUME LockInv, LockInv', NEW t \in Threads, Acquire(t)
  PROVE  Mutex!Enter(t, key[t])
<1>1. key[t] \in Keys /\ MutualExclusion /\ MutualExclusion'
  <2>1. key[t] \in Keys
    BY DEF LockInv, TypeOK
  <2>2. MutualExclusion
    BY InvMutualExclusion
  <2>3. MutualExclusion'
    BY InvMutualExclusion, PTL
  <2> QED
    BY <2>1, <2>2, <2>3
<1>2. Inside(key[t]) = Nobody
  <2> SUFFICES ASSUME NEW u \in Threads, pc[u] = "inside", key[u] = key[t]
               PROVE  FALSE
    BY <1>1, InsideIsHolder
  <2>1. entry[u] = entry[t]
    BY DEF Acquire, LockInv, EntryInv, Counted
  <2> QED
    BY <2>1, ThreadsAssumption DEF Acquire, LockInv, OwnerInv
<1>3. \A j \in Keys : Inside(j) # t
  BY <1>1, InsideIsHolder, ThreadsAssumption DEF Acquire
<1>4. \A j \in Keys : Inside(j)' = IF j = key[t] THEN t ELSE Inside(j)
  <2> SUFFICES ASSUME NEW j \in Keys
               PROVE  Inside(j)' = IF j = key[t] THEN t ELSE Inside(j)
    OBVIOUS
  <2>1. CASE j = key[t]
    <3>1. pc'[t] = "inside" /\ key'[t] = j
      BY <2>1 DEF Acquire, Goto, LockInv, TypeOK
    <3>2. \A u \in Threads : pc'[u] = "inside" /\ key'[u] = j => u = t
      BY <3>1, <1>1 DEF MutualExclusion
    <3> QED
      BY <2>1, <3>1, <3>2 DEF Inside
  <2>2. CASE j # key[t]
    <3>1. \A u \in Threads : (pc'[u] = "inside" /\ key'[u] = j)
                               <=> (pc[u] = "inside" /\ key[u] = j)
      BY <2>2 DEF Acquire, Goto, LockInv, TypeOK
    <3> QED
      BY <2>2, <3>1 DEF Inside
  <2> QED
    BY <2>1, <2>2
<1> QED
  BY <1>1, <1>2, <1>3, <1>4 DEF Mutex!Enter

LEMMA ReleaseLeaves ==
  ASSUME LockInv, LockInv', NEW t \in Threads, Release(t)
  PROVE  Mutex!Leave(t, key[t])
<1>1. key[t] \in Keys /\ MutualExclusion
  BY InvMutualExclusion DEF LockInv, TypeOK
<1>2. Inside(key[t]) = t
  BY <1>1, InsideIsHolder DEF Release
<1>3. \A j \in Keys : Inside(j)' = IF j = key[t] THEN Nobody ELSE Inside(j)
  <2> SUFFICES ASSUME NEW j \in Keys
               PROVE  Inside(j)' = IF j = key[t] THEN Nobody ELSE Inside(j)
    OBVIOUS
  <2>1. CASE j = key[t]
    <3>1. \A u \in Threads : ~(pc'[u] = "inside" /\ key'[u] = j)
      BY <1>1, <2>1 DEF Release, Goto, LockInv, TypeOK, MutualExclusion
    <3> QED
      BY <2>1, <3>1 DEF Inside
  <2>2. CASE j # key[t]
    <3>1. \A u \in Threads : (pc'[u] = "inside" /\ key'[u] = j)
                               <=> (pc[u] = "inside" /\ key[u] = j)
      BY <2>2 DEF Release, Goto, LockInv, TypeOK
    <3> QED
      BY <2>2, <3>1 DEF Inside
  <2> QED
    BY <2>1, <2>2
<1> QED
  BY <1>1, <1>2, <1>3 DEF Mutex!Leave

(* The guarded, reference-counted registry implements one mutual-exclusion *)
(* lock per draft: acquiring the entry's lock is Enter, releasing it is    *)
(* Leave, and every registry step is invisible.                            *)
THEOREM RegistryImplementsMutex == Spec => ImplementsMutex
<1>1. Init => Mutex!Init
  BY DEF Init, Mutex!Init, Inside
<1>2. LockInv /\ LockInv' /\ [Next]_vars
        => [Mutex!Next]_([k \in Keys |-> Inside(k)])
  <2> SUFFICES ASSUME LockInv, LockInv', [Next]_vars
               PROVE  [Mutex!Next]_([k \in Keys |-> Inside(k)])
    OBVIOUS
  <2>1. CASE UNCHANGED vars
    <3>1. \A k \in Keys : Inside(k)' = Inside(k)
      BY <2>1 DEF vars, Inside
    <3> QED
      BY <3>1
  <2>2. ASSUME NEW t \in Threads,
               Call(t) \/ Lookup(t) \/ Count(t) \/ Refuse(t) \/ Uncount(t) \/ Reclaim(t)
        PROVE  [Mutex!Next]_([k \in Keys |-> Inside(k)])
    <3>1. \A u \in Threads : /\ pc'[u] = "inside" <=> pc[u] = "inside"
                             /\ pc[u] = "inside" => key'[u] = key[u]
      BY <2>2 DEF Call, Lookup, Count, Refuse, Uncount, Reclaim, Goto, LockInv, TypeOK
    <3>2. \A k \in Keys : Inside(k)' = Inside(k)
      BY <3>1, InsideUnchanged
    <3> QED
      BY <3>2
  <2>3. ASSUME NEW t \in Threads, Acquire(t)
        PROVE  [Mutex!Next]_([k \in Keys |-> Inside(k)])
    BY <2>3, AcquireEnters DEF Mutex!Next, LockInv, TypeOK
  <2>4. ASSUME NEW t \in Threads, Release(t)
        PROVE  [Mutex!Next]_([k \in Keys |-> Inside(k)])
    BY <2>4, ReleaseLeaves DEF Mutex!Next, LockInv, TypeOK
  <2> QED
    BY <2>1, <2>2, <2>3, <2>4 DEF Next, Run
<1> QED
  BY <1>1, <1>2, LockInvariant, PTL DEF Spec, Mutex!Spec, ImplementsMutex
=============================================================================
