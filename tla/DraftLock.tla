----------------------------- MODULE DraftLock ------------------------------
(***************************************************************************)
(* draft_operation_lock of src/api/repository.py: a process-wide registry  *)
(* of per-draft lock entries that lives only while somebody uses it.       *)
(*                                                                         *)
(* The registry _DRAFT_LOCKS and the reference counts are touched only     *)
(* under the global _DRAFT_LOCKS_GUARD, but the guard is dropped before    *)
(* the caller blocks on (or tries) the entry's own lock and is taken again *)
(* when it leaves, so an entry can be looked up, waited for, refused and   *)
(* reclaimed by several threads at once.  Each guarded section is two      *)
(* steps here, so that nothing is atomic that the guard does not make so.  *)
(***************************************************************************)
EXTENDS Integers, FiniteSets

CONSTANTS
  Threads,    \* server threads
  Keys,       \* (engine, draft id) pairs
  Entries,    \* the _DraftLockEntry objects the heap can hold
  Nobody,     \* no thread
  NoEntry,    \* the registry has no entry for a key
  MaxCalls    \* bound: calls of draft_operation_lock per thread

ASSUME ThreadsAssumption == IsFiniteSet(Threads) /\ Nobody \notin Threads
ASSUME EntriesAssumption == NoEntry \notin Entries
ASSUME HeapAssumption ==   \* an allocation never fails: one entry per thread fits
  IsFiniteSet(Entries) /\ Cardinality(Threads) <= Cardinality(Entries)
ASSUME MaxCallsAssumption == MaxCalls \in Nat

VARIABLES
  guard,       \* the thread inside a _DRAFT_LOCKS_GUARD section
  registry,    \* _DRAFT_LOCKS
  references,  \* _DraftLockEntry.references
  owner,       \* the thread that acquired _DraftLockEntry.lock
  pc,          \* where each thread is in draft_operation_lock
  key,         \* its local key
  entry,       \* its local entry
  wait,        \* its argument wait
  calls        \* how many calls it has finished

vars == <<guard, registry, references, owner, pc, key, entry, wait, calls>>

Steps == {"idle", "lookup", "count", "acquire", "inside", "uncount", "reclaim"}

(* The thread holds a counted reference to its entry. *)
Counted == {"acquire", "inside", "uncount"}

(* The thread is inside a guarded section. *)
Guarded == {"count", "reclaim"}

TypeOK ==
  /\ guard \in Threads \cup {Nobody}
  /\ registry \in [Keys -> Entries \cup {NoEntry}]
  /\ references \in [Entries -> Nat]
  /\ owner \in [Entries -> Threads \cup {Nobody}]
  /\ pc \in [Threads -> Steps]
  /\ key \in [Threads -> Keys]
  /\ entry \in [Threads -> Entries \cup {NoEntry}]
  /\ wait \in [Threads -> BOOLEAN]
  /\ calls \in [Threads -> 0..MaxCalls]

Init ==
  /\ guard = Nobody
  /\ registry = [k \in Keys |-> NoEntry]
  /\ references = [e \in Entries |-> 0]
  /\ owner = [e \in Entries |-> Nobody]
  /\ pc = [t \in Threads |-> "idle"]
  /\ key \in [Threads -> Keys]
  /\ entry = [t \in Threads |-> NoEntry]
  /\ wait = [t \in Threads |-> FALSE]
  /\ calls = [t \in Threads |-> 0]

Goto(t, step) == pc' = [pc EXCEPT ![t] = step]

(* Objects no variable of the program can reach any more. *)
Unreachable ==
  {e \in Entries : /\ \A k \in Keys : registry[k] # e
                   /\ \A t \in Threads : entry[t] # e}

-----------------------------------------------------------------------------
(* A request handler enters the context manager: wait is TRUE only for     *)
(* simulate_draft.                                                         *)
Call(t) ==
  /\ pc[t] = "idle"
  /\ calls[t] < MaxCalls
  /\ \E k \in Keys : key' = [key EXCEPT ![t] = k]
  /\ \E w \in BOOLEAN : wait' = [wait EXCEPT ![t] = w]
  /\ Goto(t, "lookup")
  /\ UNCHANGED <<guard, registry, references, owner, entry, calls>>

(* A lookup that forgets the entries other threads registered. *)
LookupFreshAlways(t) ==
  /\ pc[t] = "lookup"
  /\ guard = Nobody
  /\ guard' = t
  /\ Goto(t, "count")
  /\ \E e \in Unreachable :
       /\ registry' = [registry EXCEPT ![key[t]] = e]
       /\ entry' = [entry EXCEPT ![t] = e]
       /\ references' = [references EXCEPT ![e] = 0]
       /\ owner' = [owner EXCEPT ![e] = Nobody]
  /\ UNCHANGED <<key, wait, calls>>

(* Take the guard; setdefault finds the entry or registers a new one.      *)
Lookup(t) ==
  /\ pc[t] = "lookup"
  /\ guard = Nobody
  /\ guard' = t
  /\ Goto(t, "count")
  /\ \/ /\ registry[key[t]] # NoEntry
        /\ entry' = [entry EXCEPT ![t] = registry[key[t]]]
        /\ UNCHANGED <<registry, references, owner>>
     \/ /\ registry[key[t]] = NoEntry
        /\ \E e \in Unreachable :
             /\ registry' = [registry EXCEPT ![key[t]] = e]
             /\ entry' = [entry EXCEPT ![t] = e]
             /\ references' = [references EXCEPT ![e] = 0]
             /\ owner' = [owner EXCEPT ![e] = Nobody]
  /\ UNCHANGED <<key, wait, calls>>

(* A call that keeps the guard until it has the entry's lock. *)
CountKeepingGuard(t) ==
  /\ pc[t] = "count"
  /\ references' = [references EXCEPT ![entry[t]] = @ + 1]
  /\ Goto(t, "acquire")
  /\ UNCHANGED <<guard, registry, owner, key, entry, wait, calls>>

(* Count the reference and drop the guard. *)
Count(t) ==
  /\ pc[t] = "count"
  /\ references' = [references EXCEPT ![entry[t]] = @ + 1]
  /\ guard' = Nobody
  /\ Goto(t, "acquire")
  /\ UNCHANGED <<registry, owner, key, entry, wait, calls>>

(* entry.lock.acquire succeeds: at once, or after a wait if wait is TRUE.  *)
Acquire(t) ==
  /\ pc[t] = "acquire"
  /\ owner[entry[t]] = Nobody
  /\ owner' = [owner EXCEPT ![entry[t]] = t]
  /\ Goto(t, "inside")
  /\ UNCHANGED <<guard, registry, references, key, entry, wait, calls>>

(* acquire(blocking=False) fails: DraftOperationConflictError, after the   *)
(* finally block.                                                          *)
Refuse(t) ==
  /\ pc[t] = "acquire"
  /\ ~wait[t]
  /\ owner[entry[t]] # Nobody
  /\ Goto(t, "uncount")
  /\ UNCHANGED <<guard, registry, references, owner, key, entry, wait, calls>>

(* A finally block that forgets to release the entry's lock. *)
ReleaseNothing(t) ==
  /\ pc[t] = "inside"
  /\ Goto(t, "uncount")
  /\ UNCHANGED <<guard, registry, references, owner, key, entry, wait, calls>>

(* The operation ends, normally or with an exception: release the entry.   *)
Release(t) ==
  /\ pc[t] = "inside"
  /\ owner' = [owner EXCEPT ![entry[t]] = Nobody]
  /\ Goto(t, "uncount")
  /\ UNCHANGED <<guard, registry, references, key, entry, wait, calls>>

(* A leaving thread that forgets to give its reference back. *)
UncountNothing(t) ==
  /\ pc[t] = "uncount"
  /\ guard = Nobody
  /\ guard' = t
  /\ Goto(t, "reclaim")
  /\ UNCHANGED <<registry, references, owner, key, entry, wait, calls>>

(* Take the guard again and give the reference back. *)
Uncount(t) ==
  /\ pc[t] = "uncount"
  /\ guard = Nobody
  /\ guard' = t
  /\ references' = [references EXCEPT ![entry[t]] = @ - 1]
  /\ Goto(t, "reclaim")
  /\ UNCHANGED <<registry, owner, key, entry, wait, calls>>

(* A reclaim that pops the key whoever still refers to the entry. *)
ReclaimAlways(t) ==
  /\ pc[t] = "reclaim"
  /\ registry' = [registry EXCEPT ![key[t]] = NoEntry]
  /\ guard' = Nobody
  /\ entry' = [entry EXCEPT ![t] = NoEntry]
  /\ calls' = [calls EXCEPT ![t] = @ + 1]
  /\ Goto(t, "idle")
  /\ UNCHANGED <<references, owner, key, wait>>

(* The last user pops the entry, and the guard is dropped. *)
Reclaim(t) ==
  /\ pc[t] = "reclaim"
  /\ registry' = [registry EXCEPT
                    ![key[t]] = IF references[entry[t]] = 0 THEN NoEntry ELSE @]
  /\ guard' = Nobody
  /\ entry' = [entry EXCEPT ![t] = NoEntry]
  /\ calls' = [calls EXCEPT ![t] = @ + 1]
  /\ Goto(t, "idle")
  /\ UNCHANGED <<references, owner, key, wait>>

Run(t) ==
  \/ Lookup(t)  \/ Count(t)   \/ Acquire(t) \/ Refuse(t)
  \/ Release(t) \/ Uncount(t) \/ Reclaim(t)

Next == \E t \in Threads : Call(t) \/ Run(t)

Spec == Init /\ [][Next]_vars

(* A thread that can run is scheduled: operations end, because their       *)
(* bodies never block on another draft.  Nothing more is asked of          *)
(* threading.Lock, which is not a fair lock; calls are finitely many.      *)
FairSpec == Spec /\ \A t \in Threads : WF_vars(Run(t))

-----------------------------------------------------------------------------
(* Two threads are never inside the operation of the same draft, although  *)
(* entries are created, refused and popped around them: the serialization  *)
(* gate.py and repository.py build every check-then-commit on.             *)
MutualExclusion ==
  \A t, u \in Threads :
    pc[t] = "inside" /\ pc[u] = "inside" /\ key[t] = key[u] => t = u

(* "release its lock entry after the final caller": a registered entry     *)
(* always has a caller that will reclaim it, so the registry is empty      *)
(* whenever no request is in draft_operation_lock.                         *)
RegistryReclaimed ==
  \A k \in Keys : registry[k] # NoEntry =>
    \E t \in Threads : key[t] = k /\ pc[t] \notin {"idle", "lookup"}

(* Nothing t needs for its next step is taken. *)
CanRun(t) ==
  \/ pc[t] = "lookup" /\ guard = Nobody /\ (registry[key[t]] # NoEntry \/ Unreachable # {})
  \/ pc[t] = "acquire" /\ (~wait[t] \/ owner[entry[t]] = Nobody)
  \/ pc[t] = "uncount" /\ guard = Nobody
  \/ pc[t] \in {"count", "inside", "reclaim"}

(* The guard and the entries' locks never wait for each other, and no lock *)
(* is left with a thread that has gone: while a call is in progress some   *)
(* thread can go on, however many wait (draft_operation_lock nests the     *)
(* guard around neither acquire nor the operation).                        *)
NeverStuck ==
  (\E t \in Threads : pc[t] # "idle") => \E t \in Threads : CanRun(t)

(* Every call returns: a refused caller, a waiting simulation and the      *)
(* holder all get through the lock and the guard.                          *)
CallsReturn == \A t \in Threads : pc[t] # "idle" ~> pc[t] = "idle"

(* The thread inside each draft's operation, as DraftMutex sees it. *)
Inside(k) ==
  IF \E t \in Threads : pc[t] = "inside" /\ key[t] = k
  THEN CHOOSE t \in Threads : pc[t] = "inside" /\ key[t] = k
  ELSE Nobody

Mutex == INSTANCE DraftMutex WITH holder <- [k \in Keys |-> Inside(k)]

(* The registry implements one lock per draft. *)
ImplementsMutex == Mutex!Spec
=============================================================================
