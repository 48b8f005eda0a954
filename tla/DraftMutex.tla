----------------------------- MODULE DraftMutex -----------------------------
(***************************************************************************)
(* What draft_operation_lock (src/api/repository.py) promises its callers: *)
(* one mutual-exclusion lock per key, a key being a draft of one database  *)
(* engine.  A thread is inside the operation of at most one draft, and a   *)
(* draft has at most one operation in progress.  DraftLock, the guarded    *)
(* and reference-counted registry of the code, is shown to implement it.   *)
(***************************************************************************)
CONSTANTS
  Threads,   \* server threads, each runs one request at a time
  Keys,      \* (engine, draft id) pairs
  Nobody     \* the holder of a free lock

VARIABLE holder   \* the thread inside each draft's operation

TypeOK == holder \in [Keys -> Threads \cup {Nobody}]

Init == holder = [k \in Keys |-> Nobody]

Enter(t, k) ==
  /\ holder[k] = Nobody
  /\ \A j \in Keys : holder[j] # t
  /\ holder' = [holder EXCEPT ![k] = t]

Leave(t, k) ==
  /\ holder[k] = t
  /\ holder' = [holder EXCEPT ![k] = Nobody]

Next == \E t \in Threads, k \in Keys : Enter(t, k) \/ Leave(t, k)

Spec == Init /\ [][Next]_holder
=============================================================================
