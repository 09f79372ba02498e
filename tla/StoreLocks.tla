----------------------------- MODULE StoreLocks -----------------------------
(***************************************************************************)
(* The two mutexes inside the registry store (src/src/store.rs).           *)
(*                                                                         *)
(* `map` guards the rows, `bound_cache` the cached set of bound sandbox    *)
(* ids.  put and adopt_archived change a row and then drop the cache, both *)
(* under the map lock; bound_ids takes the cache lock and, on a miss, the  *)
(* map lock inside it.  Threads of the async runtime call all of them.     *)
(***************************************************************************)
EXTENDS Naturals, FiniteSets

CONSTANTS
    Thread,         \* worker threads of the runtime
    Schema,
    Sandbox,        \* sandbox ids, the synthetic ones included
    NoRow,          \* the schema has no row
    NoSet,          \* bound_cache is None
    Free            \* the mutex is not held

\* What the constants must satisfy; MCParts assumes it of its instance.
LocksAssumption ==
    /\ Free \notin Thread /\ NoRow \notin Sandbox

VARIABLES
    rows,           \* sandbox id of each schema's row
    cache,          \* contents of bound_cache
    mapLock,        \* holder of Store::map
    cacheLock,      \* holder of Store::bound_cache
    pc,             \* where each thread is
    ret             \* what the thread's last bound_ids returned

vars == <<rows, cache, mapLock, cacheLock, pc, ret>>

Step == {"idle", "changed", "drop_cache", "enter", "looked", "scan"}

TypeOK ==
    /\ rows \in [Schema -> Sandbox \cup {NoRow}]
    /\ cache \in (SUBSET Sandbox) \cup {NoSet}
    /\ mapLock \in Thread \cup {Free}
    /\ cacheLock \in Thread \cup {Free}
    /\ pc \in [Thread -> Step]
    /\ ret \in [Thread -> SUBSET Sandbox]

\* The sandbox ids some row names.
Bound == {rows[s] : s \in Schema} \ {NoRow}

Init ==
    /\ rows = [s \in Schema |-> NoRow]
    /\ cache = NoSet
    /\ mapLock = Free /\ cacheLock = Free
    /\ pc = [t \in Thread |-> "idle"]
    /\ ret = [t \in Thread |-> {}]

Goto(t, step) == pc' = [pc EXCEPT ![t] = step]

-----------------------------------------------------------------------------
\* put (or adopt_archived): lock the map and insert the new row, whose id may
\* be the old one (only the tier changes then).
PutInsert(t, s, id) ==
    /\ pc[t] = "idle" /\ mapLock = Free
    /\ mapLock' = t
    /\ rows' = [rows EXCEPT ![s] = id]
    /\ Goto(t, "changed")
    /\ UNCHANGED <<cache, cacheLock, ret>>

\* Mutant of PutDropCache: the cached set survives the change.
PutKeepCache(t) ==
    /\ pc[t] = "changed" /\ cacheLock = Free
    /\ cacheLock' = t
    /\ Goto(t, "drop_cache")
    /\ UNCHANGED <<rows, cache, mapLock, ret>>

\* ... then, the map still locked, lock the cache and drop the set ...
PutDropCache(t) ==
    /\ pc[t] = "changed" /\ cacheLock = Free
    /\ cacheLock' = t
    /\ cache' = NoSet
    /\ Goto(t, "drop_cache")
    /\ UNCHANGED <<rows, mapLock, ret>>

\* ... and release both, the snapshot stamped.
PutUnlock(t) ==
    /\ pc[t] = "drop_cache"
    /\ cacheLock' = Free /\ mapLock' = Free
    /\ Goto(t, "idle")
    /\ UNCHANGED <<rows, cache, ret>>

\* bound_ids: lock the cache.
BoundEnter(t) ==
    /\ pc[t] = "idle" /\ cacheLock = Free
    /\ cacheLock' = t
    /\ Goto(t, "enter")
    /\ UNCHANGED <<rows, cache, mapLock, ret>>

\* bound_ids, hit: clone the set and leave.
BoundHit(t) ==
    /\ pc[t] = "enter" /\ cache # NoSet
    /\ ret' = [ret EXCEPT ![t] = cache]
    /\ cacheLock' = Free
    /\ Goto(t, "idle")
    /\ UNCHANGED <<rows, cache, mapLock>>

\* bound_ids, miss: lock the map and scan every row, the cache still locked ...
BoundScan(t) ==
    /\ pc[t] = "enter" /\ cache = NoSet /\ mapLock = Free
    /\ mapLock' = t
    /\ ret' = [ret EXCEPT ![t] = Bound]
    /\ Goto(t, "scan")
    /\ UNCHANGED <<rows, cache, cacheLock>>

\* ... the map guard is a temporary, dropped before the set is stored ...
BoundUnlockMap(t) ==
    /\ pc[t] = "scan"
    /\ mapLock' = Free
    /\ Goto(t, "looked")
    /\ UNCHANGED <<rows, cache, cacheLock, ret>>

\* ... then store the set and release the cache.
BoundStore(t) ==
    /\ pc[t] = "looked"
    /\ cache' = ret[t]
    /\ cacheLock' = Free
    /\ Goto(t, "idle")
    /\ UNCHANGED <<rows, mapLock, ret>>

Next ==
    \E t \in Thread :
        \/ \E s \in Schema, id \in Sandbox : PutInsert(t, s, id)
        \/ PutDropCache(t) \/ PutUnlock(t)
        \/ BoundEnter(t) \/ BoundHit(t) \/ BoundScan(t) \/ BoundUnlockMap(t)
        \/ BoundStore(t)

Spec == Init /\ [][Next]_vars

-----------------------------------------------------------------------------
\* CacheFresh: whenever no thread is inside put, a stored set, or one about to
\* be stored, is exactly the set of bound ids.  The spare pool hands out every
\* VM that is not in it, so a stale set would bind one VM to two schemas.
CacheFresh ==
    (\A t \in Thread : pc[t] \notin {"changed", "drop_cache"})
        => /\ cache \in {NoSet, Bound}
           /\ \A t \in Thread : pc[t] \in {"scan", "looked"} => ret[t] = Bound

\* NoLockCycle: no thread holds the lock another one waits for while waiting
\* for the lock that one holds.
NoLockCycle ==
    \A t, u \in Thread :
        ~ /\ pc[t] = "changed" /\ cacheLock = u
          /\ pc[u] = "enter" /\ cache = NoSet /\ mapLock = t
=============================================================================
