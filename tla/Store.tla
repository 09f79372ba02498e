------------------------------- MODULE Store -------------------------------
(***************************************************************************)
(* The persistent schema registry (src/src/store.rs).                      *)
(*                                                                         *)
(* The map of schema -> (sandbox id, last_active, tier) lives in memory.   *)
(* A snapshot of it is stamped with a generation under the map lock and    *)
(* handed to a task of the blocking pool; tasks run in any order, one at a *)
(* time under the `written` lock, and a snapshot older than the newest one *)
(* written is dropped.  put and the flush loop leave their task detached;  *)
(* set_tier and adopt_archived wait for theirs.  A write may fail, and the *)
(* process may crash at any point and load the file again; a file it       *)
(* cannot read is taken for an empty registry.                             *)
(***************************************************************************)
EXTENDS Naturals, Sequences, FiniteSets

CONSTANTS
    Schema,         \* schema names
    Sandbox,        \* ids of VMs the daemon hands out
    Adopted,        \* the synthetic id of a row made by adopt_archived
    Blank,          \* an empty id field: such a line is dropped by the parser
    NoRow,          \* the schema has no row
    Nobody,         \* no task waits for this write
    MaxCalls,       \* bound: calls into the store
    MaxFails,       \* bound: writes and reads of the file that fail
    MaxCrashes      \* bound: crashes of the pooler

ASSUME StoreAssumption ==
    /\ Adopted \notin Sandbox
    /\ Blank \notin Sandbox \cup {Adopted}
    /\ Nobody \notin Schema
    /\ MaxCalls \in Nat /\ MaxFails \in Nat /\ MaxCrashes \in Nat

Tier == {"Live", "Compacted", "Frozen", "Archived"}
Id == Sandbox \cup {Adopted, Blank}
Rec == [id : Id, last : Nat, tier : Tier]
Rows == [Schema -> Rec \cup {NoRow}]

\* One line of the file, and a whole file: the last column is the tier's word.
Word == {"live", "compacted", "frozen", "archived"}
Line == [id : Id, last : Nat, state : Word]
Contents == [Schema -> Line \cup {NoRow}]

ASSUME NoRowAssumption == NoRow \notin Rec \cup Line \cup [id : Id, tier : Tier]

\* A task of the blocking pool: the generation and contents to write, and
\* the schema whose set_tier or adopt_archived waits for it.
Task == [seq : Nat, contents : Contents, waiter : Schema \cup {Nobody}]

VARIABLES
    map,        \* Store::map
    seq,        \* Store::seq
    written,    \* Store::written, the newest generation in the file
    dirty,      \* Store::dirty
    flushing,   \* flush_dirty swapped dirty and has yet to take its snapshot
    tasks,      \* write tasks queued or running
    writing,    \* the tasks inside write_latest's critical section
    file,       \* contents of the registry file
    now,        \* now_unix(), one second per call
    fails,      \* writes and reads of the file that failed so far
    crashes,    \* crashes so far
    stamped,    \* history: stamped[g + 1] is generation g of this incarnation
    bound,      \* history: generation of the schema's last mapping change
    acked,      \* history: the mapping last confirmed durable to a caller
    lost        \* history: generations whose write, or for 0 whose read, failed

vars == <<map, seq, written, dirty, flushing, tasks, writing, file, now, fails,
          crashes, stamped, bound, acked, lost>>

callVars == <<written, writing, file, fails, crashes, lost>>

Mapping(r) == IF r = NoRow THEN NoRow ELSE [id |-> r.id, tier |-> r.tier]

TypeOK ==
    /\ map \in Rows /\ file \in Contents
    /\ seq \in Nat /\ written \in Nat
    /\ dirty \in BOOLEAN /\ flushing \in BOOLEAN
    /\ tasks \subseteq Task /\ writing \subseteq tasks
    /\ now \in Nat /\ fails \in Nat /\ crashes \in Nat
    /\ stamped \in Seq(Contents)
    /\ bound \in [Schema -> Nat]
    /\ acked \in [Schema -> [id : Id, tier : Tier] \cup {NoRow}]
    /\ lost \subseteq Nat

-----------------------------------------------------------------------------
\* Tier::as_str
as_str(tier) ==
    CASE tier = "Live"      -> "live"
      [] tier = "Compacted" -> "compacted"
      [] tier = "Frozen"    -> "frozen"
      [] tier = "Archived"  -> "archived"

\* Tier::parse: an unknown word reads as Live.
parse_tier(word) ==
    CASE word = "archived"  -> "Archived"
      [] word = "frozen"    -> "Frozen"
      [] word = "compacted" -> "Compacted"
      [] OTHER              -> "Live"

\* serialize: one line per row of the map.
serialize(m) ==
    [s \in Schema |->
        IF m[s] = NoRow THEN NoRow
        ELSE [id |-> m[s].id, last |-> m[s].last, state |-> as_str(m[s].tier)]]

\* parse: a line whose id field is blank is dropped.
parse(contents) ==
    [s \in Schema |->
        IF contents[s] = NoRow THEN NoRow
        ELSE IF contents[s].id = Blank THEN NoRow
        ELSE [id |-> contents[s].id, last |-> contents[s].last,
              tier |-> parse_tier(contents[s].state)]]

\* Store::load of a file holding f: any error of the read, not only a missing
\* file, leaves the registry empty.
load(f, readable) ==
    /\ map' = IF readable THEN parse(f) ELSE [s \in Schema |-> NoRow]
    /\ seq' = 0 /\ written' = 0
    /\ dirty' = FALSE /\ flushing' = FALSE
    /\ tasks' = {} /\ writing' = {}
    /\ stamped' = <<f>>
    /\ bound' = [s \in Schema |-> 0]
    /\ lost' = IF readable THEN {} ELSE {0}

Init ==
    /\ map = [s \in Schema |-> NoRow] /\ file = [s \in Schema |-> NoRow]
    /\ seq = 0 /\ written = 0
    /\ dirty = FALSE /\ flushing = FALSE
    /\ tasks = {} /\ writing = {}
    /\ now = 0 /\ fails = 0 /\ crashes = 0
    /\ stamped = <<[s \in Schema |-> NoRow]>>
    /\ bound = [s \in Schema |-> 0]
    /\ acked = [s \in Schema |-> NoRow]
    /\ lost = {}

\* Store::stamp under the map lock, and the spawn of the write task.
stamp(m, waiter) ==
    /\ seq' = seq + 1
    /\ tasks' = tasks \cup {[seq |-> seq + 1, contents |-> serialize(m), waiter |-> waiter]}
    /\ stamped' = Append(stamped, serialize(m))

Call == now < MaxCalls /\ now' = now + 1

\* The row of s changes its mapping: what callers were told before is void.
Rebind(s, rec) ==
    /\ map' = [map EXCEPT ![s] = rec]
    /\ bound' = [bound EXCEPT ![s] = seq + 1]
    /\ acked' = [acked EXCEPT ![s] = NoRow]

\* Mutant of Bump: the bump forgets to set the flag.
BumpUnflagged(s) ==
    /\ map' = [map EXCEPT ![s].last = now']
    /\ UNCHANGED <<dirty, seq, tasks, stamped, bound, acked>>

\* An activity bump, left to the flush loop.
Bump(s) ==
    /\ map' = [map EXCEPT ![s].last = now']
    /\ dirty' = TRUE
    /\ UNCHANGED <<seq, tasks, stamped, bound, acked>>

\* Store::put
put(s, id) ==
    /\ Call
    /\ IF map[s] # NoRow /\ Mapping(map[s]) = [id |-> id, tier |-> "Live"]
       THEN Bump(s)
       ELSE LET rec == [id |-> id, last |-> now', tier |-> "Live"]
            IN  /\ Rebind(s, rec)
                /\ stamp([map EXCEPT ![s] = rec], Nobody)
                /\ UNCHANGED dirty
    /\ UNCHANGED <<callVars, flushing>>

\* Store::touch
touch(s) ==
    /\ Call
    /\ map[s] # NoRow
    /\ Bump(s)
    /\ UNCHANGED <<callVars, flushing>>

\* Store::set_tier: the caller resumes when the task it spawned is done.
set_tier(s, tier) ==
    /\ Call
    /\ map[s] # NoRow
    /\ LET rec == [map[s] EXCEPT !.tier = tier]
       IN  /\ Rebind(s, rec)
           /\ stamp([map EXCEPT ![s] = rec], s)
    /\ UNCHANGED <<callVars, flushing, dirty>>

\* Mutant of adopt_archived: an invented row has an empty id.
AdoptBlank(s) ==
    /\ Call
    /\ LET rec == IF map[s] = NoRow
                  THEN [id |-> Blank, last |-> now', tier |-> "Archived"]
                  ELSE [map[s] EXCEPT !.tier = "Archived"]
       IN  /\ Rebind(s, rec)
           /\ stamp([map EXCEPT ![s] = rec], s)
    /\ UNCHANGED <<callVars, flushing, dirty>>

\* Store::adopt_archived: repairs the row of s, or invents one.
adopt_archived(s) ==
    /\ Call
    /\ LET rec == IF map[s] = NoRow
                  THEN [id |-> Adopted, last |-> now', tier |-> "Archived"]
                  ELSE [map[s] EXCEPT !.tier = "Archived"]
       IN  /\ Rebind(s, rec)
           /\ stamp([map EXCEPT ![s] = rec], s)
    /\ UNCHANGED <<callVars, flushing, dirty>>

-----------------------------------------------------------------------------
\* Store::flush_dirty, first half: dirty.swap(false).
FlushSwap ==
    /\ dirty /\ ~flushing
    /\ dirty' = FALSE /\ flushing' = TRUE
    /\ UNCHANGED <<callVars, map, seq, tasks, now, stamped, bound, acked>>

\* Store::flush_dirty, second half: snapshot under the map lock and hand off.
FlushSnapshot ==
    /\ flushing
    /\ flushing' = FALSE
    /\ stamp(map, Nobody)
    /\ UNCHANGED <<callVars, map, dirty, now, bound, acked>>

-----------------------------------------------------------------------------
\* Mutant of Finish: the task ends without releasing the `written` lock.
FinishLocked(t) ==
    /\ tasks' = tasks \ {t}
    /\ UNCHANGED <<writing, acked>>

\* The task is over; whoever awaited it goes on, believing the mapping it
\* wrote is on disk unless the row has changed since.
Finish(t) ==
    /\ tasks' = tasks \ {t}
    /\ writing' = writing \ {t}
    /\ acked' = IF t.waiter # Nobody /\ bound[t.waiter] = t.seq
                THEN [acked EXCEPT ![t.waiter] = Mapping(map[t.waiter])]
                ELSE acked

\* write_latest: take the `written` lock; an older generation is dropped.
WriteSkip(t) ==
    /\ t \in tasks /\ writing = {}
    /\ t.seq <= written
    /\ Finish(t)
    /\ UNCHANGED <<map, seq, written, dirty, flushing, file, now, fails, crashes,
                   stamped, bound, lost>>

\* Mutants of WriteBegin: no check of the generation; no lock across the check
\* and the write.
WriteAny(t) ==
    /\ t \in tasks /\ writing = {}
    /\ writing' = {t}
    /\ UNCHANGED <<map, seq, written, dirty, flushing, tasks, file, now, fails,
                   crashes, stamped, bound, acked, lost>>

WriteUnlocked(t) ==
    /\ t \in tasks \ writing
    /\ t.seq > written
    /\ writing' = writing \cup {t}
    /\ UNCHANGED <<map, seq, written, dirty, flushing, tasks, file, now, fails,
                   crashes, stamped, bound, acked, lost>>

\* write_latest: a newer one goes on to write_atomic, lock held.
WriteBegin(t) ==
    /\ t \in tasks /\ writing = {}
    /\ t.seq > written
    /\ writing' = {t}
    /\ UNCHANGED <<map, seq, written, dirty, flushing, tasks, file, now, fails,
                   crashes, stamped, bound, acked, lost>>

\* write_atomic renames the fsynced temporary file into place.
WriteDone(t) ==
    /\ t \in writing
    /\ file' = t.contents
    /\ written' = t.seq
    /\ Finish(t)
    /\ UNCHANGED <<map, seq, dirty, flushing, now, fails, crashes, stamped, bound,
                   lost>>

\* write_atomic fails: logged, and the file stays as it was.
WriteFail(t) ==
    /\ t \in writing
    /\ fails < MaxFails
    /\ fails' = fails + 1
    /\ lost' = lost \cup {t.seq}
    /\ Finish(t)
    /\ UNCHANGED <<map, seq, written, dirty, flushing, file, now, crashes, stamped,
                   bound>>

\* The pooler dies, with its write tasks, and starts again.
Crash ==
    /\ crashes < MaxCrashes
    /\ crashes' = crashes + 1
    /\ load(file, TRUE)
    /\ UNCHANGED <<file, now, fails, acked>>

\* It dies, and starts again with a file it cannot read.
CrashUnread ==
    /\ crashes < MaxCrashes /\ fails < MaxFails
    /\ crashes' = crashes + 1 /\ fails' = fails + 1
    /\ load(file, FALSE)
    /\ UNCHANGED <<file, now, acked>>

-----------------------------------------------------------------------------
Next ==
    \/ \E s \in Schema, id \in Sandbox : put(s, id)
    \/ \E s \in Schema : touch(s)
    \/ \E s \in Schema, tier \in Tier \ {"Live"} : set_tier(s, tier)
    \/ \E s \in Schema : adopt_archived(s)
    \/ FlushSwap \/ FlushSnapshot
    \/ \E t \in tasks : WriteSkip(t) \/ WriteBegin(t) \/ WriteDone(t) \/ WriteFail(t)
    \/ Crash \/ CrashUnread

Spec == Init /\ [][Next]_vars

\* The flush loop sleeps and runs for ever, and the blocking pool runs every
\* task it was given.
Fairness ==
    /\ WF_vars(FlushSwap) /\ WF_vars(FlushSnapshot)
    /\ WF_vars(\E t \in tasks : WriteSkip(t) \/ WriteBegin(t) \/ WriteDone(t))

FairSpec == Spec /\ Fairness

-----------------------------------------------------------------------------
\* Settled: once no write task, no flush and no activity bump is outstanding,
\* a restart would read exactly the in-memory registry, unless the very last write
\* failed, or the file could not be read at the start and nothing was written yet.
\* Write tasks run in any order and a flush snapshots after clearing the flag, so
\* this is what the generations and the swap-first order buy.
Settled ==
    (tasks = {} /\ ~dirty /\ ~flushing /\ seq \notin lost) => parse(file) = map

\* AckedDurable: a mapping whose set_tier or adopt_archived has returned, and
\* that nothing changed since, is what the next start of the pooler reads
\* from the file.  Callers kill the VM or delete the dump on the strength of it.
AckedDurable ==
    \A s \in Schema : acked[s] # NoRow => Mapping(parse(file)[s]) = acked[s]

\* AckedBeforeFailure: that much holds, whatever the order of the write tasks
\* and wherever a crash falls, as long as no write and no read has failed:
\* write_latest logs a failure and the caller is none the wiser, and the first
\* write after an unreadable start replaces every row of the file.
AckedBeforeFailure == fails = 0 => AckedDurable

\* Implements: the file, and the versions stamped after it, behave as the
\* contract DurableLog says: forward only, contents exactly as stamped.
Contract == INSTANCE DurableLog WITH
    Version <- Contents,
    pending <- SubSeq(stamped, written + 2, Len(stamped))

Implements == Contract!Spec

\* MemoryReachesDisk: every change, activity bumps included, ends up in the
\* file (or is overtaken by a later one that does, or by a restart), unless the
\* write of the newest version failed (nobody tries that one again) or the file
\* was not read and no row has been written since.
MemoryReachesDisk == []<>(parse(file) = map \/ seq \in lost)
=============================================================================
