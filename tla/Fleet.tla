------------------------------- MODULE Fleet -------------------------------
(***************************************************************************)
(* The VMs of one schema between the bring-up that creates and binds them  *)
(* and everything that deletes or stops VMs behind its back: the ledger of *)
(* unfinished creates and its janitor (src/src/pending.rs), the untracked- *)
(* VM reaper, the purge and the orphan-disk sweep (src/src/registry.rs,    *)
(* src/src/orphans.rs).                                                    *)
(*                                                                         *)
(* Each of these passes decides from something it read earlier.  All VMs   *)
(* here carry the name pg-<schema>; spares are in Spares, and what becomes *)
(* of the schema's data in SchemaLife.                                     *)
(***************************************************************************)
EXTENDS Naturals, FiniteSets

CONSTANTS
    Id,             \* sandbox ids the daemon may hand out
    None,           \* no sandbox
    MaxStarts,      \* bound: bring-ups
    MaxPasses,      \* bound: passes under way at once, beside the janitor
    MaxFaults       \* bound: failures, forgotten sandboxes and crashes

ASSUME FleetAssumption == /\ None \notin Id
                          /\ MaxStarts \in Nat /\ MaxPasses \in Nat
                          /\ MaxFaults \in Nat

VARIABLES
    record,     \* the daemon's record of each sandbox; "lost" is one it forgot
    proc,       \* sandboxes whose VM process is alive and holds its disk open
    dir,        \* sandboxes whose directory exists
    row,        \* the schema's registry row
    filed,      \* the same in the registry file
    cell,       \* its cell in SchemaRegistry::entries
    ledger,     \* LEDGER.entries for the schema
    saved,      \* the same in the ledger file
    old,        \* the entry has passed the janitor's age bound
    bu,         \* the bring-up in flight, or the session on its VM
    off,        \* the offload job: it holds the schema's archiving claim unless idle
    janitor, reaper, purge, sweep,
    starts, faults,
    late,       \* history: VMs bound while a pass was about to delete them
    ahead,      \* history: VMs deleted while the file still had them as the live row
    mislaid     \* history: VMs forgotten while a sweep ran on an older row

daemon == <<record, proc, dir>>
rows == <<row, filed>>
pending == <<ledger, saved, old>>
passes == <<janitor, reaper, purge, sweep>>
bounds == <<starts, faults>>
history == <<late, ahead, mislaid>>
vars == <<daemon, rows, cell, pending, bu, off, passes, bounds, history>>

NoRow == [id |-> None, tier |-> "none"]
NoBu == [ph |-> "idle", id |-> None, created |-> FALSE, named |-> FALSE,
         raced |-> FALSE]
NoReaper == [ph |-> "idle", todo |-> {}, live |-> None, target |-> None, seen |-> {},
             suspects |-> {}]
NoSweep == [ph |-> "idle", live |-> None, open |-> {}, todo |-> {}, deletable |-> {}]
OrNone == Id \cup {None}

VmRecord == {"none", "running", "stopped", "gone", "lost"}
RowState == [id : OrNone, tier : {"none", "live", "offloaded"}]
BuState == [ph : {"idle", "resolve", "ledger", "boot", "load", "bound", "serve"}, id : OrNone,
            created : BOOLEAN, named : BOOLEAN, raced : BOOLEAN]
JanitorState == [ph : {"idle", "ask", "kill", "clear"}, id : OrNone]
ReaperState == [ph : {"idle", "walk"}, todo : SUBSET Id, live : OrNone, target : OrNone,
                seen : SUBSET Id, suspects : SUBSET Id]
SweepState == [ph : {"idle", "classify", "delete"}, live : OrNone, open : SUBSET Id,
               todo : SUBSET Id, deletable : SUBSET Id]

TypeOK ==
    /\ record \in [Id -> VmRecord] /\ proc \subseteq Id /\ dir \subseteq Id
    /\ row \in RowState /\ filed \in RowState /\ cell \in {"none", "empty", "full"}
    /\ ledger \in OrNone /\ saved \in OrNone /\ old \in BOOLEAN /\ (old => ledger # None)
    /\ bu \in BuState /\ off \in {"idle", "flip", "kill"}
    /\ janitor \in JanitorState /\ reaper \in ReaperState /\ purge \in OrNone
    /\ sweep \in SweepState
    /\ starts \in Nat /\ faults \in Nat
    /\ late \subseteq Id /\ ahead \subseteq Id /\ mislaid \subseteq Id

Init ==
    /\ record = [i \in Id |-> "none"] /\ proc = {} /\ dir = {}
    /\ row = NoRow /\ filed = NoRow /\ cell = "none"
    /\ ledger = None /\ saved = None /\ old = FALSE
    /\ bu = NoBu /\ off = "idle"
    /\ janitor = [ph |-> "idle", id |-> None] /\ reaper = NoReaper
    /\ purge = None /\ sweep = NoSweep
    /\ starts = 0 /\ faults = 0 /\ late = {} /\ ahead = {} /\ mislaid = {}

----------------------------------------------------------------------------
Exists(i) == i \in Id /\ record[i] \in {"running", "stopped"}
Live(i) == row.tier = "live" /\ row.id = i
Fault == faults < MaxFaults /\ faults' = faults + 1

\* The daemon starts, stops or deletes VMs.
Run(i) ==
    /\ record' = [record EXCEPT ![i] = "running"]
    /\ proc' = proc \cup {i} /\ dir' = dir \cup {i}

Stop(ids) ==
    /\ record' = [i \in Id |-> IF i \in ids /\ record[i] = "running" THEN "stopped"
                                                                   ELSE record[i]]
    /\ proc' = proc \ {i \in ids : record[i] = "running"}
    /\ UNCHANGED dir

\* A delete of a sandbox that is gone succeeds too, and may leave the directory.
Kill(i) ==
    /\ record' = [record EXCEPT ![i] = IF @ = "lost" THEN @ ELSE "gone"]
    /\ proc' = IF Exists(i) THEN proc \ {i} ELSE proc
    /\ dir' \in {dir, IF Exists(i) THEN dir \ {i} ELSE dir}

\* What a pass that has decided is still going to stop or delete.
Targets == {janitor.id, purge, reaper.target}
Doomed == {janitor.id, purge}

\* The file has i as the live row and memory has moved on; one more VM is deleted.
Outrun(i) == filed.tier = "live" /\ filed.id = i /\ ~Live(i)
Deletes(i) == ahead' = IF Outrun(i) THEN ahead \cup {i} ELSE ahead

\* Room for another pass.
Room == Cardinality({p \in {"reaper", "purge", "sweep"} :
                        CASE p = "reaper" -> reaper.ph # "idle"
                          [] p = "purge" -> purge # None
                          [] p = "sweep" -> sweep.ph # "idle"}) < MaxPasses

----------------------------------------------------------------------------
(* The ledger.                                                             *)

Record(i) == ledger' = i /\ old' = FALSE
Clear == ledger' = None /\ old' = FALSE

\* persist rewrites the file, whoever called it.
Persist ==
    /\ saved # ledger
    /\ saved' = ledger
    /\ UNCHANGED <<daemon, rows, cell, ledger, old, bu, off, passes, bounds, history>>

Age ==
    /\ ledger # None /\ ~old
    /\ old' = TRUE
    /\ UNCHANGED <<daemon, rows, cell, ledger, saved, bu, off, passes, bounds, history>>

----------------------------------------------------------------------------
(* The registry file: Store::put's write is detached and lands some time later, or
   never.  Store orders the writers among themselves.                               *)

PersistRow ==
    /\ filed # row
    /\ filed' = row
    /\ UNCHANGED <<daemon, row, cell, pending, bu, off, passes, bounds, history>>

----------------------------------------------------------------------------
(* A bring-up (checkout, ensure_vm, resolve_sandbox, create_vm_within).    *)

\* checkout puts an empty cell into the map unless one is there.
Checkout ==
    /\ bu.ph = "idle" /\ off = "idle" /\ cell # "full" /\ starts < MaxStarts
    /\ starts' = starts + 1
    /\ cell' = "empty"
    /\ bu' = [NoBu EXCEPT !.ph = "resolve"]
    /\ UNCHANGED <<daemon, rows, pending, off, passes, faults, history>>

\* The recorded VM, or when that fails another one with the schema's name.
Reattach(i) ==
    /\ bu.ph = "resolve" /\ Exists(i)
    /\ \/ Live(i) /\ UNCHANGED faults
       \/ ~Live(i) /\ ~(row.tier = "live" /\ Exists(row.id)) /\ UNCHANGED faults
       \/ ~Live(i) /\ row.tier = "live" /\ Exists(row.id) /\ Fault
    /\ Run(i)
    /\ bu' = [bu EXCEPT !.ph = "load", !.id = i, !.raced = i \in Targets]
    /\ UNCHANGED <<rows, cell, pending, off, passes, starts, history>>

\* No VM of the name exists: create one and enter its id into the ledger at once.
Create(i) ==
    /\ bu.ph = "resolve" /\ record[i] = "none" /\ \A j \in Id : ~Exists(j)
    /\ Run(i)
    /\ Record(i) /\ UNCHANGED saved
    /\ bu' = [bu EXCEPT !.ph = "ledger", !.id = i, !.created = TRUE,
                        !.raced = janitor.ph # "idle"]
    /\ UNCHANGED <<rows, cell, off, passes, bounds, history>>

\* The bring-up goes on when the entry is in the file, or the write has failed.
Ledgered ==
    /\ bu.ph = "ledger"
    /\ \/ /\ saved' = ledger /\ UNCHANGED faults
          /\ bu' = [bu EXCEPT !.ph = "boot", !.named = TRUE]
       \/ /\ Fault /\ UNCHANGED saved
          /\ bu' = [bu EXCEPT !.ph = "boot"]
    /\ UNCHANGED <<daemon, rows, cell, ledger, old, off, passes, starts, history>>

Ready ==
    /\ bu.ph = "boot" /\ record[bu.id] = "running"
    /\ bu' = [bu EXCEPT !.ph = "load"]
    /\ UNCHANGED <<daemon, rows, cell, pending, off, passes, bounds, history>>

\* stop_after_failed_bringup: the ledger's and the recorded VM, best effort.
Leaked == {i \in {ledger', row.id} : i # None}

StopLeaked ==
    \E ids \in SUBSET Leaked :
        /\ record' = [i \in Id |-> IF i \in ids /\ record[i] = "running" THEN "stopped"
                                                                       ELSE record[i]]
        /\ proc' = proc \ {i \in ids : record[i] = "running"}
        /\ UNCHANGED dir

\* The VM it waits for is not running, or no id is left in this instance.
Stuck == IF bu.id = None THEN \A i \in Id : ~Exists(i) /\ record[i] # "none"
                         ELSE record[bu.id] # "running"

\* The bring-up fails.  The cell stays in the map, empty.  A VM that did not become
\* ready is killed and cleared if that worked; one that failed later is cleared in
\* any case; one that was found by name or id is kept.
Fails ==
    /\ bu.ph \in {"resolve", "boot", "load"}
    /\ \/ /\ bu.created /\ Kill(bu.id) /\ Clear
          /\ (IF record[bu.id] = "running" THEN Fault ELSE UNCHANGED faults)
       \/ /\ bu.created /\ Fault
          /\ (IF bu.ph = "load" THEN Clear ELSE UNCHANGED <<ledger, old>>)
          /\ StopLeaked
       \/ /\ ~bu.created /\ UNCHANGED <<ledger, old>>
          /\ (IF Stuck THEN UNCHANGED faults ELSE Fault)
          /\ StopLeaked
    /\ bu' = NoBu
    /\ UNCHANGED <<rows, cell, saved, off, passes, starts, history>>

\* Store::put, then the ledger entry is settled and the cell published.
Bind ==
    /\ bu.ph = "load" /\ record[bu.id] = "running"
    /\ row' = [id |-> bu.id, tier |-> "live"]
    /\ late' = IF bu.id \in Doomed THEN late \cup {bu.id} ELSE late
    /\ bu' = [bu EXCEPT !.ph = "bound", !.raced = @ \/ bu.id \in Targets]
    /\ UNCHANGED <<daemon, filed, cell, pending, off, passes, bounds, ahead, mislaid>>

Settle ==
    /\ bu.ph = "bound"
    /\ Clear /\ UNCHANGED saved
    /\ cell' = "full"
    /\ bu' = [bu EXCEPT !.ph = "serve"]
    /\ UNCHANGED <<daemon, rows, off, passes, bounds, history>>

\* The last session ends and the idle reaper stops the VM, or misses it.
SessionEnds ==
    /\ bu.ph = "serve"
    /\ cell' = "none" /\ bu' = NoBu
    /\ Stop({bu.id}) \/ UNCHANGED daemon
    /\ UNCHANGED <<rows, pending, off, passes, bounds, history>>

BringUp ==
    \/ Checkout \/ Ledgered \/ Ready \/ Fails \/ Bind \/ Settle \/ SessionEnds
    \/ \E i \in Id : Reattach(i) \/ Create(i)

----------------------------------------------------------------------------
(* An offload: claim and bring-up, tier flip, kill.                        *)

OffClaim ==
    /\ off = "idle" /\ bu.ph = "idle" /\ row.tier = "live" /\ Exists(row.id)
    /\ Run(row.id)
    /\ cell' = "none" /\ off' = "flip"
    /\ UNCHANGED <<rows, pending, bu, passes, bounds, history>>

OffFlip ==
    /\ off = "flip"
    /\ row' = [row EXCEPT !.tier = "offloaded"] /\ off' = "kill"
    /\ UNCHANGED <<daemon, filed, cell, pending, bu, passes, bounds, history>>

\* The kill without waiting for the tier's write.
OffKillEarly ==
    /\ off = "kill"
    /\ Kill(row.id) /\ off' = "idle"
    /\ UNCHANGED <<rows, cell, pending, bu, passes, bounds, history>>

\* set_tier has waited for the write; a write that failed is only logged.  The kill is
\* best effort.
OffKill ==
    /\ off = "kill"
    /\ \/ filed = row /\ Kill(row.id) /\ UNCHANGED <<faults, ahead>>
       \/ filed # row /\ Fault /\ Kill(row.id) /\ Deletes(row.id)
       \/ Fault /\ UNCHANGED <<daemon, ahead>>
    /\ off' = "idle"
    /\ UNCHANGED <<rows, cell, pending, bu, passes, starts, late, mislaid>>

----------------------------------------------------------------------------
(* The pending janitor.                                                    *)

\* The same without a look at the map.
JanitorBlind ==
    /\ janitor.ph = "idle" /\ old
    /\ \/ /\ row.id = ledger /\ Clear /\ UNCHANGED janitor
       \/ /\ row.id # ledger
          /\ janitor' = [ph |-> "ask", id |-> ledger] /\ UNCHANGED <<ledger, old>>
    /\ UNCHANGED <<daemon, rows, cell, saved, bu, off, reaper, purge, sweep, bounds, history>>

\* A stale entry whose VM is bound is settled; with an empty cell in the map a
\* bring-up may be in flight and the entry is left alone.
JanitorCheck ==
    /\ janitor.ph = "idle" /\ old
    /\ \/ /\ row.id = ledger /\ Clear /\ UNCHANGED janitor
       \/ /\ row.id # ledger /\ cell # "empty"
          /\ janitor' = [ph |-> "ask", id |-> ledger] /\ UNCHANGED <<ledger, old>>
    /\ UNCHANGED <<daemon, rows, cell, saved, bu, off, reaper, purge, sweep, bounds, history>>

\* daemon_state: gone, present, or no answer.
JanitorAsk ==
    /\ janitor.ph = "ask"
    /\ \/ /\ janitor' = [janitor EXCEPT !.ph = IF Exists(janitor.id) THEN "kill" ELSE "clear"]
          /\ UNCHANGED faults
       \/ Fault /\ janitor' = [ph |-> "idle", id |-> None]
    /\ UNCHANGED <<daemon, rows, cell, pending, bu, off, reaper, purge, sweep, starts, history>>

\* A kill that fails is retried by the next pass.
JanitorKill ==
    /\ janitor.ph = "kill"
    /\ \/ /\ Kill(janitor.id) /\ Deletes(janitor.id) /\ UNCHANGED faults
          /\ janitor' = [janitor EXCEPT !.ph = "clear"]
       \/ Fault /\ janitor' = [ph |-> "idle", id |-> None] /\ UNCHANGED <<daemon, ahead>>
    /\ UNCHANGED <<rows, cell, pending, bu, off, reaper, purge, sweep, starts, late, mislaid>>

\* The entry of a VM that is gone is kept.
JanitorKeep ==
    /\ janitor.ph = "clear"
    /\ janitor' = [ph |-> "idle", id |-> None]
    /\ UNCHANGED <<daemon, rows, cell, pending, bu, off, reaper, purge, sweep, bounds, history>>

\* clear goes by the schema, whatever the entry names by now.
JanitorClear ==
    /\ janitor.ph = "clear"
    /\ Clear /\ UNCHANGED saved
    /\ janitor' = [ph |-> "idle", id |-> None]
    /\ UNCHANGED <<daemon, rows, cell, bu, off, reaper, purge, sweep, bounds, history>>

Janitor == JanitorCheck \/ JanitorAsk \/ JanitorKill \/ JanitorClear

----------------------------------------------------------------------------
(* The untracked-VM reaper.                                                *)

ReapList ==
    /\ Room /\ reaper.ph = "idle" /\ {i \in Id : record[i] = "running"} # {}
    /\ reaper' = [NoReaper EXCEPT !.ph = "walk", !.suspects = reaper.suspects,
                                  !.todo = {i \in Id : record[i] = "running"},
                                  !.live = IF row.tier = "live" THEN row.id ELSE None]
    /\ UNCHANGED <<daemon, rows, cell, pending, bu, off, janitor, purge, sweep, bounds,
                   history>>

\* A duplicate that some row has moved away from counts even while a cell exists.
Superseded(i) == i # reaper.live /\ row.id \notin {None, i}

\* Untracked without the look at the map.
UntrackedAny(i) == (i = reaper.live \/ Superseded(i)) /\ off = "idle" /\ ledger # i

\* Bound by a live row or superseded, and not in anybody's hands.
Untracked(i) ==
    /\ i = reaper.live \/ Superseded(i)
    /\ cell = "none" \/ Superseded(i)
    /\ off = "idle" /\ ledger # i

\* The first sighting only makes a VM a suspect.
ReapCheck(i) ==
    /\ reaper.ph = "walk" /\ reaper.target = None /\ i \in reaper.todo
    /\ reaper' = [reaper EXCEPT !.todo = @ \ {i},
                                !.seen = IF Untracked(i) THEN @ \cup {i} ELSE @,
                                !.target = IF Untracked(i) /\ i \in reaper.suspects THEN i ELSE @]
    /\ UNCHANGED <<daemon, rows, cell, pending, bu, off, janitor, purge, sweep, bounds,
                   history>>

ReapStop ==
    /\ reaper.target # None
    /\ \/ Stop({reaper.target}) /\ UNCHANGED faults
       \/ Fault /\ UNCHANGED daemon
    /\ reaper' = [reaper EXCEPT !.target = None]
    /\ UNCHANGED <<rows, cell, pending, bu, off, janitor, purge, sweep, starts, history>>

ReapEnd ==
    /\ reaper.ph = "walk" /\ reaper.todo = {} /\ reaper.target = None
    /\ reaper' = [NoReaper EXCEPT !.suspects = reaper.seen]
    /\ UNCHANGED <<daemon, rows, cell, pending, bu, off, janitor, purge, sweep, bounds,
                   history>>

Reaper == ReapList \/ (\E i \in Id : ReapCheck(i)) \/ ReapStop \/ ReapEnd

----------------------------------------------------------------------------
(* The purge, step 1.                                                      *)

\* The rows are read once; the VM of an offloaded one is listed or probed.
PurgeRead ==
    /\ Room /\ purge = None /\ row.tier = "offloaded" /\ Exists(row.id)
    /\ purge' = row.id
    /\ UNCHANGED <<daemon, rows, cell, pending, bu, off, janitor, reaper, sweep, bounds,
                   history>>

PurgeKill ==
    /\ purge # None
    /\ \/ Kill(purge) /\ Deletes(purge) /\ UNCHANGED faults
       \/ Fault /\ UNCHANGED <<daemon, ahead>>
    /\ purge' = None
    /\ UNCHANGED <<rows, cell, pending, bu, off, janitor, reaper, sweep, starts, late, mislaid>>

----------------------------------------------------------------------------
(* The orphan-disk sweep.                                                  *)

\* The rows, the directories that are old enough, then the open files.
SweepBegin ==
    /\ Room /\ sweep.ph = "idle" /\ dir # {}
    /\ sweep' = [NoSweep EXCEPT !.ph = "classify", !.open = proc,
                                !.live = IF row.tier = "live" THEN row.id ELSE None,
                                !.todo = dir \ (IF bu.created THEN {bu.id} ELSE {})]
    /\ UNCHANGED <<daemon, rows, cell, pending, bu, off, janitor, reaper, purge, bounds,
                   history>>

\* Tier and open files do not matter.
ClassifyGone(i) ==
    /\ sweep.ph = "classify" /\ i \in sweep.todo
    /\ sweep' = [sweep EXCEPT !.todo = @ \ {i},
                              !.deletable = IF Exists(i) THEN @ ELSE @ \cup {i}]
    /\ UNCHANGED <<daemon, rows, cell, pending, bu, off, janitor, reaper, purge, bounds,
                   history>>

\* Deletable: not held open, forgotten by the daemon, and not a live row's.
Classify(i) ==
    /\ sweep.ph = "classify" /\ i \in sweep.todo
    /\ \/ /\ UNCHANGED faults
          /\ sweep' = [sweep EXCEPT !.todo = @ \ {i},
                                    !.deletable = IF i \in sweep.open \/ Exists(i)
                                                     \/ i = sweep.live THEN @ ELSE @ \cup {i}]
       \/ Fault /\ sweep' = [sweep EXCEPT !.todo = @ \ {i}]
    /\ UNCHANGED <<daemon, rows, cell, pending, bu, off, janitor, reaper, purge, starts,
                   history>>

\* A new snapshot of the open files before anything is removed.
Refresh ==
    /\ sweep.ph = "classify" /\ sweep.todo = {}
    /\ sweep' = [sweep EXCEPT !.ph = "delete", !.open = proc]
    /\ UNCHANGED <<daemon, rows, cell, pending, bu, off, janitor, reaper, purge, bounds,
                   history>>

\* Held or known again: skip.  Otherwise remove_dir_all, which may fail.  The row is not
\* read again.
Remove(i) ==
    /\ sweep.ph = "delete" /\ i \in sweep.deletable
    /\ sweep' = [sweep EXCEPT !.deletable = @ \ {i}]
    /\ \/ /\ i \notin sweep.open /\ ~Exists(i) /\ dir' = dir \ {i}
          /\ Deletes(i) /\ UNCHANGED faults
       \/ (i \in sweep.open \/ Exists(i)) /\ UNCHANGED <<dir, faults, ahead>>
       \/ Fault /\ UNCHANGED <<dir, ahead>>
    /\ UNCHANGED <<record, proc, rows, cell, pending, bu, off, janitor, reaper, purge,
                   starts, late, mislaid>>

SweepEnd ==
    /\ sweep.ph = "delete" /\ sweep.deletable = {}
    /\ sweep' = NoSweep
    /\ UNCHANGED <<daemon, rows, cell, pending, bu, off, janitor, reaper, purge, bounds,
                   history>>

Sweep == SweepBegin \/ (\E i \in Id : Classify(i) \/ Remove(i)) \/ Refresh \/ SweepEnd

----------------------------------------------------------------------------
(* The surroundings.                                                       *)

\* heyvmd drops a record and leaves the directory; the VM may go on running.
DaemonForgets(i) ==
    /\ Exists(i) /\ Fault
    /\ record' = [record EXCEPT ![i] = "lost"]
    /\ proc' \in {proc, proc \ {i}}
    /\ mislaid' = IF sweep.ph # "idle" /\ sweep.live # i THEN mislaid \cup {i} ELSE mislaid
    /\ UNCHANGED <<dir, rows, cell, pending, bu, off, passes, starts, late, ahead>>

\* A VM the daemon forgot exits: its process is nobody's.
ProcessExits(i) ==
    /\ record[i] = "lost" /\ i \in proc
    /\ proc' = proc \ {i}
    /\ UNCHANGED <<record, dir, rows, cell, pending, bu, off, passes, bounds, history>>

\* The pooler dies; Store::load and init read the two files.
Crash ==
    /\ Fault
    /\ row' = filed
    /\ ledger' = saved /\ old' \in {FALSE, saved # None} /\ UNCHANGED saved
    /\ cell' = "none" /\ bu' = NoBu /\ off' = "idle"
    /\ janitor' = [ph |-> "idle", id |-> None] /\ reaper' = NoReaper
    /\ purge' = None /\ sweep' = NoSweep
    /\ UNCHANGED <<daemon, filed, starts, history>>

Next ==
    \/ Persist \/ PersistRow \/ Age \/ BringUp \/ OffClaim \/ OffFlip \/ OffKill
    \/ Janitor \/ Reaper \/ PurgeRead \/ PurgeKill \/ Sweep
    \/ (\E i \in Id : DaemonForgets(i) \/ ProcessExits(i)) \/ Crash

Spec == Init /\ [][Next]_vars

\* The janitor is a supervised loop; a bring-up and an offload job are bounded by
\* timeouts and come to an end.
FairSpec ==
    /\ Spec
    /\ WF_vars(Janitor) /\ WF_vars(OffFlip \/ OffKill)
    /\ WF_vars(Ledgered \/ Ready \/ Fails \/ Bind \/ Settle \/ \E i \in Id : Reattach(i) \/ Create(i))

----------------------------------------------------------------------------
\* The VM a live row names was not deleted, before or after a restart: neither the
\* janitor nor the purge kills what a bring-up has bound, and an offload job kills once
\* the tier is in the file.  Excepted is a VM bound after a pass had decided
\* (pending_pass, purge_pass), and one deleted before the row that gave it up was written
\* (set_tier's failed write, put's detached one).
LiveNotDeleted ==
    row.tier = "live" => record[row.id] # "gone" \/ row.id \in late \cup ahead

\* sweep_orphans: a live row's "disk is the only copy", and is "never deleted".
LiveDiskSafe == row.tier = "live" => row.id \in dir \/ row.id \in late \cup ahead

\* The disk of a live row is there, also when the daemon has forgotten the VM, a sweep was
\* under way when it was bound, or the pooler restarts on an older row (sweep_orphans).
\* Excepted is a VM that was bound and then forgotten while one sweep ran: by_id is not
\* read again.
LiveDiskKept ==
    row.tier = "live" => row.id \in dir \/ row.id \in late \cup ahead \cup mislaid

\* Nothing stops or deletes the VM of a session, unless it was about to when the
\* bring-up picked or bound that VM (reap_untracked, pending_pass, purge_pass).
ServedUp == bu.ph = "serve" => record[bu.id] \in {"running", "lost"} \/ bu.raced

\* While a created VM is not bound, the ledger's file names it: a crash leaves no nameless
\* VM behind once record has returned.  Excepted is an entry whose write failed and a
\* bring-up that began while the janitor was about to clear an older entry (pending.rs).
InFlightNamed ==
    bu.created /\ bu.named /\ bu.ph \in {"boot", "load"} => saved = bu.id \/ bu.raced

\* ensure_vm's warning when the kill of a created VM fails: "the pending-bringup janitor
\* will retry".  It can only retry what the ledger names.
LeftBehindNamed ==
    [][Fails /\ bu.created /\ record'[bu.id] \in {"running", "stopped"}
           => ledger' = bu.id]_vars

\* With no empty cell left in the map, every entry past its age is resolved
\* (pending_pass).
JanitorDrains == <>[](cell # "empty") => []<>(~old)

\* The module text of pending.rs: the janitor "reaps any entry that outlives
\* `ready_timeout` without gaining a registry binding".
LedgerReaped == old ~> ~old
=============================================================================
