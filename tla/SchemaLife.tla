----------------------------- MODULE SchemaLife -----------------------------
(***************************************************************************)
(* The life of one schema in the pooler: checkouts, the idle reaper and    *)
(* the offload jobs that move its data between a VM's disk, a local dump   *)
(* or image file and S3 (src/src/registry.rs, with the bring-up of         *)
(* src/src/vm.rs and the image tier of src/src/imgarchive.rs).             *)
(*                                                                         *)
(* Data is the set of transactions a copy holds.  A step is what a task    *)
(* runs between two awaits; a cell is the OnceCell a bring-up is shared    *)
(* through, and its entry lives while the map or a holder refers to it.    *)
(* Only one job at a time holds the schema's place in the archiving set.   *)
(* The registry file moves as DurableLog says, which Store implements.     *)
(***************************************************************************)
EXTENDS Naturals, Sequences, FiniteSets

CONSTANTS
    Client,         \* client connections
    NoRow,          \* the registry has no row
    Absent,         \* a file or object that does not exist
    MaxVms,         \* bound: VMs the daemon can create
    Slots,          \* admission slots of one entry
    MaxCommits,     \* bound: transactions
    MaxPending,     \* bound: registry versions waiting to be written
    Anytime,        \* TRUE: a job may start while a checkout is in flight
    Budgets         \* bounds: how often each kind of fault may happen, one choice per behaviour

\* The last one is not spent: without it clients connect one after the other.
Fault == {"boot", "reattach", "jobBoot", "dump", "kill", "undump", "rm", "head",
          "write", "reap", "crash", "overlap"}

ASSUME LifeAssumption ==
    /\ IsFiniteSet(Client)
    /\ MaxVms \in Nat /\ MaxCommits \in Nat
    /\ Slots \in Nat \ {0} /\ MaxPending \in Nat \ {0}
    /\ Anytime \in BOOLEAN
    /\ Budgets \subseteq [Fault -> Nat]

Vm == 1..MaxVms
Cell == 1..(Cardinality(Client) + 1)
Commit == 1..MaxCommits
Data == SUBSET Commit
Copy == {Absent} \cup Data
Tier == {"Live", "Compacted", "Frozen", "Archived"}
Row == [id : Vm, tier : Tier] \cup {NoRow}

ASSUME SpecialValues == NoRow \notin [id : Vm, tier : Tier] /\ \A data \in Data : data # Absent

\* Where a cold start restores from; "none" reattaches.
Restore == {"none", "LocalDump", "LocalImage", "S3Dump", "S3Image"}
Provenance == {"Existing", "Spare", "Created"}

Kind == {"archive", "freeze", "compact", "image", "promoteDump", "promoteImage"}

VARIABLES
    row,        \* the schema's row in memory
    saved,      \* the row in the registry file
    pending,    \* versions of the row stamped since, oldest first
    cur,        \* the schema's cell in SchemaRegistry::entries, 0 if none
    entry,      \* the VM of each initialised cell, 0 if not initialised
    client,     \* the checkout each client runs
    job,        \* the offload job holding the archiving claim
    reaped,     \* the VM reap_idle took out of the map and has yet to stop
    vm,         \* the daemon's sandboxes
    inv,        \* inventory: the id cached for the schema's VM name, 0 if none
    tripped,    \* the bring-up breaker has a failure on record
    dumpFile,   \* local dump
    imageFile,  \* local compacted image
    s3dump,     \* S3 dump object
    s3img,      \* S3 image object
    faults,     \* faults still to come
    truth,      \* history: every transaction committed
    safe        \* history: those a durably recorded live VM has held

registry == <<row, saved, pending>>
map == <<cur, entry, client>>
daemon == <<vm, inv>>
copies == <<dumpFile, imageFile, s3dump, s3img>>
history == <<truth, safe>>
vars == <<registry, map, job, reaped, daemon, tripped, copies, faults, history>>

Idle == [ph |-> "idle", cell |-> 0, known |-> 0, restore |-> "none", vm |-> 0,
         prov |-> "Existing"]

Phase == {"idle", "check", "lookup", "warm", "probe", "evict", "cold", "head",
          "init", "load", "dispose", "cleanup", "unlink", "admit", "serving",
          "broken"}

NoJob == [ph |-> "none", kind |-> "archive", vm |-> 0, wait |-> 0]

JobPhase == {"none", "evict", "boot", "dump", "image", "compact", "undump",
             "promote", "mark", "await", "kill", "rm"}

ClientState == [ph : Phase, cell : Cell \cup {0}, known : Vm \cup {0}, restore : Restore,
                vm : Vm \cup {0}, prov : Provenance]
JobState == [ph : JobPhase, kind : Kind, vm : Vm \cup {0}, wait : Nat]
VmState == [st : {"none", "stopped", "running", "gone"}, data : Data, named : BOOLEAN]

TypeOK ==
    /\ row \in Row /\ saved \in Row /\ pending \in Seq(Row)
    /\ cur \in Cell \cup {0} /\ entry \in [Cell -> Vm \cup {0}]
    /\ client \in [Client -> ClientState] /\ job \in JobState
    /\ reaped \in Vm \cup {0} /\ vm \in [Vm -> VmState]
    /\ inv \in Vm \cup {0} /\ tripped \in BOOLEAN
    /\ dumpFile \in Copy /\ imageFile \in Copy /\ s3dump \in Copy /\ s3img \in Copy
    /\ faults \in [Fault -> Nat]
    /\ truth \in Data /\ safe \in Data

Init ==
    /\ row = NoRow /\ saved = NoRow /\ pending = <<>>
    /\ cur = 0 /\ entry = [k \in Cell |-> 0] /\ client = [c \in Client |-> Idle]
    /\ job = NoJob /\ reaped = 0
    /\ vm = [i \in Vm |-> [st |-> "none", data |-> {}, named |-> FALSE]]
    /\ inv = 0 /\ tripped = FALSE
    /\ dumpFile = Absent /\ imageFile = Absent /\ s3dump = Absent /\ s3img = Absent
    /\ faults \in Budgets
    /\ truth = {} /\ safe = {}

-----------------------------------------------------------------------------
\* Helpers

Spend(f) == faults[f] > 0 /\ faults' = [faults EXCEPT ![f] = @ - 1]
Spent(f) == \A b \in Budgets : faults[f] < b[f]

Move(c, ph) == client' = [client EXCEPT ![c].ph = ph]
Leave(c) == client' = [client EXCEPT ![c] = Idle]

\* An entry is dropped with the last reference to its cell.
Entries(mapped) ==
    entry' = [k \in Cell |-> IF k = mapped \/ \E c \in Client : client'[c].cell = k
                             THEN entry[k] ELSE 0]

Alive(i) == i # 0 /\ vm[i].st \in {"stopped", "running"}
Running(i) == i # 0 /\ vm[i].st = "running"

\* Stopping or killing VM i breaks the sessions on it; cl is what the clients
\* are otherwise.
Broken(cl, i) ==
    [c \in Client |-> IF cl[c].ph = "serving" /\ entry[cl[c].cell] = i
                     THEN [cl[c] EXCEPT !.ph = "broken"] ELSE cl[c]]

Stop(i, cl) ==
    /\ vm' = IF Running(i) THEN [vm EXCEPT ![i].st = "stopped"] ELSE vm
    /\ client' = Broken(cl, i)

Kill(i, cl) ==
    /\ vm' = [vm EXCEPT ![i] = [st |-> "gone", data |-> {}, named |-> FALSE]]
    /\ inv' = IF inv = i THEN 0 ELSE inv
    /\ client' = Broken(cl, i)

Named == {i \in Vm : Alive(i) /\ vm[i].named}

\* Clients that hold a ConnGuard on cell k, and those in the middle of a
\* checkout on it: they touch the entry well within the idle timeout.
Guard == {"probe", "serving", "broken"}
Active(k) == {c \in Client : client[c].cell = k /\ client[c].ph \in Guard}
Recent(k) == {c \in Client : client[c].cell = k /\ client[c].ph \notin Guard}
Initialising(k) == \E c \in Client : client[c].cell = k /\ client[c].ph \in {"load", "dispose"}

\* Store::put and Store::set_tier: change the row and send it to the file.
Stamp(r) ==
    /\ Len(pending) < MaxPending
    /\ row' = r
    /\ pending' = Append(pending, r)
    /\ UNCHANGED saved

Source(restore) ==
    CASE restore = "LocalDump"  -> dumpFile
      [] restore = "LocalImage" -> imageFile
      [] restore = "S3Dump"     -> s3dump
      [] restore = "S3Image"    -> s3img
      [] OTHER                  -> Absent

IsImage(restore) == restore \in {"LocalImage", "S3Image"}

-----------------------------------------------------------------------------
\* checkout

\* Entry: the touch that makes the schema recent for the offload sweep.
Checkout(c) ==
    /\ client[c].ph = "idle"
    /\ faults["overlap"] > 0 \/ \A d \in Client : client[d].ph = "idle"
    /\ Move(c, "check")
    /\ UNCHANGED <<registry, cur, entry, job, reaped, daemon, tripped, copies, faults,
                   history>>

\* The 500 ms poll on the archiving set lets the client through.
Check(c) ==
    /\ client[c].ph = "check"
    /\ job.ph = "none"
    /\ Move(c, "lookup")
    /\ UNCHANGED <<registry, cur, entry, job, reaped, daemon, tripped, copies, faults,
                   history>>

\* A new cell: one that nobody refers to.
Unused == CHOOSE k \in Cell : \A d \in Client : client[d].cell # k

\* Under the map lock: find the schema's cell or insert an empty one.
Lookup(c) ==
    /\ client[c].ph = "lookup"
    /\ LET k == IF cur # 0 THEN cur ELSE Unused
       IN  /\ cur' = k
           /\ client' = [client EXCEPT ![c].cell = k,
                             ![c].ph = IF entry[k] # 0 THEN "warm" ELSE "cold"]
    /\ UNCHANGED <<registry, entry, job, reaped, daemon, tripped, copies, faults, history>>

\* ConnGuard::acquire, on the warm path and after a bring-up, where no probe
\* follows: the session is broken at once if the VM is not up.
Admit(c) ==
    /\ client[c].ph \in {"warm", "admit"}
    /\ Cardinality(Active(client[c].cell)) < Slots
    /\ Move(c, IF client[c].ph = "warm" THEN "probe"
               ELSE IF Running(entry[client[c].cell]) THEN "serving" ELSE "broken")
    /\ UNCHANGED <<registry, cur, entry, job, reaped, daemon, tripped, copies, faults,
                   history>>

\* ... or every slot stays busy for admit_timeout: an error to the client.
AdmitTimeout(c) ==
    /\ client[c].ph \in {"warm", "admit"}
    /\ Cardinality(Active(client[c].cell)) >= Slots
    /\ Leave(c)
    /\ Entries(cur)
    /\ UNCHANGED <<registry, cur, job, reaped, daemon, tripped, copies, faults, history>>

\* entry_alive: only a VM that refuses connections counts as dead.
Probe(c) ==
    /\ client[c].ph = "probe"
    /\ Move(c, IF Running(entry[client[c].cell]) THEN "serving" ELSE "evict")
    /\ UNCHANGED <<registry, cur, entry, job, reaped, daemon, tripped, copies, faults,
                   history>>

\* Mutant of Evict: the dead cell stays in the map.
EvictNothing(c) ==
    /\ client[c].ph = "evict"
    /\ client' = [client EXCEPT ![c] = [Idle EXCEPT !.ph = "check"]]
    /\ Entries(cur)
    /\ UNCHANGED <<registry, cur, job, reaped, daemon, tripped, copies, faults, history>>

\* evict: remove the cell only if it is still the schema's, then start over.
Evict(c) ==
    /\ client[c].ph = "evict"
    /\ cur' = IF cur = client[c].cell THEN 0 ELSE cur
    /\ client' = [client EXCEPT ![c] = [Idle EXCEPT !.ph = "check"]]
    /\ Entries(cur')
    /\ UNCHANGED <<registry, job, reaped, daemon, tripped, copies, faults, history>>

\* Cold path, breaker holding: a fast error.
BreakerHold(c) ==
    /\ client[c].ph = "cold" /\ tripped
    /\ Leave(c)
    /\ Entries(cur)
    /\ UNCHANGED <<registry, cur, job, reaped, daemon, tripped, copies, faults, history>>

\* Mutant of ReadRecord: the Compacted tier is taken for a live one.
ReadRecordOld(c) ==
    /\ client[c].ph = "cold"
    /\ client' = [client EXCEPT
            ![c].known = IF row = NoRow THEN 0 ELSE row.id,
            ![c].restore = IF row # NoRow /\ row.tier = "Frozen" THEN "LocalDump" ELSE "none",
            ![c].ph = IF row # NoRow /\ row.tier = "Archived" THEN "head" ELSE "init"]
    /\ UNCHANGED <<registry, cur, entry, job, reaped, daemon, tripped, copies, faults,
                   history>>

\* Cold path (no failure on record, or the hold is over): read the row.
ReadRecord(c) ==
    /\ client[c].ph = "cold"
    /\ client' = [client EXCEPT
            ![c].known = IF row = NoRow THEN 0 ELSE row.id,
            ![c].restore = IF row = NoRow THEN "none"
                           ELSE CASE row.tier = "Frozen" -> "LocalDump"
                                  [] row.tier = "Compacted" -> "LocalImage"
                                  [] OTHER -> "none",
            ![c].ph = IF row # NoRow /\ row.tier = "Archived" THEN "head" ELSE "init"]
    /\ UNCHANGED <<registry, cur, entry, job, reaped, daemon, tripped, copies, faults,
                   history>>

\* choose_restore: the dump if its HEAD found one, else the image if there is
\* one, else the dump path, whose preflight then fails with the right words.
choose_restore(dump, image) ==
    IF ~dump /\ image THEN "S3Image" ELSE "S3Dump"

\* pick_restore with both HEADs answered.
PickRestore(c) ==
    /\ client[c].ph = "head"
    /\ client' = [client EXCEPT
            ![c].restore = choose_restore(s3dump # Absent, s3img # Absent), ![c].ph = "init"]
    /\ UNCHANGED <<registry, cur, entry, job, reaped, daemon, tripped, copies, faults,
                   history>>

\* pick_restore when one of the HEADs fails: len_of takes it for absent.
PickRestoreError(c) ==
    /\ client[c].ph = "head"
    /\ Spend("head")
    /\ \E source \in {choose_restore(FALSE, s3img # Absent),
                      choose_restore(s3dump # Absent, FALSE)} :
           client' = [client EXCEPT ![c].restore = source, ![c].ph = "init"]
    /\ UNCHANGED <<registry, cur, entry, job, reaped, daemon, tripped, copies, history>>

-----------------------------------------------------------------------------
\* ensure_vm and resolve_sandbox

Fresh == {i \in Vm : vm[i].st = "none" /\ \A j \in Vm : j < i => vm[j].st # "none"}

\* The schema's VM found by name: the inventory's cached id if it still
\* answers, else what the daemon lists.
ByName == IF Alive(inv) THEN {inv} ELSE Named

New(spares) ==
    {[id |-> i, prov |-> p] : i \in Fresh,
                              p \in IF spares THEN {"Spare", "Created"} ELSE {"Created"}}

\* resolve_sandbox steps 2 to 4.
FindOrCreate(spares) ==
    IF ByName # {} THEN {[id |-> i, prov |-> "Existing"] : i \in ByName} ELSE New(spares)

\* resolve_sandbox: by id first, by name or a new VM when the id is gone.
resolve_sandbox(known, spares) ==
    IF Alive(known) THEN {[id |-> known, prov |-> "Existing"]} ELSE FindOrCreate(spares)

\* VM r is started or created, holding data unless it exists already.
Boot(r, data) ==
    /\ vm' = [vm EXCEPT ![r.id] =
                IF r.prov = "Existing" THEN [@ EXCEPT !.st = "running"]
                ELSE [st |-> "running", data |-> data, named |-> r.prov = "Created"]]
    /\ inv' = IF r.prov # "Spare" THEN r.id ELSE IF Alive(inv) THEN inv ELSE 0

\* Client c runs the initialiser of its cell and got VM r.
Resolved(c, r, data) ==
    /\ Boot(r, data)
    /\ client' = [client EXCEPT ![c].vm = r.id, ![c].prov = r.prov, ![c].ph = "load"]

CanInit(c) ==
    /\ client[c].ph = "init"
    /\ entry[client[c].cell] = 0 /\ ~Initialising(client[c].cell)

\* A restore never uses the recorded id; a dump is loaded into whatever VM
\* resolve_sandbox finds.
Resolve(c) ==
    /\ CanInit(c) /\ ~IsImage(client[c].restore)
    /\ LET known == IF client[c].restore = "none" THEN client[c].known ELSE 0
       IN  \E r \in resolve_sandbox(known, TRUE) : Resolved(c, r, {})
    /\ UNCHANGED <<registry, cur, entry, job, reaped, tripped, copies, faults, history>>

\* The known VM fails to start or to get ready in time: the error is logged
\* and resolution goes on as if the VM were gone.
ReattachError(c) ==
    /\ CanInit(c) /\ client[c].restore = "none" /\ Alive(client[c].known)
    /\ Spend("reattach")
    /\ \E r \in FindOrCreate(TRUE) : Resolved(c, r, {})
    /\ UNCHANGED <<registry, cur, entry, job, reaped, tripped, copies, history>>

\* materialize_from_image and its local twin: a spare or a new VM boots on
\* the image.
Materialize(c) ==
    /\ CanInit(c) /\ IsImage(client[c].restore)
    /\ Source(client[c].restore) # Absent
    /\ \E r \in New(TRUE) : Resolved(c, r, Source(client[c].restore))
    /\ UNCHANGED <<registry, cur, entry, job, reaped, tripped, copies, faults, history>>

\* No VM could be had, the image to restore is missing, or the daemon fails.
ResolveFail(c) ==
    /\ CanInit(c)
    /\ \/ IsImage(client[c].restore) /\ (Source(client[c].restore) = Absent \/ Fresh = {})
          /\ UNCHANGED faults
       \/ ~IsImage(client[c].restore) /\ ByName = {} /\ Fresh = {}
          /\ ~(client[c].restore = "none" /\ Alive(client[c].known))
          /\ UNCHANGED faults
       \/ Spend("boot")
    /\ Move(c, "cleanup")
    /\ UNCHANGED <<registry, cur, entry, job, reaped, daemon, tripped, copies, history>>

\* Store::put of the cell's VM; an unchanged live row is only bumped.
Put(i) ==
    LET r == [id |-> i, tier |-> "Live"]
    IN  IF row = r THEN UNCHANGED registry ELSE Stamp(r)

\* Postgres answers and the dump, if any, is loaded over what is there: the
\* entry is published to everyone waiting on the cell and the row is written.
Load(c) ==
    /\ client[c].ph = "load" /\ Running(client[c].vm)
    /\ \/ client[c].restore \in {"LocalDump", "S3Dump"}
          /\ Source(client[c].restore) # Absent
          /\ vm' = [vm EXCEPT ![client[c].vm].data = Source(client[c].restore)]
       \/ client[c].restore \notin {"LocalDump", "S3Dump"}
          /\ UNCHANGED vm
    /\ entry' = [entry EXCEPT ![client[c].cell] = client[c].vm]
    /\ Put(client[c].vm)
    /\ Move(c, "unlink")
    /\ UNCHANGED <<cur, job, reaped, inv, tripped, copies, faults, history>>

\* The bring-up fails: the VM went away, the dump is missing, or a timeout.
BringupFail(c) ==
    /\ client[c].ph = "load"
    /\ \/ /\ \/ ~Running(client[c].vm)
             \/ client[c].restore \in {"LocalDump", "S3Dump"}
                /\ Source(client[c].restore) = Absent
          /\ UNCHANGED faults
       \/ Spend("boot")
    /\ Move(c, IF client[c].prov = "Existing" THEN "cleanup" ELSE "dispose")
    /\ UNCHANGED <<registry, cur, entry, job, reaped, daemon, tripped, copies, history>>

\* A VM this attempt created or claimed is killed.  The cell is free for the
\* next waiter once ensure_vm returns.
Dispose(c) ==
    /\ client[c].ph = "dispose"
    /\ Kill(client[c].vm, [client EXCEPT ![c].ph = "cleanup"])
    /\ UNCHANGED <<registry, cur, entry, job, reaped, tripped, copies, faults, history>>

\* ... unless the kill fails too.
DisposeFail(c) ==
    /\ client[c].ph = "dispose"
    /\ Spend("kill")
    /\ inv' = IF inv = client[c].vm THEN 0 ELSE inv
    /\ Move(c, "cleanup")
    /\ UNCHANGED <<registry, cur, entry, job, reaped, vm, tripped, copies, history>>

\* The VM stop_after_failed_bringup stops: the recorded one, else one found
\* by name.
Leaked(known) == IF known # 0 THEN {known} ELSE IF Named = {} THEN {0} ELSE Named

\* stop_after_failed_bringup, whose lookup by name the inventory absorbs; then
\* the breaker records the failure.
Cleanup(c) ==
    /\ client[c].ph = "cleanup"
    /\ \E i \in Leaked(client[c].known) : Stop(i, [client EXCEPT ![c] = Idle])
    /\ inv' \in IF client[c].known = 0 /\ Named # {} THEN Named ELSE {inv}
    /\ tripped' = TRUE
    /\ Entries(cur)
    /\ UNCHANGED <<registry, cur, job, reaped, copies, faults, history>>

\* Another caller's bring-up served this cell.
Join(c) ==
    /\ client[c].ph = "init" /\ entry[client[c].cell] # 0
    /\ Put(entry[client[c].cell])
    /\ Move(c, "unlink")
    /\ UNCHANGED <<cur, entry, job, reaped, daemon, tripped, copies, faults, history>>

\* The file the schema was thawed from is removed, or the removal fails with a
\* warning; the breaker is cleared.
Unlink(c) ==
    /\ client[c].ph = "unlink"
    /\ \/ /\ dumpFile' = IF client[c].restore = "LocalDump" THEN Absent ELSE dumpFile
          /\ imageFile' = IF client[c].restore = "LocalImage" THEN Absent ELSE imageFile
          /\ UNCHANGED faults
       \/ /\ client[c].restore \in {"LocalDump", "LocalImage"}
          /\ Spend("rm")
          /\ UNCHANGED <<dumpFile, imageFile>>
    /\ tripped' = FALSE
    /\ client' = [client EXCEPT ![c] = [Idle EXCEPT !.ph = "admit", !.cell = client[c].cell]]
    /\ UNCHANGED <<registry, cur, entry, job, reaped, daemon, s3dump, s3img, history>>

-----------------------------------------------------------------------------
\* Sessions

\* What a durably recorded live VM holds.
Held(r, v) == IF r # NoRow /\ r.tier = "Live" THEN v[r.id].data ELSE {}

\* A transaction commits in the session's VM.
CommitTx(c) ==
    /\ client[c].ph = "serving"
    /\ LET i == entry[client[c].cell]
       IN  \E n \in Commit :
               /\ n = Cardinality(truth) + 1
               /\ vm' = [vm EXCEPT ![i].data = @ \cup {n}]
               /\ truth' = truth \cup {n}
    /\ safe' = safe \cup Held(saved, vm')
    /\ UNCHANGED <<registry, map, job, reaped, inv, tripped, copies, faults>>

\* The client disconnects: ConnGuard is dropped.
EndSession(c) ==
    /\ client[c].ph \in {"serving", "broken"}
    /\ Leave(c)
    /\ Entries(cur)
    /\ UNCHANGED <<registry, cur, job, reaped, daemon, tripped, copies, faults, history>>

-----------------------------------------------------------------------------
\* reap_idle

\* Mutant of ReapEvict: sessions are not looked at.
ReapBusy ==
    /\ reaped = 0 /\ Spend("reap")
    /\ cur # 0 /\ entry[cur] # 0
    /\ Recent(cur) = {}
    /\ reaped' = entry[cur]
    /\ cur' = 0
    /\ UNCHANGED client
    /\ Entries(cur')
    /\ UNCHANGED <<registry, job, daemon, tripped, copies, history>>

\* Under the map lock: an entry idle for the whole timeout leaves the map.
ReapEvict ==
    /\ reaped = 0 /\ Spend("reap")
    /\ cur # 0 /\ entry[cur] # 0
    /\ Active(cur) = {} /\ Recent(cur) = {}
    /\ reaped' = entry[cur]
    /\ cur' = 0
    /\ UNCHANGED client
    /\ Entries(cur')
    /\ UNCHANGED <<registry, job, daemon, tripped, copies, history>>

\* Later, when its turn comes: checkpoint_and_stop.
ReapStop ==
    /\ reaped # 0
    /\ Stop(reaped, client)
    /\ reaped' = 0
    /\ UNCHANGED <<registry, cur, entry, job, inv, tripped, copies, faults, history>>

-----------------------------------------------------------------------------
\* Offload jobs: archive_schema, freeze_schema, compact_schema,
\* archive_schema_as_image and the two promotions.

InFlight == {c \in Client : client[c].ph \notin {"idle", "serving", "broken"}}

\* The tier check and ArchivingGuard::claim.  A sweep only picks schemas that
\* were not checked out for hours.
JobClaim(kind) ==
    /\ job.ph = "none" /\ row # NoRow
    /\ Anytime \/ InFlight = {}
    /\ row.tier = CASE kind = "promoteDump"  -> "Frozen"
                    [] kind = "promoteImage" -> "Compacted"
                    [] OTHER                 -> "Live"
    /\ job' = [NoJob EXCEPT !.kind = kind,
                   !.ph = IF kind \in {"promoteDump", "promoteImage"} THEN "promote" ELSE "evict"]
    /\ UNCHANGED <<registry, map, reaped, daemon, tripped, copies, faults, history>>

\* The schema is in use; compact_schema wants the VM stopped already.
Refused ==
    /\ cur # 0 /\ entry[cur] # 0
    /\ Active(cur) # {} \/ job.kind = "compact"

\* Under the map lock: refuse a schema in use, else drop its cell; the image
\* job stops the VM as well.
JobEvict ==
    /\ job.ph = "evict" /\ ~Refused
    /\ cur' = 0
    /\ IF job.kind = "image" THEN Stop(row.id, client) ELSE UNCHANGED <<vm, client>>
    /\ Entries(cur')
    /\ job' = [job EXCEPT !.vm = row.id,
                   !.ph = CASE job.kind = "compact" -> "compact"
                            [] job.kind = "image" -> "image"
                            [] OTHER -> "boot"]
    /\ UNCHANGED <<registry, reaped, inv, tripped, copies, faults, history>>

\* Mutant of JobRefuse: the early return keeps the claim.
JobRefuseHeld ==
    /\ job.ph = "evict" /\ Refused
    /\ job' = [job EXCEPT !.vm = row.id]
    /\ UNCHANGED <<registry, map, reaped, daemon, tripped, copies, faults, history>>

\* ... the early return, which drops the claim.
JobRefuse ==
    /\ job.ph = "evict" /\ Refused
    /\ job' = NoJob
    /\ UNCHANGED <<registry, map, reaped, daemon, tripped, copies, faults, history>>

\* ensure_vm without spares: start the VM whose data is to be dumped.
JobBoot ==
    /\ job.ph = "boot"
    /\ \E r \in resolve_sandbox(job.vm, FALSE) :
           /\ Boot(r, {})
           /\ job' = [job EXCEPT !.vm = r.id, !.ph = "dump"]
    /\ UNCHANGED <<registry, map, reaped, tripped, copies, faults, history>>

\* The same fall-through as for a client: the recorded VM does not come up, and
\* the one found by name, or a new one, is dumped instead.
JobReattachError ==
    /\ job.ph = "boot" /\ Alive(job.vm)
    /\ Spend("reattach")
    /\ \E r \in FindOrCreate(FALSE) :
           /\ Boot(r, {})
           /\ job' = [job EXCEPT !.vm = r.id, !.ph = "dump"]
    /\ UNCHANGED <<registry, map, reaped, tripped, copies, history>>

\* The bring-up fails: stop the VM; archive goes on with its disk image.
JobBootFail ==
    /\ job.ph = "boot"
    /\ \/ Spend("jobBoot")
       \/ resolve_sandbox(job.vm, FALSE) = {} /\ UNCHANGED faults
    /\ Stop(job.vm, client)
    /\ job' = IF job.kind = "archive" THEN [job EXCEPT !.ph = "image"] ELSE NoJob
    /\ UNCHANGED <<registry, cur, entry, reaped, inv, tripped, copies, history>>

\* dump_to_s3 (staged in the local dump file, then removed) or dump_to_local.
JobDump ==
    /\ job.ph = "dump" /\ Running(job.vm)
    /\ IF job.kind = "archive"
       THEN s3dump' = vm[job.vm].data /\ dumpFile' = Absent
       ELSE dumpFile' = vm[job.vm].data /\ UNCHANGED s3dump
    /\ job' = [job EXCEPT !.ph = "mark"]
    /\ UNCHANGED <<registry, map, reaped, daemon, tripped, imageFile, s3img, faults, history>>

\* A failed dump stops the VM it booted; archive falls back to the image.  A dump
\* that could not be verified may be in place all the same.
JobDumpFail ==
    /\ job.ph = "dump"
    /\ \/ /\ Spend("dump")
          /\ IF job.kind = "archive"
             THEN s3dump' \in {s3dump, vm[job.vm].data} /\ UNCHANGED dumpFile
             ELSE dumpFile' \in {dumpFile, vm[job.vm].data} /\ UNCHANGED s3dump
       \/ ~Running(job.vm) /\ UNCHANGED <<faults, dumpFile, s3dump>>
    /\ Stop(job.vm, client)
    /\ job' = IF job.kind = "archive" THEN [job EXCEPT !.ph = "image"] ELSE NoJob
    /\ UNCHANGED <<registry, cur, entry, reaped, inv, tripped, imageFile, s3img, history>>

\* archive_disk: the stopped VM's disk is uploaded as an image ...
JobImage ==
    /\ job.ph = "image" /\ Alive(job.vm) /\ ~Running(job.vm)
    /\ s3img' = vm[job.vm].data
    /\ job' = [job EXCEPT !.ph = "undump"]
    /\ UNCHANGED <<registry, map, reaped, daemon, tripped, dumpFile, imageFile, s3dump,
                   faults, history>>

\* Mutant of JobUndump: the stale dump stays.
JobKeepDump ==
    /\ job.ph = "undump"
    /\ job' = [job EXCEPT !.ph = "mark"]
    /\ UNCHANGED <<registry, map, reaped, daemon, tripped, copies, faults, history>>

\* ... then a dump left at the schema's key is deleted, lest it shadow it.
JobUndump ==
    /\ job.ph = "undump"
    /\ s3dump' = Absent
    /\ job' = [job EXCEPT !.ph = "mark"]
    /\ UNCHANGED <<registry, map, reaped, daemon, tripped, dumpFile, imageFile, s3img,
                   faults, history>>

\* compact_disk: the same, into a local file.
JobCompact ==
    /\ job.ph = "compact" /\ Alive(job.vm) /\ ~Running(job.vm)
    /\ imageFile' = vm[job.vm].data
    /\ job' = [job EXCEPT !.ph = "mark"]
    /\ UNCHANGED <<registry, map, reaped, daemon, tripped, dumpFile, s3dump, s3img, faults,
                   history>>

\* archive_frozen_schema checks the tier again; archive_compacted_schema does
\* not.
JobPromote ==
    /\ job.ph = "promote"
    /\ \/ /\ job.kind = "promoteDump" /\ row.tier = "Frozen" /\ dumpFile # Absent
          /\ s3dump' = dumpFile
          /\ job' = [job EXCEPT !.ph = "mark"]
          /\ UNCHANGED s3img
       \/ /\ job.kind = "promoteImage" /\ imageFile # Absent
          /\ s3img' = imageFile
          /\ job' = [job EXCEPT !.ph = "undump"]
          /\ UNCHANGED s3dump
    /\ UNCHANGED <<registry, map, reaped, daemon, tripped, dumpFile, imageFile, faults,
                   history>>

\* The step fails and the job ends: the disk is in use or gone, the file is
\* not there, the tier changed, or the transfer broke (before the object is
\* replaced; one that is replaced and then fails is at the undump step).
JobStepFail ==
    /\ \/ job.ph \in {"image", "compact"} /\ ~(Alive(job.vm) /\ ~Running(job.vm))
          /\ UNCHANGED faults
       \/ job.ph = "promote" /\ job.kind = "promoteDump"
          /\ (row.tier # "Frozen" \/ dumpFile = Absent) /\ UNCHANGED faults
       \/ job.ph = "promote" /\ job.kind = "promoteImage" /\ imageFile = Absent
          /\ UNCHANGED faults
       \/ job.ph \in {"image", "compact", "promote"} /\ Spend("dump")
       \/ job.ph = "undump" /\ Spend("undump")
    /\ job' = NoJob
    /\ UNCHANGED <<registry, map, reaped, daemon, tripped, copies, history>>

JobTier ==
    CASE job.kind = "freeze"  -> "Frozen"
      [] job.kind = "compact" -> "Compacted"
      [] OTHER                -> "Archived"

\* set_tier, in memory; the caller waits for its version to be written.
JobMark ==
    /\ job.ph = "mark"
    /\ Stamp([row EXCEPT !.tier = JobTier])
    /\ job' = [job EXCEPT !.ph = "await", !.wait = Len(pending')]
    /\ UNCHANGED <<map, reaped, daemon, tripped, copies, faults, history>>

\* Mutant of JobAwait: nobody waits for the write.
JobNoWait ==
    /\ job.ph = "await"
    /\ job' = [job EXCEPT !.wait = 0,
                   !.ph = IF job.kind \in {"promoteDump", "promoteImage"} THEN "rm" ELSE "kill"]
    /\ UNCHANGED <<registry, map, reaped, daemon, tripped, copies, faults, history>>

\* ... and goes on once it is.
JobAwait ==
    /\ job.ph = "await" /\ job.wait = 0
    /\ job' = [job EXCEPT !.ph = IF job.kind \in {"promoteDump", "promoteImage"}
                                 THEN "rm" ELSE "kill"]
    /\ UNCHANGED <<registry, map, reaped, daemon, tripped, copies, faults, history>>

\* The write failed: it is logged, and set_tier returns all the same.
JobAwaitFail ==
    /\ job.ph = "await" /\ job.wait > 0
    /\ Spend("write")
    /\ job' = [job EXCEPT !.wait = 0]
    /\ UNCHANGED <<registry, map, reaped, daemon, tripped, copies, history>>

\* kill_and_reclaim, and the claim is released.
JobKill ==
    /\ job.ph = "kill"
    /\ Kill(job.vm, client)
    /\ job' = NoJob
    /\ UNCHANGED <<registry, cur, entry, reaped, tripped, copies, faults, history>>

JobKillFail ==
    /\ job.ph = "kill"
    /\ Spend("kill")
    /\ job' = NoJob
    /\ UNCHANGED <<registry, map, reaped, daemon, tripped, copies, history>>

\* A promotion removes the local file, or fails to and warns.
JobRm ==
    /\ job.ph = "rm"
    /\ \/ /\ dumpFile' = IF job.kind = "promoteDump" THEN Absent ELSE dumpFile
          /\ imageFile' = IF job.kind = "promoteImage" THEN Absent ELSE imageFile
          /\ UNCHANGED faults
       \/ /\ Spend("rm")
          /\ UNCHANGED <<dumpFile, imageFile>>
    /\ job' = NoJob
    /\ UNCHANGED <<registry, map, reaped, daemon, tripped, s3dump, s3img, history>>

-----------------------------------------------------------------------------
\* The registry file catches up with the i-th waiting version.
Persist ==
    \E i \in 1..Len(pending) :
        /\ saved' = pending[i]
        /\ pending' = SubSeq(pending, i + 1, Len(pending))
        /\ job' = [job EXCEPT !.wait = IF @ > i THEN @ - i ELSE 0]
        /\ safe' = safe \cup Held(saved', vm)
        /\ UNCHANGED <<row, map, reaped, daemon, tripped, copies, faults, truth>>

\* The pooler dies and starts again; VMs, files and objects outlive it.
Crash ==
    /\ Spend("crash")
    /\ row' = saved /\ pending' = <<>>
    /\ cur' = 0 /\ client' = [c \in Client |-> Idle] /\ entry' = [k \in Cell |-> 0]
    /\ job' = NoJob /\ reaped' = 0 /\ inv' = 0 /\ tripped' = FALSE
    /\ UNCHANGED <<saved, vm, copies, history>>

-----------------------------------------------------------------------------
BringupStep(c) ==
    \/ ReadRecord(c) \/ PickRestore(c) \/ Resolve(c) \/ Materialize(c) \/ ResolveFail(c)
    \/ Load(c) \/ BringupFail(c) \/ Dispose(c) \/ Cleanup(c) \/ Join(c) \/ Unlink(c)

ClientStep(c) ==
    \/ Lookup(c) \/ Admit(c) \/ AdmitTimeout(c) \/ Probe(c) \/ Evict(c) \/ BringupStep(c)

JobStep ==
    \/ JobEvict \/ JobRefuse \/ JobBoot \/ JobBootFail \/ JobDump \/ JobDumpFail \/ JobImage
    \/ JobUndump \/ JobCompact \/ JobPromote \/ JobStepFail \/ JobMark \/ JobAwait \/ JobKill
    \/ JobRm

Next ==
    \/ \E c \in Client :
           \/ Checkout(c) \/ Check(c) \/ ClientStep(c) \/ BreakerHold(c)
           \/ PickRestoreError(c) \/ ReattachError(c) \/ DisposeFail(c)
           \/ CommitTx(c) \/ EndSession(c)
    \/ ReapEvict \/ ReapStop
    \/ \E kind \in Kind : JobClaim(kind)
    \/ JobStep \/ JobReattachError \/ JobAwaitFail \/ JobKillFail
    \/ Persist \/ Crash

Spec == Init /\ [][Next]_vars

\* Every task the runtime holds goes on (timeouts end the waits inside them)
\* and the write tasks run; the 500 ms poll of a waiting client is certain to
\* fall, sooner or later, between two jobs, whose retries are minutes apart.
Fairness ==
    /\ \A c \in Client : WF_vars(ClientStep(c)) /\ SF_vars(Check(c))
    /\ WF_vars(JobStep) /\ WF_vars(ReapStop) /\ WF_vars(Persist)

FairSpec == Spec /\ Fairness

-----------------------------------------------------------------------------
\* What the data tier named by row r leads to.
Reached(r) ==
    IF r = NoRow THEN {}
    ELSE LET copy == CASE r.tier = "Live" -> IF Alive(r.id) THEN vm[r.id].data ELSE Absent
                       [] r.tier = "Frozen" -> dumpFile
                       [] r.tier = "Compacted" -> imageFile
                       [] OTHER -> IF s3dump # Absent THEN s3dump ELSE s3img
         IN  IF copy = Absent THEN {} ELSE copy

\* RowReachesData: at every moment the schema's row leads to a copy with every
\* transaction ever committed, whichever checkout, job or reaper is between
\* which of its steps.
RowReachesData == truth \subseteq Reached(row)

\* ServedNewest: a session is only ever given a database that holds every
\* transaction committed before, in whatever session.
ServedNewest ==
    \A c \in Client : client[c].ph = "serving" => truth \subseteq vm[entry[client[c].cell]].data

\* NothingDurableLost: once a transaction's VM is on record in the registry
\* file, some single copy keeps all such transactions, through every crash; the
\* exceptions are a registry write or a reattach that failed, or a HEAD.
NothingDurableLost ==
    \/ \E f \in {"write", "reattach", "head"} : Spent(f)
    \/ \E copy \in {vm[i].data : i \in Vm} \cup {dumpFile, imageFile, s3dump, s3img} :
           copy # Absent /\ safe \subseteq copy

\* RestartReachesData, as checkout says when it removes a thawed schema's local file ("the
\* row is durably live"): a restart at this moment would find, through the row in the
\* file, every transaction it has once recorded the VM of.
RestartReachesData == safe \subseteq Reached(saved)

\* ServedRunning, as ConnGuard says ("the reaper never stops a VM with (or that just had) a
\* live connection"): nobody stops or deletes a VM under a session.
ServedRunning ==
    \A c \in Client : client[c].ph # "broken"

\* SessionTracked: a live session is on the cell the map holds: the reaper and
\* the jobs look for sessions nowhere else before they stop or dump the VM.
SessionTracked ==
    \A c \in Client : client[c].ph = "serving" => client[c].cell = cur

\* CheckoutEnds: every checkout ends, in a session or in an error, even when
\* it has to wait for an offload.
CheckoutEnds ==
    \A c \in Client : client[c].ph = "check" ~> client[c].ph \in {"serving", "broken", "idle"}

\* ClaimReleased: every claim of the archiving set is released.
ClaimReleased == job.ph # "none" ~> job.ph = "none"
=============================================================================
