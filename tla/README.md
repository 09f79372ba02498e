# pg-fc in TLA+

pg-fc is a Postgres connection pooler that gives every schema a microVM of its
own. A client connects, the pooler finds or boots the schema's VM, and splices
the connection to it. Idle VMs are stopped; schemas idle for longer are
*offloaded*: their data goes to a local dump, a local compressed disk image or
S3, and the VM is deleted. The next connection brings the data back.

The question this project asks is the one the code is written around: **does a
client ever get a database that lacks something it committed, and can any order
of clients, reaper, offload jobs, failures and restarts lose data or block?**

All paths below are under `src/src/`.

## 1. The system

| Component | State it keeps | Operations | Correct when |
|---|---|---|---|
| Registry store, `store.rs` | map schema -> (VM id, last use, tier), generation counters, dirty flag, the file | `put`, `touch`, `set_tier`, `adopt_archived`, `flush_dirty`, the write task, `load` | the file never goes back, an awaited change is durable, a restart reads what memory held |
| Bound-id cache, `store.rs` | set of bound VM ids under a second mutex | `bound_ids`, invalidation in `put` and `adopt_archived` | the set is never stale, the two mutexes never block each other |
| Checkout, `registry.rs` | map schema -> OnceCell -> entry, connection counts, admission slots, bring-up breaker | `checkout`, `evict`, `ConnGuard` | a session gets the newest data; every checkout ends |
| Idle reaper, `registry.rs` | victims evicted and not yet stopped | `reap_idle` | no VM is stopped under a session |
| VM bring-up, `vm.rs`, `inventory.rs` | the daemon's VMs, name -> id cache | `ensure_vm`, `resolve_sandbox`, `stop_after_failed_bringup` | no second, empty VM for a schema that has data |
| Offload jobs, `registry.rs`, `vm.rs`, `imgarchive.rs` | archiving set, local files, S3 objects | `archive_schema`, `freeze_schema`, `compact_schema`, `archive_schema_as_image`, the promotions | data is complete somewhere the row leads to, before the VM is deleted |
| Offload scheduling, `registry.rs` | jobs in flight, per-schema back-off, pacer's hold, sweep flags | `offloader`, `pressure_pass`, `offload_drain_loop`, `pick_offload_job`, the archive sweep | a schema has one job, a dispatcher boots one VM at a time, the backlog runs dry |
| Pending ledger, `pending.rs` | schema -> VM id of an unfinished bring-up, on disk | `record`, `clear`, `pending_pass` | a stranded VM is deleted, a live bring-up never is |
| Untracked reaper and purge, `registry.rs` | suspects of the previous pass | `reap_untracked`, `purge_pass` | nothing bound or in use is stopped or killed |
| Orphan sweep, `registry.rs`, `orphans.rs` | single-flight flag | `sweep_orphans` | only disks of VMs the daemon has forgotten are deleted |
| Warm spares, `spares.rs` | shelf, claimed ids, sick ids | `take`, `release_failed`, `replenish` | one spare serves at most one schema, a used one never returns |
| Reclaim gate, `reclaim.rs` | gate, per-disk file locks, waiting boots, stop file | `boot_permit`, `run_once`, `bringup_slot` | no boot on a disk being trimmed, no boot starved by a pass |
| Dump server, `dumpsrv.rs`, `vm.rs` | tokens, pending and completed uploads, the guest's job | PUT, commit, abort, the pooler's wait | a torn or another attempt's upload is never taken for this dump |
| Image tier and S3 client, `imgarchive.rs`, `s3.rs` | spool files, scratch files, objects, multipart uploads | `archive_disk`, `compact_disk`, `promote_compact`, the two materialise functions | the newest data is whole where the row says, nothing is left behind |
| Boot readiness, `vm.rs` | the guest as probed | `wait_ready_within`, `ready_pg`, `power_cycle`, `restore_from_s3` | what is served was loaded to the end; a slow VM is not restarted |
| Dedicated databases and front end, `dedicated.rs`, `auth.rs`, `main.rs` | credentials in memory and in a file | `create`, `remove`, `challenge_password`, `authorize` | a credential survives restarts, a password opens its own database only |
| Alerts, `dashboard/alerts.rs` | rules, which of them fire, failed health checks | the four edits, `evaluate`, `deliver` | an endpoint knows the state of its rule |
| Configuration, events, dashboard pages, load test | - | - | I/O and presentation |

**Interactions.** Every connection is a tokio task running `checkout`; bring-ups
of one schema are shared through the schema's `OnceCell`. The reaper, the
offload workers and the sweeps are tasks of their own. They meet in four places:
the entries map (an async mutex, held briefly), the archiving set (a claim
checked by checkouts at one point only), the registry row, and the VM itself,
which anyone holding its id may stop or kill. The store hands file writes to the
blocking pool, where they run in any order.

**What is hard.** (a) Steps of a checkout, a job and the reaper interleave at
every await; values read before one (row, restore source, entry) are used after
it. (b) Whether a row is durable is decided elsewhere than where it matters.
(c) Each multi-step operation (upload, delete the stale copy, flip the tier,
kill) may stop half way, by an error or a crash. (d) Clients wait: on a job, on
another client's bring-up, on a slot. `PROJECT.json` lists these as hazards, line
by line.

## 2. Modules

| Module | Models | Composed with |
|---|---|---|
| `DurableLog` | abstract contract of the registry file: a durable version, versions pending after it, forward only | implemented by `Store` |
| `Store` | `store.rs`, all of it but the lock order | `INSTANCE DurableLog` (`Implements`) |
| `StoreProofs` | the inductive invariant of `Store` and the theorems | extends `Store` |
| `StoreLocks` | the mutexes `map` and `bound_cache` | - |
| `SchemaLife` | one schema: checkouts, bring-up, reaper, jobs, copies, crash | its registry steps are those of `DurableLog` |
| `SchemaLifeProofs` | its inductive invariant and the theorems | extends `SchemaLife` |
| `Offload`, `OffloadProofs` | which schema is offloaded, when and by whom; theorems | - |
| `Fleet`, `FleetProofs` | the VMs of a schema, the ledger, janitor, reaper, purge, orphan sweep; theorems | - |
| `Spares`, `SparesProofs` | the pool of warm spares; theorems | - |
| `Reclaim`, `ReclaimProofs` | boots against reclaim passes; theorems | - |
| `DumpServer` | one schema's dump from the guest to a trusted copy | what `SchemaLife` takes as one step of a job |
| `ImageMove` | a disk on its way to S3 or a local image, and back | what `SchemaLife` takes as one step of a job or a bring-up |
| `BootReady` | from a start command to a served VM | what `SchemaLife` takes as the step `Load` |
| `Dedicated` | credentials, and the connections that read them | - |
| `Alerts` | alert rules and their evaluator | - |
| `Limits`, `LimitsProofs` | back-off, device growth, admission slots as functions; theorems | - |
| `Components` | six components with small state spaces side by side, each by itself | `INSTANCE`s of `StoreLocks`, `DumpServer`, `Dedicated`, `ImageMove`, `BootReady`, `Alerts` |
| `PartsProofs` | the invariants of these six and the theorems | extends `Components` |
| the other `MC...` modules | constants and symmetry sets for TLC | - |

The first two levels meet in `DurableLog`: `Store` is proved to implement it, and the registry steps of
`SchemaLife` (`Stamp`, `Persist`, `Crash`) are written as its actions. Below
`SchemaLife`, three modules open up what it takes as single steps; beside it, the
others model what runs concurrently with it.

### Store

`map`, `seq`, `written`, `dirty` are the fields of `Store`; `file` is the file's
contents, and `serialize`/`parse` are modelled by what they do to a row,
including the word of the tier and the rule that a line with an empty id is
dropped. `stamp` happens under the map lock together with the change, so a call
is one action; its write is a task. The task is split where the code can be
interleaved: taking the lock and skipping (`WriteSkip`), passing the check
(`WriteBegin`), and the rename (`WriteDone`) or failure (`WriteFail`), the
`written` lock held in between. `flush_dirty` is two actions because the flag is
swapped outside the map lock. `now` advances by one per call and bounds the
calls. `stamped`, `bound`, `acked` and `lost` are history variables: the versions
of this incarnation, the version of each schema's last mapping change, the mapping
last confirmed to a caller, and the versions whose write failed.

A restart may find the file unreadable (`CrashUnread`): `load` takes that for an empty registry, and the
first write afterwards replaces every row. Left out: the older two-column file format, which this code reads
but never writes.

### StoreLocks

One action per lock operation, per thread. `put` and `adopt_archived` are the
same sequence as far as these locks go. `map` operations that take no second lock
(`touch`, `set_tier`, `record`, the flush) change neither an id nor the cache, and
are left out.

### SchemaLife

*State.* `row`/`saved`/`pending` are the schema's row in memory, in the file and
in between. `cur` is the schema's cell in the entries map, `entry` the VM of each
cell; an old cell lives on while a client refers to it, as the `Arc` does.
`client` records where each checkout is and the values it carries across awaits
(`known`, `restore`, `vm`, `prov`). `job` is the offload job that holds the
archiving claim; `reaped` a VM evicted by the reaper and not yet stopped. `vm` is
what the daemon has: state, data, and whether the VM carries the schema's name
(a spare does not). Data is the set of transactions a copy holds.

*Steps.* An action is what a task does between two awaits that matter. Three
merges are made: a job's tier check and its claim; publishing the entry in the
cell and `put`; the image job's eviction and stop. A dump or an upload is one step,
taken when it completes; a failed one may have replaced its object all the same.

*Faults.* A member of `Budgets`, chosen at the start, bounds how often each kind of failure happens: a bring-up
(`boot`), a reattach that returns an error, a job's bring-up, a dump or upload, a
kill, the deletion of a stale dump, the removal of a local file, a HEAD, a
registry write, a crash. `reap` bounds the reaper's passes in the same way, and
without `overlap` clients connect one after the other.

*Environment.* All tiers are configured and image archiving is on. `Anytime`
says whether a job may start while a checkout is in flight. The periodic sweeps
pick schemas whose last use is hours back and every checkout starts with
`touch`, so FALSE is the normal case; a pressure pass, a manual sweep with a small
TTL or a dashboard button is TRUE. The reaper takes an entry only when no
checkout is under way on it (`Recent`): the idle timeout is much longer than
the admission and probe timeouts.

*Left out:* the pending ledger and its janitor (`Fleet`), tunnels and their keep-alive,
dedicated owners, the device grow after a stop, stops that fail (the VM then
stays up, unowned, until the next checkout reattaches it), a VM left running by a
reattach that timed out, the row created for a
VM archived from the dashboard without one, and several schemas at once: they
share nothing but the spare pool, the registry file and the machine.

### Fleet

All VMs here carry the schema's name. `record`, `proc` and `dir` are what the daemon
knows of a sandbox, whether its process lives and whether its directory exists;
`ledger`/`saved` the pending ledger in memory and in its file; `old` says that the
entry is past the janitor's age. Janitor, reaper, purge and sweep are split where they
wait, so that each acts on what it read a step earlier.

`row`/`filed` are the registry's row in memory and in its file: a bring-up's `put` is detached, so a
restart may come back to an older row (`PersistRow` is a step of its own, and `Crash` reads `filed`).

The properties except what the code does not rule out, and only that; history variables remember it:

- `late`: a VM bound after the janitor or the purge had decided to delete it; the purge kills a VM whose
  schema was thawed into it after the pass had read the row (`registry.rs:2806`);
- `ahead`: a VM deleted while the registry's file still had it as the live row, because `set_tier`'s write
  failed or `put`'s was still to come; after a restart the row names it again;
- `mislaid`: a VM that was bound and then forgotten by the daemon while one orphan sweep ran, for the sweep
  never reads its rows again (`registry.rs:3326`, `3464`). A VM bound during a sweep, or forgotten before or
  after it, is not excepted. `MCFleetSweep` shows the exception: the only copy is removed;
- `bu.raced`: a session on a superseded VM that the untracked reaper had checked before a bring-up picked it
  by its name (`registry.rs:1100`), and a bring-up that began while the janitor was about to clear an older
  entry of the same schema;
- `~bu.named`: a VM whose ledger entry could not be written.

`InFlightNamed` is about the ledger's file (`saved`), which is what a restart reads. It ends with the bring-up:
one that fails clears its ledger entry though the kill failed (`vm.rs:633`), and the VM then is nobody's
(`MCFleetLeak`).

Pruning of rootfs copies is left out.

### Spares

`ready` is the shelf and `claimed` the set beside it; each schema claims, confirms,
loads and binds. A replenish pass keeps the listing and the bound set it began with.
`data` says which schemas have a database on a sandbox. Excepted: a spare bound after a
pass had put it on its list of kills (`late`), and what a restart, which forgets the
claims, leaves with a database and no row (`tainted`).

### Reclaim

The gate is a fair lock: `queue` holds the waiting boots and passes in order. The
script of a pass is a process of its own that may outlive it (`stray`), may take the
lock of the disk it works on or not, and stops at its next yield point when it sees the
stop file. A boot takes a permit, a bring-up slot, and starts the VM.

The caller of a start may give up before the daemon does: the dashboard's action timeout
(`dashboard/handlers.rs:305-326`), a cancelled checkout, an error on the way (`vm.rs:2543-2551`). `GiveUp` drops the
permit and leaves the start to the daemon, which may open the disk later or not at all (`LateStart`). Such a disk is
open `under` neither lock nor gate but "late", and `NoBootOverTrim` excepts it; `MCReclaimLate` shows that it can
be trimmed.

### DumpServer

Files are inodes named by the token that made them: an upload handler keeps
writing to what it opened. The pooler's three routes differ in what they wait for: a
commit on the token, or an object other than the one before. A handler writes on after its guest has died,
as long as its stream yields. Excepted (`outlived`) are attempts that begin while the job of an earlier one still runs
in a VM that would not stop, or beside which an earlier handler still writes; and (`torn`) a direct upload of
a file that a full disk cut, which the guest's script does not notice (`vm.rs:1361-1375`). Left out: reading a dump back (`handle_get`) and the branch of PUT for bodies
of known length.

### ImageMove

Data is the number of the last write a copy holds. `open` says who still has the disk
open: a stop is acknowledged before the process has gone. Faults are failed tools and
requests, and answers that are lost, that of the initiation of a multipart upload among them: the upload is
there and nobody knows its id. `strays` counts the uploads nobody could abort. `wait_disk_released` is what the scan says, and
a scan that may not look takes the disk for free; an image of a disk still being written passes `verified`, which
sees cut files only. `lost` remembers that a scan missed a holder ("scan"), a HEAD missed a dump ("dump") or a restart left
a scratch file: `NewestKept` excepts the first two. One assumption on S3: a request takes effect
before its client's timeout, or never.

### BootReady

Timeouts are numbers of polls. A load runs detached in the guest and leaves its exit
code on the data disk. Excepted (`overtaken`): a load launched beside an older one that a
failed stop had left running.

### Offload

Pacer, drain loop and the operator's sweep each have jobs in flight. Idle times are
told apart up to `MaxAge`; a pick offers the tiers whose threshold a schema has reached.
A client's checkout has three steps, its look at the claims, its bring-up, its count in the map, and one that was past
its look when a job claimed the schema is served all the same (`overtaken`, the exception of `Claims`;
`MCOffloadOvertaken`). A job that fails gives its claim back in one step and records its failure in the next, so another
dispatcher may pick the schema in between: `RetryHeld` is about the dispatcher whose job it was. The image path records
nothing when it fails, and is not counted (`MCOffloadImage`).
The host's load, the waiting boots and the disk level are not state: they decide when
a dispatcher takes a step it may take, and the drain loop may stand down at any time.
Assumed: VMs are stopped by the idle reaper before a schema's threshold is
reached. Left out: schemas kept alive, which are never candidates.

### Dedicated

A request changes the set and serializes it under the lock, then opens the
temporary file, writes, renames, each a step. A connection passes through TLS, startup,
challenge, authorization and routing, with the three reads of the set
apart; the shared password may be unset. The properties say nothing once two writes overlapped
(`overlapped`): that is the finding `dedicated_lost`. A restart may find the file unreadable and starts with no credential;
nothing callers were told before counts after it.

### Alerts

Readings are levels, the three host metrics are one. Every third level stands for a number of one decimal, the only ones the file
keeps (`alerts.rs:580`), so a restart rounds a threshold (`num`). A threshold of 0 is admitted. Requests change the rules and write the file in a
later step; the evaluator samples, compares and sends one webhook at a time. The
history variables `unread` and `astray` are the rules not compared since they changed, and those whose
endpoint missed an edge because a webhook was lost, or the rule changed or forgotten at
a restart while it fired.

### Limits

Four pure functions, durations in seconds, sizes in bytes. The float comparison of
a percentage is written as a product of integers; a product that saturates at 2^64 is taken to fit.

## 3. Runs

Passing:

| Run | Checks | Instance |
|---|---|---|
| `store` | `TypeOK`, `AckedBeforeFailure`, `Settled`, `Implements`, `MemoryReachesDisk` | 2 schemas, 2 ids, 3 calls, 2 failed writes, 1 crash; 72 thousand states |
| `life_safe` | `RowReachesData`, `ServedNewest`, `SessionTracked` | 2 clients, 2 VMs, 1 slot, 2 commits; either both clients at once with job boot, dump, stale-dump and unlink failures, or one after the other with the reaper and boot, dump and kill failures; 2.5 million |
| `life_crash` | `NothingDurableLost` | 1 client, 2 commits, 2 pending versions; a crash, HEAD, reattach and write failures; 0.6 million |
| `life_live` | `CheckoutEnds`, `ClaimReleased` | 2 clients, 1 VM, 1 slot; reap, boot and dump failure; fair; 0.1 million |
| `reclaim` | `NoBootOverTrim`, `StopIsForThisPass`, `HoldersAreLive`, `BootServed` | 2 boots, 1 disk, 1 slot, 2 passes, 1 fault; fair; 0.4 million |
| `fleet` | `LiveNotDeleted`, `LiveDiskKept`, `ServedUp`, `InFlightNamed`, `JanitorDrains` | 2 sandboxes, 2 bring-ups, 1 other pass beside the janitor, 2 faults; fair |
| `spares` | `BoundSurvives`, `OneOwner`, `ShelfFree` | 2 schemas, 2 sandboxes, a pool of 1, 1 purge, 2 faults |
| `offload_safe` | `Claims`, `OneBootEach`, `RetryHeld` | 2 schemas, 2 workers, 1 failure or panic, 1 connection, 1 sweep; compaction alone, a dump archived after a second rest, or S3 with images; 2.1 million |
| `offload_live` | `SweepEnds`, `BacklogDrains` | 2 schemas, 2 workers, 2 failures or panics, no connection, 1 sweep; compaction alone, or a dump archived after a second rest; fair; 72 thousand |
| `parts` | ten properties of six components, below | 2.3 million in all |

`parts` holds six state machines that share no variable; its first state chooses the
one that moves. The instances: 3 threads, 2 schemas and 2 ids for `StoreLocks`; 2 attempts
of 3 pieces by every route for `DumpServer`; 2 requests at once for `Dedicated`, 3 in
all with a fault and a restart, or 2 beside a connection, with two passwords besides the shared one; 2 parts, 2 writes, a fault and a
restart for `ImageMove`; 2 attempts and 3 mishaps for `BootReady`; one rule, 2 edits, a
lost webhook and a restart for `Alerts`.

What the properties say:

- `AckedBeforeFailure`: as long as no write and no read of the file failed, a tier change that was awaited
  and not overtaken is what a restart reads.
- `Settled`: with nothing outstanding, a restart reads exactly what memory
  holds, unless the last write failed, or the file could not be read and nothing was written since.
- `Implements`: the file is always a version as stamped, and only moves forward.
- `MemoryReachesDisk`: every change gets to the file, unless the newest write failed.
- `RowReachesData`: between any two steps of anyone, the row leads to a copy with
  every committed transaction.
- `ServedNewest`: a session's VM holds every transaction committed before.
- `SessionTracked`: a live session is on the cell the map holds, the only one that
  jobs and reaper look at.
- `NothingDurableLost`: transactions whose VM the file has on record stay complete
  in some copy through crashes. Three failures are excepted, and each exception is
  needed: a failed registry write (the caller goes on to kill the VM), a failed
  reattach (an empty VM takes the schema over), a failed HEAD (an old image does).
- `CheckoutEnds`, `ClaimReleased`: no checkout and no claim lasts for ever.
- `NoBootOverTrim`: no VM whose start returned to its caller runs on a disk a script works on; under the disk's lock for as
  long as the script lives, under the gate for as long as its pass does.
- `HoldersAreLive`, `StopIsForThisPass`, `BootServed`: no permit, lock or place in the queue
  is left by someone gone; a stop file is for the pass it was raised for; a boot that
  waits gets through though the pass would go on for ever.
- `LiveNotDeleted`, `LiveDiskKept`, `ServedUp`: none of the passes deletes or stops what a
  live row names or a session uses, but for the races listed under `Fleet`.
- `InFlightNamed`, `JanitorDrains`: the ledger's file names a created VM until it is bound; an
  old entry is resolved unless an empty cell stays in the map for ever.
- `BoundSurvives`, `OneOwner`, `ShelfFree`: no pass deletes a spare that became a
  database, no spare serves two schemas, nothing on the shelf is taken.
- `Claims`, `OneBootEach`, `RetryHeld`: a claim is exactly one running job and meets no
  client but one that had overtaken it; a dispatcher boots one VM at a time, and does not pick a schema its
  own job failed on before a window has ended. `SweepEnds`, `BacklogDrains`: sweeps end, cold schemas are offloaded.
- `CacheFresh`: a cached set of bound ids is the set of bound ids.
- `TrustedWhole`: what the pooler trusts before it deletes a VM is the whole dump of this
  attempt, and stays so whatever late requests do.
- `NewestKept`, `CleanedUp`: the last write is whole where the row says; S3 keeps the parts of
  the upload under way and of those nobody could abort, counted one by one, and no scratch file outlives its restore but for a restart.
- `ServedWhole`, `CycleOnEvidence`: what is served was loaded to the end and is reached at
  the running boot's address; a power cycle needs refusals only, or `ready_timeout` spent.
- `AckedDurable`, `NoPhantom`, `ProvedOwner`: what a caller was told of a credential
  survives; none is served that a restart forgets; who opens a dedicated database
  has proved its password.
- `Told`: an endpoint heard last what the last reading of its rule means.

**Bounds.** Two schemas and two ids are enough for one schema's snapshot to carry
another's change and for an id to move between them; three calls give three
generations, so an older task can finish between two newer ones, and after two
failures one write still gets through. Three threads are one more than a lock cycle
needs. Two transactions tell a stale copy from a new one; two VMs allow a VM to be
replaced once; one admission slot makes clients wait; two pending versions
let a write overtake another. With the reaper or boot failures the clients come one after
the other: at once, the disagreements on `ServedRunning` below leave sessions on an evicted
cell, from where everything else follows. Two reclaim passes let a script outlive the first
and meet the second; one disk makes everyone meet on it. Two sandboxes give a schema an old VM and a new
one, and two faults a crash after a failure. Two bring-ups are the fewest that let one pass's stale reading meet a later
binding. Two attempts of three pieces make a torn upload of one attempt meet the other's; two parts make a multipart upload
stop half way.

The liveness of `Offload` is checked on two schemas without clients: with one connection and a sweep there are a million
states, too many under fairness. By hand, the same configuration with `Schema <- One` and `MaxConnects = 1` checks a client
that waits for the job or overtakes it. The instance of `MCReclaim` has one fault, so that it can
be checked under fairness; its safety was also checked with two.

**Fairness.** The flush loop runs on a timer for ever and the blocking pool runs
every task it is given: weak fairness of both flush halves and of the write steps.
A tokio task that can go on does, and every wait inside it has a timeout: weak
fairness of each client's steps, the job's, the reaper's stop and `Persist`. A client
waiting for a job polls every 500 ms while jobs on one schema are minutes apart at
least, so its poll falls between two of them some time: strong fairness of `Check`.
Failures, new checkouts, commits and the end of sessions are not fair. The runs'
faults are bounded, so a job that fails for ever is not considered.
`Reclaim`: the gate is a fair lock and `start` returns (weak fairness); a lock file and a
bring-up slot are tried again and again (strong); of the script only that, told to stop, it
reaches its next yield point. `Fleet`: the janitor is a supervised loop, bring-ups and jobs are
bounded by timeouts. `Offload`: jobs end, windows and holds run out, and the host is quiet now and
then, so that a pacer without jobs dispatches; a second job at a time is not promised.

Deadlock is checked in every `SchemaLife` run and in `reclaim`. The other runs switch it off: their
bounds, or a store nobody calls, bring the behaviours to rest; the threads of `StoreLocks` can block
each other, which is a finding.

Violations: each checks one property that a comment states and shows where the code
does otherwise. The comments are quoted in `PROJECT.json`.

| Run | What TLC shows |
|---|---|
| `store_lock_cycle` | `put` holds `map` and waits for `bound_cache`; `bound_ids` holds `bound_cache` and waits for `map` |
| `dedicated_lost` | two overlapping requests write their snapshots in the wrong order; a credential that `create` returned is not in the file |

More disagreements have a configuration to reproduce them, but are not listed as runs:

| Configuration, property | What the code does | What it says |
|---|---|---|
| `MCLifeUndurable`, `RestartReachesData` | the local file is removed after a thaw while the row saying "live" is not yet written: `put`'s write is detached (`registry.rs:908`) | `registry.rs:891` "durably bound", `registry.rs:895` "the row is durably live" |
| `MCLifeAnytime`, `RowReachesData` | a checkout past the archiving check, its cell not initialised, is invisible to a job that dumps and kills the VM it will serve | `registry.rs:2328` |
| `MCLifeReaped`, `ServedRunning` | a VM evicted by the reaper is reattached by a client and then stopped by the reaper | `registry.rs:257` |
| `MCLifeReattach`, `ServedNewest` | the recorded VM fails to start and the schema is served from an empty one (`vm.rs:2300`) | `vm.rs:2262` |
| `MCSparesLateKill`, `SafeByConstruction` | a spare on a pass's list of kills is claimed and bound, then deleted | `spares.rs:308` "Safe by construction" |
| `MCFleetReaped`, `LedgerReaped` | a failed bring-up leaves its empty cell in the map (`registry.rs:923`), and the janitor skips an entry whose schema has one | `pending.rs:16` "reaps any entry that outlives `ready_timeout`" |
| `MCOffloadImage`, `FailedSkipped` | a failed image offload records no back-off (`registry.rs:2661`) and the drain loop takes it as recorded | `registry.rs:1882` "the schema is now in backoff" |
| `MCOffloadOvertaken`, `NoneSlipsIn` | a checkout past its look at the claims, not yet counted, is served while the job works on the schema (`registry.rs:745`) | `registry.rs:2328` "a checkout that slips in either grabbed the entry first" or "will see the set and wait" |
| `MCFleetSweep`, `LiveDiskSafe` | a VM is bound and then forgotten by the daemon while a sweep runs on the rows it read at its start; its directory is removed (`registry.rs:3464`) | `registry.rs:3296` "the only copy, so it is reported at error level and never deleted" |
| `MCFleetLeak`, `LeftBehindNamed` | the kill of a VM after a failed bring-up fails, and its ledger entry is dropped all the same (`vm.rs:633`) | `vm.rs:626` "(the pending-bringup janitor will retry)" |
| `MCReclaimLate`, `NoLateBoot` | the caller of a start gives up and drops its permit, a pass begins, and the daemon boots the VM on the disk being trimmed (`dashboard/handlers.rs:324`) | `dashboard/handlers.rs:302` "mutually exclusive with" reclaim passes |
| `MCImageMisread`, `DumpFallback` | the HEAD of the dump fails, and an image older than the dump is restored (`imgarchive.rs:179`) | `imgarchive.rs:112` "transport failure falls back to the dump path" |
| `MCDumpHalf`, `NeverHalf` | the upload of another attempt truncates the one temporary file of the schema, which a commit then publishes (`dumpsrv.rs:205`) | `dumpsrv.rs:19` "half-written upload never looks like a complete dump" |
| `MCOffloadBoots`, `OneBoot` | pacer, drain loop and sweep may each boot a VM | `registry.rs:4191` "at most one offload at a time competes with clients" |
| `MCBootStall`, `StallNotCycled` | a stalled VM that is not ready after `ready_timeout` is power-cycled (`vm.rs:2050`) | `vm.rs:2026` "Treat it like `Responding` and wait" |

Four have no configuration. With two clients, two slots and `boot = 1`, `ServedRunning` fails: the clean-up
after a failed bring-up (`registry.rs:950`) stops the VM that the next waiter on the cell has brought
up, which `vm.rs:2440` says nobody else owns. After a failed write `set_tier` returns and the file has the old tier, though
`store.rs:350` "waits for the write to reach disk"; `AckedBeforeFailure` is `AckedDurable` until then. After a failed write
of the newest version nothing is left to write it again (`store.rs:407` speaks of a later snapshot), which is why `Settled` and
`MemoryReachesDisk` except that case. And `remove` says that
re-provisioning the same name "reattaches to that same VM" (`dedicated.rs:284`), where `create_dedicated`
refuses a name that is a schema already (`registry.rs:466`).

Every property of a passing run has a mutant in `PROJECT.json`: the definition of an action with a
plausible slip in it, kept in the module beside the real one, under which TLC finds
the property violated.

## 4. Proofs

`StoreProofs` proves, for every set of schemas and ids and all bounds, under the
assumptions `StoreAssumption` and `NoRowAssumption` (the special values are
distinct from ids and records):

- `TypeCorrect`: `Spec => []TypeOK`.
- `Inductive`: `Spec => []IInv`.
- `SettledAlways`, `AckedUntilFailure`: the two invariants checked by run `store`.
- `ImplementsContract`: `Spec => Contract!Spec`, the refinement.

`Settled` is not inductive: it says nothing while tasks are outstanding. `IInv` adds
what connects the moments of rest, in six parts.

- `Named`: no row and no stamped version has an empty id, so `parse` undoes `serialize`
  (lemma `RoundTrip`).
- `Generations`: there is one stamped version per generation, the file is the one
  `written` names, and every task carries the version of its own number.
- `Latest`: with neither the flag nor a flush outstanding, memory is the newest
  stamped version.
- `Owed`: the newest generation is written, lost, or has its task.
- `Stable`: from the version of a schema's last mapping change on, every stamped version
  carries the mapping memory has.
- `Acked`: a confirmed mapping is memory's, and the file has reached it unless a write
  failed.

`Settled` follows from `Generations`, `Latest` and `Owed`; `AckedBeforeFailure` from
`Acked`, `Stable` and `Generations`. The refinement maps `pending` to the suffix of
`stamped` after the file's version; lemmas on suffixes of sequences show that a
stamp appends to it, a write drops a prefix, a crash empties it, and all else leaves it alone.
There is one lemma per group of actions (`CallInv`, `FlushInv`, `WriteInv`, `CrashInv`).

`LimitsProofs` proves, without assumptions on the inputs beyond their being numbers:

- `HoldDoubles`, `DelayDoubles`: for every count of failures the hold of a bring-up, and the
  delay of an offload, lies between its base and its cap, and the next is twice as long
  or the cap. The lemmas `HoldCases` and `DelayCases` tabulate the function: the cap on the
  exponent (10, or 6) lies beyond the point where the cap on the duration is reached, so it
  keeps the shift small and never shows.
- `GrowStrictly`: a device that grows gets strictly larger, at most double, within its limit.
- `SlotsFit`: at least one client is admitted; when more are, clients, reserve and the pooler's
  own pool are exactly `max_connections`.

### SchemaLifeProofs

For any number of clients, VMs, slots, commits and pending versions, under `LifeAssumption` (the set of
clients is finite, the bounds are numbers) and `SpecialValues` (`NoRow` is no row, `Absent` no data).

Whatever fails or crashes, with jobs at any time: `TypeCorrect`.

In *calm* behaviours: `RowReaches` (`Calm /\ Spec => []RowReachesData`), `NewestServed` (`ServedNewest`) and
`SessionsTracked` (`SessionTracked`). `Calm` is a predicate on the constants, satisfied by the instance of run
`life_safe`. What each part answers to:

| `Calm` says | because |
|---|---|
| `~Anytime`: no job starts while a checkout is in flight | `MCLifeAnytime`: `RowReachesData` is violated |
| no reattach returns an error | `MCLifeReattach`: `ServedNewest` is violated, and so is `RowReachesData` |
| no HEAD fails | `MCImageMisread`: an image older than the dump is restored (in `SchemaLife` itself two VMs are too few to show it) |
| no crash | the row in memory may be ahead of the file; after a crash `RowReachesData` can be violated |
| clients overlap, or there are boot failures and reaper passes, not both | with either, `SessionTracked` is violated: the clean-up after a failed bring-up, the reaper's victim |
| clients overlap, or VM stops fail, not both | the proof only: TLC finds no violation with two VMs, and `Together` is simpler this way |

Failed job boots, dumps, uploads, stale-dump deletions, unlinks and registry writes stay in, in any number.

None of the three properties is inductive: a session's cell, its VM, the row and a job's copy are tied together by what
everyone has read and has yet to do. `IInv` has ten parts.

- `TypeOK`, `Placed`: types; a checkout has a cell from its lookup on, a job has a row.
- `Quiet`: the faults still to come are those of a calm behaviour, or checkouts come one after the other.
- `Tracked`: every checkout past its lookup is on the map's cell, no other cell has an entry, an entry is the row's
  VM and the row is live, and one checkout at a time initialises a cell.
- `Claimed`: during a job clients are idle, waiting or in a session; past its eviction there is no entry.
- `Stages`: which kind of job takes which step; the row has the job's first tier up to the mark and its last
  from there on; at the mark the copy it moves to is complete.
- `Kept`: the row leads to a complete copy. In calm behaviours this is `RowReachesData`, with the copy's existence.
- `Reading`: what a checkout read of the row and of S3 is still so while its cell is empty.
- `Loading`: the VM a bring-up loads is the row's if the row is live, or has the image; one it disposes of is
  not the row's.
- `Together`: when clients overlap, nothing under them is stopped, a checkout never turns back, and the VM of a row
  that is not live is gone, so that a clean-up stops nothing.

There is a lemma on what each action changes, one that it keeps the types, and one that it keeps `IInv`. Steps of one
checkout go through `ClientMoves`, steps of a job through `JobMoves` (past its eviction a job is alone) or `JobOnly`. A
cell that nobody refers to exists by the pigeonhole principle (`FreeCell`).

In *rough* behaviours: `DurableIsKept` (`Rough /\ Spec => []NothingDurableLost`). The pooler may die at any step and any number of
times, and every fault of the model may occur. `Rough` is a predicate on the constants too, satisfied by the instance of run
`life_crash`:

| `Rough` says | because |
|---|---|
| `~Anytime`, and no two checkouts overlap | as for `Calm`. With overlap and one failed bring-up, or one reaper pass, `NothingDurableLost` is violated: a session off the map's cell commits after a job has dumped its VM, which the job then deletes. With overlap and crashes alone TLC finds no violation |
| the budgets agree on failed writes, reattaches and HEADs | the exceptions of the property read off `faults` that one has occurred, which several budgets would blur |
| some budget has a crash | otherwise the behaviour is calm, or differs from a calm one by a fault the property excepts |
| there is a VM identity | with none and no file there is no copy at all |

The parts of `IInv` are stated for both kinds of behaviour. What a copy has to hold is `Owed`: every committed transaction (`truth`) in a calm
behaviour, those recorded in the file (`safe`) otherwise; and `Kept` allows, when not calm, a row whose local file is gone (`Missing`).
A restart puts the file's row in the place of the one in memory, so the proof adds `Sound`:

- `KeptBy(saved)`: the row in the file leads to what is owed as well, or to a local file that is gone.
- `Trail`: the file is at most two versions behind, a live row after a bring-up and the version a job waits for; which
  row a restart reads is known at each step.
- `Copied`: what a job has copied is all its VM has, as its VM's row may become durable, and its data owed, only after the copy was taken.
- `Survives`: a thaw removes the local file while the row saying so is still to be written; a restart then reads a
  row that leads nowhere, but a VM has the data, and no bring-up under way disposes of it (`Refuge`).

What is inductive is `Lapsed \/ (IInv /\ Sound)` with types and bounds: one of the excepted failures has occurred, or all of this holds.

### ReclaimProofs, SparesProofs, FleetProofs

All three: no assumption but that special values are no ids, bounds are numbers and, for `Spares`, that there are finitely
many ids; each proves `TypeCorrect`, `Invariant` and every safety invariant of its run.

`ReclaimProofs`: `BootSafe` (`NoBootOverTrim`), `HoldersLive`, `StopForThisPass`. The property about disks follows from
who holds what: `Queue` (nobody waits twice, everybody in the queue waits), `Permits` (a boot's permit is the read guard
or lock it really holds), `Scripts` (a script at a disk holds its lock if it takes locks; one that is no stray belongs to
the running pass), `Gate` (one pass at a time, and no reader beside it), and `Snapshots`: a disk opened under the gate was
open when the script of the pass holding the gate took its snapshot, and a script works on no disk of its snapshot. A start its
caller gave up holds nothing, so its disk is in none of these but `under` "late".

`SparesProofs`: `ShelfIsFree`, `OwnedOnce` (`OneOwner`), `BoundIsKept` (`BoundSurvives`). `Shelved`, `Claiming` and `Rows` say
that a sandbox is on the shelf, in one bring-up's hands or one row's, never two of these. `Sick` says why a
spare found sick in two passes is nobody's when the second puts it on its list of kills: between the passes it is not
on the shelf. `Kept` and `Clean` are the properties with what each step needs.

`FleetProofs`: `NotDeleted` (`LiveNotDeleted`), `DiskKept`, `SessionsUp` (`ServedUp`), `NamedInFlight`. What is inductive is not what the
passes have done but what none of them is still going to do: `Phases` ties bring-up, cell, job and row together, `Named` says
that the empty cell keeps the janitor away while a VM is in flight, `Served` that a session's VM is nobody's target, `Kept` that no
decided kill and no sweep is left that takes a live row's VM or disk: a sweep under way knows the row, or will find its VM in the
daemon, or the VM is `mislaid`. `Filed` says the same of the row in the file, which a restart puts in the place of the other.

### OffloadProofs

For any number of schemas, workers, failures and sweeps and any configuration of tiers (`OffloadAssumption`): `TypeCorrect`,
`ClaimsHold` (`Claims`), `OneBootHolds` (`OneBootEach`) and the action property `RetryIsHeld` (`RetryHeld`). The
invariant: `OneRuns` (at most one job runs per schema, and the claim is there exactly as long as it does), `Serves` (a schema with a
client is live and unclaimed, or was overtaken; the same of a schema whose checkout is past its look), `Walks` (the operator's sweep has one job while it waits; a loop that waits has not used up its
failures), `OneSweep` (the flag is set while drain or sweep is under way, never both), `OneBoots` (a dispatcher has picked at most one
job that boots, and what a job does once it has read the tier boots only if it was picked for that, or for a promotion) and
`Backed` (a failure that counts has a back-off window, or its job is between giving the claim back and recording it).

### PartsProofs

The theorems are about the specification of `Components`; the lemmas `LocksBehave` to `RulesBehave` say that each of its
behaviours is one of each component, and the constants are only assumed to satisfy the component's own assumption.
All ten properties of run `parts` are proved:

| Component | Theorems | Its invariant |
|---|---|---|
| `StoreLocks` | `CacheIsFresh` | `Holders`: a mutex is held by who is at a step that holds it; `FreshSet`: outside `put`, the set stored or about to be is the set of bound ids |
| `BootReady` | `ServedIsWhole`, `CycledOnEvidence` | `Addressed`: the address in use is the running boot's; `LastWord`: what the exit code on the disk says of the load; `Evidence`: which answers the window has heard |
| `ImageMove` | `NewestIsKept`, `IsCleanedUp` | `Stages`, `Outbound`, `Inbound`: where the last write is at each step of a transfer; `Uploaded`, `Scratched`: who owns parts and scratch files |
| `DumpServer` | `TrustedIsWhole` | `Handlers`, `Alone`, `Streams`: which token may still write to which inode; `Landing`: what the name of the dump leads to once it is committed |
| `Dedicated` | `AckedIsDurable`, `NoneIsPhantom`, `OwnerIsProved`, `RoundTrip` | two writes overlapped, or: one writer at a time, what it holds, what the file has of every record, and whose password was asked for |
| `Alerts` | `EndpointsAreTold` | `FiresAsSeen`: a rule fires as its last reading says; `HeardAsFires`: its endpoint heard so, or the webhook is queued; `OneEdgeEach`: at most one is |

`RoundTrip` says that `parse` undoes `serialize` for every set of credentials with a role each. `ProvedOwner` speaks of
behaviours in which no two writes overlapped so far: after such a restart can read a file in which two databases have one
role, which is the finding `dedicated_lost` seen from the other side.

### Model-checked only

The liveness properties `MemoryReachesDisk`, `CheckoutEnds`, `ClaimReleased`, `BootServed`, `JanitorDrains`, `SweepEnds`, `BacklogDrains`:
fairness and `ENABLED` are beyond the prover.

## 5. Not modelled

- Configuration, events and journal, the dashboard's pages, the load test: they keep no state
  the system's behaviour depends on, or are a tool beside it.
- The splicing of bytes, packet parsing, TLS, request signing, XML, process invocation: I/O.
- Data of a promotion whose schema is thawed between the job's tier check and its claim
  (`registry.rs:2307`): `Offload` has the two steps, `SchemaLife` takes them as one.
- The offline device grow, beyond its target; pre-provisioning; keep-alive of tunnels; pruning of
  rootfs copies; several victims of one reaper pass.

## 6. Plan

Done: all modules of section 2, and the proofs of section 4: every safety invariant and action property of a passing run has its theorem. Next:
`DurableIsKept` where checkouts overlap but no bring-up fails and nothing is reaped, and `Calm` without its clause on failed stops. Then `ImageMove` and `DumpServer` as
refinements of the single steps of `SchemaLife`.
