------------------------------ MODULE Reclaim ------------------------------
(***************************************************************************)
(* Boots of stopped VMs against reclaim passes that repair and trim the    *)
(* disks of stopped VMs (src/src/reclaim.rs), with the script a pass runs  *)
(* (src/reclaim-disks.sh) and the bring-up slots of src/src/vm.rs.         *)
(*                                                                         *)
(* The two exclude each other per disk, by a flock on the disk's lock      *)
(* file, once a script has declared that it takes the locks; until then by *)
(* a fair read-write lock, the boot gate.  A boot that has to wait makes   *)
(* the running pass write the stop file.                                   *)
(***************************************************************************)
EXTENDS Naturals, Sequences, FiniteSets, SequencesExt

CONSTANTS
    Boot,           \* tasks that boot VMs
    Disk,           \* disks, one per sandbox
    Free,           \* nobody: not a boot
    Slots,          \* bring-up slots
    MaxPasses,      \* bound: calls of run_once
    MaxFaults       \* bound: lock files that cannot be used, starts given up and
                    \* pooler restarts

ASSUME ReclaimAssumption ==
    /\ Slots \in Nat \ {0}
    /\ MaxPasses \in Nat /\ MaxFaults \in Nat
    /\ Free \notin Boot /\ Boot \cap (1..MaxPasses) = {} /\ Free \notin 1..MaxPasses

Pass == 1..MaxPasses

VARIABLES
    perDisk,    \* PER_DISK, the negotiated mode
    marker,     \* the marker file names the protocol
    stop,       \* the stop file exists
    notify,     \* a stored wake-up in preempt()
    readers,    \* boots holding BOOT_GATE for reading
    writer,     \* the pass holding it for writing, 0 if none
    queue,      \* tasks waiting for BOOT_GATE, in order
    flock,      \* who holds each disk's lock file
    boot,       \* each boot: phase, disk, kind of permit held
    running,    \* Reclaimer::running
    pass,       \* each call of run_once
    script,     \* the script each call launched
    open,       \* disks that a VM holds open
    under,      \* history: the permit each open disk was opened under, "late" if none
    unattended, \* disks the daemon still boots a VM on for a caller that is gone
    faults      \* lock errors, starts given up and restarts so far

gate == <<readers, writer, queue>>
mode == <<perDisk, marker>>
vars == <<mode, stop, notify, gate, flock, boot, running, pass, script, open,
          under, unattended, faults>>

IdleBoot == [ph |-> "idle", disk |-> Free, permit |-> "none"]
NoPass == [ph |-> "none", yielding |-> FALSE]
NoScript == [ph |-> "none", disk |-> Free, todo |-> {}, snap |-> {}, locks |-> FALSE,
             stray |-> FALSE]

BootState == [ph : {"idle", "poll", "queued", "slot", "start"}, disk : Disk \cup {Free},
              permit : {"none", "lock", "gate"}]
PassState == [ph : {"none", "queued", "run", "done"}, yielding : BOOLEAN]
ScriptState == [ph : {"none", "start", "loop", "check", "work", "exit"},
                disk : Disk \cup {Free}, todo : SUBSET Disk, snap : SUBSET Disk,
                locks : BOOLEAN, stray : BOOLEAN]

TypeOK ==
    /\ perDisk \in BOOLEAN /\ marker \in BOOLEAN /\ stop \in BOOLEAN /\ notify \in BOOLEAN
    /\ readers \subseteq Boot /\ writer \in Pass \cup {0} /\ queue \in Seq(Boot \cup Pass)
    /\ flock \in [Disk -> Boot \cup Pass \cup {Free}]
    /\ boot \in [Boot -> BootState] /\ running \in BOOLEAN
    /\ pass \in [Pass -> PassState] /\ script \in [Pass -> ScriptState]
    /\ open \subseteq Disk /\ under \in [Disk -> {"none", "lock", "gate", "late"}]
    /\ unattended \subseteq Disk
    /\ faults \in Nat

\* set_run_dir primes the mode from the marker a previous pooler left.
Init ==
    /\ marker \in BOOLEAN /\ perDisk = marker
    /\ stop \in BOOLEAN /\ notify = FALSE
    /\ readers = {} /\ writer = 0 /\ queue = <<>>
    /\ flock = [d \in Disk |-> Free] /\ boot = [b \in Boot |-> IdleBoot]
    /\ running = FALSE /\ pass = [p \in Pass |-> NoPass]
    /\ script = [p \in Pass |-> NoScript]
    /\ open = {} /\ under = [d \in Disk |-> "none"] /\ unattended = {}
    /\ faults = 0

----------------------------------------------------------------------------
\* BOOTS_WAITING: a WaitingGuard lives while its boot polls a lock or is queued.
boots_waiting == {b \in Boot : boot[b].ph \in {"poll", "queued"}}

\* try_read on a fair lock fails from the moment a writer queues.
try_read == writer = 0 /\ queue = <<>>

\* The script of pass p is at work on disk d.
Trimming(p, d) == script[p].ph = "work" /\ script[p].disk = d

At(b, ph, d, permit) == boot' = [boot EXCEPT ![b] = [ph |-> ph, disk |-> d, permit |-> permit]]

----------------------------------------------------------------------------
(* Boots.                                                                  *)

\* disk_permit took the lock.
Locked(b, d) ==
    /\ flock[d] = Free
    /\ flock' = [flock EXCEPT ![d] = b]
    /\ At(b, "slot", d, "lock")
    /\ UNCHANGED <<gate, notify, faults>>

\* gate_wait: the read side at once, or in the queue with a wake-up.
Gated(b, d) ==
    /\ \/ /\ try_read
          /\ readers' = readers \cup {b} /\ At(b, "slot", d, "gate")
          /\ UNCHANGED <<writer, queue, notify>>
       \/ /\ ~try_read
          /\ queue' = Append(queue, b) /\ At(b, "queued", d, "none")
          /\ notify' = TRUE
          /\ UNCHANGED <<readers, writer>>
    /\ UNCHANGED flock

\* A lock file that cannot be opened or locked sends the boot to the gate.
LockUnusable(b, d) ==
    /\ faults < MaxFaults /\ faults' = faults + 1
    /\ Gated(b, d)

\* acquire, for bring_up_existing, a power-cycle, a spare, the dashboard: no await
\* up to the first attempt.  WaitingGuard::new counts the boot, then wakes the pass.
acquire(b, d) ==
    /\ boot[b].ph = "idle"
    /\ \/ perDisk /\ Locked(b, d)
       \/ /\ perDisk /\ flock[d] # Free
          /\ At(b, "poll", d, "none") /\ notify' = TRUE
          /\ UNCHANGED <<gate, flock, faults>>
       \/ perDisk /\ LockUnusable(b, d)
       \/ ~perDisk /\ Gated(b, d) /\ UNCHANGED faults
    /\ UNCHANGED <<mode, stop, running, pass, script, open, under, unattended>>

\* disk_permit tries again.
TryFlock(b) ==
    /\ boot[b].ph = "poll"
    /\ Locked(b, boot[b].disk)
    /\ UNCHANGED <<mode, stop, running, pass, script, open, under, unattended>>

FlockFails(b) ==
    /\ boot[b].ph = "poll"
    /\ LockUnusable(b, boot[b].disk)
    /\ UNCHANGED <<mode, stop, running, pass, script, open, under, unattended>>

\* The gate serves its queue in order.
GrantRead(b) ==
    /\ queue # <<>> /\ Head(queue) = b /\ writer = 0
    /\ readers' = readers \cup {b} /\ queue' = Tail(queue) /\ At(b, "slot", boot[b].disk, "gate")
    /\ UNCHANGED <<mode, stop, notify, writer, flock, running, pass, script, open,
                   under, unattended, faults>>

\* The abandoned read() stays in the queue.
AbandonQueued(b) ==
    /\ boot[b].ph \in {"poll", "queued"}
    /\ boot' = [boot EXCEPT ![b] = IdleBoot]
    /\ UNCHANGED <<mode, stop, notify, gate, flock, running, pass, script, open,
                   under, unattended, faults>>

\* boot_permit_within gives up, or the client behind a boot goes away; a read()
\* that is dropped leaves the queue.
Abandon(b) ==
    /\ boot[b].ph \in {"poll", "queued"}
    /\ \/ boot[b].ph = "poll" /\ UNCHANGED queue
       \/ \E i \in DOMAIN queue : queue[i] = b /\ queue' = RemoveAt(queue, i)
    /\ boot' = [boot EXCEPT ![b] = IdleBoot]
    /\ UNCHANGED <<mode, stop, notify, readers, writer, flock, running, pass, script,
                   open, under, unattended, faults>>

\* A permit given back as soon as the slot is there.
SlotWithoutPermit(b) ==
    /\ boot[b].ph = "slot"
    /\ Cardinality({x \in Boot : boot[x].ph = "start"}) < Slots
    /\ At(b, "start", boot[b].disk, boot[b].permit)
    /\ readers' = readers \ {b}
    /\ flock' = [d \in Disk |-> IF flock[d] = b THEN Free ELSE flock[d]]
    /\ UNCHANGED <<mode, stop, notify, writer, queue, running, pass, script, open,
                   under, unattended, faults>>

\* Permit first, slot second.
bringup_slot(b) ==
    /\ boot[b].ph = "slot"
    /\ Cardinality({x \in Boot : boot[x].ph = "start"}) < Slots
    /\ At(b, "start", boot[b].disk, boot[b].permit)
    /\ UNCHANGED <<mode, stop, notify, gate, flock, running, pass, script, open,
                   under, unattended, faults>>

\* Dropping the permit closes the lock file or the read guard.
DropPermit(b) ==
    /\ readers' = readers \ {b}
    /\ flock' = [d \in Disk |-> IF flock[d] = b THEN Free ELSE flock[d]]
    /\ boot' = [boot EXCEPT ![b] = IdleBoot]

\* start() returns: the daemon has opened the disk, or refused to.
Start(b) ==
    /\ boot[b].ph = "start"
    /\ \/ /\ boot[b].disk \notin open
          /\ open' = open \cup {boot[b].disk}
          /\ under' = [under EXCEPT ![boot[b].disk] = boot[b].permit]
       \/ UNCHANGED <<open, under>>
    /\ DropPermit(b)
    /\ UNCHANGED <<mode, stop, notify, writer, queue, running, pass, script, unattended,
                   faults>>

\* The caller is gone before that: ACTION_TIMEOUT, a client that went away, a
\* start() that came back with an error though the daemon is at work on it.  A
\* call already sent goes on in the daemon without a permit.
GiveUp(b) ==
    /\ boot[b].ph \in {"slot", "start"}
    /\ faults < MaxFaults /\ faults' = faults + 1
    /\ unattended' = IF boot[b].ph = "start" THEN unattended \cup {boot[b].disk} ELSE unattended
    /\ DropPermit(b)
    /\ UNCHANGED <<mode, stop, notify, writer, queue, running, pass, script, open, under>>

\* What the daemon makes of such a call.
LateStart(d) ==
    /\ d \in unattended /\ unattended' = unattended \ {d}
    /\ \/ d \notin open /\ open' = open \cup {d} /\ under' = [under EXCEPT ![d] = "late"]
       \/ UNCHANGED <<open, under>>
    /\ UNCHANGED <<mode, stop, notify, gate, flock, boot, running, pass, script, faults>>

\* A VM stops: reaped, power-cycled, crashed.
StopVm(d) ==
    /\ d \in open
    /\ open' = open \ {d} /\ under' = [under EXCEPT ![d] = "none"]
    /\ UNCHANGED <<mode, stop, notify, gate, flock, boot, running, pass, script, unattended,
                   faults>>

----------------------------------------------------------------------------
(* Passes.                                                                 *)

\* run_once up to the gate, from the timer, after a reap or from the dashboard.
run_once(p) ==
    /\ pass[p].ph = "none" /\ \A q \in 1..(p - 1) : pass[q].ph # "none"
    /\ ~running
    /\ running' = TRUE
    /\ pass' = [pass EXCEPT ![p].ph = "queued"]
    /\ queue' = Append(queue, p)
    /\ UNCHANGED <<mode, stop, notify, readers, writer, flock, boot, script, open,
                   under, unattended, faults>>

\* The way it was once written: a wake-up from before the launch is stale.
LaunchDrained(p, locks) ==
    /\ queue # <<>> /\ Head(queue) = p /\ writer = 0 /\ readers = {}
    /\ writer' = p /\ queue' = Tail(queue)
    /\ marker' = FALSE /\ stop' = FALSE /\ notify' = FALSE
    /\ pass' = [pass EXCEPT ![p] = [ph |-> "run", yielding |-> FALSE]]
    /\ script' = [script EXCEPT ![p] = [NoScript EXCEPT !.ph = "start", !.locks = locks]]
    /\ UNCHANGED <<perDisk, readers, flock, boot, running, open, under, unattended, faults>>

\* A stop file left behind is not removed before the script starts.
LaunchStopped(p, locks) ==
    /\ queue # <<>> /\ Head(queue) = p /\ writer = 0 /\ readers = {}
    /\ writer' = p /\ queue' = Tail(queue)
    /\ marker' = FALSE
    /\ stop' = (stop \/ boots_waiting # {})
    /\ pass' = [pass EXCEPT ![p] = [ph |-> "run", yielding |-> boots_waiting # {}]]
    /\ script' = [script EXCEPT ![p] = [NoScript EXCEPT !.ph = "start", !.locks = locks]]
    /\ UNCHANGED <<perDisk, notify, readers, flock, boot, running, open, under, unattended, faults>>

\* The gate is granted: clear the stop file and the marker, launch the script
\* that is deployed now, which takes locks or not, and stop it at once when a boot
\* is already waiting.
Launch(p, locks) ==
    /\ queue # <<>> /\ Head(queue) = p /\ writer = 0 /\ readers = {}
    /\ writer' = p /\ queue' = Tail(queue)
    /\ marker' = FALSE
    /\ stop' = (boots_waiting # {})
    /\ pass' = [pass EXCEPT ![p] = [ph |-> "run", yielding |-> boots_waiting # {}]]
    /\ script' = [script EXCEPT ![p] = [NoScript EXCEPT !.ph = "start", !.locks = locks]]
    /\ UNCHANGED <<perDisk, notify, readers, flock, boot, running, open, under, unattended, faults>>

\* A wake-up: the count decides whether the script is asked to stop.
Preempt(p) ==
    /\ pass[p].ph = "run" /\ ~pass[p].yielding
    /\ notify /\ notify' = FALSE
    /\ pass' = [pass EXCEPT ![p].yielding = boots_waiting # {}]
    /\ stop' = (stop \/ boots_waiting # {})
    /\ UNCHANGED <<mode, gate, flock, boot, running, script, open, under, unattended, faults>>

\* Returning from run_once drops the gate and the single-flight flag.
Return(p) ==
    /\ stop' = FALSE
    /\ writer' = 0 /\ running' = FALSE
    /\ pass' = [pass EXCEPT ![p] = [ph |-> "done", yielding |-> FALSE]]

\* The script has exited: what it wrote into the marker sets the mode.
Finish(p) ==
    /\ pass[p].ph = "run" /\ script[p].ph = "exit"
    /\ perDisk' = marker
    /\ Return(p)
    /\ script' = [script EXCEPT ![p] = NoScript]
    /\ UNCHANGED <<marker, notify, readers, queue, flock, boot, open, under, unattended, faults>>

\* The command cannot be launched: the mode stands.
LaunchFails(p) ==
    /\ pass[p].ph = "run" /\ script[p].ph = "start"
    /\ Return(p)
    /\ script' = [script EXCEPT ![p] = NoScript]
    /\ UNCHANGED <<mode, notify, readers, queue, flock, boot, open, under, unattended, faults>>

\* RECLAIM_TIMEOUT: only the shell is killed; the script itself may go on.
Timeout(p) ==
    /\ pass[p].ph = "run" /\ script[p].ph # "exit"
    /\ Return(p)
    /\ script' = [script EXCEPT ![p].stray = TRUE]
    /\ UNCHANGED <<mode, notify, readers, queue, flock, boot, open, under, unattended, faults>>

----------------------------------------------------------------------------
(* The script, disk by disk.                                               *)

Script(p, s) == script' = [script EXCEPT ![p] = s]

\* Declare the locks, then look which disks are open on the host.
ScriptStart(p) ==
    /\ script[p].ph = "start"
    /\ marker' = (marker \/ script[p].locks)
    /\ Script(p, [script[p] EXCEPT !.ph = "loop", !.todo = Disk, !.snap = open])
    /\ UNCHANGED <<perDisk, stop, notify, gate, flock, boot, running, pass, open,
                   under, unattended, faults>>

\* The next disk, under its lock if this script takes locks; a disk whose lock
\* is held is skipped.
ScriptNext(p, d) ==
    /\ script[p].ph = "loop" /\ ~stop /\ d \in script[p].todo
    /\ \/ /\ script[p].locks /\ flock[d] # Free
          /\ Script(p, [script[p] EXCEPT !.todo = @ \ {d}])
          /\ UNCHANGED flock
       \/ /\ script[p].locks => flock[d] = Free
          /\ flock' = IF script[p].locks THEN [flock EXCEPT ![d] = p] ELSE flock
          /\ Script(p, [script[p] EXCEPT !.ph = "check", !.disk = d])
    /\ UNCHANGED <<mode, stop, notify, gate, boot, running, pass, open, under, unattended, faults>>

Unlock(p) == flock' = [d \in Disk |-> IF flock[d] = p THEN Free ELSE flock[d]]

\* In use at the start of the pass, or in use now (asked under the lock only).
disk_in_use(p) ==
    \/ script[p].disk \in script[p].snap
    \/ script[p].locks /\ script[p].disk \in open

ScriptCheck(p) ==
    /\ script[p].ph = "check"
    /\ \/ /\ disk_in_use(p)
          /\ Unlock(p)
          /\ Script(p, [script[p] EXCEPT !.ph = "loop", !.todo = @ \ {script[p].disk},
                                         !.disk = Free])
       \/ /\ ~disk_in_use(p)
          /\ Script(p, [script[p] EXCEPT !.ph = "work"])
          /\ UNCHANGED flock
    /\ UNCHANGED <<mode, stop, notify, gate, boot, running, pass, open, under, unattended, faults>>

ScriptDone(p) ==
    /\ script[p].ph = "work"
    /\ Unlock(p)
    /\ Script(p, [script[p] EXCEPT !.ph = "loop", !.todo = @ \ {script[p].disk},
                                   !.disk = Free])
    /\ UNCHANGED <<mode, stop, notify, gate, boot, running, pass, open, under, unattended, faults>>

\* The stop file ends the script between disks and between two stages of one;
\* without it the script ends after the last disk.
ScriptExit(p) ==
    /\ \/ script[p].ph \in {"loop", "work"} /\ stop
       \/ script[p].ph = "loop" /\ script[p].todo = {}
    /\ Unlock(p)
    /\ Script(p, [NoScript EXCEPT !.ph = IF script[p].stray THEN "none" ELSE "exit"])
    /\ UNCHANGED <<mode, stop, notify, gate, boot, running, pass, open, under, unattended, faults>>

----------------------------------------------------------------------------
(* The surroundings.                                                       *)

\* The pooler restarts: its locks and its gate are gone; VMs, starts the daemon
\* is at and a script started through sudo are not.  set_run_dir reads the marker.
Restart ==
    /\ faults < MaxFaults /\ faults' = faults + 1
    /\ perDisk' = marker /\ notify' = FALSE
    /\ readers' = {} /\ writer' = 0 /\ queue' = <<>>
    /\ flock' = [d \in Disk |-> IF flock[d] \in Boot THEN Free ELSE flock[d]]
    /\ boot' = [b \in Boot |-> IdleBoot]
    /\ running' = FALSE
    /\ pass' = [p \in Pass |-> IF pass[p].ph = "none" THEN NoPass
                                                      ELSE [NoPass EXCEPT !.ph = "done"]]
    /\ script' = [p \in Pass |-> IF script[p].ph \in {"none", "exit"} THEN NoScript
                                 ELSE [script[p] EXCEPT !.stray = TRUE]]
    /\ unattended' = unattended \cup {boot[b].disk : b \in {x \in Boot : boot[x].ph = "start"}}
    /\ UNCHANGED <<marker, stop, open, under>>

BootStep(b) ==
    \/ \E d \in Disk : acquire(b, d)
    \/ TryFlock(b) \/ FlockFails(b) \/ GrantRead(b) \/ Abandon(b)
    \/ bringup_slot(b) \/ Start(b) \/ GiveUp(b)

PassStep(p) ==
    \/ run_once(p) \/ (\E locks \in BOOLEAN : Launch(p, locks)) \/ Preempt(p)
    \/ Finish(p) \/ LaunchFails(p) \/ Timeout(p)

ScriptStep(p) ==
    \/ ScriptStart(p) \/ (\E d \in Disk : ScriptNext(p, d))
    \/ ScriptCheck(p) \/ ScriptDone(p) \/ ScriptExit(p)

Next ==
    \/ \E b \in Boot : BootStep(b)
    \/ \E p \in Pass : PassStep(p) \/ ScriptStep(p)
    \/ \E d \in Disk : StopVm(d) \/ LateStart(d)
    \/ Restart

Spec == Init /\ [][Next]_vars

\* Waits end: a task that can go on does, start() returns, the gate is fair and
\* a lock file is polled again and again.  Of the script only this is assumed:
\* told to stop, it reaches its next yield point.  Left alone it may take for ever.
Fairness ==
    /\ \A b \in Boot :
        /\ SF_vars(TryFlock(b)) /\ WF_vars(GrantRead(b)) /\ SF_vars(bringup_slot(b))
        /\ WF_vars(Start(b))
    /\ \A p \in Pass :
        /\ WF_vars(\E locks \in BOOLEAN : Launch(p, locks)) /\ WF_vars(Preempt(p)) /\ WF_vars(Finish(p))
        /\ WF_vars(stop /\ ScriptStep(p))

FairSpec == Spec /\ Fairness

----------------------------------------------------------------------------
\* No VM whose start() returned to its caller runs on a disk a script is working
\* on (reclaim.rs, "Safety is layered").  Booted under its disk's lock it is safe from
\* every script that takes locks, for as long as that script lives; booted under
\* the gate it is safe from every script that has not outlived its pass.  A VM
\* that came up after its start was given up is excepted: see NoLateBoot.
NoBootOverTrim ==
    \A p \in Pass, d \in Disk :
        Trimming(p, d) /\ d \in open =>
            \/ under[d] = "lock" /\ ~script[p].locks
            \/ under[d] = "gate" /\ script[p].stray
            \/ under[d] = "late"

\* "Start/reboot open a stopped disk - mutually exclusive with reclaim passes"
\* (dashboard/handlers.rs).  It does not hold: ACTION_TIMEOUT drops the permit, and
\* the daemon may open the disk after the script has looked at it.
NoLateBoot ==
    \A p \in Pass, d \in Disk :
        Trimming(p, d) /\ d \in open /\ under[d] = "late" => script[p].stray

\* A boot that waits for a pass is served though the pass would go on for ever:
\* the pass hears of it, whenever the boot arrived, and yields.  Only a script
\* that outlived its pass cannot be asked.
BootServed ==
    \A b \in Boot :
        boot[b].ph # "idle" ~> (boot[b].ph = "idle" \/ \E p \in Pass : script[p].stray)

\* Who holds or awaits the gate is who the code thinks it is: every boot in the
\* queue still waits, a read guard belongs to a boot with a gate permit, a lock
\* file to a boot with a lock permit or to a script at that disk, and a pass that
\* runs is alone (the Drop-based guards of acquire, disk_permit and run_once).
HoldersAreLive ==
    /\ \A i \in DOMAIN queue : queue[i] \in Boot => boot[queue[i]].ph = "queued"
    /\ readers = {b \in Boot : boot[b].permit = "gate"}
    /\ \A d \in Disk : flock[d] \in Boot => boot[flock[d]].permit = "lock" /\ boot[flock[d]].disk = d
    /\ \A d \in Disk : flock[d] \in Pass => script[flock[d]].disk = d
    /\ writer # 0 => readers = {} /\ running /\ pass[writer].ph = "run"
    /\ \A p \in Pass : pass[p].ph = "run" => writer = p

\* A stop file raised for one pass never cuts a later one short: a pass that has
\* not been asked to yield runs without it (clear_stop before and after a pass).
StopIsForThisPass == \A p \in Pass : pass[p].ph = "run" /\ stop => pass[p].yielding
============================================================================
