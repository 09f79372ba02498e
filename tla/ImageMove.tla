----------------------------- MODULE ImageMove -----------------------------
(***************************************************************************)
(* A schema's disk on its way to S3 or to a local image, and back          *)
(* (src/src/imgarchive.rs over src/src/s3.rs), step by step: what          *)
(* SchemaLife takes as single steps of a job and of a bring-up.            *)
(*                                                                         *)
(* Data is the number of the last write it holds, Bad when it is empty or  *)
(* cut short, and Torn when it was read or written beside a VM.  S3 keeps  *)
(* whole objects; a request takes effect before its client gives up on it, *)
(* or never, and its answer may be lost either way.  Too little free       *)
(* space, a scan that does not see a holder, and a tool or a request that  *)
(* fails, are all the one fault.                                           *)
(***************************************************************************)
EXTENDS Naturals

CONSTANTS
    Parts,              \* parts of PART_SIZE in an image sent as multipart
    MaxWrites, MaxFaults, MaxRestarts   \* bounds

Bad == 0
Torn == MaxWrites + 2
NoObject == [data |-> Bad, len |-> 0, stamp |-> 0]

\* What the constants must satisfy; MCParts assumes it of its instance.
ImageMoveAssumption ==
    /\ Parts \in Nat \ {0} /\ {MaxWrites, MaxFaults, MaxRestarts} \subseteq Nat

VARIABLES
    writes,             \* writes made by clients so far
    tier,               \* the row: Tier
    disk,               \* the data of the bound VM's disk
    open,               \* who has that disk, or the vehicle's, open: a VM, one on its way out
    local,              \* the compact image
    image, dump,        \* the objects under the schema's two keys
    uploads,            \* multipart uploads S3 still keeps parts of
    region,             \* discovered_region is set
    job,                \* an archive, a compaction or a promotion
    res,                \* a restore
    scratch,            \* files in the restore scratch directory
    leftover,           \* a VM of the schema's name that nothing is bound to
    lost,               \* history: a restart came in between, a dump or an open disk was missed
    strays,             \* history: uploads whose abort failed, or that nobody could abort
    faults, restarts

remote == <<image, dump, uploads>>
bounds == <<faults, restarts>>
vars ==
    <<writes, tier, disk, open, local, remote, region, job, res, scratch, leftover, lost,
      strays, bounds>>

Data == 0..(MaxWrites + 2)
Object == [data : Data, len : 0..Parts, stamp : {0, 1}]
NoJob == [ph |-> "none", to |-> "s3", data |-> Bad, n |-> 0, base |-> NoObject]
NoRestore == [ph |-> "none", data |-> Bad, vehicle |-> Bad, provenance |-> "created"]

Transfer ==
    [ph : {"none", "stopped", "spooled", "upload", "part", "verify", "undump", "flip"},
     to : {"s3", "local"}, data : Data, n : 0..Parts, base : Object]
Restore ==
    [ph : {"none", "get", "unpack", "vehicle", "claimed", "stopped", "copied", "booted"},
     data : Data, vehicle : Data, provenance : {"spare", "created"}]

TypeOK ==
    /\ writes \in 0..(MaxWrites + 1) /\ tier \in {"live", "compacted", "archived"}
    /\ disk \in Data /\ open \in {"no", "vm", "dying"}
    /\ local \in Data /\ image \in Object /\ dump \in Data /\ uploads \in Nat
    /\ region \in BOOLEAN
    /\ job \in Transfer /\ res \in Restore
    /\ scratch \subseteq {"zst", "raw"} /\ leftover \in BOOLEAN
    /\ lost \subseteq {"scratch", "dump", "scan"} /\ strays \in Nat
    /\ faults \in 0..MaxFaults /\ restarts \in 0..MaxRestarts

Init ==
    /\ writes = 1 /\ tier = "live" /\ disk = 1 /\ open = "vm"
    /\ local = Bad /\ image = NoObject /\ dump = Bad /\ uploads = 0
    /\ region = FALSE /\ job = NoJob /\ res = NoRestore
    /\ scratch = {} /\ leftover = FALSE /\ lost = {} /\ strays = 0
    /\ faults = 0 /\ restarts = 0

Fault == faults < MaxFaults /\ faults' = faults + 1 /\ UNCHANGED restarts
Idle == job.ph = "none" /\ res.ph = "none"

\* Mutant of wait_disk_released: the acknowledged stop is enough.
ReleasedOnAck(blind) == TRUE

\* The daemon acknowledges a stop before the VM's process exits; the scan of open files
\* tells, and a disk still held after DISK_RELEASE_TIMEOUT is an error.  A scan that is
\* refused a look at the holder finds the disk free.
wait_disk_released(blind) == open = "no" \/ blind

\* What is read from, or left on, a disk that may be held.
Beside(data) == IF open = "no" THEN {data} ELSE {data, Torn}
Missed(blind) == lost' = IF blind /\ open # "no" THEN lost \cup {"scan"} ELSE lost

----------------------------------------------------------------------------
(* The store.                                                              *)

\* The HEAD of a key finds the bucket's region before it finds the object.
head_object == region' = TRUE

\* A new object, told from the one it replaces by its etag and date.
Stamped(n) == [data |-> job.data, len |-> n, stamp |-> 1 - image.stamp]

----------------------------------------------------------------------------
(* Out: archive_disk, compact_disk, promote_compact.                       *)

JobFails ==
    /\ job' = NoJob
    /\ UNCHANGED <<writes, tier, disk, open, local, res, scratch, leftover, lost, strays>>

Goes(ph) == job' = [job EXCEPT !.ph = ph]

\* The claimed schema's VM has been told to stop.
BeginOut(to) ==
    /\ Idle /\ tier = "live"
    /\ job' = [NoJob EXCEPT !.ph = "stopped", !.to = to]
    /\ open' = IF open = "vm" THEN "dying" ELSE open
    /\ UNCHANGED <<writes, tier, disk, local, remote, region, res, scratch, leftover,
                   lost, strays, bounds>>

\* A compact image is sent as it is.
BeginPromote ==
    /\ Idle /\ tier = "compacted"
    /\ job' = [NoJob EXCEPT !.ph = "spooled", !.data = local]
    /\ UNCHANGED <<writes, tier, disk, open, local, remote, region, res, scratch,
                   leftover, lost, strays, bounds>>

\* zstd -t and the ext4 magic refuse an image that is cut short or empty, not one of a
\* disk that was written to meanwhile.
verified(data) == data # Bad

\* Compression: whole, cut short, or of a disk that only seems free.
Spool(how) ==
    /\ job.ph = "stopped" /\ wait_disk_released(how = "blind") /\ Missed(how = "blind")
    /\ IF how = "whole" THEN UNCHANGED bounds ELSE Fault
    /\ \E data \in IF how = "cut" THEN {Bad} ELSE Beside(disk) :
          job' = IF verified(data)
                 THEN [job EXCEPT !.ph = IF job.to = "s3" THEN "spooled" ELSE "flip", !.data = data]
                 ELSE NoJob
    /\ UNCHANGED <<writes, tier, disk, open, local, remote, region, res, scratch, leftover,
                   strays>>

\* What stands at the key before the upload.
Baseline ==
    /\ job.ph = "spooled" /\ head_object
    /\ job' = [job EXCEPT !.ph = "upload", !.base = image]
    /\ UNCHANGED <<writes, tier, disk, open, local, remote, res, scratch, leftover, lost, strays,
                   bounds>>

\* upload_file: one PUT.
put_object ==
    /\ job.ph = "upload" /\ region /\ Goes("verify")
    /\ image' = Stamped(Parts)
    /\ UNCHANGED <<writes, tier, disk, open, local, dump, uploads, region, res, scratch,
                   leftover, lost, strays, bounds>>

\* The answer of a PUT, or of a completion, is lost: the object may be there.
AnswerLost ==
    /\ job.ph = "upload" \/ (job.ph = "part" /\ job.n = Parts)
    /\ region /\ Fault /\ JobFails
    /\ image' = Stamped(Parts) /\ uploads' = IF job.ph = "part" THEN uploads - 1 ELSE uploads
    /\ UNCHANGED <<dump, region>>

initiate_multipart ==
    /\ job.ph = "upload" /\ region /\ Goes("part")
    /\ uploads' = uploads + 1
    /\ UNCHANGED <<writes, tier, disk, open, local, image, dump, region, res, scratch,
                   leftover, lost, strays, bounds>>

\* The answer that names a new upload is lost or makes no sense: nobody can abort it.
InitiateLost ==
    /\ job.ph = "upload" /\ region /\ Fault /\ job' = NoJob
    /\ uploads' = uploads + 1 /\ strays' = strays + 1
    /\ UNCHANGED <<writes, tier, disk, open, local, image, dump, region, res, scratch,
                   leftover, lost>>

upload_part ==
    /\ job.ph = "part" /\ job.n < Parts
    /\ job' = [job EXCEPT !.n = @ + 1]
    /\ UNCHANGED <<writes, tier, disk, open, local, remote, region, res, scratch,
                   leftover, lost, strays, bounds>>

\* The parts named make the object; a 200 that carries an error is a failure.
complete_multipart ==
    /\ job.ph = "part" /\ job.n = Parts /\ Goes("verify")
    /\ image' = Stamped(job.n) /\ uploads' = uploads - 1
    /\ UNCHANGED <<writes, tier, disk, open, local, dump, region, res, scratch, leftover,
                   lost, strays, bounds>>

\* Mutant of abort_multipart: a failed upload is left as it is.
AbortNever == UNCHANGED <<uploads, strays>>

\* Best effort: the parts stay when the abort fails as well.
abort_multipart ==
    \/ uploads' = uploads - 1 /\ UNCHANGED strays
    \/ UNCHANGED uploads /\ strays' = strays + 1

PartFails ==
    /\ job.ph = "part" /\ Fault
    /\ job' = NoJob /\ abort_multipart
    /\ UNCHANGED <<writes, tier, disk, open, local, image, dump, region, res, scratch,
                   leftover, lost>>

\* The object must have the file's length and not be what the baseline saw.
Verify ==
    /\ job.ph = "verify" /\ head_object
    /\ IF image.len = Parts /\ image # job.base THEN Goes("undump") ELSE job' = NoJob
    /\ UNCHANGED <<writes, tier, disk, open, local, remote, res, scratch, leftover, lost, strays,
                   bounds>>

\* A dump left at the schema's other key is older, and a restore would prefer it.
delete_object ==
    /\ job.ph = "undump" /\ Goes("flip") /\ dump' = Bad
    /\ UNCHANGED <<writes, tier, disk, open, local, image, uploads, region, res, scratch,
                   leftover, lost, strays, bounds>>

DeleteFails ==
    /\ job.ph = "undump" /\ Fault /\ JobFails /\ dump' \in {dump, Bad}
    /\ UNCHANGED <<image, uploads, region>>

\* Any other step fails: nothing has changed but what the steps before it did.
StepFails ==
    /\ job.ph \in {"stopped", "spooled", "upload", "verify"} /\ Fault /\ JobFails
    /\ UNCHANGED <<remote, region>>

\* The caller flips the tier and gives the disk or the local image up.
Flip ==
    /\ job.ph = "flip" /\ job' = NoJob
    /\ tier' = IF job.to = "s3" THEN "archived" ELSE "compacted"
    /\ local' = IF job.to = "s3" THEN Bad ELSE job.data
    /\ disk' = Bad
    /\ UNCHANGED <<writes, open, remote, region, res, scratch, leftover, lost, strays, bounds>>

Out ==
    \/ BeginOut("s3") \/ BeginOut("local") \/ BeginPromote
    \/ Spool("whole") \/ Spool("cut") \/ Spool("blind") \/ Baseline
    \/ put_object \/ initiate_multipart \/ InitiateLost \/ upload_part \/ complete_multipart
    \/ AnswerLost \/ PartFails \/ Verify \/ delete_object \/ DeleteFails
    \/ StepFails \/ Flip

----------------------------------------------------------------------------
(* Back: materialize_from_image, materialize_from_local_image.             *)

ResGoes(ph) == res' = [res EXCEPT !.ph = ph]
Swept == scratch' = {}

\* The dump is preferred; an image that is missing or too short ends the restore.
BeginRestore ==
    /\ Idle /\ tier = "archived" /\ dump = Bad /\ head_object
    /\ image.len > 0 /\ res' = [NoRestore EXCEPT !.ph = "get"]
    /\ UNCHANGED <<writes, tier, disk, open, local, remote, job, scratch, leftover, lost, strays,
                   bounds>>

\* pick_restore takes a failed HEAD of the dump for no dump, and an image that is there
\* for the archive, whatever its age.
Misread ==
    /\ Idle /\ tier = "archived" /\ dump # Bad /\ image.len > 0 /\ Fault /\ head_object
    /\ res' = [NoRestore EXCEPT !.ph = "get"] /\ lost' = lost \cup {"dump"}
    /\ UNCHANGED <<writes, tier, disk, open, local, remote, job, scratch, leftover,
                   strays>>

BeginThaw ==
    /\ Idle /\ tier = "compacted"
    /\ res' = [NoRestore EXCEPT !.ph = "unpack", !.data = local]
    /\ UNCHANGED <<writes, tier, disk, open, local, remote, region, job, scratch,
                   leftover, lost, strays, bounds>>

\* The length of the HEAD tells a short body from the object.
download ==
    /\ res.ph = "get" /\ region
    /\ res' = [res EXCEPT !.ph = "unpack", !.data = image.data]
    /\ scratch' = scratch \cup {"zst"}
    /\ UNCHANGED <<writes, tier, disk, open, local, remote, region, job, leftover, lost, strays,
                   bounds>>

\* Decompressed and found to be ext4.
Unpack ==
    /\ res.ph = "unpack" /\ verified(res.data) /\ ResGoes("vehicle")
    /\ scratch' = scratch \cup {"raw"}
    /\ UNCHANGED <<writes, tier, disk, open, local, remote, region, job, leftover, lost, strays,
                   bounds>>

\* A spare, or a new VM of the schema's name: with an empty disk, and running.
claim_restore_vehicle(provenance) ==
    /\ res.ph = "vehicle" /\ (provenance = "created" => ~leftover)
    /\ res' = [res EXCEPT !.ph = "claimed", !.vehicle = Bad, !.provenance = provenance]
    /\ open' = "vm"
    /\ UNCHANGED <<writes, tier, disk, local, remote, region, job, scratch, leftover,
                   lost, strays, bounds>>

\* swap_and_boot: stop, wait, copy in place, start.
StopVehicle ==
    /\ res.ph = "claimed" /\ open' = "dying" /\ ResGoes("stopped")
    /\ UNCHANGED <<writes, tier, disk, local, remote, region, job, scratch, leftover,
                   lost, strays, bounds>>

Copy(blind) ==
    /\ res.ph = "stopped" /\ wait_disk_released(blind) /\ Missed(blind)
    /\ IF blind THEN Fault ELSE UNCHANGED bounds
    /\ \E data \in Beside(res.data) : res' = [res EXCEPT !.ph = "copied", !.vehicle = data]
    /\ UNCHANGED <<writes, tier, disk, open, local, remote, region, job, scratch, leftover,
                   strays>>

Boot ==
    /\ res.ph = "copied" /\ open' = "vm" /\ ResGoes("booted") /\ Swept
    /\ UNCHANGED <<writes, tier, disk, local, remote, region, job, leftover, lost, strays, bounds>>

\* Whatever fails, the files go; a vehicle is destroyed, unless the kill fails too.
RestoreFails ==
    /\ res.ph \notin {"none", "booted"} /\ Fault /\ res' = NoRestore /\ Swept
    /\ IF res.ph \in {"claimed", "stopped", "copied"}
       THEN /\ open' = "no"
            /\ leftover' \in {leftover, leftover \/ res.provenance = "created"}
       ELSE UNCHANGED <<open, leftover>>
    /\ UNCHANGED <<writes, tier, disk, local, remote, region, job, lost, strays>>

\* The caller binds the VM, flips the row, and only then removes a compact image.
Thawed ==
    /\ res.ph = "booted" /\ res' = NoRestore
    /\ tier' = "live" /\ disk' = res.vehicle /\ local' = Bad
    /\ UNCHANGED <<writes, open, remote, region, job, scratch, leftover, lost, strays, bounds>>

\* Files that nothing has touched for SCRATCH_MAX_AGE: no restore takes that long.
gc_restore_scratch ==
    /\ res.ph = "none" /\ scratch # {} /\ Swept /\ lost' = lost \ {"scratch"}
    /\ UNCHANGED <<writes, tier, disk, open, local, remote, region, job, res, leftover,
                   strays, bounds>>

Back ==
    \/ BeginRestore \/ Misread \/ BeginThaw \/ download \/ Unpack
    \/ claim_restore_vehicle("spare") \/ claim_restore_vehicle("created")
    \/ StopVehicle \/ Copy(TRUE) \/ Copy(FALSE) \/ Boot \/ RestoreFails \/ Thawed \/ gc_restore_scratch

----------------------------------------------------------------------------
(* Clients, VMs, the dump path, and restarts.                              *)

Write ==
    /\ Idle /\ tier = "live" /\ writes <= MaxWrites
    /\ writes' = writes + 1 /\ disk' = writes' /\ open' = "vm"
    /\ UNCHANGED <<tier, local, remote, region, job, res, scratch, leftover, lost, strays, bounds>>

Exit ==
    /\ open = "dying" /\ open' = "no"
    /\ UNCHANGED <<writes, tier, disk, local, remote, region, job, res, scratch,
                   leftover, lost, strays, bounds>>

\* The other way to S3 and back, whole: its object stays when the schema is live again.
DumpArchive ==
    /\ Idle /\ tier = "live" /\ dump' = disk /\ tier' = "archived" /\ disk' = Bad /\ open' = "no"
    /\ UNCHANGED <<writes, local, image, uploads, region, job, res, scratch, leftover,
                   lost, strays, bounds>>

DumpRestore ==
    /\ Idle /\ tier = "archived" /\ dump # Bad /\ disk' = dump /\ tier' = "live" /\ open' = "vm"
    /\ UNCHANGED <<writes, local, remote, region, job, res, scratch, leftover, lost, strays,
                   bounds>>

\* Another sweep deletes a VM that nothing is bound to.
Reaped ==
    /\ leftover /\ leftover' = FALSE
    /\ UNCHANGED <<writes, tier, disk, open, local, remote, region, job, res, scratch,
                   lost, strays, bounds>>

Restart ==
    /\ restarts < MaxRestarts /\ restarts' = restarts + 1 /\ UNCHANGED faults
    /\ job' = NoJob /\ res' = NoRestore /\ region' = FALSE
    /\ strays' = IF job.ph = "part" THEN strays + 1 ELSE strays
    /\ lost' = IF scratch # {} THEN lost \cup {"scratch"} ELSE lost
    /\ leftover' = (leftover \/ (res.ph \in {"claimed", "stopped", "copied", "booted"}
                                 /\ res.provenance = "created"))
    /\ UNCHANGED <<writes, tier, disk, open, local, remote, scratch>>

World == Write \/ Exit \/ DumpArchive \/ DumpRestore \/ Reaped \/ Restart

Next == Out \/ Back \/ World

Spec == Init /\ [][Next]_vars

----------------------------------------------------------------------------
\* Wherever the row says the data is, the last write is there whole, and is what a
\* restore will pick; through failed uploads, lost answers, files cut short, VMs that die
\* slowly and restarts; unless a dump was missed, or the scan did not see who held a disk
\* (archive_via_spool, promote_compact, adopt_zst_image, wait_disk_released).
NewestKept ==
    {"dump", "scan"} \cap lost = {} =>
    CASE tier = "live" -> disk = writes
      [] tier = "compacted" -> local = writes
      [] tier = "archived" -> IF dump # Bad THEN dump = writes
                              ELSE image.data = writes /\ image.len = Parts

\* S3 keeps parts of the upload under way and of those that could not be aborted: the
\* abort failed, the answer naming the upload was lost, the pooler was restarted; no
\* scratch file outlives its restore but for a restart (upload_file,
\* materialize_from_image).
CleanedUp ==
    /\ uploads = strays + (IF job.ph = "part" THEN 1 ELSE 0)
    /\ scratch # {} => res.ph # "none" \/ "scratch" \in lost

\* What pick_restore says of itself: a transport failure falls back to the dump, and so an
\* image is restored only when there is no dump.
DumpFallback == [][res.ph = "none" /\ res'.ph = "get" => dump = Bad]_vars
=============================================================================
