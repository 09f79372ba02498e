----------------------------- MODULE Components -----------------------------
(***************************************************************************)
(* The components with small state spaces side by side: the locks of the   *)
(* store, bring-up, the image tier, the dump server, dedicated databases   *)
(* and alert rules.  They share no variable; the first state chooses which *)
(* of them moves, and the others stay in their initial states.             *)
(***************************************************************************)
EXTENDS Naturals, Sequences, FiniteSets

VARIABLE which

CONSTANTS Thread, Schema, Sandbox, NoRow, NoSet, Free
VARIABLES table, cache, mapLock, cacheLock, pc, ret

Locks == INSTANCE StoreLocks WITH rows <- table

CONSTANTS ReadyPolls, GracePolls, WindowProbes, ProbeFailures, MaxAttempts, MaxEvents
VARIABLES vm, boot, pg, jobs, exitCode, loaded, b, heard, overtaken, attempts, events

Boot == INSTANCE BootReady WITH sentinel <- exitCode

CONSTANTS Parts, MaxWrites, MaxFaults, MaxRestarts
VARIABLES writes, tier, volume, open, local, image, dump, uploads, region, job, res, scratch,
          leftover, lost, strays, faults, restarts

Image == INSTANCE ImageMove WITH disk <- volume

CONSTANTS MaxJobs, Pieces, MinPieces, Route
VARIABLES grant, put, file, tmp, dest, shell, sentinel, obj, attempt, outlived, torn

Dump == INSTANCE DumpServer WITH job <- attempt, guest <- shell

CONSTANTS Name, Identifier, SchemaName, Pass, Shared, Tls, Handler, MAX_RECORDS, Budgets
VARIABLES mem, data, cred, credTmp, op, registered, conn, known, overlapped, left

Creds == INSTANCE Dedicated WITH file <- cred, tmp <- credTmp, rows <- registered

CONSTANTS Id, MaxLevel, Editor, MAX_RULES, MaxEdits, MaxLost
VARIABLES rules, filed, request, fresh, tick, fails, seen, unread, told, astray, edits, losses,
          reboots

Rules == INSTANCE Alerts WITH
    Handler <- Editor, saved <- filed, op <- request, restarts <- reboots

\* What each component assumes of its constants.
ASSUME LocksFacts == Locks!LocksAssumption
ASSUME BootFacts == Boot!BootReadyAssumption
ASSUME ImageFacts == Image!ImageMoveAssumption
ASSUME DumpFacts == Dump!DumpAssumption
ASSUME CredsFacts == Creds!DedicatedAssumption
ASSUME RulesFacts == Rules!AlertsAssumption

locks == <<table, cache, mapLock, cacheLock, pc, ret>>
boots == <<vm, boot, pg, jobs, exitCode, loaded, b, heard, overtaken, attempts, events>>
images == <<writes, tier, volume, open, local, image, dump, uploads, region, job, res,
            scratch, leftover, lost, strays, faults, restarts>>
dumps == <<grant, put, file, tmp, dest, shell, sentinel, obj, attempt, outlived, torn>>
creds == <<mem, data, cred, credTmp, op, registered, conn, known, overlapped, left>>
alerts == <<rules, filed, request, fresh, tick, fails, seen, unread, told, astray, edits,
            losses, reboots>>
vars == <<which, locks, boots, images, dumps, creds, alerts>>

Init ==
    /\ which \in {"locks", "boot", "image", "dump", "creds", "alerts"}
    /\ Locks!Init /\ Boot!Init /\ Image!Init /\ Dump!Init /\ Creds!Init /\ Rules!Init
    /\ which # "creds" => left = CHOOSE s \in Budgets : TRUE

MovesLocks ==
    /\ which = "locks" /\ Locks!Next
    /\ UNCHANGED <<which, boots, images, dumps, creds, alerts>>
MovesBoot ==
    /\ which = "boot" /\ Boot!Next
    /\ UNCHANGED <<which, locks, images, dumps, creds, alerts>>
MovesImage ==
    /\ which = "image" /\ Image!Next
    /\ UNCHANGED <<which, locks, boots, dumps, creds, alerts>>
MovesDump ==
    /\ which = "dump" /\ Dump!Next
    /\ UNCHANGED <<which, locks, boots, images, creds, alerts>>
MovesCreds ==
    /\ which = "creds" /\ Creds!Next
    /\ UNCHANGED <<which, locks, boots, images, dumps, alerts>>
MovesAlerts ==
    /\ which = "alerts" /\ Rules!Next
    /\ UNCHANGED <<which, locks, boots, images, dumps, creds>>

Next == MovesLocks \/ MovesBoot \/ MovesImage \/ MovesDump \/ MovesCreds \/ MovesAlerts

Spec == Init /\ [][Next]_vars

----------------------------------------------------------------------------
(* The properties, as their modules state them.                            *)

\* The cached set of bound ids is never stale outside put (Store::bound_ids).
CacheFresh == Locks!CacheFresh

\* A dump is trusted only when it is this attempt's and whole (await_server_upload).
TrustedWhole == Dump!TrustedWhole

\* No half-written upload looks like a complete dump (handle_put, handle_commit).
NeverHalf == Dump!NeverHalf

\* What a caller was told of a credential survives faults and restarts (Credentials).
AckedDurable == Creds!AckedDurable

\* A served credential is one a restart finds again (Credentials::create).
NoPhantom == Creds!NoPhantom

\* Who opens a dedicated database has proved its password (handle_conn).
ProvedOwner == Creds!ProvedOwner

\* The last write is whole where the row says it is (imgarchive).
NewestKept == Image!NewestKept

\* No upload and no scratch file outlives its transfer (upload_file, gc_restore_scratch).
CleanedUp == Image!CleanedUp

\* What is served has been loaded to the end (restore_from_s3, await_detached_job).
ServedWhole == Boot!ServedWhole

\* A VM is power-cycled on evidence only (ready_pg).
CycleOnEvidence == Boot!CycleOnEvidence

\* An endpoint heard last what the last reading means (AlertStore::evaluate, deliver).
Told == Rules!Told
=============================================================================
