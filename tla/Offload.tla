------------------------------ MODULE Offload ------------------------------
(***************************************************************************)
(* Which schema is offloaded, when and by whom (src/src/registry.rs): the  *)
(* pacer, the drain loop of the pressure pass and of the TTL sweep, and    *)
(* the operator's archive sweep.  They pick from the same registry, run    *)
(* jobs side by side, and meet at the claim of a schema.                   *)
(*                                                                         *)
(* Idle times are counted up to MaxAge; a threshold of Off is a tier that  *)
(* is not offered.  The disk level, the host's load and its waiting boots  *)
(* are not state: they decide when a dispatcher takes a step it could      *)
(* take, and the drain loop may find the disk low at any time.  Schemas    *)
(* kept alive are never candidates and are left out.                       *)
(***************************************************************************)
EXTENDS Naturals, FiniteSets

CONSTANTS
    Schema,
    Workers,        \* PG_VM_POOL_OFFLOAD_WORKERS
    MaxFails,       \* SWEEP_MAX_CONSECUTIVE_FAILURES
    Policy,         \* configurations: the thresholds of the tiers, image archives or not
    TtlAfter,       \* the threshold of the operator's TTL sweep
    MaxAge,         \* bound: idle times told apart
    MaxConnects, MaxFaults, MaxSweeps   \* bounds

Off == MaxAge + 1

ASSUME OffloadAssumption ==
    /\ {Workers, MaxFails} \subseteq Nat \ {0}
    /\ {MaxAge, MaxConnects, MaxFaults, MaxSweeps} \subseteq Nat
    /\ TtlAfter \in 0..Off
    /\ Policy \subseteq [compact : 0..Off, freeze : 0..Off, archive : 0..Off, image : BOOLEAN]

VARIABLES
    cfg,            \* the configuration, read once at the start
    tier, age,      \* the row: Tier, and now - last_active
    warm,           \* the entry of the map: absent, with sessions, or idle
    client,         \* a checkout under way, or its session outside the map
    archiving,      \* SchemaRegistry::archiving
    held,           \* OffloadBackoff: schemas within their window
    job,            \* the jobs of each dispatcher: the kind it picked and what it does
    hold,           \* the pacer's hold_until lies ahead
    sweeping,       \* SchemaRegistry::sweeping
    drain,          \* offload_drain_loop
    sweep,          \* sweep_archive
    failed,         \* history: whose job failed at what, with no window or success since
    overtaken,      \* history: schemas claimed while a checkout was past the check
    connects, faults, sweeps

rows == <<tier, age, warm>>
clients == <<client, overtaken>>
claims == <<archiving, held, failed>>
loops == <<hold, sweeping, drain, sweep, sweeps>>
vars == <<cfg, rows, clients, claims, job, loops, connects, faults>>

Dispatcher == {"pacer", "drain", "sweep"}
Tier == {"live", "frozen", "compacted", "archived"}
OffloadKind == {"promote", "compact", "image", "archive", "freeze"}
NoJob == [ph |-> "none", kind |-> "promote", does |-> "promote"]
NoDrain == [ph |-> "idle", mode |-> "ttl", fails |-> 0]
NoSweep == [ph |-> "idle", promote |-> {}, archive |-> {}, fails |-> 0]

TypeOK ==
    /\ cfg \in Policy
    /\ tier \in [Schema -> Tier] /\ age \in [Schema -> 0..MaxAge]
    /\ warm \in [Schema -> {"none", "busy", "idle"}]
    /\ archiving \subseteq Schema /\ held \subseteq Schema
    /\ client \in [Schema -> {"none", "waits", "past", "evicted", "stray"}]
    /\ failed \subseteq Dispatcher \X Schema /\ overtaken \subseteq Schema
    /\ job \in [Dispatcher -> [Schema ->
                   [ph : {"none", "picked", "run", "won", "erred", "done", "failed", "skipped"},
                    kind : OffloadKind, does : OffloadKind]]]
    /\ hold \in BOOLEAN /\ sweeping \in BOOLEAN
    /\ drain \in [ph : {"idle", "fill", "await", "out"}, mode : {"pressure", "ttl"},
                  fails : 0..MaxFails]
    /\ sweep \in [ph : {"idle", "next", "await"}, promote : SUBSET Schema,
                  archive : SUBSET Schema, fails : 0..MaxFails]
    /\ connects \in 0..MaxConnects /\ faults \in 0..MaxFaults /\ sweeps \in 0..MaxSweeps

\* A pooler that has just started on an old registry: nothing offloaded yet, every row
\* stale, no entry in the map.
Init ==
    /\ cfg \in Policy
    /\ tier = [s \in Schema |-> "live"] /\ age = [s \in Schema |-> MaxAge]
    /\ warm = [s \in Schema |-> "none"]
    /\ client = [s \in Schema |-> "none"] /\ overtaken = {}
    /\ archiving = {} /\ held = {} /\ failed = {}
    /\ job = [d \in Dispatcher |-> [s \in Schema |-> NoJob]]
    /\ hold = FALSE /\ sweeping = FALSE /\ drain = NoDrain /\ sweep = NoSweep
    /\ connects = 0 /\ faults = 0 /\ sweeps = 0

----------------------------------------------------------------------------
(* What to offload next.                                                   *)

Jobs(d) == {s \in Schema : job[d][s].ph # "none"}
boots(kind) == kind \in {"archive", "freeze"}

\* What a schema idle for after is worth; with its entry taken into account or not.  An
\* entry without sessions is younger than any threshold but 0: the reaper's timeout is
\* far shorter.
classify_candidate(s, after, live) ==
    IF tier[s] # "live" \/ age[s] < after THEN "skip"
    ELSE IF live /\ warm[s] # "none" /\ (warm[s] = "busy" \/ 0 < after) THEN "refresh"
    ELSE "archive"

offload_policy == [compact |-> cfg.compact, freeze |-> cfg.freeze,
                   archive |-> cfg.archive, image |-> cfg.image, mode |-> "routine"]

\* Under pressure, and in a TTL sweep, a configured tier gets another threshold.
Configured(after, a) == IF after = Off THEN Off ELSE a

drain_policy ==
    LET a == IF drain.mode = "pressure" THEN 0 ELSE TtlAfter
    IN [compact |-> Configured(cfg.compact, a), freeze |-> Off,
        archive |-> Configured(cfg.archive, a), image |-> cfg.image, mode |-> "pressure"]

Eligible(s, after, live) == after # Off /\ classify_candidate(s, after, live) = "archive"

\* The one job a schema is up for, or none.  Without a boot only a disk that no entry
\* may hold open.
KindOf(s, p, noBoot) ==
    CASE tier[s] = "archived" -> "none"
      [] tier[s] \in {"frozen", "compacted"} ->
           IF age[s] >= p.archive THEN "promote" ELSE "none"
      [] OTHER ->
           IF warm[s] = "none" /\ Eligible(s, p.compact, FALSE) THEN "compact"
           ELSE IF /\ p.image /\ p.mode = "pressure" /\ warm[s] = "none"
                   /\ Eligible(s, p.archive, FALSE) THEN "image"
           ELSE IF ~noBoot /\ Eligible(s, p.archive, TRUE) THEN "archive"
           ELSE IF ~noBoot /\ Eligible(s, p.freeze, TRUE) THEN "freeze"
           ELSE "none"

Rank ==
    [routine |-> [promote |-> 0, compact |-> 1, image |-> 2, archive |-> 3, freeze |-> 4],
     pressure |-> [compact |-> 0, image |-> 1, promote |-> 2, archive |-> 3, freeze |-> 4]]
rank(kind, mode) == Rank[mode][kind]

Unclaimed(d) == Schema \ (Jobs(d) \cup archiving \cup held)

\* Mutant of no_boot: the jobs in flight are not looked at.
NoBootEver(d) == FALSE

no_boot(d) == \E s \in Jobs(d) : boots(job[d][s].kind)

\* pick_offload_job: the lowest rank, and of those the coldest; ties go either way.
Picks(d, p) ==
    LET kind(s) == KindOf(s, p, no_boot(d))
        candidates == {s \in Unclaimed(d) : kind(s) # "none"}
        Before(s, t) == \/ rank(kind(s), p.mode) < rank(kind(t), p.mode)
                        \/ /\ rank(kind(s), p.mode) = rank(kind(t), p.mode)
                           /\ age[s] > age[t]
    IN {s \in candidates : \A t \in candidates : ~Before(t, s)}

\* Schemas that look stale and are warm: each scan touches them.
Refresh(d, p) ==
    {s \in Unclaimed(d) :
        /\ KindOf(s, p, no_boot(d)) = "none" /\ tier[s] = "live"
        /\ \E after \in {p.compact, p.freeze, p.archive} \ {Off} :
              classify_candidate(s, after, TRUE) = "refresh"}

Touch(S) == age' = [s \in Schema |-> IF s \in S THEN 0 ELSE age[s]]

\* next_offload_job and the spawn of its task.
Dispatch(d, p, s) ==
    /\ s \in Picks(d, p)
    /\ Touch(Refresh(d, p))
    /\ LET kind == KindOf(s, p, no_boot(d))
       IN job' = [job EXCEPT ![d][s] = [ph |-> "picked", kind |-> kind, does |-> kind]]

----------------------------------------------------------------------------
(* A job: run_offload_job, archive_schema and its like.                    *)

\* An outcome waits for the loop that counts it.  The pacer only drops a job that ended;
\* until it does, the job could at most delay a pick.
Set(d, s, ph) ==
    job' = [job EXCEPT ![d][s] = IF d = "pacer" THEN NoJob ELSE [@ EXCEPT !.ph = ph]]

\* sweep_archive promotes by the inner call; what others run goes by the tier of now.
Kind(d, s) ==
    IF job[d][s].kind = "archive" /\ tier[s] \in {"frozen", "compacted"} THEN "promote"
    ELSE IF job[d][s].kind = "promote" /\ tier[s] = "live" /\ d # "sweep" THEN "archive"
    ELSE job[d][s].kind

\* Mutant of Recorded: a failed compaction is only logged.
RecordedNot(d, kind) == kind \notin {"image", "compact"}

\* Which failures enter OffloadBackoff: not those of image archives, nor of the inner
\* promotions.
Recorded(d, kind) == kind # "image" /\ ~(d = "sweep" /\ kind = "promote")

\* The inner call has failed; its claim, if it had one, is released.  What is done about
\* it comes later.
Erred(d, s, kind) ==
    /\ job' = [job EXCEPT ![d][s] = [@ EXCEPT !.ph = "erred", !.does = kind]]
    /\ failed' = IF kind = "image" THEN failed ELSE failed \cup {<<d, s>>}

\* The tier is not one to start from: already archived, thawed, or offloaded otherwise.
WrongTier(s, kind) ==
    IF kind = "promote" THEN tier[s] \notin {"frozen", "compacted"} ELSE tier[s] # "live"

\* Sessions refuse a job; any entry refuses a compaction.
Refused(s, kind) ==
    warm[s] \in CASE kind = "promote" -> {} [] kind = "compact" -> {"busy", "idle"}
                   [] OTHER -> {"busy"}

\* A checkout that is past its look at the claims goes on.  Unless it is a promotion the
\* job takes the schema out of the map, and with it the cell of a checkout that has one.
Overtake(s, kind) ==
    /\ overtaken' = IF client[s] = "past" THEN overtaken \cup {s} ELSE overtaken
    /\ warm' = IF kind = "promote" THEN warm ELSE [warm EXCEPT ![s] = "none"]
    /\ client' \in IF kind # "promote" /\ client[s] = "past"
                   THEN {client, [client EXCEPT ![s] = "evicted"]} ELSE {client}

\* The tier, the claim, the sessions: nothing is awaited between the first two.
Start(d, s) ==
    /\ job[d][s].ph = "picked"
    /\ LET kind == Kind(d, s)
       IN \/ /\ WrongTier(s, kind) /\ Erred(d, s, kind)
             /\ UNCHANGED <<archiving, held, warm, clients>>
          \/ /\ ~WrongTier(s, kind) /\ s \in archiving
             /\ Set(d, s, "skipped") /\ UNCHANGED <<claims, warm, clients>>
          \/ /\ ~WrongTier(s, kind) /\ s \notin archiving /\ Refused(s, kind)
             /\ Erred(d, s, kind) /\ UNCHANGED <<archiving, held, warm, clients>>
          \/ /\ ~WrongTier(s, kind) /\ s \notin archiving /\ ~Refused(s, kind)
             /\ archiving' = archiving \cup {s} /\ Overtake(s, kind)
             /\ job' = [job EXCEPT ![d][s] = [@ EXCEPT !.ph = "run", !.does = kind]]
             /\ UNCHANGED <<held, failed>>
    /\ UNCHANGED <<cfg, tier, age, loops, connects, faults>>

\* The tier is flipped and the inner call returns.
Done(d, s) ==
    /\ job[d][s].ph = "run"
    /\ tier' = [tier EXCEPT ![s] = CASE job[d][s].does = "compact" -> "compacted"
                                     [] job[d][s].does = "freeze" -> "frozen"
                                     [] OTHER -> "archived"]
    /\ archiving' = archiving \ {s}
    /\ job' = [job EXCEPT ![d][s].ph = "won"]
    /\ UNCHANGED <<cfg, age, warm, clients, held, failed, loops, connects, faults>>

\* Mutant of Fails: the claim outlives the failed job.
FailsClaimed(d, s) ==
    /\ job[d][s].ph = "run" /\ faults < MaxFaults /\ faults' = faults + 1
    /\ Erred(d, s, job[d][s].does)
    /\ UNCHANGED <<cfg, rows, clients, archiving, held, loops, connects>>

Fails(d, s) ==
    /\ job[d][s].ph = "run" /\ faults < MaxFaults /\ faults' = faults + 1
    /\ archiving' = archiving \ {s}
    /\ Erred(d, s, job[d][s].does)
    /\ UNCHANGED <<cfg, rows, clients, held, loops, connects>>

\* record_failure, or the clear of a success: the claim was gone before.
Account(d, s) ==
    /\ \/ /\ job[d][s].ph = "erred" /\ Set(d, s, "failed")
          /\ held' = IF Recorded(d, job[d][s].does) THEN held \cup {s} ELSE held
          /\ UNCHANGED failed
       \/ /\ job[d][s].ph = "won" /\ Set(d, s, "done")
          /\ IF d = "sweep" /\ job[d][s].does = "promote" THEN UNCHANGED <<held, failed>>
             ELSE /\ held' = held \ {s}
                  /\ failed' = {x \in failed : x[2] # s \/ job[x[1]][s].ph = "erred"}
    /\ UNCHANGED <<cfg, rows, clients, archiving, loops, connects, faults>>

\* A panic in a job's task: the guard's drop releases the claim, nothing records it.
Panics(d, s) ==
    /\ job[d][s].ph = "run" /\ d # "sweep" /\ faults < MaxFaults /\ faults' = faults + 1
    /\ archiving' = archiving \ {s}
    /\ Set(d, s, "failed")
    /\ UNCHANGED <<cfg, rows, clients, held, failed, loops, connects>>

JobStep(d, s) == Start(d, s) \/ Done(d, s) \/ Fails(d, s) \/ Account(d, s) \/ Panics(d, s)

Ended(d, s) == job[d][s].ph \in {"done", "failed", "skipped"}
Forget(d, s) == job' = [job EXCEPT ![d][s] = NoJob]

----------------------------------------------------------------------------
(* The pacer: spawn_offloader.                                             *)

\* dispatch_backpressure and dispatch_allowance: a free worker and no sweep; a quiet
\* host, and for a second job a low load, are the host's to give.
PacerMay == ~hold /\ ~sweeping /\ Cardinality(Jobs("pacer")) < Workers

PacerDispatch(s) ==
    /\ PacerMay /\ Dispatch("pacer", offload_policy, s)
    /\ UNCHANGED <<cfg, tier, warm, clients, claims, loops, connects, faults>>

\* A scan that finds nothing arms the hold, unless jobs are in flight.
PacerNothing ==
    /\ PacerMay /\ Picks("pacer", offload_policy) = {}
    /\ Touch(Refresh("pacer", offload_policy))
    /\ hold' = (Jobs("pacer") = {})
    /\ UNCHANGED <<cfg, tier, warm, clients, claims, job, sweeping, drain, sweep, sweeps,
                   connects, faults>>

\* Mutant of HoldOver: the hold is renewed by every tick.
HoldRenewed == hold /\ UNCHANGED vars

HoldOver ==
    /\ hold /\ hold' = FALSE
    /\ UNCHANGED <<cfg, rows, clients, claims, job, sweeping, drain, sweep, sweeps, connects,
                   faults>>

----------------------------------------------------------------------------
(* The drain loop: pressure_pass, spawn_ttl_sweep_now.                     *)

Swap == ~sweeping /\ sweeping' = TRUE /\ sweeps < MaxSweeps /\ sweeps' = sweeps + 1
Drain(ph) == drain' = [drain EXCEPT !.ph = ph]

DrainBegin(mode) ==
    /\ Swap /\ drain' = [ph |-> "fill", mode |-> mode, fails |-> 0]
    /\ UNCHANGED <<cfg, rows, clients, claims, job, hold, sweep, connects, faults>>

\* At the head of the loop: the disk is low, or too many failures in a row.
DrainStop ==
    /\ drain.ph = "fill" /\ (drain.mode = "pressure" \/ drain.fails >= MaxFails)
    /\ Drain("out")
    /\ UNCHANGED <<cfg, rows, clients, claims, job, hold, sweeping, sweep, sweeps, connects, faults>>

DrainPick(s) ==
    /\ drain.ph = "fill" /\ drain.fails < MaxFails /\ Cardinality(Jobs("drain")) < Workers
    /\ Dispatch("drain", drain_policy, s)
    /\ UNCHANGED <<cfg, tier, warm, clients, claims, loops, connects, faults>>

\* No slot or nothing to run: wait for a job, or end when there is none.
DrainFilled ==
    /\ drain.ph = "fill" /\ drain.fails < MaxFails
    /\ \/ Cardinality(Jobs("drain")) >= Workers /\ UNCHANGED age
       \/ /\ Cardinality(Jobs("drain")) < Workers /\ Picks("drain", drain_policy) = {}
          /\ Touch(Refresh("drain", drain_policy))
    /\ Drain(IF Jobs("drain") = {} THEN "out" ELSE "await")
    /\ UNCHANGED <<cfg, tier, warm, clients, claims, job, hold, sweeping, sweep, sweeps, connects,
                   faults>>

DrainJoin(s) ==
    /\ drain.ph = "await" /\ Ended("drain", s) /\ Forget("drain", s)
    /\ drain' = [drain EXCEPT !.ph = "fill",
                    !.fails = CASE job["drain"][s].ph = "done" -> 0
                                [] job["drain"][s].ph = "failed" -> @ + 1
                                [] job["drain"][s].ph = "skipped" -> @]
    /\ UNCHANGED <<cfg, rows, clients, claims, hold, sweeping, sweep, sweeps, connects, faults>>

\* Under pressure the disk is read again while every slot is busy.
DrainRecheck ==
    /\ drain.ph = "await" /\ drain.mode = "pressure" /\ Drain("fill")
    /\ ~\E s \in Schema : Ended("drain", s)
    /\ UNCHANGED <<cfg, rows, clients, claims, job, hold, sweeping, sweep, sweeps, connects, faults>>

DrainOut(s) ==
    /\ drain.ph = "out" /\ Ended("drain", s) /\ Forget("drain", s)
    /\ UNCHANGED <<cfg, rows, clients, claims, loops, connects, faults>>

\* Mutant of DrainFinish: the flag is left set.
DrainFinishSet ==
    /\ drain.ph = "out" /\ Jobs("drain") = {}
    /\ drain' = NoDrain
    /\ UNCHANGED <<cfg, rows, clients, claims, job, hold, sweeping, sweep, sweeps, connects, faults>>

DrainFinish ==
    /\ drain.ph = "out" /\ Jobs("drain") = {}
    /\ drain' = NoDrain /\ sweeping' = FALSE
    /\ UNCHANGED <<cfg, rows, clients, claims, job, hold, sweep, sweeps, connects, faults>>

DrainStep ==
    \/ DrainStop \/ DrainFilled \/ DrainRecheck \/ DrainFinish
    \/ \E s \in Schema : DrainPick(s) \/ DrainJoin(s) \/ DrainOut(s)

----------------------------------------------------------------------------
(* The operator's sweep: sweep_archive walks lists made at its start.      *)

SweepBegin ==
    /\ Swap
    /\ LET Class(s) == classify_candidate(s, cfg.archive, TRUE)
       IN /\ sweep' = [ph |-> "next", fails |-> 0,
                       promote |-> {s \in Schema : tier[s] \in {"frozen", "compacted"}
                                                   /\ age[s] >= cfg.archive},
                       archive |-> {s \in Schema \ held : Class(s) = "archive"}]
          /\ Touch({s \in Schema : Class(s) = "refresh"})
    /\ UNCHANGED <<cfg, tier, warm, clients, claims, job, hold, drain, connects, faults>>

\* Promotions first; failures count among the others only.
SweepNext(s) ==
    /\ sweep.ph = "next" /\ sweep.fails < MaxFails
    /\ s \in IF sweep.promote # {} THEN sweep.promote ELSE sweep.archive
    /\ sweep' = [sweep EXCEPT !.ph = "await", !.promote = @ \ {s}, !.archive = @ \ {s}]
    /\ LET kind == IF s \in sweep.promote THEN "promote" ELSE "archive"
       IN job' = [job EXCEPT !["sweep"][s] = [ph |-> "picked", kind |-> kind, does |-> kind]]
    /\ UNCHANGED <<cfg, rows, clients, claims, hold, sweeping, drain, sweeps, connects, faults>>

SweepJoin(s) ==
    /\ sweep.ph = "await" /\ Ended("sweep", s) /\ Forget("sweep", s)
    /\ sweep' = [sweep EXCEPT !.ph = "next",
                    !.fails = IF job["sweep"][s].ph = "done" THEN 0
                              ELSE IF job["sweep"][s].kind = "promote" THEN @ ELSE @ + 1]
    /\ UNCHANGED <<cfg, rows, clients, claims, hold, sweeping, drain, sweeps, connects, faults>>

SweepEnd ==
    /\ sweep.ph = "next" /\ (sweep.fails >= MaxFails \/ sweep.promote \cup sweep.archive = {})
    /\ sweep' = NoSweep /\ sweeping' = FALSE
    /\ UNCHANGED <<cfg, rows, clients, claims, job, hold, drain, sweeps, connects, faults>>

\* The operator's sweep runs its jobs itself: a panic in one ends it, and the guards give
\* back the claim and the flag.
SweepPanics(s) ==
    /\ job["sweep"][s].ph = "run" /\ faults < MaxFaults /\ faults' = faults + 1
    /\ archiving' = archiving \ {s}
    /\ Forget("sweep", s) /\ sweep' = NoSweep /\ sweeping' = FALSE
    /\ UNCHANGED <<cfg, rows, clients, held, failed, hold, drain, sweeps, connects>>

SweepStep == SweepEnd \/ \E s \in Schema : SweepNext(s) \/ SweepJoin(s)

----------------------------------------------------------------------------
(* Clients and time.                                                       *)

\* checkout stamps the row, then waits while the schema is claimed.
Arrive(s) ==
    /\ connects < MaxConnects /\ connects' = connects + 1
    /\ client[s] = "none" /\ client' = [client EXCEPT ![s] = "waits"]
    /\ age' = [age EXCEPT ![s] = 0]
    /\ UNCHANGED <<cfg, tier, warm, overtaken, claims, job, loops, faults>>

Pass(s) ==
    /\ client[s] = "waits" /\ s \notin archiving
    /\ client' = [client EXCEPT ![s] = "past"]
    /\ UNCHANGED <<cfg, rows, overtaken, claims, job, loops, connects, faults>>

\* It takes the entry it found, or brings a VM up, which makes the row live; its session
\* counts from now on.
Serve(s) ==
    /\ client[s] = "past" /\ client' = [client EXCEPT ![s] = "none"]
    /\ warm' = [warm EXCEPT ![s] = "busy"]
    /\ IF warm[s] = "none" THEN tier' = [tier EXCEPT ![s] = "live"] ELSE UNCHANGED tier
    /\ UNCHANGED <<cfg, age, overtaken, claims, job, loops, connects, faults>>

\* The same with a cell or an entry that a job has taken out of the map.
ServeStray(s) ==
    /\ client[s] = "evicted" /\ client' = [client EXCEPT ![s] = "stray"]
    /\ tier' \in {tier, [tier EXCEPT ![s] = "live"]}
    /\ UNCHANGED <<cfg, age, warm, overtaken, claims, job, loops, connects, faults>>

\* The checkout fails, or a session outside the map ends.
Leave(s) ==
    /\ client[s] \in {"past", "evicted", "stray"} /\ client' = [client EXCEPT ![s] = "none"]
    /\ UNCHANGED <<cfg, rows, overtaken, claims, job, loops, connects, faults>>

Disconnect(s) ==
    /\ warm[s] = "busy" /\ warm' = [warm EXCEPT ![s] = "idle"]
    /\ UNCHANGED <<cfg, tier, age, clients, claims, job, loops, connects, faults>>

\* The row's idle time advances, also while a session lasts.
Cool(s) ==
    /\ age[s] < MaxAge /\ age' = [age EXCEPT ![s] = @ + 1]
    /\ UNCHANGED <<cfg, tier, warm, clients, claims, job, loops, connects, faults>>

\* reap_idle evicts the entry; the VM stops.
ReapIdle(s) ==
    /\ warm[s] = "idle" /\ warm' = [warm EXCEPT ![s] = "none"]
    /\ overtaken' = IF client[s] = "past" THEN overtaken ELSE overtaken \ {s}
    /\ UNCHANGED <<cfg, tier, age, client, claims, job, loops, connects, faults>>

\* The window of a schema's last failure ends.
WindowEnds(s) ==
    /\ s \in held /\ held' = held \ {s}
    /\ failed' = {x \in failed : x[2] # s \/ job[x[1]][s].ph = "erred"}
    /\ UNCHANGED <<cfg, rows, clients, archiving, job, loops, connects, faults>>

Checkout(s) == Arrive(s) \/ Pass(s) \/ Serve(s) \/ ServeStray(s) \/ Leave(s) \/ Disconnect(s)
World(s) == Cool(s) \/ ReapIdle(s) \/ WindowEnds(s)

Next ==
    \/ \E d \in Dispatcher, s \in Schema : JobStep(d, s)
    \/ \E s \in Schema : PacerDispatch(s) \/ Checkout(s) \/ World(s) \/ SweepPanics(s)
    \/ PacerNothing \/ HoldOver
    \/ DrainBegin("pressure") \/ DrainBegin("ttl") \/ DrainStep
    \/ SweepBegin \/ SweepStep

Spec == Init /\ [][Next]_vars

\* Jobs come to an end, tasks are scheduled, windows and holds run out, and the host is
\* quiet now and then, if not with load to spare for a second job.
FairSpec ==
    /\ Spec
    /\ WF_vars(\E d \in Dispatcher, s \in Schema : JobStep(d, s))
    /\ WF_vars(DrainStep) /\ WF_vars(SweepStep)
    /\ WF_vars(Jobs("pacer") = {} /\ (PacerNothing \/ \E s \in Schema : PacerDispatch(s)))
    /\ WF_vars(HoldOver) /\ WF_vars(\E s \in Schema : Cool(s))
    /\ WF_vars(\E s \in Schema : WindowEnds(s))

----------------------------------------------------------------------------
\* A schema is claimed exactly while one job works on it, and never while a client's
\* session counts in the map; such a client's row is live (ArchivingGuard,
\* archive_schema_inner, checkout).  Excepted is a schema that was claimed while a
\* checkout was past its look at the claims and did not count yet.
Claims ==
    \A s \in Schema :
        /\ Cardinality({d \in Dispatcher : job[d][s].ph = "run"})
              = (IF s \in archiving THEN 1 ELSE 0)
        /\ warm[s] = "busy" => (s \notin archiving /\ tier[s] = "live") \/ s \in overtaken

\* The pacer, and so the drain loop, boots at most one VM at a time, through picks, joins
\* and failures; a promotion whose schema was thawed before it began comes on top
\* (no_boot of OffloadPolicy, OffloadKind::boots).
OneBootEach ==
    \A d \in Dispatcher :
        Cardinality({s \in Schema : /\ job[d][s].ph = "run" /\ boots(job[d][s].does)
                                    /\ job[d][s].kind # "promote"}) <= 1

\* A dispatcher whose dump, freeze, compaction or promotion of a schema failed does not
\* pick the schema again before a window ends or another job succeeds, although the claim
\* is gone before the failure is recorded (archive_schema, freeze_schema, compact_schema,
\* pick_offload_job).  Another dispatcher may pick it in between.
RetryHeld ==
    [][\A d \in {"pacer", "drain"}, s \in Schema :
          job[d][s].ph = "none" /\ job'[d][s].ph = "picked" => <<d, s>> \notin failed]_vars

\* Every sweep ends and gives its flag back (offload_drain_loop, SweepGuard).
SweepEnds == sweeping ~> ~sweeping

\* A schema that stays cold is offloaded in the end, whatever failed before (the pacer).
BacklogDrains ==
    \A s \in Schema :
        tier[s] = "live" /\ warm[s] = "none" ~> tier[s] # "live" \/ warm[s] # "none"

\* What the drain loop says of a job that returns an error: "the schema is now in backoff".
FailedSkipped ==
    [][\A s \in Schema : job["drain"][s].ph = "erred" /\ job'["drain"][s].ph = "failed"
           => s \in held']_vars

\* At most one offload at a time competes with clients for the bring-up gate.
OneBoot ==
    Cardinality({x \in Dispatcher \X Schema :
        job[x[1]][x[2]].ph = "run" /\ boots(job[x[1]][x[2]].does)}) <= 1

\* What archive_schema says of a checkout that slips in while it works: it "either grabbed
\* the entry first", and the job refuses, "or will see the set and wait".
NoneSlipsIn ==
    \A d \in Dispatcher, s \in Schema :
        job[d][s].ph = "run" /\ job[d][s].does # "promote" => warm[s] # "busy" /\ client[s] # "stray"
=============================================================================
