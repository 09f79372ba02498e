----------------------------- MODULE BootReady -----------------------------
(***************************************************************************)
(* From a VM that was told to start to an entry that can be served         *)
(* (src/src/vm.rs): the wait for the daemon, the probes that tell a dead   *)
(* Postgres from a slow one, the power cycle, and the detached load of a   *)
(* dump that only its sentinel confirms.  SchemaLife takes all of it as    *)
(* the single step Load of a bring-up.                                     *)
(*                                                                         *)
(* Time is counted in polls: a timeout is a number of polls.               *)
(***************************************************************************)
EXTENDS Naturals, FiniteSets

CONSTANTS
    ReadyPolls,         \* ready_timeout
    GracePolls,         \* READY_NOTFOUND_GRACE
    WindowProbes,       \* PG_PROBE_WINDOW
    ProbeFailures,      \* UNWITNESSED_MAX_PROBE_FAILURES
    MaxAttempts, MaxEvents      \* bounds: bring-ups, and faults of the guest or the daemon

\* What the constants must satisfy; MCParts assumes it of its instance.
BootReadyAssumption ==
    /\ {ReadyPolls, GracePolls, WindowProbes, ProbeFailures} \subseteq Nat \ {0}
    /\ {MaxAttempts, MaxEvents} \subseteq Nat

VARIABLES
    vm,             \* the VM as the daemon knows it
    boot,           \* boots of the VM so far
    pg,             \* Postgres inside it, or the way to it
    jobs,           \* loads that run in the guest, by the attempt that launched them
    sentinel,       \* the exit code a load left on the data disk
    loaded,         \* the last load launched has completed
    b,              \* the bring-up
    heard,          \* history: what probes of this connection met
    overtaken,      \* history: a load was launched while an older one ran
    attempts, events

guest == <<vm, boot, pg, jobs, sentinel, loaded>>
vars == <<guest, b, heard, overtaken, attempts, events>>

NoBringup == [ph |-> "idle", polls |-> 0, missing |-> 0, stalled |-> FALSE, verdict |-> "none",
              cycled |-> FALSE, target |-> 0]

Bringup == [ph : {"idle", "ready", "connect", "probe", "wait", "cycle", "launch", "load",
                  "dispose", "served"}, polls : Nat, missing : Nat, stalled : BOOLEAN,
            verdict : {"none", "responding", "stalled"}, cycled : BOOLEAN, target : Nat]

TypeOK ==
    /\ vm \in {"stopped", "booting", "running", "failed", "unknown"}
    /\ boot \in Nat /\ pg \in {"down", "starting", "slow", "up", "deaf"}
    /\ jobs \subseteq 1..MaxAttempts /\ sentinel \in {"none", "zero", "other"}
    /\ loaded \in BOOLEAN
    /\ b \in Bringup
    /\ heard \subseteq {"refused", "slow", "answer"}
    /\ overtaken \in BOOLEAN /\ attempts \in 0..MaxAttempts /\ events \in 0..MaxEvents

\* An archived schema: its VM has no data yet.
Init ==
    /\ vm = "stopped" /\ boot = 0 /\ pg = "down" /\ jobs = {} /\ sentinel = "none"
    /\ loaded = FALSE /\ b = NoBringup /\ heard = {} /\ overtaken = FALSE
    /\ attempts = 0 /\ events = 0

Event == events < MaxEvents /\ events' = events + 1
Fail == b' = [NoBringup EXCEPT !.ph = "dispose"]

----------------------------------------------------------------------------
(* The guest and the daemon.                                               *)

\* A boot starts Postgres; what ran before is gone, the data disk is not.
Start ==
    IF vm = "stopped"
    THEN /\ vm' = "booting" /\ boot' = boot + 1 /\ pg' = "down" /\ jobs' = {}
         /\ UNCHANGED <<sentinel, loaded>>
    ELSE UNCHANGED guest

Booted ==
    /\ vm = "booting" /\ vm' = "running" /\ pg' = "starting"
    /\ UNCHANGED <<boot, jobs, sentinel, loaded, b, heard, overtaken, attempts, events>>

\* Recovery ends; a busy server answers again.
Recovers ==
    /\ vm = "running" /\ pg \in {"starting", "slow"} /\ pg' = "up"
    /\ UNCHANGED <<vm, boot, jobs, sentinel, loaded, b, heard, overtaken, attempts, events>>

\* Postgres dies, recovers anew, is loaded, or its tunnel forwards nothing.
Sickens(to) ==
    /\ vm = "running" /\ Event /\ pg' = to /\ pg' # pg
    /\ UNCHANGED <<vm, boot, jobs, sentinel, loaded, b, heard, overtaken, attempts>>

\* A build that failed, or a daemon that restarted and lost the record.
VmLost(to) ==
    /\ vm \in {"booting", "running"} /\ Event /\ vm' = to /\ pg' = "down" /\ jobs' = {}
    /\ UNCHANGED <<boot, sentinel, loaded, b, heard, overtaken, attempts>>

\* The last thing a load does is to write its sentinel.
JobEnds(j, code) ==
    /\ vm = "running" /\ j \in jobs /\ jobs' = jobs \ {j}
    /\ IF code = "zero" THEN UNCHANGED events ELSE Event
    /\ sentinel' = code
    /\ loaded' = IF j = attempts THEN code = "zero" ELSE loaded
    /\ UNCHANGED <<vm, boot, pg, b, heard, overtaken, attempts>>

----------------------------------------------------------------------------
(* bring_up_existing, wait_ready_within.                                   *)

Begin ==
    /\ b.ph = "idle" /\ vm \notin {"unknown", "failed"}
    /\ attempts < MaxAttempts /\ attempts' = attempts + 1
    /\ Start /\ b' = [NoBringup EXCEPT !.ph = "ready"] /\ heard' = {}
    /\ UNCHANGED <<overtaken, events>>

\* A poll that taught nothing counts against the deadline only.
PollAgain(missing) ==
    IF b.polls + 1 >= ReadyPolls THEN Fail
    ELSE b' = [b EXCEPT !.polls = @ + 1, !.missing = missing]

\* What is no longer provisioning ends the wait; the probes decide about the rest.
wait_ready_status ==
    /\ b.ph = "ready" /\ vm # "unknown"
    /\ CASE vm = "booting" -> PollAgain(0)
         [] vm = "failed" -> Fail
         [] OTHER -> b' = [b EXCEPT !.ph = "connect", !.polls = 0, !.missing = 0]
    /\ UNCHANGED <<guest, heard, overtaken, attempts, events>>

wait_ready_error ==
    /\ b.ph = "ready" /\ Event /\ PollAgain(0)
    /\ UNCHANGED <<guest, heard, overtaken, attempts>>

\* Only an unbroken run of 404s gives the id up before the deadline.
wait_ready_not_found ==
    /\ b.ph = "ready" /\ vm = "unknown"
    /\ IF b.missing >= GracePolls THEN Fail ELSE PollAgain(b.missing + 1)
    /\ UNCHANGED <<guest, heard, overtaken, attempts, events>>

----------------------------------------------------------------------------
(* ready_pg.                                                               *)

\* The address belongs to this boot; after a power cycle readiness is all that is awaited.
connect_pg ==
    /\ b.ph = "connect"
    /\ b' = [b EXCEPT !.ph = IF b.cycled THEN "wait" ELSE "probe", !.target = boot]
    /\ heard' = {}
    /\ UNCHANGED <<guest, overtaken, attempts, events>>

ConnectFails ==
    /\ b.ph = "connect" /\ Event /\ Fail
    /\ UNCHANGED <<guest, heard, overtaken, attempts>>

\* What a probe meets.  An address of an earlier boot leads nowhere.
Meets ==
    IF b.target # boot \/ pg = "deaf" THEN "slow"
    ELSE IF vm # "running" \/ pg = "down" THEN "refused"
    ELSE CASE pg = "starting" -> "answer"
           [] pg = "slow" -> "slow"
           [] pg = "up" -> "ready"

Hears == heard' = heard \cup ({Meets} \ {"ready"})

\* Mutant of probe_pg: silence is taken for a refusal.
ProbeHasty == IF Meets = "slow" THEN "refused" ELSE Meets

\* A timed-out probe is not a refusal: a closed port answers fast.
probe_pg == Meets

\* A window of refusals alone says that nothing is listening.
probe_pg_window ==
    /\ b.ph = "probe" /\ Hears
    /\ b' = CASE probe_pg = "ready" -> [b EXCEPT !.ph = "launch", !.polls = 0]
              [] probe_pg = "answer" ->
                    [b EXCEPT !.ph = "wait", !.polls = 0, !.verdict = "responding"]
              [] OTHER ->
                    LET stalled == b.stalled \/ probe_pg = "slow"
                    IN IF b.polls + 1 < WindowProbes
                       THEN [b EXCEPT !.polls = @ + 1, !.stalled = stalled]
                       ELSE IF stalled
                       THEN [b EXCEPT !.ph = "wait", !.polls = 0, !.verdict = "stalled"]
                       ELSE [b EXCEPT !.ph = "cycle", !.polls = 0]
    /\ UNCHANGED <<guest, overtaken, attempts, events>>

\* A server that is starting keeps its time; one that stalled, and is not ready when the
\* time is up, is restarted.
wait_pg_ready ==
    /\ b.ph = "wait" /\ Hears
    /\ IF Meets = "ready" THEN b' = [b EXCEPT !.ph = "launch", !.polls = 0]
       ELSE IF b.polls + 1 < ReadyPolls THEN b' = [b EXCEPT !.polls = @ + 1]
       ELSE IF b.verdict = "stalled" /\ ~b.cycled THEN b' = [b EXCEPT !.ph = "cycle", !.polls = 0]
       ELSE Fail
    /\ UNCHANGED <<guest, overtaken, attempts, events>>

\* Stop and start under one boot permit, then the whole wait again.
power_cycle ==
    /\ b.ph = "cycle" /\ vm \in {"running", "stopped", "booting"}
    /\ vm' = "booting" /\ boot' = boot + 1 /\ pg' = "down" /\ jobs' = {}
    /\ b' = [b EXCEPT !.ph = "ready", !.cycled = TRUE]
    /\ UNCHANGED <<sentinel, loaded, heard, overtaken, attempts, events>>

CycleFails ==
    /\ b.ph = "cycle" /\ (vm \in {"unknown", "failed"} \/ events < MaxEvents)
    /\ events' = IF vm \in {"unknown", "failed"} THEN events ELSE events + 1
    /\ Fail
    /\ UNCHANGED <<guest, heard, overtaken, attempts>>

----------------------------------------------------------------------------
(* restore_from_s3, restore_from_local: launch and await_detached_job.     *)

launch ==
    /\ b.ph = "launch" /\ vm = "running"
    /\ jobs' = jobs \cup {attempts} /\ sentinel' = "none" /\ loaded' = FALSE
    /\ overtaken' = (overtaken \/ jobs # {})
    /\ b' = [b EXCEPT !.ph = "load", !.missing = 0]
    /\ UNCHANGED <<vm, boot, pg, heard, attempts, events>>

\* The preflight refused the archive, or the exec failed.
LaunchFails ==
    /\ b.ph = "launch" /\ (vm # "running" \/ events < MaxEvents)
    /\ events' = IF vm # "running" THEN events ELSE events + 1
    /\ Fail
    /\ UNCHANGED <<guest, heard, overtaken, attempts>>

\* Mutant of Probe: that there is an exit code is taken for success.
ProbeAnyCode(noise) ==
    /\ b.ph = "load" /\ vm = "running"
    /\ CASE noise \/ sentinel = "none" ->
              IF b.polls + 1 >= ReadyPolls THEN Fail
              ELSE b' = [b EXCEPT !.polls = @ + 1, !.missing = 0]
         [] OTHER -> b' = [b EXCEPT !.ph = "served"]
    /\ UNCHANGED <<guest, heard, overtaken, attempts, events>>

\* parse_probe: a framed sentinel decides, and noise on the console says nothing.
Probe(noise) ==
    /\ b.ph = "load" /\ vm = "running"
    /\ CASE noise \/ sentinel = "none" ->
              IF b.polls + 1 >= ReadyPolls THEN Fail
              ELSE b' = [b EXCEPT !.polls = @ + 1, !.missing = 0]
         [] ~noise /\ sentinel = "zero" -> b' = [b EXCEPT !.ph = "served"]
         [] ~noise /\ sentinel = "other" -> Fail
    /\ UNCHANGED <<guest, heard, overtaken, attempts, events>>

\* Failed probes in a row, and the deadline, end the wait without an answer.
ProbeFails ==
    /\ b.ph = "load" /\ (vm # "running" \/ events < MaxEvents)
    /\ events' = IF vm # "running" THEN events ELSE events + 1
    /\ IF b.missing + 1 >= ProbeFailures \/ b.polls + 1 >= ReadyPolls THEN Fail
       ELSE b' = [b EXCEPT !.polls = @ + 1, !.missing = @ + 1]
    /\ UNCHANGED <<guest, heard, overtaken, attempts>>

\* stop_after_failed_bringup: the load dies with the VM, if the stop succeeds.
Dispose(stopped) ==
    /\ b.ph = "dispose" /\ b' = NoBringup
    /\ IF stopped
       THEN /\ vm' = (IF vm = "unknown" THEN vm ELSE "stopped")
            /\ pg' = "down" /\ jobs' = {} /\ UNCHANGED events
       ELSE Event /\ UNCHANGED <<vm, pg, jobs>>
    /\ UNCHANGED <<boot, sentinel, loaded, heard, overtaken, attempts>>

Next ==
    \/ Booted \/ Recovers \/ \E to \in {"down", "starting", "slow", "deaf"} : Sickens(to)
    \/ VmLost("failed") \/ VmLost("unknown")
    \/ \E j \in jobs : JobEnds(j, "zero") \/ JobEnds(j, "other")
    \/ Begin \/ wait_ready_status \/ wait_ready_error \/ wait_ready_not_found
    \/ connect_pg \/ ConnectFails \/ probe_pg_window \/ wait_pg_ready
    \/ power_cycle \/ CycleFails
    \/ launch \/ LaunchFails \/ Probe(TRUE) \/ Probe(FALSE) \/ ProbeFails
    \/ Dispose(TRUE) \/ Dispose(FALSE)

Spec == Init /\ [][Next]_vars

----------------------------------------------------------------------------
\* What is served has been loaded to the end, and is reached at the address of the boot
\* that runs, however many attempts, power cycles and lost answers came before; unless
\* a load was launched beside an older one that a failed stop had left running
\* (restore_from_s3, await_detached_job, launch_script, power_cycle).
ServedWhole ==
    b.ph = "served" /\ ~overtaken => loaded /\ (vm = "running" => b.target = boot)

\* A VM is restarted only when every probe of it was refused, or when it was not ready
\* through the whole of ready_timeout: not because it was slow once (ready_pg,
\* probe_pg_window).
CycleOnEvidence ==
    [][b.ph # "cycle" /\ b'.ph = "cycle" =>
          heard' = {"refused"} \/ (b.ph = "wait" /\ b.polls + 1 = ReadyPolls)]_vars

\* What ready_pg says of a server that stalls: wait, and let the client have the error.
StallNotCycled ==
    [][b.ph # "cycle" /\ b'.ph = "cycle" => heard' = {"refused"}]_vars
=============================================================================
