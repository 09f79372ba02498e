------------------------------- MODULE Spares -------------------------------
(***************************************************************************)
(* The warm-spare pool (src/src/spares.rs): bring-ups that claim spares,   *)
(* the replenisher that probes, builds, deletes and shelves them, and the  *)
(* purge of src/src/registry.rs that deletes unclaimed ones.               *)
(*                                                                         *)
(* A spare keeps its name when it is claimed; only the registry row says   *)
(* that it has become some schema's database.  Every pass works from a     *)
(* listing and a set of bound ids taken when it began.                     *)
(***************************************************************************)
EXTENDS Naturals, Sequences, FiniteSets, SequencesExt

CONSTANTS
    Schema,         \* schemas without a VM of their own yet
    Id,             \* sandbox ids the daemon may hand out
    None,           \* no sandbox
    Target,         \* configured pool size
    MaxCulls,       \* SPARE_MAX_CULLS_PER_PASS
    TakeMax,        \* TAKE_MAX_ATTEMPTS
    MaxPurges,      \* bound: purges
    MaxFaults       \* bound: failures, stops and crashes

ASSUME SparesAssumption ==
    /\ None \notin Id /\ IsFiniteSet(Id)
    /\ Target \in Nat /\ MaxCulls \in Nat /\ TakeMax \in Nat
    /\ MaxPurges \in Nat /\ MaxFaults \in Nat

VARIABLES
    vm,         \* state of each sandbox
    data,       \* the schemas with a database on each sandbox
    row,        \* the registry's sandbox of each schema, in memory
    saved,      \* the same in the registry file
    claimed,    \* SparePool::claimed
    ready,      \* SparePool::ready, the shelf
    sickSince,  \* SparePool::sick_since
    claim,      \* the bring-up of each schema
    pass,       \* the replenish pass
    purge,      \* the purge pass
    purges,     \* purges so far
    faults,     \* faults so far
    tainted,    \* history: sandboxes a crash left with a database and no row
    late        \* history: sandboxes bound while a pass was about to delete them

pool == <<claimed, ready, sickSince>>
registry == <<row, saved>>
daemon == <<vm, data>>
history == <<tainted, late>>
vars == <<daemon, registry, pool, claim, pass, purge, purges, faults, history>>

VmState == {"none", "running", "sick", "stopped", "gone"}
NoClaim == [ph |-> "idle", id |-> None, bound |-> {}, tries |-> 0]
NoPass == [ph |-> "idle", bound |-> {}, up |-> {}, down |-> {}, healthy |-> {}, todo |-> {},
           create |-> 0, delete |-> {}, target |-> None]
NoPurge == [ph |-> "idle", list |-> {}, target |-> None]

ClaimState == [ph : {"idle", "take", "confirm", "load", "release", "cold"},
               id : Id \cup {None}, bound : SUBSET Id, tries : 0..TakeMax]
PassState == [ph : {"idle", "list", "probe", "cull", "build", "delete"},
              bound : SUBSET Id, up : SUBSET Id, down : SUBSET Id, healthy : SUBSET Id,
              todo : SUBSET Id, create : Nat, delete : SUBSET Id, target : Id \cup {None}]
PurgeState == [ph : {"idle", "walk"}, list : SUBSET Id, target : Id \cup {None}]

TypeOK ==
    /\ vm \in [Id -> VmState] /\ data \in [Id -> SUBSET Schema]
    /\ row \in [Schema -> Id \cup {None}] /\ saved \in [Schema -> Id \cup {None}]
    /\ claimed \subseteq Id /\ ready \in Seq(Id) /\ sickSince \subseteq Id
    /\ claim \in [Schema -> ClaimState] /\ pass \in PassState /\ purge \in PurgeState
    /\ purges \in Nat /\ faults \in Nat /\ tainted \subseteq Id /\ late \subseteq Id

Init ==
    /\ vm = [i \in Id |-> "none"] /\ data = [i \in Id |-> {}]
    /\ row = [s \in Schema |-> None] /\ saved = row
    /\ claimed = {} /\ ready = <<>> /\ sickSince = {}
    /\ claim = [s \in Schema |-> NoClaim]
    /\ pass = NoPass /\ purge = NoPurge
    /\ purges = 0 /\ faults = 0 /\ tainted = {} /\ late = {}

----------------------------------------------------------------------------
Bound == {row[s] : s \in Schema} \ {None}
Up(i) == vm[i] \in {"running", "sick"}
Exists(i) == Up(i) \/ vm[i] = "stopped"
Fault == faults < MaxFaults /\ faults' = faults + 1

\* A kill that is decided and not carried out: nothing checks the claims again.
Doomed == {pass.target, purge.target} \cup pass.delete
              \cup (IF pass.ph = "cull" THEN pass.todo ELSE {})

----------------------------------------------------------------------------
(* A bring-up that needs a new VM (resolve_sandbox, claim_restore_vehicle).*)

\* checkout reads the bound ids before it enters the bring-up.
BringUp(s) ==
    /\ claim[s].ph = "idle" /\ row[s] \in {None} \cup {i \in Id : ~Exists(i)}
    /\ claim' = [claim EXCEPT ![s] = [NoClaim EXCEPT !.ph = "take", !.bound = Bound]]
    /\ UNCHANGED <<daemon, registry, pool, pass, purge, purges, faults, history>>

\* Pop and claim in one critical section; ids bound or claimed are discarded.
Takeable(s) == {k \in DOMAIN ready : ready[k] \notin claim[s].bound /\ ready[k] \notin claimed}

take(s) ==
    /\ claim[s].ph = "take"
    /\ \/ /\ claim[s].tries < TakeMax
          /\ \E k \in Takeable(s) :
                /\ \A l \in Takeable(s) : k <= l
                /\ claimed' = claimed \cup {ready[k]}
                /\ ready' = SubSeq(ready, k + 1, Len(ready))
                /\ claim' = [claim EXCEPT ![s] = [claim[s] EXCEPT !.ph = "confirm", !.id = ready[k],
                                                      !.tries = @ + 1]]
       \/ /\ Takeable(s) = {} \/ claim[s].tries = TakeMax
          /\ ready' = IF claim[s].tries = TakeMax THEN ready ELSE <<>>
          /\ claim' = [claim EXCEPT ![s] = [NoClaim EXCEPT !.ph = "cold"]]
          /\ UNCHANGED claimed
    /\ UNCHANGED <<daemon, registry, sickSince, pass, purge, purges, faults, history>>

\* The daemon confirms a running spare; one that is down or gone is unclaimed
\* unused; when the daemon itself fails the spare is used.
Confirm(s) ==
    LET i == claim[s].id
    IN /\ claim[s].ph = "confirm"
       /\ \/ /\ Up(i) /\ UNCHANGED faults
             /\ claim' = [claim EXCEPT ![s] = [NoClaim EXCEPT !.ph = "load", !.id = i]]
             /\ data' = [data EXCEPT ![i] = @ \cup {s}]
             /\ UNCHANGED claimed
          \/ /\ ~Up(i) /\ UNCHANGED <<data, faults>>
             /\ claim' = [claim EXCEPT ![s] = [claim[s] EXCEPT !.ph = "take", !.id = None]]
             /\ claimed' = claimed \ {i}
          \/ /\ Fault
             /\ claim' = [claim EXCEPT ![s] = [NoClaim EXCEPT !.ph = "load", !.id = i]]
             /\ data' = [data EXCEPT ![i] = IF Exists(i) THEN @ \cup {s} ELSE @]
             /\ UNCHANGED claimed
       /\ UNCHANGED <<vm, registry, ready, sickSince, pass, purge, purges, history>>

\* The bring-up succeeds, a power-cycle included, and the row is put: this schema
\* is served from here on.  The id stays in `claimed`.
Bind(s) ==
    LET i == claim[s].id
    IN /\ claim[s].ph = "load" /\ Exists(i)
       /\ vm' = [vm EXCEPT ![i] = "running"]
       /\ row' = [row EXCEPT ![s] = i]
       /\ late' = IF i \in Doomed THEN late \cup {i} ELSE late
       /\ claim' = [claim EXCEPT ![s] = NoClaim]
       /\ UNCHANGED <<data, saved, pool, pass, purge, purges, faults, tainted>>

\* It fails: release_failed takes the spare off the shelf before it kills it.
LoadFail(s) ==
    LET i == claim[s].id
    IN /\ claim[s].ph = "load"
       /\ \/ ~Up(i) /\ UNCHANGED faults
          \/ Up(i) /\ Fault
       /\ ready' = RemoveFirst(ready, i)
       /\ sickSince' = sickSince \ {i}
       /\ claim' = [claim EXCEPT ![s].ph = "release"]
       /\ UNCHANGED <<daemon, registry, claimed, pass, purge, purges, history>>

\* The claim is given back whatever became of the kill.
ReleaseAnyway(s) ==
    LET i == claim[s].id
    IN /\ claim[s].ph = "release"
       /\ \/ /\ vm' = [vm EXCEPT ![i] = "gone"]
             /\ data' = [data EXCEPT ![i] = {}]
             /\ UNCHANGED faults
          \/ Fault /\ UNCHANGED <<vm, data>>
       /\ claimed' = claimed \ {i}
       /\ claim' = [claim EXCEPT ![s] = NoClaim]
       /\ UNCHANGED <<registry, ready, sickSince, pass, purge, purges, history>>

\* Only a confirmed kill gives the claim back.
release_failed(s) ==
    LET i == claim[s].id
    IN /\ claim[s].ph = "release"
       /\ \/ /\ vm' = [vm EXCEPT ![i] = "gone"] /\ claimed' = claimed \ {i}
             /\ data' = [data EXCEPT ![i] = {}]
             /\ UNCHANGED faults
          \/ Fault /\ UNCHANGED <<vm, data, claimed>>
       /\ claim' = [claim EXCEPT ![s] = NoClaim]
       /\ UNCHANGED <<registry, ready, sickSince, pass, purge, purges, history>>

----------------------------------------------------------------------------
(* The replenisher, one pass at a time.                                    *)

Free(i) == i \notin pass.bound /\ i \notin claimed

\* The supervisor's closure reads the bound ids; the listing comes after.
PassBegin ==
    /\ pass.ph = "idle"
    /\ pass' = [NoPass EXCEPT !.ph = "list", !.bound = Bound]
    /\ UNCHANGED <<daemon, registry, pool, claim, purge, purges, faults, history>>

PassList ==
    /\ pass.ph = "list"
    /\ pass' = [pass EXCEPT !.ph = "probe", !.up = {i \in Id : Up(i)},
                            !.down = {i \in Id : vm[i] = "stopped"},
                            !.todo = {i \in Id : Up(i) /\ Free(i)}]
    /\ UNCHANGED <<daemon, registry, pool, claim, purge, purges, faults, history>>

\* probe_all over the free running spares, where an inconclusive probe counts as
\* healthy, and the first half of cull_sick: an id found sick again may have been so
\* for SPARE_SICK_GRACE.
PassProbe ==
    \E sick \in SUBSET {i \in pass.todo : vm[i] \in {"sick", "stopped"}} :
       /\ pass.ph = "probe"
       /\ sickSince' = sick
       /\ \E doomed \in SUBSET (sick \cap sickSince) :
            /\ Cardinality(doomed) <= MaxCulls
            /\ pass' = [pass EXCEPT !.ph = "cull", !.up = @ \ sick,
                                    !.healthy = pass.todo \ sick, !.todo = doomed]
       /\ UNCHANGED <<daemon, registry, claimed, ready, claim, purge, purges, faults,
                      history>>

\* kill_spare, sent and then carried out or refused.
SendKill ==
    \E i \in (IF pass.ph = "cull" THEN pass.todo ELSE pass.delete) :
        /\ pass.target = None
        /\ pass' = [pass EXCEPT !.target = i, !.todo = @ \ {i}, !.delete = @ \ {i}]

PassKill ==
    /\ pass.ph \in {"cull", "delete"}
    /\ SendKill
    /\ UNCHANGED <<daemon, registry, pool, claim, purge, purges, faults, history>>

PassKilled ==
    /\ pass.target # None
    /\ \/ /\ vm' = [vm EXCEPT ![pass.target] = "gone"]
          /\ data' = [data EXCEPT ![pass.target] = {}]
          /\ sickSince' = IF pass.ph = "cull" THEN sickSince \ {pass.target} ELSE sickSince
          /\ UNCHANGED faults
       \/ Fault /\ UNCHANGED <<daemon, sickSince>>
    /\ pass' = [pass EXCEPT !.target = None]
    /\ UNCHANGED <<registry, claimed, ready, claim, purge, purges, history>>

\* plan_replenish on what was listed, without the sick: the deficit is filled from
\* stopped spares first, the stopped ones beyond it are surplus.
Deficit == LET running == Cardinality({i \in pass.up : Free(i)})
           IN IF running >= Target THEN 0 ELSE Target - running

PassPlan ==
    LET stopped == {i \in pass.down : Free(i)}
    IN /\ pass.ph = "cull" /\ pass.todo = {} /\ pass.target = None
       /\ \E start \in SUBSET stopped :
            /\ Cardinality(start) = IF Cardinality(stopped) < Deficit THEN Cardinality(stopped)
                                                                    ELSE Deficit
            /\ pass' = [pass EXCEPT !.ph = "build", !.todo = start, !.up = {}, !.down = {},
                                    !.create = Deficit - Cardinality(start),
                                    !.delete = stopped \ start]
       /\ UNCHANGED <<daemon, registry, pool, claim, purge, purges, faults, history>>

\* restart_spare: start and wait for it, or leave it for the next pass.
restart_spare(i) ==
    /\ pass.ph = "build" /\ i \in pass.todo
    /\ \/ /\ Exists(i) /\ UNCHANGED faults
          /\ vm' = [vm EXCEPT ![i] = IF @ = "stopped" THEN "running" ELSE @]
          /\ pass' = [pass EXCEPT !.todo = @ \ {i},
                                  !.healthy = IF vm[i] = "sick" THEN @ ELSE @ \cup {i}]
       \/ /\ ~Exists(i) /\ UNCHANGED <<vm, faults>>
          /\ pass' = [pass EXCEPT !.todo = @ \ {i}]
       \/ /\ Fault /\ UNCHANGED vm
          /\ pass' = [pass EXCEPT !.todo = @ \ {i}]
    /\ UNCHANGED <<data, registry, pool, claim, purge, purges, history>>

\* create_spare: the daemon picks an id; a VM that is not ready in time is
\* killed, which may fail as well.
create_spare(i) ==
    /\ pass.ph = "build" /\ pass.create > 0 /\ vm[i] = "none"
    /\ \/ /\ vm' = [vm EXCEPT ![i] = "running"] /\ UNCHANGED faults
          /\ pass' = [pass EXCEPT !.create = @ - 1, !.healthy = @ \cup {i}]
       \/ /\ Fault /\ vm' \in {[vm EXCEPT ![i] = "gone"], [vm EXCEPT ![i] = "sick"]}
          /\ pass' = [pass EXCEPT !.create = @ - 1]
    /\ UNCHANGED <<data, registry, pool, claim, purge, purges, history>>

\* No id is left within the bounds of this instance.
OutOfIds == pass.create > 0 /\ \A i \in Id : vm[i] # "none"

BuildDone ==
    /\ pass.ph = "build" /\ pass.todo = {} /\ (pass.create = 0 \/ OutOfIds)
    /\ pass' = [pass EXCEPT !.ph = "delete", !.create = 0]
    /\ UNCHANGED <<daemon, registry, pool, claim, purge, purges, faults, history>>

\* The shelf is not filtered by the claims made during the pass.
PublishClaimed ==
    /\ pass.ph = "delete" /\ pass.delete = {} /\ pass.target = None
    /\ \E order \in SetToSeqs(pass.healthy \ pass.bound) : ready' = order
    /\ pass' = NoPass
    /\ UNCHANGED <<daemon, registry, claimed, sickSince, claim, purge, purges, faults,
                   history>>

\* publish: the shelf is replaced by what was found or built and has not been
\* claimed since, in any order.
publish ==
    LET shelf == {i \in pass.healthy : Free(i)}
    IN /\ pass.ph = "delete" /\ pass.delete = {} /\ pass.target = None
       /\ \E order \in SetToSeqs(shelf) : ready' = order
       /\ pass' = NoPass
       /\ UNCHANGED <<daemon, registry, claimed, sickSince, claim, purge, purges, faults,
                      history>>

----------------------------------------------------------------------------
(* purge_pass, the part about spares.                                      *)

PurgeBegin ==
    /\ purge.ph = "idle" /\ purges < MaxPurges
    /\ purges' = purges + 1
    /\ purge' = [NoPurge EXCEPT !.ph = "walk",
                                !.list = {i \in Id : Exists(i)} \ (Bound \cup claimed)]
    /\ UNCHANGED <<daemon, registry, pool, claim, pass, faults, history>>

\* The snapshots of the start are trusted.
PurgeKillStale ==
    \E i \in purge.list :
        /\ purge.target = None
        /\ purge' = [purge EXCEPT !.list = @ \ {i}, !.target = i]
        /\ UNCHANGED <<daemon, registry, pool, claim, pass, purges, faults, history>>

\* Right before each kill the bound and the claimed ids are read again.
PurgeKill ==
    \E i \in purge.list :
        /\ purge.target = None
        /\ purge' = [purge EXCEPT !.list = @ \ {i},
                                  !.target = IF i \in Bound \cup claimed THEN None ELSE i]
        /\ UNCHANGED <<daemon, registry, pool, claim, pass, purges, faults, history>>

PurgeKilled ==
    /\ purge.target # None
    /\ \/ /\ vm' = [vm EXCEPT ![purge.target] = "gone"]
          /\ data' = [data EXCEPT ![purge.target] = {}]
          /\ UNCHANGED faults
       \/ Fault /\ UNCHANGED daemon
    /\ purge' = [purge EXCEPT !.target = None]
    /\ UNCHANGED <<registry, pool, claim, pass, purges, history>>

PurgeEnd ==
    /\ purge.ph = "walk" /\ purge.list = {} /\ purge.target = None
    /\ purge' = NoPurge
    /\ UNCHANGED <<daemon, registry, pool, claim, pass, purges, faults, history>>

----------------------------------------------------------------------------
(* The surroundings.                                                       *)

\* A VM stops or its Postgres dies: idle reap of a bound one, daemon restart.
VmFails(i) ==
    /\ Up(i) /\ Fault
    /\ vm' \in {[vm EXCEPT ![i] = "stopped"], [vm EXCEPT ![i] = "sick"]}
    /\ UNCHANGED <<data, registry, pool, claim, pass, purge, purges, history>>

\* The detached write of the registry.
Persist ==
    /\ saved # row
    /\ saved' = row
    /\ UNCHANGED <<daemon, row, pool, claim, pass, purge, purges, faults, history>>

\* The pooler dies; the shelf and the claims are in memory only.
Crash ==
    /\ Fault
    /\ row' = saved /\ UNCHANGED saved
    /\ claimed' = {} /\ ready' = <<>> /\ sickSince' = {}
    /\ claim' = [s \in Schema |-> NoClaim]
    /\ pass' = NoPass /\ purge' = NoPurge
    /\ tainted' = {i \in Id : \E s \in data[i] : saved[s] # i}
    /\ UNCHANGED <<daemon, purges, late>>

ClaimStep(s) ==
    BringUp(s) \/ take(s) \/ Confirm(s) \/ Bind(s) \/ LoadFail(s) \/ release_failed(s)

PassStep ==
    \/ PassBegin \/ PassList \/ PassProbe \/ PassKill \/ PassKilled \/ PassPlan
    \/ (\E i \in Id : restart_spare(i) \/ create_spare(i)) \/ BuildDone \/ publish

PurgeStep == PurgeBegin \/ PurgeKill \/ PurgeKilled \/ PurgeEnd

Next ==
    \/ \E s \in Schema : ClaimStep(s)
    \/ PassStep \/ PurgeStep
    \/ (\E i \in Id : VmFails(i)) \/ Persist \/ Crash

Spec == Init /\ [][Next]_vars

----------------------------------------------------------------------------
\* The row of a schema leads to a VM that still has the schema's database: no
\* replenish pass or purge, however old its listing, deletes a spare that is somebody's
\* (replenish, purge_pass).  Excepted is a spare that was claimed and bound after a
\* pass had put it on its list of kills.
BoundSurvives ==
    \A s \in Schema : row[s] # None => s \in data[row[s]] \/ row[s] \in late

\* One spare, one schema: a spare with somebody's database, complete or half
\* loaded, is never handed to another schema (take, release_failed).  A restart forgets
\* the claims, so the sandboxes it left with a database and no row are excepted.
OneOwner == \A i \in Id : i \notin tainted => Cardinality(data[i]) <= 1

\* Nothing on the shelf is claimed, and no two bring-ups hold one spare (take,
\* publish).
ShelfFree ==
    /\ \A k \in DOMAIN ready : ready[k] \notin claimed
    /\ \A s, t \in Schema : s # t /\ claim[s].id # None => claim[s].id # claim[t].id

\* replenish calls its deletes "Safe by construction": what is stopped, unbound and
\* unclaimed "was never anyone's database", so that no row loses its database to one.
SafeByConstruction == \A s \in Schema : row[s] # None => s \in data[row[s]]
=============================================================================
