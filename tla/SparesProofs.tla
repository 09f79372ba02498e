---------------------------- MODULE SparesProofs ----------------------------
(***************************************************************************)
(* What TLAPS proves about the warm-spare pool (Spares), for any number of *)
(* schemas, sandboxes, passes, purges and faults.                          *)
(*                                                                         *)
(* The properties speak of the disks (data); what keeps them true is who   *)
(* may still get hold of a sandbox.  Shelved, Claiming and Rows say that   *)
(* a sandbox is on the shelf, in one bring-up's hands or some row's, never *)
(* two of these; Sick why a spare found sick twice is nobody's when it is  *)
(* put on the list of kills; Kept and Clean are the properties themselves, *)
(* with what each step needs to keep them.                                 *)
(***************************************************************************)
EXTENDS Spares, SequenceTheorems, FiniteSetTheorems, TLAPS

OnShelf == {ready[k] : k \in DOMAIN ready}

\* Ids the daemon has handed out: none of them is handed out again.
Known == {i \in Id : vm[i] # "none"}

\* What is on the shelf is there once, and nobody's.
Shelved ==
    /\ \A k, l \in DOMAIN ready : ready[k] = ready[l] => k = l
    /\ OnShelf \subseteq Known
    /\ OnShelf \cap claimed = {} /\ OnShelf \cap Bound = {}

\* A bring-up holds a sandbox from take to its end, and nobody else does; a
\* schema that brings up another VM has none, or has lost it.
Claiming ==
    /\ \A s \in Schema : claim[s].id # None <=> claim[s].ph \in {"confirm", "load", "release"}
    /\ \A s \in Schema : claim[s].id # None =>
           claim[s].id \in claimed /\ claim[s].id \in Known /\ claim[s].id \notin Bound
    /\ \A s, t \in Schema : s # t /\ claim[s].id # None => claim[s].id # claim[t].id
    /\ \A s \in Schema : claim[s].ph = "load" /\ Exists(claim[s].id) => s \in data[claim[s].id]
    /\ \A s \in Schema : claim[s].ph # "idle" /\ row[s] # None =>
           row[s] \in late /\ vm[row[s]] = "gone"

\* No two schemas have the same sandbox, a pass that runs knows every sandbox that
\* is bound and not claimed, and a row that is not in the file yet replaces a
\* sandbox that is gone.
Rows ==
    /\ \A s, t \in Schema : row[s] = row[t] /\ row[s] # None => s = t
    /\ \A s, t \in Schema : saved[s] = saved[t] /\ saved[s] # None => s = t
    /\ Bound \subseteq Known
    /\ \A i \in Bound : i \in claimed \/ pass.ph = "idle" \/ i \in pass.bound
    /\ \A s \in Schema : saved[s] \in {None, row[s]} \/ (saved[s] \in late /\ vm[saved[s]] = "gone")

\* The lists of a pass name ids the daemon has handed out.  A spare found sick in
\* the last pass is not on the shelf when the next pass probes, so that nobody
\* can have taken it; what a pass found sick it neither restarts nor shelves.
Sick ==
    /\ pass.healthy \cup pass.todo \cup pass.down \cup sickSince \subseteq Known
    /\ pass.ph \in {"idle", "list", "probe"} => OnShelf \cap sickSince = {}
    /\ pass.ph = "probe" => /\ pass.todo \cap sickSince \cap (Bound \cup claimed) = {}
                            /\ pass.todo \cap pass.down = {}
    /\ pass.ph = "cull" => pass.down \cap sickSince = {}
    /\ pass.ph = "build" => pass.todo \cap sickSince = {}
    /\ pass.ph \in {"cull", "build", "delete"} => pass.healthy \cap sickSince = {}

\* A row's sandbox exists with the schema's database, and no kill of it is decided.
Kept ==
    \A s \in Schema : row[s] # None /\ row[s] \notin late =>
        s \in data[row[s]] /\ Exists(row[s]) /\ row[s] \notin Doomed

\* A sandbox with a database is claimed or bound; the others are empty.
Clean ==
    /\ \A i \in Id : ~Exists(i) => data[i] = {}
    /\ \A i \in Id \ tainted :
        /\ \A s, t \in data[i] : s = t
        /\ data[i] # {} => i \in claimed \/ i \in Bound
        /\ i \in OnShelf => data[i] = {}
        /\ \A s \in Schema : claim[s].id = i =>
               data[i] \subseteq (IF claim[s].ph = "confirm" THEN {} ELSE {s})

IInv == TypeOK /\ Shelved /\ Claiming /\ Rows /\ Sick /\ Kept /\ Clean

-----------------------------------------------------------------------------
(* Types. *)

\* Init sets up well-typed state.
LEMMA TypeInit == Init => TypeOK
<1>. SUFFICES ASSUME Init PROVE TypeOK
  OBVIOUS
<1>1. NoClaim \in ClaimState
  BY SparesAssumption DEF NoClaim, ClaimState
<1>2. NoPass \in PassState
  BY DEF NoPass, PassState
<1>3. NoPurge \in PurgeState
  BY DEF NoPurge, PurgeState
<1>4. claim \in [Schema -> ClaimState] /\ pass \in PassState /\ purge \in PurgeState
  BY <1>1, <1>2, <1>3 DEF Init
<1>5. ready \in Seq(Id)
  BY EmptySeq DEF Init
<1>6. vm \in [Id -> VmState] /\ data \in [Id -> SUBSET Schema]
  BY DEF Init, VmState
<1>7. /\ row \in [Schema -> Id \cup {None}] /\ saved \in [Schema -> Id \cup {None}]
      /\ claimed \subseteq Id /\ sickSince \subseteq Id
      /\ purges \in Nat /\ faults \in Nat /\ tainted \subseteq Id /\ late \subseteq Id
  BY DEF Init
<1>. QED
  BY <1>4, <1>5, <1>6, <1>7 DEF TypeOK

\* A claimed spare is not on the shelf: taking it off again changes nothing.
LEMMA NotShelved ==
    ASSUME TypeOK, Shelved, NEW i \in claimed
    PROVE  RemoveFirst(ready, i) = ready
<1>1. ready \in Seq(Id)
  BY DEF TypeOK
<1>2. \A k \in 1..Len(ready) : ready[k] # i
  BY <1>1, LenProperties DEF Shelved, OnShelf
<1>. QED
  BY <1>2 DEF RemoveFirst

\* No step of a bring-up leaves the types.
LEMMA ClaimKeepsTypes ==
    ASSUME TypeOK, Shelved, Claiming, NEW s \in Schema, ClaimStep(s)
    PROVE  TypeOK'
<1>. DEFINE c == claim[s]
            i == claim[s].id
<1>0. /\ c \in ClaimState /\ faults \in Nat /\ NoClaim \in ClaimState /\ ready \in Seq(Id)
      /\ (c.ph \in {"confirm", "load", "release"} => i \in Id)
  <2>1. NoClaim \in ClaimState
    BY SparesAssumption DEF NoClaim, ClaimState
  <2>2. c \in ClaimState /\ faults \in Nat /\ ready \in Seq(Id)
    BY DEF TypeOK
  <2>3. c.id \in Id \cup {None}
    BY <2>2 DEF ClaimState
  <2>. QED
    BY <2>1, <2>2, <2>3 DEF Claiming
<1>a. ASSUME NEW r \in ClaimState, claim' = [claim EXCEPT ![s] = r]
      PROVE  claim' \in [Schema -> ClaimState]
  BY <1>a DEF TypeOK
<1>1. CASE BringUp(s)
  <2>1. Bound \subseteq Id
    BY DEF Bound, TypeOK
  <2>2. [NoClaim EXCEPT !.ph = "take", !.bound = Bound] \in ClaimState
    BY <1>0, <2>1 DEF ClaimState
  <2>. QED
    BY <1>1, <1>a, <2>2 DEF BringUp, TypeOK, daemon, registry, pool, history
<1>2. CASE take(s)
  <2>1. ASSUME NEW k \in Takeable(s), c.tries < TakeMax, claimed' = claimed \cup {ready[k]},
               ready' = SubSeq(ready, k + 1, Len(ready)),
               claim' = [claim EXCEPT ![s] = [c EXCEPT !.ph = "confirm", !.id = ready[k],
                                                       !.tries = @ + 1]]
        PROVE  claimed' \subseteq Id /\ ready' \in Seq(Id) /\ claim' \in [Schema -> ClaimState]
    <3>1. DOMAIN ready = 1..Len(ready) /\ Len(ready) \in Nat /\ \A l \in 1..Len(ready) : ready[l] \in Id
      BY <1>0, LenProperties, ElementOfSeq
    <3>2. k \in 1..Len(ready) /\ ready[k] \in Id
      BY <2>1, <3>1 DEF Takeable
    <3>3. \A l \in (k + 1)..Len(ready) : ready[l] \in Id
      BY <3>1, <3>2
    <3>4. SubSeq(ready, k + 1, Len(ready)) \in Seq(Id)
      BY <3>1, <3>2, <3>3, SubSeqProperties
    <3>5. [c EXCEPT !.ph = "confirm", !.id = ready[k], !.tries = @ + 1] \in ClaimState
      <4>1. c.tries \in 0..TakeMax /\ c.tries + 1 \in 0..TakeMax
        BY <1>0, <2>1, SparesAssumption DEF ClaimState
      <4>. QED
        BY <1>0, <3>2, <4>1 DEF ClaimState
    <3>. QED
      BY <1>a, <2>1, <3>2, <3>4, <3>5 DEF TypeOK
  <2>2. [NoClaim EXCEPT !.ph = "cold"] \in ClaimState
    BY <1>0 DEF ClaimState
  <2>3. claimed' \subseteq Id /\ ready' \in Seq(Id) /\ claim' \in [Schema -> ClaimState]
    BY <1>0, <1>2, <1>a, <2>1, <2>2, EmptySeq DEF take, TypeOK
  <2>. QED
    BY <1>2, <2>3 DEF take, TypeOK, daemon, registry, history
<1>3. CASE Confirm(s)
  <2>1. i \in Id
    BY <1>0, <1>3 DEF Confirm
  <2>2. /\ [NoClaim EXCEPT !.ph = "load", !.id = i] \in ClaimState
        /\ [c EXCEPT !.ph = "take", !.id = None] \in ClaimState
    BY <1>0, <2>1 DEF ClaimState
  <2>3. claim' \in [Schema -> ClaimState]
    BY <1>3, <1>a, <2>2 DEF Confirm
  <2>4. data' \in [Id -> SUBSET Schema] /\ claimed' \subseteq Id
    BY <1>3, <2>1 DEF Confirm, TypeOK
  <2>5. faults' \in Nat
    BY <1>0, <1>3 DEF Confirm, Fault
  <2>. QED
    BY <1>3, <2>3, <2>4, <2>5 DEF Confirm, TypeOK, registry, history
<1>4. CASE Bind(s)
  <2>1. i \in Id
    BY <1>0, <1>4 DEF Bind
  <2>2. /\ vm' \in [Id -> VmState] /\ row' \in [Schema -> Id \cup {None}] /\ late' \subseteq Id
    BY <1>4, <2>1 DEF Bind, TypeOK, VmState
  <2>3. claim' \in [Schema -> ClaimState]
    BY <1>0, <1>4, <1>a DEF Bind
  <2>. QED
    BY <1>4, <2>2, <2>3 DEF Bind, TypeOK, pool
<1>5. CASE LoadFail(s)
  <2>1. [c EXCEPT !.ph = "release"] \in ClaimState
    BY <1>0 DEF ClaimState
  <2>2. claim' = [claim EXCEPT ![s] = [c EXCEPT !.ph = "release"]]
    BY <1>5 DEF LoadFail
  <2>3. claim' \in [Schema -> ClaimState]
    BY <1>a, <2>1, <2>2
  <2>4. faults' \in Nat /\ sickSince' \subseteq Id
    BY <1>0, <1>5 DEF LoadFail, Fault, TypeOK
  <2>5. ready' \in Seq(Id)
    <3>1. i \in claimed
      BY <1>0, <1>5 DEF LoadFail, Claiming
    <3>. QED
      BY <1>0, <1>5, <3>1, NotShelved DEF LoadFail
  <2>. QED
    BY <1>5, <2>3, <2>4, <2>5 DEF LoadFail, TypeOK, daemon, registry, history
<1>6. CASE release_failed(s)
  <2>1. i \in Id
    BY <1>0, <1>6 DEF release_failed
  <2>2. /\ vm' \in [Id -> VmState] /\ data' \in [Id -> SUBSET Schema] /\ claimed' \subseteq Id
    BY <1>6, <2>1 DEF release_failed, TypeOK, VmState
  <2>3. claim' \in [Schema -> ClaimState]
    BY <1>0, <1>6, <1>a DEF release_failed
  <2>4. faults' \in Nat
    BY <1>0, <1>6 DEF release_failed, Fault
  <2>. QED
    BY <1>6, <2>2, <2>3, <2>4 DEF release_failed, TypeOK, registry, history
<1>. QED
  BY <1>1, <1>2, <1>3, <1>4, <1>5, <1>6 DEF ClaimStep

\* What a pass puts on the shelf is a sequence of the ids, each once.
LEMMA ShelfOrder ==
    ASSUME NEW S \in SUBSET Id, NEW order \in SetToSeqs(S)
    PROVE  /\ order \in Seq(Id)
           /\ \A k \in DOMAIN order : order[k] \in S
           /\ \A k, l \in DOMAIN order : order[k] = order[l] => k = l
<1>. DEFINE n == Cardinality(S)
<1>1. n \in Nat
  BY SparesAssumption, FS_Subset, FS_CardinalityType
<1>2. order \in [1..n -> S] /\ \A k, l \in 1..n : k # l => order[k] # order[l]
  BY DEF SetToSeqs
<1>. HIDE DEF n
<1>3. order \in [1..n -> Id]
  BY <1>2
<1>4. order \in Seq(Id)
  BY <1>1, <1>3, SeqDef
<1>. QED
  BY <1>2, <1>4

\* The deficit and what is planned for it are numbers.
LEMMA PlanTypes ==
    ASSUME TypeOK, NEW stopped \in SUBSET Id, NEW start \in SUBSET stopped,
           Cardinality(start) = IF Cardinality(stopped) < Deficit THEN Cardinality(stopped)
                                                                 ELSE Deficit
    PROVE  Deficit - Cardinality(start) \in Nat
<1>. DEFINE up == {i \in pass.up : Free(i)}
<1>1. up \subseteq Id
  BY DEF TypeOK, PassState
<1>2. Cardinality(up) \in Nat /\ Cardinality(stopped) \in Nat /\ Cardinality(start) \in Nat
  <2>1. IsFiniteSet(up) /\ IsFiniteSet(stopped)
    BY <1>1, SparesAssumption, FS_Subset
  <2>2. IsFiniteSet(start)
    BY <2>1, FS_Subset
  <2>. QED
    BY <2>1, <2>2, FS_CardinalityType
<1>3. Deficit = IF Cardinality(up) >= Target THEN 0 ELSE Target - Cardinality(up)
  BY DEF Deficit
<1>4. Deficit \in Nat
  BY <1>2, <1>3, SparesAssumption
<1>. QED
  BY <1>2, <1>4

\* No step of the replenisher leaves the types.
LEMMA PassKeepsTypes ==
    ASSUME TypeOK, PassStep
    PROVE  TypeOK'
<1>0. /\ pass \in PassState /\ NoPass \in PassState /\ faults \in Nat /\ Bound \subseteq Id
      /\ pass.up \subseteq Id /\ pass.down \subseteq Id /\ pass.todo \subseteq Id
      /\ pass.healthy \subseteq Id /\ pass.delete \subseteq Id /\ pass.create \in Nat
      /\ pass.target \in Id \cup {None}
  BY DEF TypeOK, PassState, NoPass, Bound
<1>1. CASE PassBegin
  <2>1. [NoPass EXCEPT !.ph = "list", !.bound = Bound] \in PassState
    BY <1>0 DEF PassState
  <2>. QED
    BY <1>1, <2>1 DEF PassBegin, TypeOK, daemon, registry, pool, history
<1>2. CASE PassList
  <2>. DEFINE u == {i \in Id : Up(i)}
              d == {i \in Id : vm[i] = "stopped"}
              t == {i \in Id : Up(i) /\ Free(i)}
  <2>1. pass' = [pass EXCEPT !.ph = "probe", !.up = u, !.down = d, !.todo = t]
    BY <1>2 DEF PassList
  <2>2. u \subseteq Id /\ d \subseteq Id /\ t \subseteq Id
    OBVIOUS
  <2>. HIDE DEF u, d, t
  <2>3. pass' \in PassState
    BY <1>0, <2>1, <2>2 DEF PassState
  <2>. QED
    BY <1>2, <2>3 DEF PassList, TypeOK, daemon, registry, pool, history
<1>3. CASE PassProbe
  <2>1. PICK sick \in SUBSET pass.todo, doomed \in SUBSET pass.todo :
            /\ sickSince' = sick
            /\ pass' = [pass EXCEPT !.ph = "cull", !.up = @ \ sick,
                                    !.healthy = pass.todo \ sick, !.todo = doomed]
    BY <1>3 DEF PassProbe
  <2>2. pass' \in PassState /\ sickSince' \subseteq Id
    BY <1>0, <2>1 DEF PassState
  <2>. QED
    BY <1>3, <2>2 DEF PassProbe, TypeOK, daemon, registry, history
<1>4. CASE PassKill
  <2>1. PICK i \in pass.todo \cup pass.delete :
            pass' = [pass EXCEPT !.target = i, !.todo = @ \ {i}, !.delete = @ \ {i}]
    BY <1>4 DEF PassKill, SendKill
  <2>2. pass' \in PassState
    BY <1>0, <2>1 DEF PassState
  <2>. QED
    BY <1>4, <2>2 DEF PassKill, TypeOK, daemon, registry, pool, history
<1>5. CASE PassKilled
  <2>1. pass' \in PassState
    BY <1>0, <1>5 DEF PassKilled, PassState
  <2>2. vm' \in [Id -> VmState] /\ data' \in [Id -> SUBSET Schema] /\ sickSince' \subseteq Id
    BY <1>0, <1>5 DEF PassKilled, TypeOK, VmState, daemon
  <2>3. faults' \in Nat
    BY <1>0, <1>5 DEF PassKilled, Fault
  <2>. QED
    BY <1>5, <2>1, <2>2, <2>3 DEF PassKilled, TypeOK, registry, history
<1>6. CASE PassPlan
  <2>. DEFINE stopped == {i \in pass.down : Free(i)}
  <2>1. PICK start \in SUBSET stopped :
            /\ Cardinality(start) = IF Cardinality(stopped) < Deficit THEN Cardinality(stopped)
                                                                     ELSE Deficit
            /\ pass' = [pass EXCEPT !.ph = "build", !.todo = start, !.up = {}, !.down = {},
                                    !.create = Deficit - Cardinality(start),
                                    !.delete = stopped \ start]
    BY <1>6 DEF PassPlan
  <2>2. stopped \subseteq Id
    BY <1>0
  <2>. DEFINE n == Deficit - Cardinality(start)
  <2>. HIDE DEF stopped
  <2>3. n \in Nat
    BY <2>1, <2>2, PlanTypes
  <2>. HIDE DEF n
  <2>4. pass' = [pass EXCEPT !.ph = "build", !.todo = start, !.up = {}, !.down = {},
                             !.create = n, !.delete = stopped \ start]
    BY <2>1 DEF n
  <2>5. pass' \in PassState
    BY <1>0, <2>2, <2>3, <2>4 DEF PassState
  <2>. QED
    BY <1>6, <2>5 DEF PassPlan, TypeOK, daemon, registry, pool, history
<1>7. ASSUME NEW i \in Id, restart_spare(i) PROVE TypeOK'
  <2>. DEFINE h == IF vm[i] = "sick" THEN pass.healthy ELSE pass.healthy \cup {i}
  <2>0. /\ h \subseteq Id
        /\ \/ pass' = [pass EXCEPT !.todo = @ \ {i}, !.healthy = h]
           \/ pass' = [pass EXCEPT !.todo = @ \ {i}]
    BY <1>0, <1>7 DEF restart_spare
  <2>. HIDE DEF h
  <2>1. pass' \in PassState
    BY <1>0, <2>0 DEF PassState
  <2>2. vm' \in [Id -> VmState]
    BY <1>7 DEF restart_spare, TypeOK, VmState
  <2>3. faults' \in Nat
    BY <1>0, <1>7 DEF restart_spare, Fault
  <2>. QED
    BY <1>7, <2>1, <2>2, <2>3 DEF restart_spare, TypeOK, registry, pool, history
<1>8. ASSUME NEW i \in Id, create_spare(i) PROVE TypeOK'
  <2>. DEFINE n == pass.create - 1
              h == pass.healthy \cup {i}
  <2>0. /\ n \in Nat /\ h \subseteq Id
        /\ \/ pass' = [pass EXCEPT !.create = n, !.healthy = h]
           \/ pass' = [pass EXCEPT !.create = n]
    BY <1>0, <1>8 DEF create_spare
  <2>. HIDE DEF n, h
  <2>1. pass' \in PassState
    <3>1. CASE pass' = [pass EXCEPT !.create = n, !.healthy = h]
      BY <1>0, <2>0, <3>1 DEF PassState
    <3>2. CASE pass' = [pass EXCEPT !.create = n]
      BY <1>0, <2>0, <3>2 DEF PassState
    <3>. QED
      BY <2>0, <3>1, <3>2
  <2>2. vm' \in [Id -> VmState]
    BY <1>8 DEF create_spare, TypeOK, VmState
  <2>3. faults' \in Nat
    BY <1>0, <1>8 DEF create_spare, Fault
  <2>. QED
    BY <1>8, <2>1, <2>2, <2>3 DEF create_spare, TypeOK, registry, pool, history
<1>9. CASE BuildDone
  <2>1. pass' \in PassState
    BY <1>0, <1>9 DEF BuildDone, PassState
  <2>. QED
    BY <1>9, <2>1 DEF BuildDone, TypeOK, daemon, registry, pool, history
<1>10. CASE publish
  <2>. DEFINE shelf == {i \in pass.healthy : Free(i)}
  <2>1. ready' \in SetToSeqs(shelf)
    BY <1>10 DEF publish
  <2>2. shelf \in SUBSET Id
    BY <1>0
  <2>. HIDE DEF shelf
  <2>3. ready' \in Seq(Id)
    BY <2>1, <2>2, ShelfOrder
  <2>. QED
    BY <1>0, <1>10, <2>3 DEF publish, TypeOK, daemon, registry, history
<1>. QED
  BY <1>1, <1>2, <1>3, <1>4, <1>5, <1>6, <1>7, <1>8, <1>9, <1>10 DEF PassStep

\* No step of a purge, and nothing that happens around the pooler, leaves the types.
LEMMA OtherKeepsTypes ==
    ASSUME TypeOK, PurgeStep \/ (\E i \in Id : VmFails(i)) \/ Persist \/ Crash \/ UNCHANGED vars
    PROVE  TypeOK'
<1>0. /\ purge \in PurgeState /\ NoPurge \in PurgeState /\ NoPass \in PassState
      /\ NoClaim \in ClaimState /\ faults \in Nat /\ purges \in Nat
      /\ purge.list \subseteq Id /\ purge.target \in Id \cup {None}
  BY SparesAssumption DEF TypeOK, PurgeState, NoPurge, PassState, NoPass, ClaimState, NoClaim
<1>1. CASE PurgeBegin
  <2>. DEFINE l == {i \in Id : Exists(i)} \ (Bound \cup claimed)
  <2>1. purge' = [NoPurge EXCEPT !.ph = "walk", !.list = l] /\ l \subseteq Id
    BY <1>1 DEF PurgeBegin
  <2>. HIDE DEF l
  <2>2. purge' \in PurgeState
    BY <1>0, <2>1 DEF PurgeState
  <2>3. purges' \in Nat
    BY <1>0, <1>1 DEF PurgeBegin
  <2>. QED
    BY <1>1, <2>2, <2>3 DEF PurgeBegin, TypeOK, daemon, registry, pool, history
<1>2. CASE PurgeKill
  <2>1. PICK i \in purge.list, j \in Id \cup {None} :
            purge' = [purge EXCEPT !.list = @ \ {i}, !.target = j]
    BY <1>0, <1>2 DEF PurgeKill
  <2>2. purge' \in PurgeState
    BY <1>0, <2>1 DEF PurgeState
  <2>. QED
    BY <1>2, <2>2 DEF PurgeKill, TypeOK, daemon, registry, pool, history
<1>3. CASE PurgeKilled
  <2>1. purge' \in PurgeState
    BY <1>0, <1>3 DEF PurgeKilled, PurgeState
  <2>2. vm' \in [Id -> VmState] /\ data' \in [Id -> SUBSET Schema]
    BY <1>0, <1>3 DEF PurgeKilled, TypeOK, VmState, daemon
  <2>3. faults' \in Nat
    BY <1>0, <1>3 DEF PurgeKilled, Fault
  <2>. QED
    BY <1>3, <2>1, <2>2, <2>3 DEF PurgeKilled, TypeOK, registry, pool, history
<1>4. CASE PurgeEnd
  BY <1>0, <1>4 DEF PurgeEnd, TypeOK, daemon, registry, pool, history
<1>5. ASSUME NEW i \in Id, VmFails(i) PROVE TypeOK'
  BY <1>0, <1>5 DEF VmFails, Fault, TypeOK, VmState, registry, pool, history
<1>6. CASE Persist
  BY <1>6 DEF Persist, TypeOK, daemon, pool, history
<1>7. CASE Crash
  BY <1>0, <1>7, EmptySeq DEF Crash, Fault, TypeOK, daemon
<1>8. CASE UNCHANGED vars
  BY <1>8 DEF TypeOK, vars, daemon, registry, pool, history
<1>. QED
  BY <1>1, <1>2, <1>3, <1>4, <1>5, <1>6, <1>7, <1>8 DEF PurgeStep

-----------------------------------------------------------------------------
(* Bring-ups keep the invariant. *)

\* What depends on one variable only.
LEMMA Frame ==
    /\ UNCHANGED ready => OnShelf' = OnShelf
    /\ UNCHANGED row => Bound' = Bound
    /\ UNCHANGED vm => Known' = Known /\ \A i : Exists(i)' <=> Exists(i)
    /\ UNCHANGED <<pass, purge>> => Doomed' = Doomed
<1>1. UNCHANGED ready => OnShelf' = OnShelf
  BY DEF OnShelf
<1>2. UNCHANGED row => Bound' = Bound
  BY DEF Bound
<1>3. UNCHANGED vm => Known' = Known /\ \A i : Exists(i)' <=> Exists(i)
  BY DEF Known, Exists, Up
<1>4. UNCHANGED <<pass, purge>> => Doomed' = Doomed
  BY DEF Doomed
<1>. QED
  BY <1>1, <1>2, <1>3, <1>4

\* The ids in the hands of the others are well-typed.
LEMMA ClaimIds ==
    ASSUME IInv
    PROVE  /\ \A s \in Schema : claim[s] \in ClaimState /\ claim[s].id \in Id \cup {None}
           /\ \A s \in Schema : row[s] \in Id \cup {None} /\ saved[s] \in Id \cup {None}
           /\ Bound \subseteq Id /\ \A s \in Schema : row[s] # None => row[s] \in Bound
           /\ \A i \in Bound : \E s \in Schema : row[s] = i
BY DEF IInv, TypeOK, ClaimState, Bound

\* A bring-up begins: its schema has no VM, or has lost it to a late kill.
LEMMA BringUpKeeps ==
    ASSUME IInv, NEW s \in Schema, BringUp(s), TypeOK'
    PROVE  IInv'
<1>1. /\ claim[s].ph = "idle" /\ claim'[s].ph = "take" /\ claim'[s].id = None
      /\ \A t \in Schema \ {s} : claim'[t] = claim[t]
  BY DEF BringUp, NoClaim, IInv, TypeOK
<1>2. UNCHANGED <<vm, data, row, saved, claimed, ready, sickSince, pass, purge, tainted, late>>
  BY DEF BringUp, daemon, registry, pool, history
<1>3. OnShelf' = OnShelf /\ Bound' = Bound /\ Known' = Known /\ Doomed' = Doomed
      /\ \A i : Exists(i)' <=> Exists(i)
  BY <1>2, Frame
<1>4. row[s] # None => row[s] \in late /\ vm[row[s]] = "gone"
  <2>. SUFFICES ASSUME row[s] # None PROVE row[s] \in late /\ vm[row[s]] = "gone"
    OBVIOUS
  <2>1. row[s] \in Id /\ row[s] \in Known /\ ~Exists(row[s])
    BY ClaimIds DEF BringUp, IInv, Rows
  <2>2. vm[row[s]] = "gone"
    BY <2>1 DEF Known, Exists, Up, IInv, TypeOK, VmState
  <2>. QED
    BY <2>1, <2>2 DEF IInv, Kept
<1>5. Shelved' /\ Rows' /\ Sick' /\ Kept'
  BY <1>2, <1>3 DEF IInv, Shelved, Rows, Sick, Kept
<1>6. Claiming'
  BY <1>1, <1>2, <1>3, <1>4 DEF IInv, Claiming
<1>7. Clean'
  BY <1>1, <1>2, <1>3, SparesAssumption DEF IInv, Clean
<1>. QED
  BY <1>5, <1>6, <1>7 DEF IInv

\* A spare leaves the shelf for the hands of one bring-up, or none is found.
LEMMA TakeKeeps ==
    ASSUME IInv, NEW s \in Schema, take(s), TypeOK'
    PROVE  IInv'
<1>1. UNCHANGED <<vm, data, row, saved, sickSince, pass, purge, tainted, late>>
  BY DEF take, daemon, registry, history
<1>2. Bound' = Bound /\ Known' = Known /\ Doomed' = Doomed /\ \A i : Exists(i)' <=> Exists(i)
  BY <1>1, Frame
<1>3. claim[s].ph = "take" /\ claim[s].id = None
  BY DEF take, IInv, Claiming
<1>4. ASSUME NEW k \in Takeable(s), claimed' = claimed \cup {ready[k]},
             ready' = SubSeq(ready, k + 1, Len(ready)),
             claim' = [claim EXCEPT ![s] = [claim[s] EXCEPT !.ph = "confirm", !.id = ready[k],
                                                            !.tries = @ + 1]]
      PROVE  IInv'
  <2>. DEFINE i == ready[k]
  <2>1. k \in DOMAIN ready /\ i \notin claimed /\ i \in OnShelf
    BY <1>4 DEF Takeable, OnShelf
  <2>2. /\ i \in Id /\ i \in Known /\ i \notin Bound
        /\ \A t \in Schema : claim[t].id # i
    BY <2>1, SparesAssumption DEF IInv, Shelved, Known, Claiming
  <2>3. /\ claim'[s].ph = "confirm" /\ claim'[s].id = i
        /\ \A t \in Schema \ {s} : claim'[t] = claim[t]
    BY <1>4, ClaimIds DEF ClaimState, IInv, TypeOK
  <2>4. /\ \A l, m \in DOMAIN ready' : ready'[l] = ready'[m] => l = m
        /\ OnShelf' \subseteq OnShelf \ {i}
    <3>1. ready \in Seq(Id) /\ DOMAIN ready = 1..Len(ready) /\ Len(ready) \in Nat
      BY LenProperties DEF IInv, TypeOK
    <3>2. \A l \in (k + 1)..Len(ready) : ready[l] \in Id
      BY <2>1, <3>1, ElementOfSeq
    <3>3. /\ ready' \in Seq(Id)
          /\ Len(ready') = IF k + 1 <= Len(ready) THEN Len(ready) - (k + 1) + 1 ELSE 0
          /\ \A l \in 1..(Len(ready) - (k + 1) + 1) : ready'[l] = ready[(k + 1) + l - 1]
      BY <1>4, <2>1, <3>1, <3>2, SubSeqProperties
    <3>4. DOMAIN ready' = 1..(Len(ready) - k)
      BY <2>1, <3>1, <3>3, LenProperties
    <3>5. \A l \in DOMAIN ready' : l + k \in DOMAIN ready /\ ready'[l] = ready[l + k] /\ l + k # k
      BY <2>1, <3>1, <3>3, <3>4
    <3>6. \A l, m \in DOMAIN ready : ready[l] = ready[m] => l = m
      BY DEF IInv, Shelved
    <3>7. \A l, m \in DOMAIN ready' : ready'[l] = ready'[m] => l = m
      BY <2>1, <3>1, <3>4, <3>5, <3>6
    <3>8. \A l \in DOMAIN ready' : ready'[l] \in OnShelf /\ ready'[l] # i
      BY <2>1, <3>5, <3>6 DEF OnShelf
    <3>. QED
      BY <3>7, <3>8 DEF OnShelf
  <2>. HIDE DEF i
  <2>5. claimed' = claimed \cup {i}
    BY <1>4 DEF i
  <2>6. Shelved'
    BY <1>2, <2>4, <2>5 DEF IInv, Shelved
  <2>7. Claiming'
    BY <1>1, <1>2, <1>3, <2>2, <2>3, <2>5, SparesAssumption DEF IInv, Claiming
  <2>8. Rows' /\ Kept'
    BY <1>1, <1>2, <2>5 DEF IInv, Rows, Kept
  <2>9. Sick'
    <3>1. pass.ph = "probe" => i \notin sickSince
      BY <2>1 DEF IInv, Sick, i
    <3>. QED
      BY <1>1, <1>2, <2>4, <2>5, <3>1 DEF IInv, Sick
  <2>10. Clean'
    <3>1. i \notin tainted => data[i] = {}
      BY <2>1, <2>2 DEF IInv, Clean, i
    <3>. QED
      BY <1>1, <1>2, <2>3, <2>4, <2>5, <3>1 DEF IInv, Clean
  <2>. QED
    BY <2>6, <2>7, <2>8, <2>9, <2>10 DEF IInv
<1>5. ASSUME ready' = ready \/ ready' = <<>>, UNCHANGED claimed,
             claim' = [claim EXCEPT ![s] = [NoClaim EXCEPT !.ph = "cold"]]
      PROVE  IInv'
  <2>1. /\ claim'[s].ph = "cold" /\ claim'[s].id = None
        /\ \A t \in Schema \ {s} : claim'[t] = claim[t]
    BY <1>5 DEF NoClaim, IInv, TypeOK
  <2>2. /\ OnShelf' \subseteq OnShelf
        /\ \A k, l \in DOMAIN ready' : ready'[k] = ready'[l] => k = l
    BY <1>5 DEF OnShelf, IInv, Shelved
  <2>3. Shelved' /\ Rows' /\ Sick' /\ Kept'
    BY <1>1, <1>2, <1>5, <2>2 DEF IInv, Shelved, Rows, Sick, Kept
  <2>4. Claiming'
    BY <1>1, <1>2, <1>3, <1>5, <2>1 DEF IInv, Claiming
  <2>5. Clean'
    BY <1>1, <1>2, <1>5, <2>1, <2>2, SparesAssumption DEF IInv, Clean
  <2>. QED
    BY <2>3, <2>4, <2>5 DEF IInv
<1>. QED
  BY <1>4, <1>5 DEF take

\* The claimed spare is loaded, or given back unused.
LEMMA ConfirmKeeps ==
    ASSUME IInv, NEW s \in Schema, Confirm(s), TypeOK'
    PROVE  IInv'
<1>. DEFINE i == claim[s].id
<1>1. UNCHANGED <<vm, row, saved, ready, sickSince, pass, purge, tainted, late>>
  BY DEF Confirm, registry, history
<1>2. /\ OnShelf' = OnShelf /\ Bound' = Bound /\ Known' = Known /\ Doomed' = Doomed
      /\ \A j : Exists(j)' <=> Exists(j)
  BY <1>1, Frame
<1>3. /\ claim[s].ph = "confirm" /\ i # None /\ i \in Id /\ i \in claimed /\ i \in Known
      /\ i \notin Bound /\ i \notin OnShelf /\ \A t \in Schema \ {s} : claim[t].id # i
  BY ClaimIds DEF Confirm, IInv, Claiming, Shelved
<1>4. i \notin tainted => data[i] = {}
  BY <1>3 DEF IInv, Clean
<1>5. CASE /\ claim' = [claim EXCEPT ![s] = [NoClaim EXCEPT !.ph = "load", !.id = i]]
           /\ data' = [data EXCEPT ![i] = IF Exists(i) THEN @ \cup {s} ELSE @]
           /\ UNCHANGED claimed
  <2>1. /\ claim'[s].ph = "load" /\ claim'[s].id = i
        /\ \A t \in Schema \ {s} : claim'[t] = claim[t]
    BY <1>5 DEF NoClaim, IInv, TypeOK
  <2>2. /\ \A j \in Id \ {i} : data'[j] = data[j]
        /\ data'[i] = IF Exists(i) THEN data[i] \cup {s} ELSE data[i]
    BY <1>3, <1>5 DEF IInv, TypeOK
  <2>. HIDE DEF i
  <2>3. Shelved' /\ Rows' /\ Sick'
    BY <1>1, <1>2, <1>5 DEF IInv, Shelved, Rows, Sick
  <2>4. Claiming'
    BY <1>1, <1>2, <1>3, <1>5, <2>1, <2>2, ClaimIds DEF IInv, Claiming, i
  <2>5. Kept'
    BY <1>1, <1>2, <2>2, ClaimIds DEF IInv, Kept
  <2>6. Clean'
    BY <1>1, <1>2, <1>3, <1>4, <1>5, <2>1, <2>2 DEF IInv, Clean, i
  <2>. QED
    BY <2>3, <2>4, <2>5, <2>6 DEF IInv
<1>6. CASE /\ ~Up(i) /\ UNCHANGED data /\ claimed' = claimed \ {i}
           /\ claim' = [claim EXCEPT ![s] = [claim[s] EXCEPT !.ph = "take", !.id = None]]
  <2>1. /\ claim'[s].ph = "take" /\ claim'[s].id = None
        /\ \A t \in Schema \ {s} : claim'[t] = claim[t]
    BY <1>6, ClaimIds DEF ClaimState, IInv, TypeOK
  <2>2. UNCHANGED data /\ claimed' = claimed \ {i}
    BY <1>6
  <2>. HIDE DEF i
  <2>3. Shelved' /\ Sick' /\ Kept'
    BY <1>1, <1>2, <2>2 DEF IInv, Shelved, Sick, Kept
  <2>4. Claiming'
    BY <1>1, <1>2, <1>3, <2>1, <2>2, ClaimIds DEF IInv, Claiming, i
  <2>5. Rows'
    BY <1>1, <1>2, <1>3, <2>2 DEF IInv, Rows
  <2>6. Clean'
    BY <1>1, <1>2, <1>3, <1>4, <2>1, <2>2, SparesAssumption DEF IInv, Clean
  <2>. QED
    BY <2>3, <2>4, <2>5, <2>6 DEF IInv
<1>7. Up(i) => Exists(i)
  BY DEF Exists
<1>8. Up(i) /\ data' = [data EXCEPT ![i] = @ \cup {s}]
          => data' = [data EXCEPT ![i] = IF Exists(i) THEN @ \cup {s} ELSE @]
  BY <1>7
<1>. QED
  BY <1>5, <1>6, <1>8 DEF Confirm

\* The row is put: from the hands of the bring-up the spare goes to the schema,
\* and its claim stays.
LEMMA BindKeeps ==
    ASSUME IInv, NEW s \in Schema, Bind(s), TypeOK'
    PROVE  IInv'
<1>. DEFINE i == claim[s].id
<1>1. UNCHANGED <<data, saved, claimed, ready, sickSince, pass, purge, tainted>>
  BY DEF Bind, pool
<1>2. OnShelf' = OnShelf /\ Doomed' = Doomed
  BY <1>1, Frame
<1>3. /\ claim[s].ph = "load" /\ i # None /\ i \in Id /\ i \in claimed /\ i \in Known
      /\ i \notin Bound /\ i \notin OnShelf /\ \A t \in Schema \ {s} : claim[t].id # i
      /\ Exists(i) /\ s \in data[i]
  BY ClaimIds DEF Bind, IInv, Claiming, Shelved
<1>4. /\ claim'[s].ph = "idle" /\ claim'[s].id = None
      /\ \A t \in Schema \ {s} : claim'[t] = claim[t]
  BY DEF Bind, NoClaim, IInv, TypeOK
<1>5. /\ row'[s] = i /\ \A t \in Schema \ {s} : row'[t] = row[t]
      /\ late \subseteq late' /\ (i \notin late' => i \notin Doomed)
      /\ vm'[i] = "running" /\ \A j \in Id \ {i} : vm'[j] = vm[j]
  BY <1>3 DEF Bind, IInv, TypeOK
<1>6. row[s] # None => row[s] \in late /\ vm[row[s]] = "gone" /\ row[s] # i
  BY <1>3 DEF IInv, Claiming, Exists, Up
<1>7. Bound' \subseteq Bound \cup {i} /\ Known' = Known /\ \A j \in Id : Exists(j)' <=> Exists(j)
  BY <1>3, <1>5 DEF Bound, Known, Exists, Up
<1>8. \A j \in Bound : j \in Bound' \/ (vm[j] = "gone" /\ j # i)
  BY <1>5, <1>6 DEF Bound
<1>9. \A t \in Schema : saved[t] # None => saved[t] # i \/ saved[t] = row[t]
  BY <1>3 DEF IInv, Rows, Exists, Up
<1>. HIDE DEF i
<1>10. Shelved'
  BY <1>1, <1>2, <1>3, <1>7 DEF IInv, Shelved
<1>11. Claiming'
  BY <1>1, <1>3, <1>4, <1>5, <1>6, <1>7, ClaimIds DEF IInv, Claiming, i
<1>12. Rows'
  <2>1. \A t, u \in Schema : row'[t] = row'[u] /\ row'[t] # None => t = u
    BY <1>3, <1>5, ClaimIds DEF IInv, Rows
  <2>2. \A t, u \in Schema : saved'[t] = saved'[u] /\ saved'[t] # None => t = u
    BY <1>1 DEF IInv, Rows
  <2>3. /\ Bound' \subseteq Known'
        /\ \A j \in Bound' : j \in claimed' \/ pass'.ph = "idle" \/ j \in pass'.bound
    BY <1>1, <1>3, <1>7 DEF IInv, Rows
  <2>4. ASSUME NEW t \in Schema
        PROVE  saved'[t] \in {None, row'[t]} \/ (saved'[t] \in late' /\ vm'[saved'[t]] = "gone")
    <3>1. saved[t] \in {None, row[t]} \/ (saved[t] \in late /\ vm[saved[t]] = "gone")
      BY DEF IInv, Rows
    <3>2. saved[t] \in Id \cup {None} /\ row[t] \in Id \cup {None}
      BY ClaimIds
    <3>3. vm[i] # "gone"
      BY <1>3 DEF Exists, Up
    <3>. QED
      BY <1>1, <1>5, <1>6, <3>1, <3>2, <3>3
  <2>. QED
    BY <2>1, <2>2, <2>3, <2>4 DEF Rows
<1>13. Sick'
  BY <1>1, <1>2, <1>3, <1>7 DEF IInv, Sick
<1>14. Kept'
  BY <1>1, <1>2, <1>3, <1>5, <1>7, ClaimIds DEF IInv, Kept
<1>15. Clean'
  <2>1. \A j \in Id : vm[j] = "gone" => data[j] = {}
    BY DEF IInv, Clean, Exists, Up
  <2>. QED
    BY <1>1, <1>2, <1>3, <1>4, <1>7, <1>8, <2>1, SparesAssumption DEF IInv, Clean
<1>. QED
  BY <1>10, <1>11, <1>12, <1>13, <1>14, <1>15 DEF IInv

\* A failed bring-up: the spare is killed and given up, or stays claimed for good.
LEMMA ReleaseKeeps ==
    ASSUME IInv, NEW s \in Schema, LoadFail(s) \/ release_failed(s), TypeOK'
    PROVE  IInv'
<1>. DEFINE i == claim[s].id
<1>1. /\ i # None /\ i \in Id /\ i \in claimed /\ i \in Known /\ claim[s].ph \in {"load", "release"}
      /\ i \notin Bound /\ i \notin OnShelf /\ \A t \in Schema \ {s} : claim[t].id # i
  BY ClaimIds DEF LoadFail, release_failed, IInv, Claiming, Shelved
<1>2. UNCHANGED <<row, saved, pass, purge, tainted, late>>
  BY DEF LoadFail, release_failed, registry, history
<1>3. Bound' = Bound /\ Doomed' = Doomed
  BY <1>2, Frame
<1>4. CASE LoadFail(s)
  <2>1. /\ UNCHANGED <<vm, data, claimed>> /\ sickSince' \subseteq sickSince
    BY <1>4 DEF LoadFail, daemon
  <2>2. ready' = ready
    BY <1>1, <1>4, NotShelved DEF LoadFail, IInv
  <2>3. OnShelf' = OnShelf /\ Known' = Known /\ \A j : Exists(j)' <=> Exists(j)
    BY <2>1, <2>2, Frame
  <2>4. /\ claim[s].ph = "load" /\ claim'[s].ph = "release" /\ claim'[s].id = i
        /\ \A t \in Schema \ {s} : claim'[t] = claim[t]
    BY <1>4, ClaimIds DEF LoadFail, ClaimState, IInv, TypeOK
  <2>5. Shelved' /\ Rows' /\ Sick' /\ Kept'
    BY <1>2, <1>3, <2>1, <2>2, <2>3 DEF IInv, Shelved, Rows, Sick, Kept
  <2>6. Claiming'
    BY <1>1, <1>2, <1>3, <2>1, <2>3, <2>4 DEF IInv, Claiming
  <2>7. Clean'
    BY <1>1, <1>2, <1>3, <2>1, <2>3, <2>4 DEF IInv, Clean
  <2>. QED
    BY <2>5, <2>6, <2>7 DEF IInv
<1>5. CASE release_failed(s)
  <2>1. UNCHANGED <<ready, sickSince>>
    BY <1>5 DEF release_failed
  <2>2. OnShelf' = OnShelf
    BY <2>1, Frame
  <2>3. /\ claim'[s].ph = "idle" /\ claim'[s].id = None
        /\ \A t \in Schema \ {s} : claim'[t] = claim[t]
    BY <1>5 DEF release_failed, NoClaim, IInv, TypeOK
  <2>4. \/ UNCHANGED <<vm, data, claimed>>
        \/ /\ vm'[i] = "gone" /\ data'[i] = {} /\ claimed' = claimed \ {i}
           /\ \A j \in Id \ {i} : vm'[j] = vm[j] /\ data'[j] = data[j]
    BY <1>1, <1>5 DEF release_failed, IInv, TypeOK
  <2>5. /\ Known' = Known /\ (\A j \in Id \ {i} : Exists(j)' <=> Exists(j))
        /\ \A j \in Id : (~Exists(j) => ~Exists(j)') /\ (vm[j] = "gone" => vm'[j] = "gone")
    BY <1>1, <2>4 DEF Known, Exists, Up
  <2>. HIDE DEF i
  <2>6. Shelved' /\ Sick'
    BY <1>2, <1>3, <2>1, <2>2, <2>4, <2>5 DEF IInv, Shelved, Sick
  <2>7. Claiming'
    BY <1>1, <1>2, <1>3, <2>3, <2>4, <2>5, ClaimIds DEF IInv, Claiming, i
  <2>8. Rows'
    BY <1>1, <1>2, <1>3, <2>4, <2>5, ClaimIds DEF IInv, Rows
  <2>9. Kept'
    BY <1>1, <1>2, <1>3, <2>4, <2>5, ClaimIds DEF IInv, Kept
  <2>10. Clean'
    BY <1>1, <1>2, <1>3, <2>2, <2>3, <2>4, <2>5, SparesAssumption DEF IInv, Clean, Exists, Up
  <2>. QED
    BY <2>6, <2>7, <2>8, <2>9, <2>10 DEF IInv
<1>. QED
  BY <1>4, <1>5

-----------------------------------------------------------------------------
(* The replenisher keeps the invariant. *)

\* What a pass finds unbound in its snapshot and unclaimed now is nobody's now: a row
\* that was put since is a claimed spare's.
LEMMA FreeIsNobodys ==
    ASSUME IInv, pass.ph # "idle", NEW i \in Id, Free(i)
    PROVE  i \notin Bound /\ i \notin claimed
BY DEF IInv, Rows, Free

\* A step of a pass or of the daemon that deletes no sandbox, and decides no kill of a
\* row's sandbox, keeps everything but Sick.
LEMMA NoKillKeeps ==
    ASSUME IInv, UNCHANGED <<data, row, saved, claimed, ready, claim, tainted, late>>,
           Known \subseteq Known', \A j \in Known : Exists(j)' <=> Exists(j),
           \A j \in Id : vm[j] = "gone" => vm'[j] = "gone",
           \A j \in Bound : j \in claimed \/ pass'.ph = "idle" \/ j \in pass'.bound,
           Bound \cap Doomed' \subseteq Doomed
    PROVE  Shelved' /\ Claiming' /\ Rows' /\ Kept' /\ Clean'
<1>1. OnShelf' = OnShelf /\ Bound' = Bound
  BY Frame
<1>2. Shelved'
  BY <1>1 DEF IInv, Shelved
<1>3. Claiming'
  BY <1>1, ClaimIds DEF IInv, Claiming
<1>4. Rows'
  BY <1>1, ClaimIds DEF IInv, Rows
<1>5. Kept'
  BY <1>1, ClaimIds DEF IInv, Kept, Rows
<1>6. \A j \in Id : ~Exists(j)' => ~Exists(j)
  BY DEF Known, Exists, Up
<1>7. Clean'
  BY <1>1, <1>6 DEF IInv, Clean
<1>. QED
  BY <1>2, <1>3, <1>4, <1>5, <1>7

\* A pass begins, lists and plans; it puts only free spares on the list of deletes.
LEMMA PlanKeeps ==
    ASSUME IInv, PassBegin \/ PassList \/ PassPlan \/ BuildDone, TypeOK'
    PROVE  IInv'
<1>1. UNCHANGED <<vm, data, row, saved, claimed, ready, sickSince, claim, purge, tainted, late>>
  <2>1. CASE PassBegin
    BY <2>1 DEF PassBegin, daemon, registry, pool, history
  <2>2. CASE PassList
    BY <2>2 DEF PassList, daemon, registry, pool, history
  <2>3. CASE PassPlan
    BY <2>3 DEF PassPlan, daemon, registry, pool, history
  <2>4. CASE BuildDone
    BY <2>4 DEF BuildDone, daemon, registry, pool, history
  <2>. QED
    BY <2>1, <2>2, <2>3, <2>4
<1>2. /\ OnShelf' = OnShelf /\ Bound' = Bound /\ Known' = Known
      /\ \A j : Exists(j)' <=> Exists(j)
  BY <1>1, Frame
<1>3. pass \in PassState /\ None \notin Bound /\ Bound \subseteq Id
  BY DEF IInv, TypeOK, Bound
<1>4. ASSUME \A j \in Bound : j \in claimed \/ pass'.ph = "idle" \/ j \in pass'.bound,
             Bound \cap Doomed' \subseteq Doomed, Sick'
      PROVE  IInv'
  BY <1>1, <1>2, <1>4, NoKillKeeps DEF IInv
<1>5. CASE PassBegin
  <2>1. /\ pass.ph = "idle" /\ pass'.ph = "list" /\ pass'.bound = Bound /\ pass'.target = None
        /\ pass'.delete = {} /\ pass'.healthy = {} /\ pass'.todo = {} /\ pass'.down = {}
    BY <1>5 DEF PassBegin, NoPass
  <2>2. Bound \cap Doomed' \subseteq Doomed
    BY <1>1, <1>3, <2>1 DEF Doomed
  <2>3. Sick'
    BY <1>1, <1>2, <2>1 DEF IInv, Sick
  <2>. QED
    BY <1>4, <2>1, <2>2, <2>3
<1>6. CASE PassList
  <2>1. /\ pass.ph = "list" /\ pass'.ph = "probe" /\ pass'.bound = pass.bound
        /\ pass'.target = pass.target /\ pass'.delete = pass.delete /\ pass'.healthy = pass.healthy
        /\ pass'.down = {i \in Id : vm[i] = "stopped"}
        /\ pass'.todo = {i \in Id : Up(i) /\ Free(i)}
    BY <1>3, <1>6 DEF PassList, PassState
  <2>2. Bound \cap Doomed' \subseteq Doomed
    BY <1>1, <2>1 DEF Doomed
  <2>3. pass'.todo \cap (Bound \cup claimed) = {}
    BY <2>1, FreeIsNobodys
  <2>4. /\ pass'.down \subseteq Known /\ pass'.todo \subseteq Known
        /\ pass'.todo \cap pass'.down = {}
    BY <2>1 DEF Known, Up
  <2>5. OnShelf \cap sickSince = {} /\ pass.healthy \cup sickSince \subseteq Known
    BY <2>1 DEF IInv, Sick
  <2>6. Sick'
    BY <1>1, <1>2, <2>1, <2>3, <2>4, <2>5 DEF Sick
  <2>7. \A j \in Bound : j \in claimed \/ j \in pass'.bound
    BY <2>1 DEF IInv, Rows
  <2>. QED
    BY <1>4, <2>2, <2>6, <2>7
<1>7. CASE PassPlan
  <2>. DEFINE stopped == {i \in pass.down : Free(i)}
  <2>0. stopped \cap Bound = {} /\ stopped \subseteq pass.down
    <3>1. pass.ph = "cull" /\ pass.down \subseteq Id
      BY <1>3, <1>7 DEF PassPlan, PassState
    <3>. QED
      BY <3>1, FreeIsNobodys
  <2>1. PICK start \in SUBSET stopped, n \in {Deficit - Cardinality(start) : start \in SUBSET stopped} :
            /\ pass.ph = "cull"
            /\ pass' = [pass EXCEPT !.ph = "build", !.todo = start, !.up = {}, !.down = {},
                                    !.create = n, !.delete = stopped \ start]
    BY <1>7 DEF PassPlan
  <2>. HIDE DEF stopped
  <2>2. /\ pass'.ph = "build" /\ pass'.bound = pass.bound
        /\ pass'.target = pass.target /\ pass'.healthy = pass.healthy /\ pass'.down = {}
        /\ pass'.todo = start /\ pass'.delete = stopped \ start
    BY <1>3, <2>1 DEF PassState
  <2>4. Bound \cap Doomed' \subseteq Doomed
    BY <1>1, <2>0, <2>1, <2>2 DEF Doomed
  <2>5. Sick'
    BY <1>1, <1>2, <2>0, <2>1, <2>2 DEF IInv, Sick
  <2>6. \A j \in Bound : j \in claimed \/ j \in pass'.bound
    BY <2>1, <2>2 DEF IInv, Rows
  <2>. QED
    BY <1>4, <2>4, <2>5, <2>6
<1>8. CASE BuildDone
  <2>1. /\ pass.ph = "build" /\ pass'.ph = "delete" /\ pass'.bound = pass.bound
        /\ pass'.target = pass.target /\ pass'.delete = pass.delete /\ pass'.healthy = pass.healthy
        /\ pass'.down = pass.down /\ pass'.todo = pass.todo
    BY <1>3, <1>8 DEF BuildDone, PassState
  <2>2. Bound \cap Doomed' \subseteq Doomed
    BY <1>1, <2>1 DEF Doomed
  <2>3. Sick'
    BY <1>1, <1>2, <2>1 DEF IInv, Sick
  <2>4. \A j \in Bound : j \in claimed \/ j \in pass'.bound
    BY <2>1 DEF IInv, Rows
  <2>. QED
    BY <1>4, <2>2, <2>3, <2>4
<1>. QED
  BY <1>5, <1>6, <1>7, <1>8

\* A spare found sick twice is put on the list of kills: the shelf was emptied of it
\* when it was first found sick, so that nobody has it.
LEMMA ProbeKeeps ==
    ASSUME IInv, PassProbe, TypeOK'
    PROVE  IInv'
<1>1. UNCHANGED <<vm, data, row, saved, claimed, ready, claim, purge, tainted, late>>
  BY DEF PassProbe, daemon, registry, history
<1>2. /\ OnShelf' = OnShelf /\ Bound' = Bound /\ Known' = Known
      /\ \A j : Exists(j)' <=> Exists(j)
  BY <1>1, Frame
<1>3. pass \in PassState /\ pass.ph = "probe"
  BY DEF IInv, TypeOK, PassProbe
<1>a. PICK sick \in SUBSET pass.todo :
        /\ sickSince' = sick
        /\ \E doomed \in SUBSET (sick \cap sickSince) :
             pass' = [pass EXCEPT !.ph = "cull", !.up = @ \ sick,
                                  !.healthy = pass.todo \ sick, !.todo = doomed]
  BY DEF PassProbe
<1>b. PICK doomed \in SUBSET (sick \cap sickSince) :
        pass' = [pass EXCEPT !.ph = "cull", !.up = @ \ sick,
                             !.healthy = pass.todo \ sick, !.todo = doomed]
  BY <1>a
<1>4. sickSince' = sick /\ doomed \subseteq sick /\ doomed \subseteq sickSince /\ sick \subseteq pass.todo
  BY <1>a, <1>b
<1>5. /\ pass'.ph = "cull" /\ pass'.bound = pass.bound /\ pass'.target = pass.target
      /\ pass'.delete = pass.delete /\ pass'.healthy = pass.todo \ sick
      /\ pass'.down = pass.down /\ pass'.todo = doomed
  BY <1>3, <1>b DEF PassState
<1>6. /\ pass.todo \cap sickSince \cap (Bound \cup claimed) = {} /\ pass.todo \cap pass.down = {}
      /\ pass.healthy \cup pass.todo \cup pass.down \cup sickSince \subseteq Known
  BY <1>3 DEF IInv, Sick
<1>7. Bound \cap Doomed' \subseteq Doomed
  BY <1>1, <1>4, <1>5, <1>6 DEF Doomed
<1>8. Sick'
  BY <1>2, <1>4, <1>5, <1>6 DEF Sick
<1>9. \A j \in Bound : j \in claimed \/ j \in pass'.bound
  BY <1>3, <1>5 DEF IInv, Rows
<1>. QED
  BY <1>1, <1>2, <1>7, <1>8, <1>9, NoKillKeeps DEF IInv

\* A kill of the list is sent.
LEMMA SendKeeps ==
    ASSUME IInv, PassKill, TypeOK'
    PROVE  IInv'
<1>1. UNCHANGED <<vm, data, row, saved, claimed, ready, sickSince, claim, purge, tainted, late>>
  BY DEF PassKill, daemon, registry, pool, history
<1>2. /\ OnShelf' = OnShelf /\ Bound' = Bound /\ Known' = Known
      /\ \A j : Exists(j)' <=> Exists(j)
  BY <1>1, Frame
<1>3. pass \in PassState /\ pass.ph \in {"cull", "delete"}
  BY DEF IInv, TypeOK, PassKill
<1>4. PICK i \in pass.todo \cup pass.delete :
        /\ i \in (IF pass.ph = "cull" THEN pass.todo ELSE pass.delete)
        /\ pass' = [pass EXCEPT !.target = i, !.todo = @ \ {i}, !.delete = @ \ {i}]
  BY DEF PassKill, SendKill
<1>5. /\ pass'.ph = pass.ph /\ pass'.bound = pass.bound /\ pass'.target = i
      /\ pass'.delete = pass.delete \ {i} /\ pass'.healthy = pass.healthy
      /\ pass'.down = pass.down /\ pass'.todo = pass.todo \ {i}
  BY <1>3, <1>4 DEF PassState
<1>6. Doomed' \subseteq Doomed
  BY <1>1, <1>4, <1>5 DEF Doomed
<1>7. Sick'
  BY <1>1, <1>2, <1>3, <1>5 DEF IInv, Sick
<1>8. \A j \in Bound : j \in claimed \/ j \in pass'.bound
  BY <1>3, <1>5 DEF IInv, Rows
<1>. QED
  BY <1>1, <1>2, <1>6, <1>7, <1>8, NoKillKeeps DEF IInv

\* The kill that a pass or a purge had decided takes no row's sandbox, save one that
\* was bound late.
LEMMA KillKeeps ==
    ASSUME IInv, UNCHANGED <<row, saved, claimed, ready, claim, tainted, late>>,
           NEW i \in Doomed \cap Id,
           vm' = [vm EXCEPT ![i] = "gone"], data' = [data EXCEPT ![i] = {}],
           pass'.ph = pass.ph, pass'.bound = pass.bound, Doomed' \subseteq Doomed \cup {None}
    PROVE  Shelved' /\ Claiming' /\ Rows' /\ Kept' /\ Clean' /\ Known \subseteq Known'
<1>1. OnShelf' = OnShelf /\ Bound' = Bound
  BY Frame
<1>2. /\ vm'[i] = "gone" /\ data'[i] = {}
      /\ \A j \in Id \ {i} : vm'[j] = vm[j] /\ data'[j] = data[j]
  BY DEF IInv, TypeOK
<1>3. /\ Known \subseteq Known' /\ ~Exists(i)'
      /\ \A j \in Id \ {i} : Exists(j)' <=> Exists(j)
  BY <1>2 DEF Known, Exists, Up
<1>4. Shelved'
  BY <1>1, <1>3 DEF IInv, Shelved
<1>5. Claiming'
  BY <1>1, <1>2, <1>3, ClaimIds DEF IInv, Claiming
<1>6. Rows'
  BY <1>1, <1>2, <1>3, ClaimIds DEF IInv, Rows
<1>7. Kept'
  BY <1>2, <1>3, ClaimIds DEF IInv, Kept
<1>8. Clean'
  BY <1>1, <1>2, <1>3 DEF IInv, Clean
<1>. QED
  BY <1>3, <1>4, <1>5, <1>6, <1>7, <1>8

\* The daemon answers a kill of a pass.
LEMMA KilledKeeps ==
    ASSUME IInv, PassKilled, TypeOK'
    PROVE  IInv'
<1>1. UNCHANGED <<row, saved, claimed, ready, claim, purge, tainted, late>>
  BY DEF PassKilled, registry, history
<1>2. pass \in PassState /\ pass.target # None
  BY DEF IInv, TypeOK, PassKilled
<1>3. /\ pass'.ph = pass.ph /\ pass'.bound = pass.bound /\ pass'.target = None
      /\ pass'.delete = pass.delete /\ pass'.healthy = pass.healthy
      /\ pass'.down = pass.down /\ pass'.todo = pass.todo
  BY <1>2 DEF PassKilled, PassState
<1>4. Doomed' \subseteq Doomed \cup {None}
  BY <1>1, <1>3 DEF Doomed
<1>5. sickSince' \subseteq sickSince /\ OnShelf' = OnShelf /\ Bound' = Bound
  BY <1>1, Frame DEF PassKilled
<1>6. ASSUME Known \subseteq Known' PROVE Sick'
  BY <1>1, <1>3, <1>5, <1>6 DEF IInv, Sick
<1>7. CASE /\ vm' = [vm EXCEPT ![pass.target] = "gone"]
           /\ data' = [data EXCEPT ![pass.target] = {}]
  <2>1. PICK i \in Doomed \cap Id : i = pass.target
    BY <1>2 DEF Doomed, PassState
  <2>2. vm' = [vm EXCEPT ![i] = "gone"] /\ data' = [data EXCEPT ![i] = {}]
    BY <1>7, <2>1
  <2>3. Shelved' /\ Claiming' /\ Rows' /\ Kept' /\ Clean' /\ Known \subseteq Known'
    BY <1>1, <1>3, <1>4, <2>2, KillKeeps
  <2>. QED
    BY <1>6, <2>3 DEF IInv
<1>8. CASE UNCHANGED daemon
  <2>1. UNCHANGED <<vm, data>>
    BY <1>8 DEF daemon
  <2>2. Known' = Known /\ \A j : Exists(j)' <=> Exists(j)
    BY <2>1, Frame
  <2>3. \A j \in Bound : j \in claimed \/ pass'.ph = "idle" \/ j \in pass'.bound
    BY <1>3 DEF IInv, Rows
  <2>4. Bound \cap Doomed' \subseteq Doomed
    BY <1>4 DEF Bound
  <2>5. Shelved' /\ Claiming' /\ Rows' /\ Kept' /\ Clean'
    BY <1>1, <2>1, <2>2, <2>3, <2>4, NoKillKeeps
  <2>. QED
    BY <1>6, <2>2, <2>5 DEF IInv
<1>. QED
  BY <1>7, <1>8 DEF PassKilled

\* A stopped spare is started, or a new one made under an id never used before.
LEMMA BuildKeeps ==
    ASSUME IInv, NEW i \in Id, restart_spare(i) \/ create_spare(i), TypeOK'
    PROVE  IInv'
<1>1. UNCHANGED <<data, row, saved, claimed, ready, sickSince, claim, purge, tainted, late>>
  BY DEF restart_spare, create_spare, registry, pool, history
<1>2. pass \in PassState /\ pass.ph = "build" /\ OnShelf' = OnShelf /\ Bound' = Bound
  BY <1>1, Frame DEF IInv, TypeOK, restart_spare, create_spare
<1>3. /\ pass'.ph = "build" /\ pass'.bound = pass.bound /\ pass'.target = pass.target
      /\ pass'.delete = pass.delete /\ pass'.down = pass.down
      /\ pass'.todo \subseteq pass.todo /\ pass'.healthy \subseteq pass.healthy \cup {i}
      /\ \/ i \in pass.todo
         \/ vm[i] = "none" /\ i \in Known'
  <2>1. CASE restart_spare(i)
    BY <1>2, <2>1 DEF restart_spare, PassState
  <2>2. CASE create_spare(i)
    <3>1. vm[i] = "none" /\ vm'[i] # "none"
      BY <2>2 DEF create_spare, IInv, TypeOK
    <3>. QED
      BY <1>2, <2>2, <3>1 DEF create_spare, PassState, Known
  <2>. QED
    BY <2>1, <2>2
<1>4. /\ \A j \in Id \ {i} : vm'[j] = vm[j]
      /\ i \in Known => (Exists(i) <=> vm'[i] \in {"running", "sick", "stopped"})
      /\ vm[i] = "gone" => vm'[i] = "gone"
      /\ vm[i] # "none" => vm'[i] # "none"
  <2>1. CASE restart_spare(i)
    BY <2>1 DEF restart_spare, Exists, Up, IInv, TypeOK, VmState
  <2>2. CASE create_spare(i)
    BY <2>2 DEF create_spare, Known, IInv, TypeOK
  <2>. QED
    BY <2>1, <2>2
<1>5. /\ Known \subseteq Known' /\ \A j \in Known : Exists(j)' <=> Exists(j)
      /\ \A j \in Id : vm[j] = "gone" => vm'[j] = "gone"
  BY <1>4 DEF Known, Exists, Up
<1>6. Doomed' = Doomed
  BY <1>1, <1>2, <1>3 DEF Doomed
<1>7. \A j \in Bound : j \in claimed \/ j \in pass'.bound
  BY <1>2, <1>3 DEF IInv, Rows
<1>8. Sick'
  <2>1. i \in Known' /\ i \notin sickSince
    BY <1>2, <1>3, <1>5 DEF IInv, Sick, Known
  <2>. QED
    BY <1>1, <1>2, <1>3, <1>5, <2>1 DEF IInv, Sick
<1>. QED
  BY <1>1, <1>5, <1>6, <1>7, <1>8, NoKillKeeps DEF IInv

\* The shelf is replaced by spares that are nobody's, and so empty.
LEMMA PublishKeeps ==
    ASSUME IInv, publish, TypeOK'
    PROVE  IInv'
<1>. DEFINE shelf == {i \in pass.healthy : Free(i)}
<1>1. UNCHANGED <<vm, data, row, saved, claimed, sickSince, claim, purge, tainted, late>>
  BY DEF publish, daemon, registry, history
<1>2. /\ Bound' = Bound /\ Known' = Known /\ \A j : Exists(j)' <=> Exists(j)
  BY <1>1, Frame
<1>3. /\ pass.ph = "delete" /\ pass'.ph = "idle" /\ pass'.target = None /\ pass'.delete = {}
      /\ pass'.healthy = {} /\ pass'.todo = {} /\ pass'.down = {}
  BY DEF publish, NoPass
<1>4. /\ pass.healthy \subseteq Known /\ pass.healthy \cap sickSince = {} /\ sickSince \subseteq Known
  BY <1>3 DEF IInv, Sick
<1>5. shelf \in SUBSET Id /\ \A i \in shelf : i \in Known /\ i \notin sickSince
  BY <1>4 DEF Known
<1>6. \A i \in shelf : i \notin Bound /\ i \notin claimed
  BY <1>3, <1>5, FreeIsNobodys
<1>7. ready' \in SetToSeqs(shelf)
  BY DEF publish
<1>. HIDE DEF shelf
<1>8. /\ \A k \in DOMAIN ready' : ready'[k] \in shelf
      /\ \A k, l \in DOMAIN ready' : ready'[k] = ready'[l] => k = l
  BY <1>5, <1>7, ShelfOrder
<1>9. OnShelf' \subseteq shelf
  BY <1>8 DEF OnShelf
<1>10. Shelved'
  BY <1>1, <1>2, <1>5, <1>6, <1>8, <1>9 DEF Shelved
<1>11. Claiming' /\ Rows'
  BY <1>1, <1>2, <1>3 DEF IInv, Claiming, Rows
<1>12. Sick'
  BY <1>1, <1>2, <1>3, <1>4, <1>5, <1>9 DEF Sick
<1>13. Kept'
  <2>1. Doomed' \subseteq Doomed \cup {None}
    BY <1>1, <1>3 DEF Doomed
  <2>. QED
    BY <1>1, <1>2, <2>1 DEF IInv, Kept
<1>14. Clean'
  BY <1>1, <1>2, <1>5, <1>6, <1>9 DEF IInv, Clean
<1>. QED
  BY <1>10, <1>11, <1>12, <1>13, <1>14 DEF IInv

-----------------------------------------------------------------------------
(* The purge and the surroundings keep the invariant. *)

\* A purge walks its list: it reads the rows and the claims again before each kill.
LEMMA PurgeKeeps ==
    ASSUME IInv, PurgeStep, TypeOK'
    PROVE  IInv'
<1>1. UNCHANGED <<row, saved, claimed, ready, sickSince, claim, pass, tainted, late>>
  BY DEF PurgeStep, PurgeBegin, PurgeKill, PurgeKilled, PurgeEnd, registry, pool, history
<1>2. OnShelf' = OnShelf /\ Bound' = Bound
  BY <1>1, Frame
<1>3. ASSUME Known \subseteq Known' PROVE Sick'
  BY <1>1, <1>2, <1>3 DEF IInv, Sick
<1>4. ASSUME UNCHANGED <<vm, data>>, Bound \cap Doomed' \subseteq Doomed PROVE IInv'
  <2>1. Known' = Known /\ \A j : Exists(j)' <=> Exists(j)
    BY <1>4, Frame
  <2>2. \A j \in Bound : j \in claimed \/ pass'.ph = "idle" \/ j \in pass'.bound
    BY <1>1 DEF IInv, Rows
  <2>3. Shelved' /\ Claiming' /\ Rows' /\ Kept' /\ Clean'
    BY <1>1, <1>4, <2>1, <2>2, NoKillKeeps
  <2>. QED
    BY <1>3, <2>1, <2>3 DEF IInv
<1>5. purge \in PurgeState /\ None \notin Bound
  BY DEF IInv, TypeOK, Bound
<1>6. CASE PurgeBegin \/ PurgeEnd
  <2>1. UNCHANGED <<vm, data>> /\ purge'.target = None
    <3>. DEFINE l == {i \in Id : Exists(i)} \ (Bound \cup claimed)
    <3>1. /\ UNCHANGED <<vm, data>>
          /\ purge' = [NoPurge EXCEPT !.ph = "walk", !.list = l] \/ purge' = NoPurge
      BY <1>6 DEF PurgeBegin, PurgeEnd, daemon
    <3>. HIDE DEF l
    <3>2. [NoPurge EXCEPT !.ph = "walk", !.list = l].target = None /\ NoPurge.target = None
      BY DEF NoPurge
    <3>. QED
      BY <3>1, <3>2
  <2>. QED
    BY <1>1, <1>4, <1>5, <2>1 DEF Doomed
<1>7. CASE PurgeKill
  <2>1. UNCHANGED <<vm, data>>
    BY <1>7 DEF PurgeKill, daemon
  <2>2. purge'.target \notin Bound
    BY <1>5, <1>7 DEF PurgeKill, PurgeState
  <2>. QED
    BY <1>1, <1>4, <2>1, <2>2 DEF Doomed
<1>8. CASE PurgeKilled
  <2>1. purge'.target = None
    BY <1>5, <1>8 DEF PurgeKilled, PurgeState
  <2>2. Doomed' \subseteq Doomed \cup {None}
    BY <1>1, <2>1 DEF Doomed
  <2>3. CASE /\ vm' = [vm EXCEPT ![purge.target] = "gone"]
             /\ data' = [data EXCEPT ![purge.target] = {}]
    <3>1. PICK i \in Doomed \cap Id : i = purge.target
      BY <1>5, <1>8 DEF Doomed, PurgeState, PurgeKilled
    <3>2. vm' = [vm EXCEPT ![i] = "gone"] /\ data' = [data EXCEPT ![i] = {}]
      BY <2>3, <3>1
    <3>3. Shelved' /\ Claiming' /\ Rows' /\ Kept' /\ Clean' /\ Known \subseteq Known'
      BY <1>1, <2>2, <3>2, KillKeeps
    <3>. QED
      BY <1>3, <3>3 DEF IInv
  <2>4. CASE UNCHANGED daemon
    BY <1>4, <1>5, <2>2, <2>4 DEF daemon
  <2>. QED
    BY <1>8, <2>3, <2>4 DEF PurgeKilled
<1>. QED
  BY <1>6, <1>7, <1>8 DEF PurgeStep

\* A VM fails, or the file catches up with the rows.
LEMMA AroundKeeps ==
    ASSUME IInv, (\E i \in Id : VmFails(i)) \/ Persist, TypeOK'
    PROVE  IInv'
<1>1. ASSUME NEW i \in Id, VmFails(i) PROVE IInv'
  <2>1. UNCHANGED <<data, row, saved, claimed, ready, sickSince, claim, pass, purge, tainted, late>>
    BY <1>1 DEF VmFails, registry, pool, history
  <2>2. /\ OnShelf' = OnShelf /\ Bound' = Bound /\ Doomed' = Doomed
    BY <2>1, Frame
  <2>3. /\ \A j \in Id \ {i} : vm'[j] = vm[j]
        /\ vm[i] \in {"running", "sick"} /\ vm'[i] \in {"sick", "stopped"}
    BY <1>1 DEF VmFails, Up, IInv, TypeOK
  <2>4. /\ Known' = Known /\ \A j \in Known : Exists(j)' <=> Exists(j)
        /\ \A j \in Id : vm[j] = "gone" => vm'[j] = "gone"
    BY <2>3 DEF Known, Exists, Up
  <2>5. Sick'
    BY <2>1, <2>2, <2>4 DEF IInv, Sick
  <2>6. \A j \in Bound : j \in claimed \/ pass'.ph = "idle" \/ j \in pass'.bound
    BY <2>1 DEF IInv, Rows
  <2>. QED
    BY <2>1, <2>2, <2>4, <2>5, <2>6, NoKillKeeps DEF IInv
<1>2. CASE Persist
  <2>1. /\ UNCHANGED <<vm, data, row, claimed, ready, sickSince, claim, pass, purge, tainted, late>>
        /\ saved' = row
    BY <1>2 DEF Persist, daemon, pool, history
  <2>2. /\ OnShelf' = OnShelf /\ Bound' = Bound /\ Known' = Known /\ Doomed' = Doomed
        /\ \A j : Exists(j)' <=> Exists(j)
    BY <2>1, Frame
  <2>. QED
    BY <2>1, <2>2 DEF IInv, Shelved, Claiming, Rows, Sick, Kept, Clean
<1>. QED
  BY <1>1, <1>2

\* The pooler restarts: the rows of the file lead to sandboxes that are kept, or that a
\* late kill had taken; a sandbox with a database that no row names is tainted.
LEMMA CrashKeeps ==
    ASSUME IInv, Crash, TypeOK'
    PROVE  IInv'
<1>1. /\ row' = saved /\ UNCHANGED <<vm, data, saved, late>>
      /\ claimed' = {} /\ ready' = <<>> /\ sickSince' = {}
      /\ pass' = NoPass /\ purge' = NoPurge
      /\ tainted' = {i \in Id : \E s \in data[i] : saved[s] # i}
      /\ \A s \in Schema : claim'[s].ph = "idle" /\ claim'[s].id = None
  BY DEF Crash, NoClaim, daemon
<1>2. Known' = Known /\ \A j : Exists(j)' <=> Exists(j)
  BY <1>1, Frame
<1>3. /\ pass'.ph = "idle" /\ pass'.healthy = {} /\ pass'.todo = {} /\ pass'.down = {}
      /\ Doomed' = {None}
  BY <1>1 DEF NoPass, NoPurge, Doomed
<1>4. OnShelf' = {} /\ Bound' = {saved[s] : s \in Schema} \ {None}
  BY <1>1 DEF OnShelf, Bound
<1>5. ASSUME NEW s \in Schema, saved[s] # None
      PROVE  /\ saved[s] \in Known
             /\ saved[s] \notin late => s \in data[saved[s]] /\ Exists(saved[s])
  <2>1. saved[s] \in Id
    BY <1>5, ClaimIds
  <2>2. CASE saved[s] = row[s]
    BY <1>5, <2>1, <2>2, ClaimIds DEF IInv, Rows, Kept
  <2>3. CASE saved[s] \in late /\ vm[saved[s]] = "gone"
    BY <2>1, <2>3 DEF Known
  <2>. QED
    BY <1>5, <2>2, <2>3 DEF IInv, Rows
<1>6. Shelved'
  BY <1>1, <1>4 DEF Shelved
<1>7. Claiming'
  BY <1>1 DEF Claiming
<1>8. Rows'
  BY <1>1, <1>2, <1>3, <1>4, <1>5 DEF IInv, Rows
<1>9. Sick'
  BY <1>1, <1>3, <1>4 DEF Sick
<1>10. Kept'
  BY <1>1, <1>2, <1>3, <1>5 DEF Kept
<1>11. Clean'
  <2>1. \A i \in Id : data[i] \subseteq Schema
    BY DEF IInv, TypeOK
  <2>2. \A i \in Id \ tainted' : \A s \in data[i] : saved[s] = i
    BY <1>1
  <2>3. \A i \in Id \ tainted' : \A s, t \in data[i] : s = t
    BY <2>1, <2>2, SparesAssumption DEF IInv, Rows
  <2>4. \A i \in Id \ tainted' : data[i] # {} => i \in Bound'
    BY <1>4, <2>1, <2>2, SparesAssumption
  <2>. QED
    BY <1>1, <1>2, <1>4, <2>3, <2>4, SparesAssumption DEF IInv, Clean
<1>. QED
  BY <1>6, <1>7, <1>8, <1>9, <1>10, <1>11 DEF IInv

-----------------------------------------------------------------------------
(* The theorems. *)

\* The inductive invariant: no step of a bring-up, of the replenisher, of a purge or of
\* the surroundings breaks it.
THEOREM Invariant == Spec => []IInv
<1>1. Init => IInv
  <2>. SUFFICES ASSUME Init PROVE IInv
    OBVIOUS
  <2>1. TypeOK
    BY TypeInit
  <2>2. /\ OnShelf = {} /\ Bound = {} /\ \A i \in Id : ~Exists(i)
    BY DEF Init, OnShelf, Bound, Exists, Up
  <2>3. /\ \A s \in Schema : claim[s].ph = "idle" /\ claim[s].id = None
        /\ \A s \in Schema : row[s] = None /\ saved[s] = None
        /\ \A i \in Id : data[i] = {}
    BY DEF Init, NoClaim
  <2>4. /\ pass.ph = "idle" /\ pass.healthy = {} /\ pass.todo = {} /\ pass.down = {}
        /\ sickSince = {} /\ ready = <<>>
    BY DEF Init, NoPass
  <2>5. Shelved /\ Claiming
    BY <2>2, <2>3, <2>4 DEF Shelved, Claiming
  <2>6. Rows /\ Sick /\ Kept
    BY <2>2, <2>3, <2>4 DEF Rows, Sick, Kept
  <2>7. Clean
    BY <2>2, <2>3, SparesAssumption DEF Clean
  <2>. QED
    BY <2>1, <2>5, <2>6, <2>7 DEF IInv
<1>2. IInv /\ [Next]_vars => IInv'
  <2>. SUFFICES ASSUME IInv, [Next]_vars PROVE IInv'
    OBVIOUS
  <2>0. TypeOK /\ Shelved /\ Claiming
    BY DEF IInv
  <2>1. ASSUME NEW s \in Schema, ClaimStep(s) PROVE IInv'
    <3>1. TypeOK'
      BY <2>0, <2>1, ClaimKeepsTypes
    <3>. QED
      BY <2>1, <3>1, BringUpKeeps, TakeKeeps, ConfirmKeeps, BindKeeps, ReleaseKeeps DEF ClaimStep
  <2>2. CASE PassStep
    <3>1. TypeOK'
      BY <2>0, <2>2, PassKeepsTypes
    <3>. QED
      BY <2>2, <3>1, PlanKeeps, ProbeKeeps, SendKeeps, KilledKeeps, BuildKeeps, PublishKeeps
         DEF PassStep
  <2>3. CASE PurgeStep
    BY <2>0, <2>3, OtherKeepsTypes, PurgeKeeps
  <2>4. CASE (\E i \in Id : VmFails(i)) \/ Persist
    BY <2>0, <2>4, OtherKeepsTypes, AroundKeeps
  <2>5. CASE Crash
    BY <2>0, <2>5, OtherKeepsTypes, CrashKeeps
  <2>6. CASE UNCHANGED vars
    <3>1. TypeOK'
      BY <2>0, <2>6, OtherKeepsTypes
    <3>2. UNCHANGED <<vm, data, row, saved, claimed, ready, sickSince, claim, pass, purge, tainted, late>>
      BY <2>6 DEF vars, daemon, registry, pool, history
    <3>3. /\ OnShelf' = OnShelf /\ Bound' = Bound /\ Known' = Known /\ Doomed' = Doomed
          /\ \A j : Exists(j)' <=> Exists(j)
      BY <3>2, Frame
    <3>. QED
      BY <3>1, <3>2, <3>3 DEF IInv, Shelved, Claiming, Rows, Sick, Kept, Clean
  <2>. QED
    BY <2>1, <2>2, <2>3, <2>4, <2>5, <2>6 DEF Next
<1>. QED
  BY <1>1, <1>2, PTL DEF Spec

\* Every state the pool reaches is well-typed.
THEOREM TypeCorrect == Spec => []TypeOK
<1>1. IInv => TypeOK
  BY DEF IInv
<1>. QED
  BY <1>1, Invariant, PTL

\* Nothing on the shelf is claimed, and no two bring-ups hold one spare (take, publish),
\* for any number of bring-ups that race a pass.
THEOREM ShelfIsFree == Spec => []ShelfFree
<1>1. IInv => ShelfFree
  BY DEF IInv, Shelved, Claiming, OnShelf, ShelfFree
<1>. QED
  BY <1>1, Invariant, PTL

\* A spare that has somebody's database is handed to nobody else (take,
\* release_failed), for any number of schemas, passes, purges and restarts.
THEOREM OwnedOnce == Spec => []OneOwner
<1>1. IInv => OneOwner
  <2>. SUFFICES ASSUME IInv, NEW i \in Id, i \notin tainted PROVE Cardinality(data[i]) <= 1
    BY DEF OneOwner
  <2>1. \A s, t \in data[i] : s = t
    BY DEF IInv, Clean
  <2>2. CASE data[i] = {}
    BY <2>2, FS_EmptySet
  <2>3. ASSUME NEW s \in data[i] PROVE Cardinality(data[i]) <= 1
    <3>1. data[i] = {s}
      BY <2>1, <2>3
    <3>. QED
      BY <3>1, FS_Singleton
  <2>. QED
    BY <2>2, <2>3
<1>. QED
  BY <1>1, Invariant, PTL

\* However old its listing, no pass and no purge deletes the sandbox of a row (replenish,
\* purge_pass), save one bound after its kill had been decided.
THEOREM BoundIsKept == Spec => []BoundSurvives
<1>1. IInv => BoundSurvives
  BY DEF IInv, Kept, BoundSurvives
<1>. QED
  BY <1>1, Invariant, PTL

=============================================================================
