---------------------------- MODULE FleetProofs ----------------------------
(***************************************************************************)
(* What TLAPS proves about the VMs of one schema (Fleet), for any number   *)
(* of sandboxes, bring-ups and faults, and however many passes are under   *)
(* way at once.                                                            *)
(*                                                                         *)
(* The properties say what no pass has done.  What is inductive is what no *)
(* pass is still going to do: Phases ties the bring-up, its cell, the      *)
(* offload job and the row together; Named says why no janitor clears the  *)
(* entry of a VM in flight, Served why nothing has the VM of a session as  *)
(* its target, Kept why no kill and no sweep is left that takes a live     *)
(* row's VM or disk, and Filed why a restart on an older row finds them.   *)
(***************************************************************************)
EXTENDS Fleet, TLAPS

InFlight == {"ledger", "boot", "load"}
Serving == {"bound", "serve"}

\* The bring-up's cell stays in the map while it works, it and an offload job exclude
\* each other, and the ids in use are ids the daemon has handed out.
Phases ==
    /\ bu.ph \in {"idle", "resolve"} => bu.id = None /\ ~bu.created /\ ~bu.named
    /\ bu.ph \in InFlight \cup Serving => bu.id \in Id /\ record[bu.id] # "none"
    /\ bu.ph \in {"resolve", "ledger", "boot", "load", "bound"} => cell = "empty"
    /\ bu.ph = "serve" => cell = "full" /\ ledger = None
    /\ bu.ph # "idle" => off = "idle"
    /\ off = "flip" => row.tier = "live"
    /\ off = "kill" => row.tier = "offloaded"
    /\ row.tier = "none" <=> row.id = None
    /\ row.id # None => record[row.id] # "none"
    /\ janitor.ph = "idle" <=> janitor.id = None
    /\ \A i \in Id : Exists(i) => i \in dir

\* A VM in flight is not a row's, and while it is in the ledger no janitor is at work:
\* the empty cell keeps it from starting.
Named ==
    bu.created /\ bu.ph \in InFlight =>
        /\ row.id # bu.id /\ filed.id # bu.id
        /\ bu.raced \/ /\ ledger = bu.id /\ janitor.ph = "idle"
                       /\ bu.named => saved = bu.id

\* The VM of a session is the row's and nobody's target.
Served ==
    bu.ph \in Serving =>
        /\ row.id = bu.id /\ row.tier = "live"
        /\ bu.raced \/ (bu.id \notin Targets /\ record[bu.id] \in {"running", "lost"})

\* A live row's VM and disk are there, no decided kill is left that takes them, and a
\* sweep under way knows the row or will find its VM in the daemon.
Kept ==
    /\ row.tier = "live" /\ row.id \notin late \cup ahead =>
           record[row.id] # "gone" /\ row.id # janitor.id /\ row.id # purge
    /\ row.tier = "live" /\ row.id \notin late \cup ahead \cup mislaid =>
           row.id \in dir /\ (sweep.ph # "idle" => sweep.live = row.id \/ Exists(row.id))
    /\ sweep.live \notin sweep.deletable

\* The row a restart would read: its VM and disk are there as well.
Filed ==
    /\ filed.tier = "none" <=> filed.id = None
    /\ filed.id # None => record[filed.id] # "none"
    /\ filed.tier = "live" /\ filed.id \notin late \cup ahead => record[filed.id] # "gone"
    /\ filed.tier = "live" /\ filed.id \notin late \cup ahead \cup mislaid => filed.id \in dir

IInv == TypeOK /\ Phases /\ Named /\ Served /\ Kept /\ Filed

-----------------------------------------------------------------------------
(* What the daemon does. *)

\* A delete touches one sandbox; its record is gone or was lost before.
LEMMA KillEffect ==
    ASSUME TypeOK, NEW i \in Id, Kill(i)
    PROVE  /\ record' \in [Id -> VmRecord] /\ proc' \subseteq Id /\ dir' \subseteq Id
           /\ \A j \in Id \ {i} : record'[j] = record[j] /\ (j \in dir' <=> j \in dir)
           /\ record'[i] = IF record[i] = "lost" THEN "lost" ELSE "gone"
BY DEF Kill, TypeOK, VmRecord

\* A start touches one sandbox.
LEMMA RunEffect ==
    ASSUME TypeOK, NEW i \in Id, Run(i)
    PROVE  /\ record' \in [Id -> VmRecord] /\ proc' \subseteq Id /\ dir' \subseteq Id
           /\ \A j \in Id \ {i} : record'[j] = record[j]
           /\ record'[i] = "running" /\ dir' = dir \cup {i}
BY DEF Run, TypeOK, VmRecord

\* A stop of some sandboxes leaves the others, and every directory, alone.
LEMMA StopEffect ==
    ASSUME TypeOK, NEW ids,
           record' = [i \in Id |-> IF i \in ids /\ record[i] = "running" THEN "stopped"
                                                                       ELSE record[i]],
           proc' = proc \ {i \in ids : record[i] = "running"}, UNCHANGED dir
    PROVE  /\ record' \in [Id -> VmRecord] /\ proc' \subseteq Id /\ dir' \subseteq Id
           /\ \A j \in Id : j \notin ids => record'[j] = record[j]
           /\ \A j \in Id : record'[j] = record[j] \/ (record[j] = "running" /\ record'[j] = "stopped")
<1>1. record' \in [Id -> VmRecord]
  BY DEF TypeOK, VmRecord
<1>. QED
  BY <1>1 DEF TypeOK

\* Nothing a bring-up, an offload or a pass does to the daemon leaves the types, unmakes a
\* sandbox or takes the directory of one that exists.
DaemonTypes ==
    /\ record' \in [Id -> VmRecord] /\ proc' \subseteq Id /\ dir' \subseteq Id
    /\ \A j \in Id : record[j] # "none" => record'[j] # "none"
    /\ \A j \in Id : record'[j] \in {"running", "stopped"} => j \in dir'

LEMMA DaemonKeeps ==
    ASSUME TypeOK, Phases,
           \/ \E i \in Id : Kill(i) \/ Run(i)
           \/ \E ids : Stop(ids)
           \/ UNCHANGED daemon
    PROVE  DaemonTypes
<1>0. \A j \in Id : record[j] \in {"running", "stopped"} => j \in dir
  BY DEF Phases, Exists
<1>1. ASSUME NEW i \in Id, Kill(i) PROVE DaemonTypes
  <2>1. /\ record' \in [Id -> VmRecord] /\ proc' \subseteq Id /\ dir' \subseteq Id
        /\ \A j \in Id \ {i} : record'[j] = record[j] /\ (j \in dir' <=> j \in dir)
        /\ record'[i] = IF record[i] = "lost" THEN "lost" ELSE "gone"
    BY <1>1, KillEffect
  <2>. QED
    BY <1>0, <2>1 DEF DaemonTypes
<1>2. ASSUME NEW i \in Id, Run(i) PROVE DaemonTypes
  <2>1. /\ record' \in [Id -> VmRecord] /\ proc' \subseteq Id /\ dir' \subseteq Id
        /\ \A j \in Id \ {i} : record'[j] = record[j]
        /\ record'[i] = "running" /\ dir' = dir \cup {i}
    BY <1>2, RunEffect
  <2>. QED
    BY <1>0, <2>1 DEF DaemonTypes
<1>3. ASSUME NEW ids, Stop(ids) PROVE DaemonTypes
  <2>1. /\ record' \in [Id -> VmRecord] /\ proc' \subseteq Id /\ dir' \subseteq Id
        /\ \A j \in Id : record'[j] = record[j] \/ (record[j] = "running" /\ record'[j] = "stopped")
    BY <1>3, StopEffect DEF Stop
  <2>2. dir' = dir
    BY <1>3 DEF Stop
  <2>. QED
    BY <1>0, <2>1, <2>2 DEF DaemonTypes
<1>4. CASE UNCHANGED daemon
  BY <1>0, <1>4 DEF DaemonTypes, daemon, TypeOK
<1>. QED
  BY <1>1, <1>2, <1>3, <1>4

\* The fields of the records, and the states they begin and end in.
LEMMA Fields ==
    ASSUME TypeOK
    PROVE  /\ bu.ph \in {"idle", "resolve", "ledger", "boot", "load", "bound", "serve"}
           /\ bu.id \in OrNone /\ bu.created \in BOOLEAN /\ bu.named \in BOOLEAN /\ bu.raced \in BOOLEAN
           /\ row.id \in OrNone /\ row.tier \in {"none", "live", "offloaded"}
           /\ filed.id \in OrNone /\ filed.tier \in {"none", "live", "offloaded"}
           /\ janitor.id \in OrNone /\ reaper.target \in OrNone
           /\ NoBu \in BuState /\ NoReaper \in ReaperState /\ NoSweep \in SweepState
           /\ [ph |-> "idle", id |-> None] \in JanitorState
<1>1. /\ bu.ph \in {"idle", "resolve", "ledger", "boot", "load", "bound", "serve"} /\ bu.id \in OrNone
      /\ row.id \in OrNone /\ row.tier \in {"none", "live", "offloaded"}
      /\ filed.id \in OrNone /\ filed.tier \in {"none", "live", "offloaded"}
      /\ janitor.id \in OrNone /\ reaper.target \in OrNone
  BY DEF TypeOK, BuState, RowState, JanitorState, ReaperState
<1>2. bu.created \in BOOLEAN /\ bu.named \in BOOLEAN /\ bu.raced \in BOOLEAN
  BY DEF TypeOK, BuState
<1>3. NoBu \in BuState
  BY DEF NoBu, BuState, OrNone
<1>4. NoReaper \in ReaperState /\ NoSweep \in SweepState /\ [ph |-> "idle", id |-> None] \in JanitorState
  BY DEF NoReaper, ReaperState, NoSweep, SweepState, JanitorState, OrNone
<1>. QED
  BY <1>1, <1>2, <1>3, <1>4

\* A step that neither deletes the VM of a row nor moves a row, a pass or the history.
LEMMA RowsKeep ==
    ASSUME IInv, DaemonTypes, UNCHANGED <<row, filed, sweep, purge, late, ahead, mislaid>>,
           janitor'.id = janitor.id,
           \A j \in Id : j \in {row.id, filed.id} =>
               /\ record'[j] = "gone" => record[j] = "gone"
               /\ j \in dir => j \in dir'
               /\ Exists(j) => record'[j] \in {"running", "stopped"}
    PROVE  Kept' /\ Filed'
<1>0. TypeOK /\ Phases
  BY DEF IInv
<1>1. /\ row.tier = "live" => row.id \in Id
      /\ filed.tier = "live" => filed.id \in Id
      /\ filed.id # None => filed.id \in Id
  BY <1>0, Fields DEF IInv, Phases, Filed, OrNone
<1>2. Kept'
  BY <1>1 DEF IInv, Kept, Exists
<1>3. Filed'
  BY <1>1 DEF IInv, Filed, DaemonTypes
<1>. QED
  BY <1>2, <1>3

-----------------------------------------------------------------------------
(* The bring-up keeps the invariant. *)

\* checkout, the ledger's write, and the wait for a VM that was created.
LEMMA CheckoutKeeps ==
    ASSUME IInv, Checkout \/ Ledgered \/ Ready
    PROVE  IInv'
<1>0. TypeOK /\ bu \in BuState /\ faults \in Nat
  BY DEF IInv, TypeOK
<1>1. UNCHANGED <<record, proc, dir, row, filed, ledger, old, off, janitor, reaper, purge, sweep,
                  late, ahead, mislaid>>
  BY DEF Checkout, Ledgered, Ready, daemon, rows, history, pending, passes, bounds
<1>a. Kept' /\ Filed'
  BY <1>1 DEF IInv, Kept, Filed, Exists
<1>2. CASE Checkout
  <2>1. /\ bu.ph = "idle" /\ off = "idle" /\ cell' = "empty" /\ starts' = starts + 1
        /\ bu' = [NoBu EXCEPT !.ph = "resolve"] /\ UNCHANGED <<saved, faults>>
    BY <1>2 DEF Checkout, pending
  <2>2. /\ bu'.ph = "resolve" /\ bu'.id = None /\ ~bu'.created /\ ~bu'.named
    BY <2>1 DEF NoBu
  <2>3. bu' \in BuState
    BY <1>0, <2>1, Fields DEF BuState
  <2>4. TypeOK'
    BY <1>0, <1>1, <2>1, <2>3 DEF TypeOK
  <2>5. Phases'
    BY <1>1, <2>1, <2>2 DEF IInv, Phases, Exists, InFlight, Serving
  <2>. QED
    BY <1>1, <1>a, <2>2, <2>4, <2>5 DEF IInv, Named, Served, InFlight, Serving
<1>b. CASE Ledgered
  <2>1. /\ bu.ph = "ledger" /\ UNCHANGED <<cell, starts>> /\ faults' \in Nat
        /\ \/ bu' = [bu EXCEPT !.ph = "boot", !.named = TRUE] /\ saved' = ledger
           \/ bu' = [bu EXCEPT !.ph = "boot"] /\ UNCHANGED saved
    BY <1>0, <1>b DEF Ledgered, Fault
  <2>2. /\ bu'.ph = "boot" /\ bu'.id = bu.id /\ bu'.created = bu.created /\ bu'.raced = bu.raced
        /\ bu' \in BuState /\ saved' \in OrNone
    <3>1. CASE bu' = [bu EXCEPT !.ph = "boot", !.named = TRUE] /\ saved' = ledger
      BY <1>0, <3>1 DEF BuState, TypeOK
    <3>2. CASE bu' = [bu EXCEPT !.ph = "boot"] /\ UNCHANGED saved
      BY <1>0, <3>2 DEF BuState, TypeOK
    <3>. QED
      BY <2>1, <3>1, <3>2
  <2>3. saved' = ledger \/ (saved' = saved /\ bu'.named = bu.named)
    BY <1>0, <2>1 DEF BuState
  <2>4. TypeOK'
    BY <1>0, <1>1, <2>1, <2>2 DEF TypeOK
  <2>5. Phases'
    BY <1>1, <2>1, <2>2 DEF IInv, Phases, Exists, InFlight, Serving
  <2>6. Named'
    BY <1>1, <2>1, <2>2, <2>3 DEF IInv, Named, InFlight
  <2>. QED
    BY <1>1, <1>a, <2>1, <2>2, <2>4, <2>5, <2>6 DEF IInv, Served, InFlight, Serving
<1>3. CASE Ready
  <2>1. /\ bu.ph = "boot" /\ bu' = [bu EXCEPT !.ph = "load"] /\ UNCHANGED <<cell, starts, saved, faults>>
    BY <1>3 DEF Ready, bounds, pending
  <2>2. /\ bu'.ph = "load" /\ bu'.id = bu.id /\ bu'.created = bu.created /\ bu'.raced = bu.raced
        /\ bu'.named = bu.named /\ bu' \in BuState
    BY <1>0, <2>1 DEF BuState
  <2>3. TypeOK'
    BY <1>0, <1>1, <2>1, <2>2 DEF TypeOK
  <2>4. Phases'
    BY <1>1, <2>1, <2>2 DEF IInv, Phases, Exists, InFlight, Serving
  <2>. QED
    BY <1>1, <1>a, <2>1, <2>2, <2>3, <2>4 DEF IInv, Named, Served, InFlight, Serving
<1>. QED
  BY <1>2, <1>b, <1>3

\* A bring-up finds a VM of the schema's name, or creates one.
LEMMA ResolveKeeps ==
    ASSUME IInv, NEW i \in Id, Reattach(i) \/ Create(i)
    PROVE  IInv'
<1>0. TypeOK /\ Phases /\ bu \in BuState /\ faults \in Nat
  BY DEF IInv, TypeOK
<1>1. /\ UNCHANGED <<row, filed, cell, saved, off, janitor, reaper, purge, sweep, starts, late, ahead, mislaid>>
      /\ Run(i) /\ bu.ph = "resolve" /\ faults' \in Nat
  BY <1>0 DEF Reattach, Create, rows, history, pending, passes, bounds, Fault
<1>2. /\ record' \in [Id -> VmRecord] /\ proc' \subseteq Id /\ dir' \subseteq Id
      /\ \A j \in Id \ {i} : record'[j] = record[j]
      /\ record'[i] = "running" /\ dir' = dir \cup {i}
  BY <1>0, <1>1, RunEffect
<1>3. DaemonTypes
  BY <1>0, <1>1, DaemonKeeps
<1>4. ~bu.created /\ ~bu.named /\ cell = "empty" /\ off = "idle"
  BY <1>0, <1>1 DEF Phases
<1>5. Kept' /\ Filed'
  BY <1>0, <1>1, <1>2, <1>3, RowsKeep DEF Exists
<1>6. CASE Reattach(i)
  <2>. DEFINE r == i \in Targets
  <2>1. bu' = [bu EXCEPT !.ph = "load", !.id = i, !.raced = r] /\ UNCHANGED <<ledger, old>>
    BY <1>6 DEF Reattach, rows, history, pending
  <2>2. r \in BOOLEAN
    OBVIOUS
  <2>. HIDE DEF r
  <2>3. bu'.ph = "load" /\ bu'.id = i /\ bu'.created = bu.created
    BY <1>0, <2>1 DEF BuState
  <2>4. bu' \in BuState
    BY <1>0, <2>1, <2>2 DEF BuState, OrNone
  <2>5. TypeOK'
    BY <1>0, <1>1, <1>2, <2>1, <2>4 DEF TypeOK
  <2>6. Phases'
    BY <1>0, <1>1, <1>2, <1>3, <1>4, <2>1, <2>3, Fields
       DEF Phases, Exists, InFlight, Serving, DaemonTypes, OrNone
  <2>. QED
    BY <1>4, <1>5, <2>3, <2>5, <2>6 DEF IInv, Named, Served, Serving
<1>7. CASE Create(i)
  <2>. DEFINE r == janitor.ph # "idle"
  <2>1. /\ bu' = [bu EXCEPT !.ph = "ledger", !.id = i, !.created = TRUE, !.raced = r]
        /\ ledger' = i /\ old' = FALSE /\ record[i] = "none"
    BY <1>7 DEF Create, Record
  <2>2. r \in BOOLEAN
    OBVIOUS
  <2>. HIDE DEF r
  <2>3. bu'.ph = "ledger" /\ bu'.id = i /\ bu'.raced = r /\ bu'.named = bu.named
    BY <1>0, <2>1 DEF BuState
  <2>4. bu' \in BuState
    BY <1>0, <2>1, <2>2 DEF BuState, OrNone
  <2>5. TypeOK'
    BY <1>0, <1>1, <1>2, <2>1, <2>4, FleetAssumption DEF TypeOK, OrNone
  <2>6. Phases'
    BY <1>0, <1>1, <1>2, <1>3, <1>4, <2>1, <2>3, Fields
       DEF Phases, Exists, InFlight, Serving, DaemonTypes, OrNone
  <2>7. row.id # i /\ filed.id # i
    BY <1>0, <2>1, FleetAssumption DEF IInv, Phases, Filed
  <2>8. Named'
    BY <1>1, <1>4, <2>1, <2>3, <2>7 DEF Named, r
  <2>. QED
    BY <1>5, <2>3, <2>5, <2>6, <2>8 DEF IInv, Served, Serving
<1>. QED
  BY <1>6, <1>7

\* A bring-up fails: it kills the VM it has created, which is not the row's yet, or stops
\* what it may have left running.
LEMMA FailsKeeps ==
    ASSUME IInv, Fails
    PROVE  IInv'
<1>0. TypeOK /\ Phases /\ faults \in Nat
  BY DEF IInv, TypeOK
<1>1. /\ UNCHANGED <<row, filed, cell, saved, off, janitor, reaper, purge, sweep, starts, late, ahead, mislaid>>
      /\ bu.ph \in {"resolve", "boot", "load"} /\ bu' = NoBu
  BY DEF Fails, passes, rows, history
<1>2. bu'.ph = "idle" /\ bu'.id = None /\ ~bu'.created /\ ~bu'.named
  BY <1>1 DEF NoBu
<1>3. /\ faults' \in Nat
      /\ (ledger' = None /\ old' = FALSE) \/ UNCHANGED <<ledger, old>>
  <2>1. faults' = faults \/ faults' = faults + 1
    BY DEF Fails, Fault
  <2>2. (ledger' = None /\ old' = FALSE) \/ UNCHANGED <<ledger, old>>
    BY DEF Fails, Clear
  <2>. QED
    BY <1>0, <2>1, <2>2
<1>4. /\ DaemonTypes
      /\ \A j \in Id : j \in {row.id, filed.id} =>
             /\ record'[j] = record[j] \/ record'[j] = "stopped"
             /\ j \in dir => j \in dir'
  <2>1. CASE bu.created /\ Kill(bu.id)
    <3>1. bu.ph \in InFlight
      BY <1>0, <1>1, <2>1 DEF Phases, InFlight
    <3>2. PICK i \in Id : i = bu.id /\ i # row.id /\ i # filed.id
      BY <2>1, <3>1 DEF IInv, Phases, Named
    <3>3. Kill(i)
      BY <2>1, <3>2 DEF Kill
    <3>4. DaemonTypes
      BY <1>0, <3>3, DaemonKeeps
    <3>5. \A j \in Id \ {i} : record'[j] = record[j] /\ (j \in dir' <=> j \in dir)
      BY <1>0, <3>3, KillEffect
    <3>. QED
      BY <3>2, <3>4, <3>5
  <2>2. CASE StopLeaked
    <3>1. PICK ids : Stop(ids)
      BY <2>2 DEF StopLeaked, Stop
    <3>2. DaemonTypes
      BY <1>0, <3>1, DaemonKeeps
    <3>3. dir' = dir /\ \A j \in Id : record'[j] = record[j] \/ record'[j] = "stopped"
      BY <1>0, <3>1, StopEffect DEF Stop
    <3>. QED
      BY <3>2, <3>3
  <2>. QED
    BY <2>1, <2>2 DEF Fails
<1>5. TypeOK'
  <2>1. ledger' \in OrNone /\ old' \in BOOLEAN /\ (old' => ledger' # None)
    <3>1. CASE ledger' = None /\ old' = FALSE
      BY <3>1 DEF OrNone
    <3>2. CASE UNCHANGED <<ledger, old>>
      BY <1>0, <3>2 DEF TypeOK
    <3>. QED
      BY <1>3, <3>1, <3>2
  <2>. QED
    BY <1>0, <1>1, <1>3, <1>4, <2>1, Fields DEF TypeOK, DaemonTypes
<1>6. Phases'
  BY <1>0, <1>1, <1>2, <1>3, <1>4, Fields DEF Phases, Exists, InFlight, Serving, DaemonTypes, OrNone
<1>7. Kept' /\ Filed'
  BY <1>1, <1>4, RowsKeep DEF Exists
<1>. QED
  BY <1>2, <1>5, <1>6, <1>7 DEF IInv, Named, Served, InFlight, Serving

\* The row is put.  A pass that has already decided counts as late.
LEMMA BindKeeps ==
    ASSUME IInv, Bind
    PROVE  IInv'
<1>0. TypeOK /\ Phases /\ bu \in BuState /\ off = "idle" /\ cell = "empty"
  BY DEF IInv, TypeOK, Phases, Bind
<1>1. UNCHANGED <<record, proc, dir, filed, cell, ledger, saved, old, off, janitor, reaper, purge,
                  sweep, starts, faults, ahead, mislaid>>
  BY DEF Bind, daemon, rows, history, pending, passes, bounds
<1>. DEFINE r == bu.raced \/ bu.id \in Targets
<1>2. /\ bu.ph = "load" /\ record[bu.id] = "running" /\ row' = [id |-> bu.id, tier |-> "live"]
      /\ late' = IF bu.id \in Doomed THEN late \cup {bu.id} ELSE late
      /\ bu' = [bu EXCEPT !.ph = "bound", !.raced = r]
  BY DEF Bind
<1>3. bu.id \in Id /\ bu.id # None
  BY <1>0, <1>2, FleetAssumption DEF Phases, InFlight
<1>4. r \in BOOLEAN
  BY <1>0, Fields
<1>5. ~r => bu.id \notin Targets
  OBVIOUS
<1>. HIDE DEF r
<1>6. bu'.ph = "bound" /\ bu'.id = bu.id /\ bu'.raced = r /\ row'.id = bu.id /\ row'.tier = "live"
  BY <1>0, <1>2 DEF BuState
<1>7. bu' \in BuState
  BY <1>0, <1>2, <1>4 DEF BuState
<1>8. row' \in RowState
  BY <1>2, <1>3 DEF RowState, OrNone
<1>9. late' \subseteq Id
  BY <1>0, <1>2, <1>3 DEF TypeOK
<1>10. TypeOK'
  BY <1>0, <1>1, <1>7, <1>8, <1>9 DEF TypeOK
<1>11. Phases'
  BY <1>0, <1>1, <1>2, <1>3, <1>6 DEF Phases, Exists, InFlight, Serving
<1>12. Targets' = Targets
  BY <1>1 DEF Targets
<1>13. Served'
  BY <1>1, <1>2, <1>5, <1>6, <1>12 DEF Served
<1>14. Kept'
  <2>1. bu.id \in dir
    BY <1>0, <1>2, <1>3 DEF Phases, Exists
  <2>2. bu.id \notin late' => bu.id \notin Doomed
    BY <1>2
  <2>3. bu.id \notin Doomed => bu.id # janitor.id /\ bu.id # purge
    BY <1>3 DEF Doomed
  <2>4. row'.id \in Id /\ record'[row'.id] = "running"
    BY <1>1, <1>2, <1>3, <1>6
  <2>5. row'.id \in dir' /\ (row'.id \notin late' => row'.id # janitor'.id /\ row'.id # purge')
    BY <1>1, <1>6, <2>1, <2>2, <2>3
  <2>6. (sweep.live \notin sweep.deletable)'
    BY <1>1 DEF IInv, Kept
  <2>. QED
    BY <2>4, <2>5, <2>6 DEF Kept, Exists
<1>15. Filed'
  BY <1>1, <1>2 DEF IInv, Filed
<1>. QED
  BY <1>6, <1>10, <1>11, <1>13, <1>14, <1>15 DEF IInv, Named, InFlight

\* The entry is settled and the cell published; the session ends.
LEMMA ServeKeeps ==
    ASSUME IInv, Settle \/ SessionEnds
    PROVE  IInv'
<1>0. TypeOK /\ Phases /\ bu \in BuState
  BY DEF IInv, TypeOK
<1>1. UNCHANGED <<row, filed, saved, off, janitor, reaper, purge, sweep, starts, faults, late, ahead, mislaid>>
  BY DEF Settle, SessionEnds, rows, history, pending, passes, bounds
<1>2. CASE Settle
  <2>1. /\ bu.ph = "bound" /\ ledger' = None /\ old' = FALSE /\ cell' = "full"
        /\ bu' = [bu EXCEPT !.ph = "serve"] /\ UNCHANGED <<record, proc, dir>>
    BY <1>2 DEF Settle, Clear, daemon
  <2>2. /\ bu'.ph = "serve" /\ bu'.id = bu.id /\ bu'.raced = bu.raced /\ bu' \in BuState
    BY <1>0, <2>1 DEF BuState
  <2>3. TypeOK'
    BY <1>0, <1>1, <2>1, <2>2 DEF TypeOK, OrNone
  <2>4. Phases'
    BY <1>0, <1>1, <2>1, <2>2 DEF Phases, Exists, InFlight, Serving
  <2>5. Targets' = Targets
    BY <1>1 DEF Targets
  <2>. QED
    BY <1>1, <2>1, <2>2, <2>3, <2>4, <2>5
       DEF IInv, Named, Served, Kept, Filed, InFlight, Serving, Exists
<1>3. CASE SessionEnds
  <2>1. /\ bu.ph = "serve" /\ cell' = "none" /\ bu' = NoBu /\ UNCHANGED <<ledger, old>>
    BY <1>3 DEF SessionEnds, rows, history, pending
  <2>2. bu'.ph = "idle" /\ bu'.id = None /\ ~bu'.created /\ ~bu'.named
    BY <2>1 DEF NoBu
  <2>3. DaemonTypes /\ dir' = dir /\ \A j \in Id : record'[j] = record[j] \/ record'[j] = "stopped"
    <3>1. CASE UNCHANGED daemon
      BY <1>0, <3>1, DaemonKeeps DEF daemon
    <3>2. CASE Stop({bu.id})
      <4>1. PICK ids : Stop(ids)
        BY <3>2 DEF Stop
      <4>. QED
        BY <1>0, <4>1, DaemonKeeps, StopEffect DEF Stop
    <3>. QED
      BY <1>3, <3>1, <3>2 DEF SessionEnds
  <2>4. TypeOK'
    BY <1>0, <1>1, <2>1, <2>3, Fields DEF TypeOK, DaemonTypes
  <2>5. Phases'
    BY <1>0, <1>1, <2>1, <2>2, <2>3, Fields DEF Phases, Exists, InFlight, Serving, DaemonTypes, OrNone
  <2>6. Kept' /\ Filed'
    BY <1>1, <2>3, RowsKeep DEF Exists
  <2>. QED
    BY <2>2, <2>4, <2>5, <2>6 DEF IInv, Named, Served, InFlight, Serving
<1>. QED
  BY <1>2, <1>3

-----------------------------------------------------------------------------
(* The offload job keeps the invariant. *)

\* The claim starts the recorded VM, the flip makes the row an offloaded one, and only
\* then the VM is deleted.
LEMMA OffloadKeeps ==
    ASSUME IInv, OffClaim \/ OffFlip \/ OffKill
    PROVE  IInv'
<1>0. TypeOK /\ Phases /\ row \in RowState /\ faults \in Nat
  BY DEF IInv, TypeOK
<1>1. UNCHANGED <<filed, ledger, saved, old, bu, janitor, reaper, purge, sweep, starts, late, mislaid>>
  BY DEF OffClaim, OffFlip, OffKill, rows, history, pending, passes, bounds
<1>2. bu.ph = "idle"
  BY <1>0 DEF Phases, OffClaim, OffFlip, OffKill
<1>3. CASE OffClaim
  <2>1. /\ row.tier = "live" /\ Exists(row.id) /\ Run(row.id) /\ cell' = "none" /\ off' = "flip"
        /\ UNCHANGED <<row, faults, ahead>>
    BY <1>3 DEF OffClaim, bounds, rows, history
  <2>2. PICK i \in Id : i = row.id
    BY <2>1 DEF Exists
  <2>3. Run(i)
    BY <2>1, <2>2 DEF Run
  <2>4. DaemonTypes
    BY <1>0, <2>3, DaemonKeeps
  <2>5. /\ record'[i] = "running" /\ dir' = dir \cup {i}
        /\ \A j \in Id \ {i} : record'[j] = record[j]
    BY <1>0, <2>3, RunEffect
  <2>6. TypeOK'
    BY <1>0, <1>1, <2>1, <2>4 DEF TypeOK, DaemonTypes
  <2>7. Phases'
    BY <1>0, <1>1, <1>2, <2>1, <2>2, <2>4 DEF Phases, Exists, InFlight, Serving, DaemonTypes
  <2>8. Kept' /\ Filed'
    BY <1>1, <2>1, <2>4, <2>5, RowsKeep DEF Exists
  <2>. QED
    BY <1>1, <1>2, <2>6, <2>7, <2>8 DEF IInv, Named, Served, InFlight, Serving
<1>4. CASE OffFlip
  <2>1. /\ off = "flip" /\ row' = [row EXCEPT !.tier = "offloaded"] /\ off' = "kill"
        /\ UNCHANGED <<record, proc, dir, cell, faults, ahead>>
    BY <1>4 DEF OffFlip, daemon, bounds, history
  <2>2. row'.id = row.id /\ row'.tier = "offloaded" /\ row' \in RowState
    BY <1>0, <2>1 DEF RowState
  <2>3. TypeOK'
    BY <1>0, <1>1, <2>1, <2>2 DEF TypeOK
  <2>4. Phases'
    BY <1>0, <1>1, <1>2, <2>1, <2>2 DEF Phases, Exists, InFlight, Serving
  <2>. QED
    BY <1>1, <1>2, <2>1, <2>2, <2>3, <2>4 DEF IInv, Named, Served, Kept, Filed, InFlight, Serving
<1>5. CASE OffKill
  <2>1. /\ off = "kill" /\ off' = "idle" /\ UNCHANGED <<row, cell>>
        /\ \/ filed = row /\ Kill(row.id) /\ ahead' = ahead
           \/ filed # row /\ Kill(row.id) /\ Deletes(row.id)
           \/ UNCHANGED daemon /\ ahead' = ahead
        /\ faults' \in Nat
    BY <1>0, <1>5 DEF OffKill, Fault, rows
  <2>2. row.tier = "offloaded" /\ row.id \in Id
    BY <1>0, <2>1, Fields DEF Phases, OrNone
  <2>3. DaemonTypes
    <3>1. Kill(row.id) => \E i \in Id : Kill(i)
      BY <2>2 DEF Kill
    <3>. QED
      BY <1>0, <2>1, <3>1, DaemonKeeps
  <2>4. ahead \subseteq ahead' /\ ahead' \subseteq Id
    BY <1>0, <2>1, <2>2 DEF Deletes, TypeOK
  <2>5. TypeOK'
    BY <1>0, <1>1, <2>1, <2>3, <2>4 DEF TypeOK, DaemonTypes
  <2>6. Phases'
    BY <1>0, <1>1, <1>2, <2>1, <2>2, <2>3 DEF Phases, Exists, InFlight, Serving, DaemonTypes
  <2>7. Filed'
    <3>1. CASE UNCHANGED daemon
      BY <1>1, <2>4, <3>1 DEF IInv, Filed, daemon
    <3>2. CASE Kill(row.id)
      <4>1. PICK i \in Id : i = row.id
        BY <2>2
      <4>2. \A j \in Id \ {i} : record'[j] = record[j] /\ (j \in dir' <=> j \in dir)
        BY <1>0, <3>2, <4>1, KillEffect
      <4>3. filed.tier = "live" /\ filed.id = i => i \in ahead' \/ UNCHANGED daemon
        BY <2>1, <2>2, <4>1 DEF Deletes, Outrun, Live
      <4>4. filed.id # None => filed.id \in Id
        BY <1>0, Fields DEF OrNone
      <4>. QED
        BY <1>1, <2>3, <2>4, <4>2, <4>3, <4>4 DEF IInv, Filed, DaemonTypes, daemon
    <3>. QED
      BY <2>1, <3>1, <3>2
  <2>. QED
    BY <1>1, <1>2, <2>1, <2>2, <2>5, <2>6, <2>7 DEF IInv, Named, Served, Kept, InFlight, Serving
<1>. QED
  BY <1>3, <1>4, <1>5

-----------------------------------------------------------------------------
(* The passes keep the invariant. *)

\* A kill that was decided takes neither a row's VM, the file's included unless the kill
\* is ahead of it, nor that of a session.
KillSafe ==
    /\ DaemonTypes
    /\ ahead \subseteq ahead' /\ ahead' \subseteq Id
    /\ \A j \in Id : Live(j) \/ (filed.tier = "live" /\ filed.id = j) =>
           \/ j \in late \cup ahead'
           \/ record'[j] = record[j] /\ (j \in dir' <=> j \in dir)
    /\ bu.ph \in Serving /\ ~bu.raced => record'[bu.id] \in {"running", "lost"}

LEMMA KillKeeps ==
    ASSUME IInv, \/ UNCHANGED <<daemon, ahead>>
                 \/ \E i \in Id : Kill(i) /\ Deletes(i) /\ i \in {janitor.id, purge}
    PROVE  KillSafe
<1>0. TypeOK /\ Phases
  BY DEF IInv
<1>1. CASE UNCHANGED <<daemon, ahead>>
  <2>1. DaemonTypes
    BY <1>0, <1>1, DaemonKeeps
  <2>. QED
    BY <1>0, <1>1, <2>1 DEF IInv, Served, KillSafe, daemon, TypeOK
<1>2. ASSUME NEW i \in Id, Kill(i), Deletes(i), i \in {janitor.id, purge}
      PROVE  KillSafe
  <2>1. DaemonTypes
    BY <1>0, <1>2, DaemonKeeps
  <2>2. \A j \in Id \ {i} : record'[j] = record[j] /\ (j \in dir' <=> j \in dir)
    BY <1>0, <1>2, KillEffect
  <2>3. ahead \subseteq ahead' /\ ahead' \subseteq Id
    BY <1>0, <1>2 DEF Deletes, TypeOK
  <2>4. Live(i) => i \in late \cup ahead
    BY <1>2 DEF IInv, Kept, Live
  <2>5. filed.tier = "live" /\ filed.id = i => i \in late \cup ahead'
    BY <1>2, <2>3, <2>4 DEF Deletes, Outrun
  <2>6. bu.ph \in Serving /\ ~bu.raced => bu.id # i /\ bu.id \in Id
    BY <1>0, <1>2 DEF IInv, Served, Phases, Targets
  <2>7. bu.ph \in Serving /\ ~bu.raced => record'[bu.id] \in {"running", "lost"}
    BY <2>2, <2>6 DEF IInv, Served
  <2>. QED
    BY <2>1, <2>2, <2>3, <2>4, <2>5, <2>7 DEF KillSafe
<1>. QED
  BY <1>1, <1>2

\* After such a kill the rows are still good.
LEMMA KillRows ==
    ASSUME IInv, KillSafe, UNCHANGED <<row, filed, sweep, late, mislaid>>,
           janitor'.id \in {janitor.id, None}, purge' \in {purge, None}
    PROVE  Kept' /\ Filed'
<1>0. TypeOK /\ Phases
  BY DEF IInv
<1>1. /\ row.tier = "live" => row.id \in Id /\ Live(row.id) /\ row.id # None
      /\ filed.id # None => filed.id \in Id
      /\ filed.tier = "live" => filed.id # None
  BY <1>0, Fields DEF IInv, Phases, Filed, Live, OrNone
<1>2. Kept'
  BY <1>1 DEF IInv, Kept, KillSafe, Exists
<1>3. Filed'
  BY <1>1 DEF IInv, Filed, KillSafe, DaemonTypes
<1>. QED
  BY <1>2, <1>3

\* The janitor settles or picks an entry, asks and kills, and clears.
LEMMA JanitorKeeps ==
    ASSUME IInv, Janitor
    PROVE  IInv'
<1>0. TypeOK /\ Phases /\ janitor \in JanitorState /\ faults \in Nat
  BY DEF IInv, TypeOK
<1>1. UNCHANGED <<row, filed, cell, saved, bu, off, reaper, purge, sweep, starts, late, mislaid>>
  BY DEF Janitor, JanitorCheck, JanitorAsk, JanitorKill, JanitorClear, rows, history, pending, bounds
<1>2. CASE JanitorCheck /\ row.id = ledger
  <2>1. /\ ledger' = None /\ old' = FALSE /\ UNCHANGED <<record, proc, dir, janitor, faults, ahead>>
    BY <1>2 DEF JanitorCheck, Clear, daemon, bounds, history
  <2>2. TypeOK'
    BY <1>0, <1>1, <2>1 DEF TypeOK, OrNone
  <2>3. Phases'
    BY <1>0, <1>1, <2>1 DEF Phases, Exists
  <2>4. Named'
    BY <1>1, <1>2, <2>1 DEF IInv, Named
  <2>. QED
    BY <1>1, <2>1, <2>2, <2>3, <2>4 DEF IInv, Served, Kept, Filed, Exists, Targets
<1>3. CASE JanitorCheck /\ row.id # ledger
  <2>1. /\ cell # "empty" /\ old /\ janitor' = [ph |-> "ask", id |-> ledger]
        /\ UNCHANGED <<record, proc, dir, ledger, old, faults, ahead>>
    BY <1>3 DEF JanitorCheck, daemon, bounds, history
  <2>2. ledger \in Id /\ ledger # None
    BY <1>0, <2>1 DEF TypeOK, OrNone
  <2>3. bu.ph = "idle"
    BY <1>0, <2>1, <2>2, Fields DEF Phases
  <2>4. janitor'.ph = "ask" /\ janitor'.id = ledger /\ janitor' \in JanitorState
    BY <2>1, <2>2 DEF JanitorState, OrNone
  <2>5. TypeOK'
    BY <1>0, <1>1, <2>1, <2>4 DEF TypeOK
  <2>6. Phases'
    BY <1>0, <1>1, <2>1, <2>2, <2>4 DEF Phases, Exists
  <2>7. Kept' /\ Filed'
    BY <1>1, <1>3, <2>1, <2>4 DEF IInv, Kept, Filed, Exists
  <2>. QED
    BY <1>1, <2>3, <2>5, <2>6, <2>7 DEF IInv, Named, Served, InFlight, Serving
<1>4. CASE JanitorAsk \/ JanitorKill \/ JanitorClear
  <2>1. /\ janitor.ph # "idle"
        /\ (ledger' = None /\ old' = FALSE) \/ UNCHANGED <<ledger, old>>
        /\ faults' \in Nat
    <3>1. CASE JanitorAsk
      BY <1>0, <3>1 DEF JanitorAsk, rows, history, pending, Fault
    <3>2. CASE JanitorKill
      BY <1>0, <3>2 DEF JanitorKill, rows, history, pending, Fault
    <3>3. CASE JanitorClear
      BY <1>0, <3>3 DEF JanitorClear, Clear, bounds
    <3>. QED
      BY <1>4, <3>1, <3>2, <3>3
  <2>2. /\ janitor' \in JanitorState /\ janitor'.id \in {janitor.id, None}
        /\ janitor'.ph = "idle" <=> janitor'.id = None
    <3>1. janitor.id \in Id
      BY <1>0, <2>1, Fields DEF Phases, OrNone
    <3>. DEFINE idle == [ph |-> "idle", id |-> None]
    <3>2. idle \in JanitorState /\ idle.id = None /\ idle.ph = "idle"
      BY <1>0, Fields
    <3>3. ASSUME NEW p \in {"kill", "clear"}, janitor' = [janitor EXCEPT !.ph = p]
          PROVE  janitor' \in JanitorState /\ janitor'.id = janitor.id /\ janitor'.ph = p
      BY <1>0, <3>3 DEF JanitorState
    <3>4. janitor' = idle \/ \E p \in {"kill", "clear"} : janitor' = [janitor EXCEPT !.ph = p]
      BY <1>4 DEF JanitorAsk, JanitorKill, JanitorClear
    <3>. HIDE DEF idle
    <3>. QED
      BY <3>1, <3>2, <3>3, <3>4, FleetAssumption
  <2>3. KillSafe
    <3>1. CASE UNCHANGED <<daemon, ahead>>
      BY <3>1, KillKeeps
    <3>2. CASE Kill(janitor.id) /\ Deletes(janitor.id)
      <4>1. PICK i \in Id : i = janitor.id
        BY <1>0, <2>1, Fields DEF Phases, OrNone
      <4>2. Kill(i) /\ Deletes(i)
        BY <3>2, <4>1 DEF Kill, Deletes, Outrun, Live
      <4>. QED
        BY <4>1, <4>2, KillKeeps
    <3>. QED
      BY <1>4, <3>1, <3>2 DEF JanitorAsk, JanitorKill, JanitorClear, history
  <2>4. ledger' \in OrNone /\ old' \in BOOLEAN /\ (old' => ledger' # None)
    <3>1. CASE ledger' = None /\ old' = FALSE
      BY <3>1 DEF OrNone
    <3>2. CASE UNCHANGED <<ledger, old>>
      BY <1>0, <3>2 DEF TypeOK
    <3>. QED
      BY <2>1, <3>1, <3>2
  <2>5. TypeOK'
    BY <1>0, <1>1, <2>1, <2>2, <2>3, <2>4 DEF TypeOK, DaemonTypes, KillSafe
  <2>6. Phases'
    BY <1>0, <1>1, <2>1, <2>2, <2>3, Fields DEF Phases, Exists, InFlight, Serving, DaemonTypes, OrNone, KillSafe
  <2>7. Named'
    BY <1>1, <2>1 DEF IInv, Named
  <2>8. Served'
    <3>1. bu.ph \in Serving => bu.id # None
      BY <1>0, FleetAssumption DEF Phases
    <3>. QED
      BY <1>1, <2>2, <2>3, <3>1 DEF IInv, Served, Targets, KillSafe
  <2>9. Kept' /\ Filed'
    BY <1>1, <2>2, <2>3, KillRows
  <2>. QED
    BY <2>5, <2>6, <2>7, <2>8, <2>9 DEF IInv
<1>. QED
  BY <1>2, <1>3, <1>4 DEF Janitor

\* The reaper takes as its target no VM that a row with a session names.
LEMMA ReaperKeeps ==
    ASSUME IInv, Reaper
    PROVE  IInv'
<1>0. TypeOK /\ Phases /\ reaper \in ReaperState /\ faults \in Nat
  BY DEF IInv, TypeOK
<1>1. UNCHANGED <<row, filed, cell, ledger, saved, old, bu, off, janitor, purge, sweep, starts, late, ahead, mislaid>>
  BY DEF Reaper, ReapList, ReapCheck, ReapStop, ReapEnd, rows, history, pending, bounds
<1>2. /\ reaper' \in ReaperState
      /\ reaper'.target \in {reaper.target, None} \/ Untracked(reaper'.target)
  <2>1. CASE ReapList
    <3>. DEFINE t == {i \in Id : record[i] = "running"}
                l == IF row.tier = "live" THEN row.id ELSE None
    <3>1. reaper' = [NoReaper EXCEPT !.ph = "walk", !.suspects = reaper.suspects, !.todo = t, !.live = l]
      BY <2>1 DEF ReapList
    <3>2. t \subseteq Id /\ l \in OrNone
      BY <1>0, Fields DEF OrNone
    <3>. HIDE DEF t, l
    <3>. QED
      BY <1>0, <3>1, <3>2 DEF ReaperState, NoReaper, OrNone
  <2>2. ASSUME NEW i \in Id, ReapCheck(i)
        PROVE  /\ reaper' \in ReaperState
               /\ reaper'.target \in {reaper.target, None} \/ Untracked(reaper'.target)
    <3>. DEFINE s == IF Untracked(i) THEN reaper.seen \cup {i} ELSE reaper.seen
                t == IF Untracked(i) /\ i \in reaper.suspects THEN i ELSE reaper.target
    <3>1. reaper' = [reaper EXCEPT !.todo = @ \ {i}, !.seen = s, !.target = t]
      BY <2>2 DEF ReapCheck
    <3>2. s \subseteq Id /\ t \in OrNone /\ (t = reaper.target \/ (t = i /\ Untracked(i)))
      BY <1>0 DEF ReaperState, OrNone
    <3>. HIDE DEF s, t
    <3>3. reaper' \in ReaperState /\ reaper'.target = t
      BY <1>0, <3>1, <3>2 DEF ReaperState
    <3>4. t = i /\ Untracked(i) => Untracked(t)
      OBVIOUS
    <3>. QED
      BY <3>2, <3>3, <3>4
  <2>3. CASE ReapStop
    BY <1>0, <2>3 DEF ReapStop, ReaperState, OrNone
  <2>4. CASE ReapEnd
    <3>1. reaper' = [NoReaper EXCEPT !.suspects = reaper.seen]
      BY <2>4 DEF ReapEnd
    <3>. QED
      BY <1>0, <3>1 DEF ReaperState, NoReaper, OrNone
  <2>. QED
    BY <2>1, <2>2, <2>3, <2>4 DEF Reaper
<1>3. /\ DaemonTypes /\ dir' = dir
      /\ \A j \in Id : record'[j] = record[j] \/ (record'[j] = "stopped" /\ j = reaper.target)
  <2>1. CASE UNCHANGED daemon
    BY <1>0, <2>1, DaemonKeeps DEF daemon
  <2>2. CASE Stop({reaper.target})
    <3>1. PICK ids : Stop(ids) /\ ids = {reaper.target}
      BY <2>2 DEF Stop
    <3>. QED
      BY <1>0, <3>1, DaemonKeeps, StopEffect DEF Stop
  <2>. QED
    BY <2>1, <2>2 DEF Reaper, ReapList, ReapCheck, ReapStop, ReapEnd
<1>4. faults' \in Nat
  <2>1. faults' = faults \/ faults' = faults + 1
    BY DEF Reaper, ReapList, ReapCheck, ReapStop, ReapEnd, Fault, bounds
  <2>. QED
    BY <1>0, <2>1
<1>5. TypeOK'
  BY <1>0, <1>1, <1>2, <1>3, <1>4 DEF TypeOK, DaemonTypes
<1>6. Phases'
  BY <1>0, <1>1, <1>3, Fields DEF Phases, Exists, InFlight, Serving, DaemonTypes, OrNone
<1>7. Served'
  <2>. SUFFICES ASSUME bu.ph \in Serving, ~bu.raced
                PROVE  bu.id \notin Targets' /\ record'[bu.id] \in {"running", "lost"}
    BY <1>0, <1>1, Fields DEF IInv, Served
  <2>1. /\ bu.id \notin Targets /\ record[bu.id] \in {"running", "lost"} /\ row.id = bu.id
        /\ bu.id \in Id /\ bu.id # None /\ cell # "none"
    BY <1>0, FleetAssumption DEF IInv, Served, Phases, Serving
  <2>2. ~Untracked(bu.id)
    BY <2>1 DEF Untracked, Superseded
  <2>3. reaper'.target # bu.id
    BY <1>2, <2>1, <2>2 DEF Targets
  <2>. QED
    BY <1>1, <1>3, <2>1, <2>3 DEF Targets
<1>8. Named' /\ Kept' /\ Filed'
  <2>1. Kept' /\ Filed'
    BY <1>1, <1>3, RowsKeep DEF Exists
  <2>. QED
    BY <1>1, <2>1 DEF IInv, Named
<1>. QED
  BY <1>5, <1>6, <1>7, <1>8 DEF IInv

\* The purge picks an offloaded row's VM, and later kills it.
LEMMA PurgeKeeps ==
    ASSUME IInv, PurgeRead \/ PurgeKill
    PROVE  IInv'
<1>0. TypeOK /\ Phases /\ faults \in Nat
  BY DEF IInv, TypeOK
<1>1. UNCHANGED <<row, filed, cell, ledger, saved, old, bu, off, janitor, reaper, sweep, starts, late, mislaid>>
  BY DEF PurgeRead, PurgeKill, rows, history, pending, bounds
<1>2. CASE PurgeRead
  <2>1. row.tier = "offloaded" /\ purge' = row.id /\ UNCHANGED <<record, proc, dir, faults, ahead>>
    BY <1>2 DEF PurgeRead, daemon, bounds, history
  <2>2. TypeOK'
    BY <1>0, <1>1, <2>1, Fields DEF TypeOK
  <2>3. Phases'
    BY <1>0, <1>1, <2>1 DEF Phases, Exists
  <2>. QED
    BY <1>1, <2>1, <2>2, <2>3 DEF IInv, Named, Served, Kept, Filed, Exists
<1>3. CASE PurgeKill
  <2>1. /\ purge # None /\ purge' = None /\ faults' \in Nat
        /\ (Kill(purge) /\ Deletes(purge)) \/ UNCHANGED <<daemon, ahead>>
    BY <1>0, <1>3 DEF PurgeKill, Fault
  <2>2. KillSafe
    <3>1. CASE UNCHANGED <<daemon, ahead>>
      BY <3>1, KillKeeps
    <3>2. CASE Kill(purge) /\ Deletes(purge)
      <4>1. PICK i \in Id : i = purge
        BY <1>0, <2>1 DEF TypeOK, OrNone
      <4>2. Kill(i) /\ Deletes(i)
        BY <3>2, <4>1 DEF Kill, Deletes, Outrun, Live
      <4>. QED
        BY <4>1, <4>2, KillKeeps
    <3>. QED
      BY <2>1, <3>1, <3>2
  <2>3. TypeOK'
    BY <1>0, <1>1, <2>1, <2>2 DEF TypeOK, DaemonTypes, OrNone, KillSafe
  <2>4. Phases'
    BY <1>0, <1>1, <2>2, Fields DEF Phases, Exists, InFlight, Serving, DaemonTypes, OrNone, KillSafe
  <2>5. Served'
    <3>1. bu.ph \in Serving => bu.id # None
      BY <1>0, FleetAssumption DEF Phases
    <3>. QED
      BY <1>1, <2>1, <2>2, <3>1 DEF IInv, Served, Targets, KillSafe
  <2>6. Named' /\ Kept' /\ Filed'
    <3>1. Kept' /\ Filed'
      BY <1>1, <2>1, <2>2, KillRows
    <3>. QED
      BY <1>1, <3>1 DEF IInv, Named
  <2>. QED
    BY <2>3, <2>4, <2>5, <2>6 DEF IInv
<1>. QED
  BY <1>2, <1>3

\* The sweep never takes the live row it has read for deletable.
LEMMA SweepKeeps ==
    ASSUME IInv, Sweep
    PROVE  IInv'
<1>0. TypeOK /\ Phases /\ sweep \in SweepState /\ faults \in Nat
  BY DEF IInv, TypeOK
<1>1. UNCHANGED <<record, proc, row, filed, cell, ledger, saved, old, bu, off, janitor, reaper, purge,
                  starts, late, mislaid>>
  BY DEF Sweep, SweepBegin, Classify, Remove, Refresh, SweepEnd, daemon, rows, history, pending, bounds
<1>2. faults' \in Nat
  <2>1. faults' = faults \/ faults' = faults + 1
    BY DEF Sweep, SweepBegin, Classify, Remove, Refresh, SweepEnd, bounds, Fault
  <2>. QED
    BY <1>0, <2>1
<1>3. ASSUME dir' \subseteq dir, \A j \in dir \ dir' : ~Exists(j) /\ (sweep.ph = "delete" /\ j \in sweep.deletable),
             ahead \subseteq ahead', ahead' \subseteq Id,
             \A j \in dir \ dir' : Outrun(j) => j \in ahead',
             sweep' \in SweepState, sweep'.live \notin sweep'.deletable,
             row.tier = "live" /\ sweep'.ph # "idle" =>
                 sweep'.live = row.id \/ (sweep.ph # "idle" /\ sweep'.live = sweep.live)
      PROVE  IInv'
  <2>1. TypeOK'
    BY <1>0, <1>1, <1>2, <1>3 DEF TypeOK
  <2>2. Phases'
    BY <1>0, <1>1, <1>3 DEF Phases, Exists
  <2>3. Kept'
    BY <1>1, <1>3 DEF IInv, Kept, Exists
  <2>4. \A j \in dir \ dir' : Live(j) => j \in late \cup ahead \cup mislaid
    BY <1>1, <1>3 DEF IInv, Kept, Live
  <2>5. Filed'
    BY <1>1, <1>3, <2>4 DEF IInv, Filed, Outrun
  <2>. QED
    BY <1>1, <2>1, <2>2, <2>3, <2>5 DEF IInv, Named, Served, Targets
<1>4. CASE SweepBegin
  <2>. DEFINE l == IF row.tier = "live" THEN row.id ELSE None
              t == dir \ (IF bu.created THEN {bu.id} ELSE {})
  <2>1. /\ sweep' = [NoSweep EXCEPT !.ph = "classify", !.open = proc, !.live = l, !.todo = t] /\ dir' = dir
        /\ ahead' = ahead /\ ahead \subseteq Id
    BY <1>0, <1>4 DEF SweepBegin, daemon, history, TypeOK
  <2>2. l \in OrNone /\ t \subseteq Id /\ proc \subseteq Id /\ (row.tier = "live" => l = row.id)
    BY <1>0, Fields DEF OrNone, TypeOK
  <2>. HIDE DEF l, t
  <2>3. sweep' \in SweepState /\ sweep'.live = l /\ sweep'.deletable = {}
    BY <2>1, <2>2 DEF NoSweep, SweepState, OrNone
  <2>. QED
    BY <1>3, <2>1, <2>2, <2>3
<1>5. ASSUME NEW i \in Id, Classify(i) PROVE IInv'
  <2>. DEFINE d == IF i \in sweep.open \/ Exists(i) \/ i = sweep.live
                     THEN sweep.deletable ELSE sweep.deletable \cup {i}
  <2>1. /\ dir' = dir /\ sweep.ph = "classify" /\ ahead' = ahead /\ ahead \subseteq Id
        /\ \/ sweep' = [sweep EXCEPT !.todo = @ \ {i}, !.deletable = d]
           \/ sweep' = [sweep EXCEPT !.todo = @ \ {i}]
    BY <1>0, <1>5 DEF Classify, daemon, history, TypeOK
  <2>2. d \subseteq Id /\ sweep.live \notin d
    BY <1>0 DEF SweepState, IInv, Kept
  <2>. HIDE DEF d
  <2>3. /\ sweep' \in SweepState /\ sweep'.live = sweep.live
        /\ sweep'.deletable = d \/ sweep'.deletable = sweep.deletable
    <3>1. CASE sweep' = [sweep EXCEPT !.todo = @ \ {i}, !.deletable = d]
      BY <1>0, <2>2, <3>1 DEF SweepState
    <3>2. CASE sweep' = [sweep EXCEPT !.todo = @ \ {i}]
      BY <1>0, <3>2 DEF SweepState
    <3>. QED
      BY <2>1, <3>1, <3>2
  <2>4. sweep'.live \notin sweep'.deletable
    BY <2>2, <2>3 DEF IInv, Kept
  <2>. QED
    BY <1>3, <2>1, <2>3, <2>4
<1>6. ASSUME NEW i \in Id, Remove(i) PROVE IInv'
  <2>1. /\ sweep.ph = "delete" /\ i \in sweep.deletable
        /\ sweep' = [sweep EXCEPT !.deletable = @ \ {i}]
        /\ (dir' = dir /\ ahead' = ahead) \/ (~Exists(i) /\ dir' = dir \ {i} /\ Deletes(i))
    BY <1>6 DEF Remove
  <2>a. /\ ahead \subseteq ahead' /\ ahead' \subseteq Id
        /\ \A j \in dir \ dir' : Outrun(j) => j \in ahead'
    BY <1>0, <2>1 DEF Deletes, TypeOK
  <2>2. /\ sweep' \in SweepState /\ sweep'.live = sweep.live
        /\ sweep'.deletable = sweep.deletable \ {i}
    BY <1>0, <2>1 DEF SweepState
  <2>3. dir' \subseteq dir /\ \A j \in dir \ dir' : j = i /\ ~Exists(i)
    BY <2>1
  <2>4. sweep'.live \notin sweep'.deletable
    BY <2>2 DEF IInv, Kept
  <2>. QED
    BY <1>3, <2>1, <2>a, <2>2, <2>3, <2>4
<1>7. CASE Refresh
  <2>1. /\ sweep' = [sweep EXCEPT !.ph = "delete", !.open = proc] /\ dir' = dir /\ sweep.ph = "classify"
        /\ ahead' = ahead /\ ahead \subseteq Id
    BY <1>0, <1>7 DEF Refresh, daemon, history, TypeOK
  <2>2. /\ sweep' \in SweepState /\ sweep'.live = sweep.live /\ sweep'.deletable = sweep.deletable
    BY <1>0, <2>1 DEF SweepState, TypeOK
  <2>3. sweep'.live \notin sweep'.deletable
    BY <2>2 DEF IInv, Kept
  <2>. QED
    BY <1>3, <2>1, <2>2, <2>3
<1>8. CASE SweepEnd
  <2>1. sweep' = NoSweep /\ dir' = dir /\ ahead' = ahead /\ ahead \subseteq Id
    BY <1>0, <1>8 DEF SweepEnd, daemon, history, TypeOK
  <2>2. sweep' \in SweepState /\ sweep'.ph = "idle" /\ sweep'.deletable = {}
    BY <1>0, <2>1, Fields DEF NoSweep
  <2>. QED
    BY <1>3, <2>1, <2>2
<1>. QED
  BY <1>4, <1>5, <1>6, <1>7, <1>8 DEF Sweep

-----------------------------------------------------------------------------
(* The surroundings keep the invariant. *)

\* The ledger's file and clock, and a daemon that forgets sandboxes.
LEMMA AroundKeeps ==
    ASSUME IInv, Persist \/ PersistRow \/ Age \/ (\E i \in Id : DaemonForgets(i) \/ ProcessExits(i)) \/ UNCHANGED vars
    PROVE  IInv'
<1>0. TypeOK /\ Phases /\ faults \in Nat
  BY DEF IInv, TypeOK
<1>1. UNCHANGED <<dir, row, cell, ledger, bu, off, janitor, reaper, purge, sweep, starts, late, ahead>>
  BY DEF Persist, PersistRow, Age, DaemonForgets, ProcessExits, vars, daemon, rows, history, pending, passes, bounds
<1>2. Targets' = Targets
  BY <1>1 DEF Targets
<1>3. ASSUME UNCHANGED <<record, filed, mislaid>>, saved' \in {saved, ledger}, TypeOK' PROVE IInv'
  <2>1. Phases'
    BY <1>0, <1>1, <1>3 DEF Phases, Exists
  <2>. QED
    BY <1>1, <1>2, <1>3, <2>1 DEF IInv, Named, Served, Kept, Filed, Exists
<1>4. CASE Persist
  <2>1. UNCHANGED <<record, filed, mislaid, proc, old, faults>> /\ saved' = ledger
    BY <1>4 DEF Persist, daemon, bounds, rows, history
  <2>. QED
    BY <1>0, <1>1, <1>3, <2>1 DEF TypeOK
<1>5. CASE Age
  <2>1. UNCHANGED <<record, filed, mislaid, proc, saved, faults>> /\ old' = TRUE /\ ledger # None
    BY <1>5 DEF Age, daemon, bounds, rows, history
  <2>. QED
    BY <1>0, <1>1, <1>3, <2>1 DEF TypeOK
<1>6. ASSUME NEW i \in Id, ProcessExits(i) PROVE IInv'
  <2>1. UNCHANGED <<record, filed, mislaid, old, saved, faults>> /\ proc' \subseteq proc
    BY <1>6 DEF ProcessExits, rows, history, pending, bounds
  <2>. QED
    BY <1>0, <1>1, <1>3, <2>1 DEF TypeOK
<1>7. CASE UNCHANGED vars
  <2>1. UNCHANGED <<record, filed, mislaid, proc, old, saved, faults>>
    BY <1>7 DEF vars, daemon, rows, history, pending, bounds
  <2>. QED
    BY <1>0, <1>1, <1>3, <2>1 DEF TypeOK
<1>8. ASSUME NEW i \in Id, DaemonForgets(i) PROVE IInv'
  <2>1. /\ record' = [record EXCEPT ![i] = "lost"] /\ proc' \subseteq Id
        /\ UNCHANGED <<filed, old, saved>>
        /\ mislaid' = IF sweep.ph # "idle" /\ sweep.live # i THEN mislaid \cup {i} ELSE mislaid
    BY <1>0, <1>8 DEF DaemonForgets, TypeOK, rows, history, pending
  <2>2. faults' \in Nat
    BY <1>0, <1>8 DEF DaemonForgets, Fault
  <2>3. /\ record' \in [Id -> VmRecord] /\ record'[i] = "lost"
        /\ \A j \in Id \ {i} : record'[j] = record[j]
    BY <1>0, <2>1 DEF TypeOK, VmRecord
  <2>8. mislaid \subseteq mislaid' /\ mislaid' \subseteq Id
        /\ (sweep.ph # "idle" /\ sweep.live # i => i \in mislaid')
    BY <1>0, <2>1 DEF TypeOK
  <2>4. TypeOK'
    BY <1>0, <1>1, <2>1, <2>2, <2>3, <2>8 DEF TypeOK
  <2>5. Phases'
    BY <1>0, <1>1, <2>3, Fields DEF Phases, Exists, InFlight, Serving, OrNone
  <2>6. Served'
    BY <1>0, <1>1, <1>2, <2>3 DEF IInv, Served, Phases
  <2>7. Named'
    BY <1>1, <2>1 DEF IInv, Named
  <2>9. /\ row.tier = "live" => row.id \in Id
        /\ filed.id # None => filed.id \in Id
        /\ filed.tier = "live" => filed.id # None
    BY <1>0, Fields DEF IInv, Phases, Filed, OrNone
  <2>10. Kept'
    BY <1>1, <2>3, <2>8, <2>9 DEF IInv, Kept, Exists
  <2>11. Filed'
    BY <1>1, <2>1, <2>3, <2>8, <2>9 DEF IInv, Filed
  <2>. QED
    BY <2>4, <2>5, <2>6, <2>7, <2>10, <2>11 DEF IInv
<1>9. CASE PersistRow
  <2>1. UNCHANGED <<record, proc, saved, old, faults, mislaid>> /\ filed' = row
    BY <1>9 DEF PersistRow, daemon, pending, bounds, history
  <2>2. TypeOK'
    BY <1>0, <1>1, <2>1 DEF TypeOK
  <2>3. Phases'
    BY <1>0, <1>1, <2>1 DEF Phases, Exists
  <2>4. Filed'
    BY <1>0, <1>1, <2>1 DEF IInv, Kept, Phases, Filed
  <2>. QED
    BY <1>1, <1>2, <2>1, <2>2, <2>3, <2>4 DEF IInv, Named, Served, Kept, Exists
<1>. QED
  BY <1>9, <1>4, <1>5, <1>6, <1>7, <1>8

\* The pooler restarts: the passes and the bring-up are gone, the daemon and the row stay.
LEMMA CrashKeeps ==
    ASSUME IInv, Crash
    PROVE  IInv'
<1>0. TypeOK /\ Phases /\ faults \in Nat
  BY DEF IInv, TypeOK
<1>1. /\ UNCHANGED <<record, proc, dir, filed, saved, starts, late, ahead, mislaid>>
      /\ row' = filed /\ ledger' = saved /\ cell' = "none" /\ bu' = NoBu /\ off' = "idle"
      /\ janitor' = [ph |-> "idle", id |-> None] /\ reaper' = NoReaper /\ purge' = None
      /\ sweep' = NoSweep
  BY DEF Crash, daemon, history
<1>2. faults' \in Nat
  BY <1>0 DEF Crash, Fault
<1>3. old' \in BOOLEAN /\ (old' => saved # None)
  BY DEF Crash
<1>4. /\ bu'.ph = "idle" /\ bu'.id = None /\ ~bu'.created /\ ~bu'.named /\ janitor'.ph = "idle" /\ janitor'.id = None
      /\ sweep'.ph = "idle" /\ sweep'.deletable = {}
  BY <1>1 DEF NoBu, NoSweep
<1>5. TypeOK'
  BY <1>0, <1>1, <1>2, <1>3, Fields DEF TypeOK, OrNone
<1>6. Phases'
  BY <1>0, <1>1, <1>4 DEF IInv, Filed, Phases, Exists, InFlight, Serving
<1>7. Kept' /\ Filed'
  BY <1>0, <1>1, <1>4, FleetAssumption DEF IInv, Kept, Filed, NoSweep
<1>. QED
  BY <1>4, <1>5, <1>6, <1>7 DEF IInv, Named, Served, InFlight, Serving

-----------------------------------------------------------------------------
(* The theorems. *)

\* The inductive invariant: neither the bring-up, nor the offload job, nor any pass, nor
\* a fault breaks it.
THEOREM Invariant == Spec => []IInv
<1>1. Init => IInv
  <2>. SUFFICES ASSUME Init PROVE IInv
    OBVIOUS
  <2>1. /\ NoBu \in BuState /\ NoReaper \in ReaperState /\ NoSweep \in SweepState
        /\ [ph |-> "idle", id |-> None] \in JanitorState /\ NoRow \in RowState
    <3>1. NoBu \in BuState
      BY DEF NoBu, BuState, OrNone
    <3>. QED
      BY <3>1 DEF NoReaper, ReaperState, NoSweep, SweepState, JanitorState, NoRow, RowState, OrNone
  <2>2. TypeOK
    BY <2>1 DEF Init, TypeOK, VmRecord, OrNone
  <2>3. /\ bu.ph = "idle" /\ bu.id = None /\ ~bu.created /\ ~bu.named /\ janitor.ph = "idle" /\ janitor.id = None
        /\ row.id = None /\ row.tier = "none" /\ filed = row /\ off = "idle"
        /\ sweep.deletable = {} /\ \A i \in Id : record[i] = "none"
    BY DEF Init, NoBu, NoRow, NoSweep
  <2>4. Phases
    BY <2>3 DEF Phases, Exists, InFlight, Serving
  <2>. QED
    BY <2>2, <2>3, <2>4 DEF IInv, Named, Served, Kept, Filed, InFlight, Serving
<1>2. IInv /\ [Next]_vars => IInv'
  <2>. SUFFICES ASSUME IInv, [Next]_vars PROVE IInv'
    OBVIOUS
  <2>1. CASE BringUp
    BY <2>1, CheckoutKeeps, ResolveKeeps, FailsKeeps, BindKeeps, ServeKeeps DEF BringUp
  <2>. QED
    BY <2>1, OffloadKeeps, JanitorKeeps, ReaperKeeps, PurgeKeeps, SweepKeeps, AroundKeeps, CrashKeeps
       DEF Next
<1>. QED
  BY <1>1, <1>2, PTL DEF Spec

\* Every state of the schema's VMs is well-typed.
THEOREM TypeCorrect == Spec => []TypeOK
<1>1. IInv => TypeOK
  BY DEF IInv
<1>. QED
  BY <1>1, Invariant, PTL

\* Neither the janitor nor the purge kills what a bring-up has bound before they decided
\* (pending_pass, purge_pass), however many passes run at once, and a restart on whatever
\* row the file has finds its VM, unless the kill was ahead of the write.
THEOREM NotDeleted == Spec => []LiveNotDeleted
<1>1. IInv => LiveNotDeleted
  BY DEF IInv, Kept, LiveNotDeleted
<1>. QED
  BY <1>1, Invariant, PTL

\* No sweep takes the disk of a live row, not of one that was bound while the sweep ran,
\* nor after a restart on an older row; the one exception is a VM the daemon forgot while
\* a sweep ran that had not read its row (sweep_orphans).
THEOREM DiskKept == Spec => []LiveDiskKept
<1>1. IInv => LiveDiskKept
  BY DEF IInv, Kept, LiveDiskKept
<1>. QED
  BY <1>1, Invariant, PTL

\* Nothing stops or deletes the VM of a session that was nobody's target when it was
\* picked and bound (reap_untracked, pending_pass, purge_pass).
THEOREM SessionsUp == Spec => []ServedUp
<1>1. IInv => ServedUp
  BY DEF IInv, Served, Serving, ServedUp
<1>. QED
  BY <1>1, Invariant, PTL

\* Once record has returned, the ledger's file names the VM of every bring-up in flight: a
\* crash at any later point before the binding leaves it to the janitor (pending.rs).
THEOREM NamedInFlight == Spec => []InFlightNamed
<1>1. IInv => InFlightNamed
  BY DEF IInv, Named, InFlight, InFlightNamed
<1>. QED
  BY <1>1, Invariant, PTL

=============================================================================
