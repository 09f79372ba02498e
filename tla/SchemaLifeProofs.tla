-------------------------- MODULE SchemaLifeProofs --------------------------
(***************************************************************************)
(* What TLAPS proves about the life of a schema (SchemaLife), for any      *)
(* number of clients, VMs, slots, commits and pending versions.            *)
(*                                                                         *)
(* Types and the use of the registry file hold whatever goes wrong.  That  *)
(* the row leads to the data and that sessions get it is proved for Calm   *)
(* behaviours only: most of what Calm leaves out does break it.  That      *)
(* nothing durable is lost is proved for Rough ones, with restarts and     *)
(* every other fault, where checkouts come one after the other.            *)
(***************************************************************************)
EXTENDS SchemaLife, FiniteSetTheorems, SequenceTheorems, TLAPS

\* No job starts while a checkout is in flight, nothing is forgotten or misread, and
\* clients meet on a cell only when no VM is stopped or left behind under them.
Calm ==
    /\ ~Anytime
    /\ \A b \in Budgets :
           /\ b["reattach"] = 0 /\ b["head"] = 0 /\ b["crash"] = 0
           /\ b["overlap"] = 0 \/ (b["boot"] = 0 /\ b["kill"] = 0 /\ b["reap"] = 0)

Early == {"idle", "check", "lookup"}
Promotion == {"promoteDump", "promoteImage"}

\* A checkout has a cell from its lookup on; a job has a row, and a VM to dump.
Placed ==
    /\ \A c \in Client : client[c].cell = 0 <=> client[c].ph \in Early
    /\ job.ph # "none" => row # NoRow
    /\ job.ph = "dump" => job.vm # 0

-----------------------------------------------------------------------------
\* What a copy has to hold: in a calm behaviour every committed transaction, otherwise those
\* whose VM was on record in the registry file.
Owed == IF Calm THEN truth ELSE safe

\* What is left of a calm behaviour in one that is not: checkouts come one after the other.
\* The faults still to come are those of such a behaviour.
Quiet ==
    /\ ~Anytime
    /\ Calm => faults["reattach"] = 0 /\ faults["head"] = 0 /\ faults["crash"] = 0
    /\ ~Calm => faults["overlap"] = 0
    /\ faults["overlap"] = 0 \/ (faults["boot"] = 0 /\ faults["kill"] = 0 /\ faults["reap"] = 0)
    /\ faults["overlap"] = 0 =>
           \A c, d \in Client : client[c].ph # "idle" /\ client[d].ph # "idle" => c = d

\* The cell of a checkout: whether it has an entry is known from where the checkout is.
OnCell(c) ==
    /\ client[c].ph \notin Early => client[c].cell = cur
    /\ client[c].ph \in {"warm", "probe", "evict", "unlink", "admit", "serving", "broken"} =>
           entry[client[c].cell] # 0
    /\ client[c].ph \in {"load", "dispose"} => entry[client[c].cell] = 0

\* Everyone is on the cell of the map, the only one with an entry, and the entry is
\* the VM of the row; one checkout at a time initialises it.
Tracked ==
    /\ \A c \in Client : OnCell(c)
    /\ \A k \in Cell : entry[k] # 0 => k = cur /\ row = [id |-> entry[k], tier |-> "Live"]
    /\ \A c, d \in Client :
           client[c].ph \in {"load", "dispose"} /\ client[d].ph \in {"load", "dispose"} => c = d

\* A job that runs has stopped the checkouts, and past its eviction nobody is served.
Claimed ==
    /\ job.ph # "none" => \A c \in Client : client[c].ph \in {"idle", "check", "serving", "broken"}
    /\ job.ph \notin {"none", "evict"} => \A k \in Cell : entry[k] = 0

Whole(copy) == copy # Absent /\ Owed \subseteq copy

\* What a row of tier t other than Live leads to exists and is complete.
Holds(t) ==
    CASE t = "Frozen"    -> Whole(dumpFile)
      [] t = "Compacted" -> Whole(imageFile)
      [] OTHER           -> IF s3dump # Absent THEN Owed \subseteq s3dump ELSE Whole(s3img)

\* The tier a job of this kind starts from.
From(kind) ==
    CASE kind = "promoteDump"  -> "Frozen"
      [] kind = "promoteImage" -> "Compacted"
      [] OTHER                 -> "Live"

\* Which kinds of job take which step; a job moves the row from its tier to the next one
\* when the copy is complete there, and deletes only what the row has left behind.
Stages ==
    /\ job.ph \in {"evict", "boot", "dump", "image", "compact", "promote", "undump", "mark"} =>
           row.tier = From(job.kind)
    /\ job.ph \in {"await", "kill", "rm"} => row.tier = JobTier
    /\ job.ph \in {"evict", "boot", "dump", "image", "compact", "kill"} => job.kind \notin Promotion
    /\ job.ph \in {"promote", "rm"} => job.kind \in Promotion
    /\ job.ph \in {"boot", "dump"} => job.kind \in {"archive", "freeze"}
    /\ job.ph = "image" => job.kind \in {"archive", "image"}
    /\ job.ph = "compact" => job.kind = "compact"
    /\ job.ph = "undump" => job.kind \in {"archive", "image", "promoteImage"}
    /\ job.ph \notin {"none", "evict"} /\ job.kind \notin Promotion => job.vm = row.id
    /\ job.ph = "undump" => Whole(s3img)
    /\ job.ph = "mark" => Holds(JobTier)

\* After a crash the row may lead to a local file that was removed when its schema had been
\* thawed, as the row saying so was still to be written.
Missing(t) ==
    ~Calm /\ ((t = "Frozen" /\ dumpFile = Absent) \/ (t = "Compacted" /\ imageFile = Absent))

\* Row r leads to what is owed, or to a file that is gone.
KeptBy(r) ==
    IF r = NoRow THEN Owed = {}
    ELSE IF r.tier = "Live" THEN Alive(r.id) /\ Owed \subseteq vm[r.id].data
    ELSE Holds(r.tier) \/ Missing(r.tier)

Kept == KeptBy(row)

\* What a checkout has read is still so while its cell is empty.
Reads(c) ==
    entry[client[c].cell] = 0 =>
        /\ client[c].ph \in {"head", "init", "load", "dispose"} =>
               client[c].known = IF row = NoRow THEN 0 ELSE row.id
        /\ client[c].ph = "head" => row # NoRow /\ row.tier = "Archived"
        /\ client[c].ph \in {"init", "load", "dispose"} =>
               client[c].restore =
                   IF row = NoRow THEN "none"
                   ELSE CASE row.tier = "Live"      -> "none"
                          [] row.tier = "Frozen"    -> "LocalDump"
                          [] row.tier = "Compacted" -> "LocalImage"
                          [] OTHER -> choose_restore(s3dump # Absent, s3img # Absent)

Reading == \A c \in Client : client[c].ph \notin Early => Reads(c)

\* A VM that is loaded is the row's or has what the row leads to, or will; one that is
\* disposed of is not the row's.
Loads(c) ==
    /\ client[c].ph \in {"load", "dispose"} => client[c].vm # 0
    /\ client[c].ph = "load" /\ row # NoRow /\ row.tier = "Live" =>
           client[c].vm = row.id /\ client[c].prov = "Existing"
    /\ client[c].ph = "load" /\ IsImage(client[c].restore) =>
           Owed \subseteq vm[client[c].vm].data
    /\ client[c].ph = "dispose" => row = NoRow \/ row.tier # "Live"

Loading == \A c \in Client : Loads(c)

Gone(i) == i # 0 /\ vm[i].st = "gone"

\* With company, a checkout never turns back, and what its failure would stop is not there.
Meets(c) ==
    /\ client[c].ph \notin {"evict", "dispose"}
    /\ client[c].ph = "load" => vm[client[c].vm].st = "running"
    /\ client[c].ph = "head" => Gone(client[c].known)
    /\ client[c].ph \in {"init", "load", "cleanup"} /\ client[c].restore # "none" => Gone(client[c].known)
    /\ client[c].ph = "cleanup" =>
           Gone(client[c].known) \/ (client[c].known = 0 /\ Named = {} /\ Fresh = {})

\* Clients that meet: nothing under them stops, and what the row has left is gone.
Together ==
    faults["overlap"] # 0 =>
        /\ reaped = 0
        /\ \A k \in Cell : entry[k] # 0 => vm[entry[k]].st = "running"
        /\ row # NoRow /\ row.tier # "Live" /\ (job.ph \in {"await", "kill"} => job.kind \in Promotion) =>
               Gone(row.id)
        /\ \A c \in Client : Meets(c)

IInv == TypeOK /\ Placed /\ Quiet /\ Tracked /\ Claimed /\ Stages /\ Kept /\ Reading /\ Loading /\ Together

-----------------------------------------------------------------------------
(* The model's operators. *)

\* A client's fields.
LEMMA ClientFields ==
    ASSUME NEW s \in ClientState
    PROVE  /\ s.ph \in Phase /\ s.cell \in Cell \cup {0} /\ s.known \in Vm \cup {0}
           /\ s.restore \in Restore /\ s.vm \in Vm \cup {0} /\ s.prov \in Provenance
           /\ \A p \in Phase : [s EXCEPT !.ph = p] \in ClientState
  BY DEF ClientState

LEMMA IdleState ==
    /\ Idle \in ClientState
    /\ \A p \in Phase : [Idle EXCEPT !.ph = p] \in ClientState
    /\ \A p \in Phase, k \in Cell : [Idle EXCEPT !.ph = p, !.cell = k] \in ClientState
  BY DEF Idle, ClientState, Phase, Restore, Provenance

LEMMA JobFields ==
    ASSUME NEW j \in JobState
    PROVE  /\ j.ph \in JobPhase /\ j.kind \in Kind /\ j.vm \in Vm \cup {0} /\ j.wait \in Nat
           /\ \A p \in JobPhase : [j EXCEPT !.ph = p] \in JobState
           /\ \A p \in JobPhase, i \in Vm : [j EXCEPT !.vm = i, !.ph = p] \in JobState
           /\ \A n \in Nat : [j EXCEPT !.wait = n] \in JobState
           /\ \A p \in JobPhase, n \in Nat : [j EXCEPT !.ph = p, !.wait = n] \in JobState
  BY DEF JobState

LEMMA NoJobState == NoJob \in JobState
  BY DEF NoJob, JobState, JobPhase, Kind

\* A cell that leaves the map takes its entry along unless somebody refers to it.
LEMMA EntriesEffect ==
    ASSUME TypeOK, NEW mapped, Entries(mapped)
    PROVE  /\ entry' \in [Cell -> Vm \cup {0}]
           /\ \A k \in Cell : entry'[k] \in {entry[k], 0}
           /\ \A k \in Cell : k = mapped \/ (\E c \in Client : client'[c].cell = k) =>
                  entry'[k] = entry[k]
           /\ \A k \in Cell : k # mapped /\ (\A c \in Client : client'[c].cell # k) =>
                  entry'[k] = 0
  BY DEF TypeOK, Entries

\* A stop changes no client but for the sessions it breaks.
LEMMA BrokenEffect ==
    ASSUME NEW cl \in [Client -> ClientState], NEW i
    PROVE  /\ Broken(cl, i) \in [Client -> ClientState]
           /\ \A c \in Client :
                  /\ Broken(cl, i)[c].cell = cl[c].cell /\ Broken(cl, i)[c].known = cl[c].known
                  /\ Broken(cl, i)[c].restore = cl[c].restore
                  /\ Broken(cl, i)[c].vm = cl[c].vm /\ Broken(cl, i)[c].prov = cl[c].prov
                  /\ \/ Broken(cl, i)[c].ph = cl[c].ph
                     \/ /\ cl[c].ph = "serving" /\ entry[cl[c].cell] = i
                        /\ Broken(cl, i)[c].ph = "broken"
  <1>1. \A c \in Client : cl[c] \in ClientState /\ "broken" \in Phase
    BY DEF Phase
  <1>2. \A c \in Client : [cl[c] EXCEPT !.ph = "broken"] \in ClientState
    BY <1>1, ClientFields
  <1>3. Broken(cl, i) \in [Client -> ClientState]
    BY <1>1, <1>2 DEF Broken
  <1>4. ASSUME NEW c \in Client
        PROVE  \/ Broken(cl, i)[c] = cl[c]
               \/ /\ cl[c].ph = "serving" /\ entry[cl[c].cell] = i
                  /\ Broken(cl, i)[c] = [cl[c] EXCEPT !.ph = "broken"]
    BY DEF Broken
  <1>5. QED
    BY <1>1, <1>3, <1>4 DEF ClientState

\* A stop touches no disk and no id.
LEMMA StopEffect ==
    ASSUME TypeOK, NEW i \in Vm \cup {0}, NEW cl, Stop(i, cl)
    PROVE  /\ vm' \in [Vm -> VmState] /\ client' = Broken(cl, i)
           /\ \A j \in Vm : vm'[j].data = vm[j].data /\ vm'[j].named = vm[j].named
           /\ \A j \in Vm : vm'[j].st = vm[j].st \/ (j = i /\ vm[j].st = "running" /\ vm'[j].st = "stopped")
  <1>1. \A j \in Vm : [vm[j] EXCEPT !.st = "stopped"] \in VmState
    BY DEF TypeOK, VmState
  <1>2. CASE Running(i)
    <2>1. i \in Vm /\ vm' = [vm EXCEPT ![i] = [vm[i] EXCEPT !.st = "stopped"]]
      BY <1>2 DEF Stop, Running
    <2>2. vm' \in [Vm -> VmState]
      BY <1>1, <2>1 DEF TypeOK
    <2>3. \A j \in Vm : j # i => vm'[j] = vm[j]
      BY <2>1 DEF TypeOK
    <2>4. vm'[i] = [vm[i] EXCEPT !.st = "stopped"] /\ vm[i] \in VmState
      BY <2>1 DEF TypeOK
    <2>5. vm'[i].data = vm[i].data /\ vm'[i].named = vm[i].named /\ vm'[i].st = "stopped"
      BY <2>4 DEF VmState
    <2>6. QED
      BY <1>2, <2>2, <2>3, <2>5 DEF Stop, Running
  <1>3. CASE ~Running(i)
    BY <1>3 DEF Stop, TypeOK
  <1>4. QED
    BY <1>2, <1>3

LEMMA KillEffect ==
    ASSUME TypeOK, NEW i \in Vm \cup {0}, NEW cl, Kill(i, cl)
    PROVE  /\ vm' \in [Vm -> VmState] /\ client' = Broken(cl, i) /\ inv' \in Vm \cup {0}
           /\ \A j \in Vm : j # i => vm'[j] = vm[j]
           /\ i # 0 => vm'[i].st = "gone"
  BY DEF TypeOK, Kill, VmState, Data

\* What resolve_sandbox may return: a VM of this or an earlier bring-up that is up or
\* stopped, or an unused id.
LEMMA FoundOrNew ==
    ASSUME TypeOK, NEW spares \in BOOLEAN, NEW r \in FindOrCreate(spares)
    PROVE  /\ r.id \in Vm /\ r.prov \in Provenance
           /\ r.prov = "Existing" => Alive(r.id)
           /\ r.prov # "Existing" => r.id \in Fresh /\ vm[r.id].st = "none" /\ r \in New(spares)
  <1>1. CASE ByName # {}
    <2>1. PICK i \in ByName : r = [id |-> i, prov |-> "Existing"]
      BY <1>1 DEF FindOrCreate
    <2>2. Alive(i) /\ i \in Vm
      BY DEF ByName, Named, TypeOK, Alive
    <2>3. QED
      BY <2>1, <2>2 DEF Provenance
  <1>2. CASE ByName = {}
    <2>1. r \in New(spares)
      BY <1>2 DEF FindOrCreate
    <2>2. PICK i \in Fresh, p \in {"Spare", "Created"} : r = [id |-> i, prov |-> p]
      BY <2>1 DEF New
    <2>3. QED
      BY <2>1, <2>2 DEF Fresh, Provenance
  <1>3. QED
    BY <1>1, <1>2

LEMMA NewVm ==
    ASSUME NEW spares \in BOOLEAN, NEW r \in New(spares)
    PROVE  r.id \in Vm /\ r.prov \in Provenance /\ r.prov # "Existing" /\ r.id \in Fresh /\ vm[r.id].st = "none"
  <1>1. PICK i \in Fresh, p \in {"Spare", "Created"} : r = [id |-> i, prov |-> p]
    BY DEF New
  <1>2. QED
    BY <1>1 DEF Fresh, Provenance

LEMMA ResolvedVm ==
    ASSUME TypeOK, NEW known \in Vm \cup {0}, NEW spares \in BOOLEAN,
           NEW r \in resolve_sandbox(known, spares)
    PROVE  /\ r.id \in Vm /\ r.prov \in Provenance
           /\ Alive(known) => r.id = known /\ r.prov = "Existing"
           /\ r.prov = "Existing" => Alive(r.id)
           /\ r.prov # "Existing" => r.id \in Fresh /\ vm[r.id].st = "none" /\ ByName = {}
  <1>1. CASE Alive(known)
    BY <1>1 DEF resolve_sandbox, Alive, Provenance
  <1>2. CASE ~Alive(known)
    <2>1. r \in FindOrCreate(spares)
      BY <1>2 DEF resolve_sandbox
    <2>2. r.prov # "Existing" => ByName = {}
      BY <2>1 DEF FindOrCreate
    <2>3. QED
      BY <1>2, <2>1, <2>2, FoundOrNew
  <1>3. QED
    BY <1>1, <1>2

\* A VM that exists keeps its disk and its name, a new one starts with data.
LEMMA BootEffect ==
    ASSUME TypeOK, NEW r, r.id \in Vm, r.prov \in Provenance, NEW data \in Data, Boot(r, data)
    PROVE  /\ vm' \in [Vm -> VmState] /\ inv' \in Vm \cup {0}
           /\ \A j \in Vm : j # r.id => vm'[j] = vm[j]
           /\ vm'[r.id].st = "running"
           /\ r.prov = "Existing" => vm'[r.id].data = vm[r.id].data /\ vm'[r.id].named = vm[r.id].named
           /\ r.prov # "Existing" => vm'[r.id].data = data
  <1>1. vm[r.id] \in VmState
    BY DEF TypeOK
  <1>2. inv' \in Vm \cup {0}
    BY DEF Boot, TypeOK
  <1>3. CASE r.prov = "Existing"
    <2>1. vm' = [vm EXCEPT ![r.id] = [vm[r.id] EXCEPT !.st = "running"]]
      BY <1>3 DEF Boot
    <2>2. [vm[r.id] EXCEPT !.st = "running"] \in VmState
      BY <1>1 DEF VmState
    <2>3. vm'[r.id] = [vm[r.id] EXCEPT !.st = "running"] /\ vm' \in [Vm -> VmState]
      BY <2>1, <2>2 DEF TypeOK
    <2>4. QED
      BY <1>1, <1>2, <1>3, <2>1, <2>3 DEF TypeOK, VmState
  <1>4. CASE r.prov # "Existing"
    <2>1. vm' = [vm EXCEPT ![r.id] = [st |-> "running", data |-> data, named |-> r.prov = "Created"]]
      BY <1>4 DEF Boot
    <2>2. [st |-> "running", data |-> data, named |-> r.prov = "Created"] \in VmState
      BY DEF VmState
    <2>3. QED
      BY <1>2, <1>4, <2>1, <2>2 DEF TypeOK
  <1>5. QED
    BY <1>3, <1>4

\* There is always a cell that nobody refers to.
LEMMA FreeCell ==
    ASSUME TypeOK
    PROVE  \E k \in Cell : \A d \in Client : client[d].cell # k
  <1>1. SUFFICES ASSUME \A k \in Cell : \E d \in Client : client[d].cell = k
                 PROVE  FALSE
    OBVIOUS
  <1> DEFINE holder == [k \in Cell |-> CHOOSE d \in Client : client[d].cell = k]
  <1>2. \A k \in Cell : holder[k] \in Client /\ client[holder[k]].cell = k
    BY <1>1
  <1>3. IsFiniteSet(Client) /\ Cardinality(Client) \in Nat
    BY FS_CardinalityType, LifeAssumption
  <1>4. IsFiniteSet(Cell) /\ Cardinality(Cell) = Cardinality(Client) + 1
    BY <1>3, FS_Interval, 1 \in Int, Cardinality(Client) + 1 \in Int DEF Cell
  <1>5. holder \in [Cell -> Client]
    BY <1>2
  <1> HIDE DEF holder
  <1>6. \E x, y \in Cell : x # y /\ holder[x] = holder[y]
    BY <1>3, <1>4, <1>5, FS_PigeonHole
  <1>7. QED
    BY <1>2, <1>6

-----------------------------------------------------------------------------
(* Types, whatever goes wrong. *)

LEMMA SpendEffect ==
    ASSUME TypeOK, NEW f \in Fault, Spend(f)
    PROVE  /\ faults' \in [Fault -> Nat] /\ faults[f] # 0
           /\ \A g \in Fault : g # f => faults'[g] = faults[g]
           /\ \A g \in Fault : faults[g] = 0 => faults'[g] = 0
  <1>1. faults[f] \in Nat /\ faults[f] > 0
    BY DEF TypeOK, Spend
  <1>2. faults[f] - 1 \in Nat
    BY <1>1
  <1>3. QED
    BY <1>1, <1>2 DEF TypeOK, Spend

LEMMA SourceType ==
    ASSUME TypeOK, NEW restore
    PROVE  Source(restore) # Absent => Source(restore) \in Data
  BY DEF TypeOK, Source, Copy

\* The steps of one checkout that change nothing but where it is.
LEMMA MoveEffect ==
    ASSUME TypeOK, NEW c \in Client, NEW p \in Phase, Move(c, p)
    PROVE  /\ client' \in [Client -> ClientState]
           /\ client'[c] = [client[c] EXCEPT !.ph = p]
           /\ client'[c].ph = p /\ client'[c].cell = client[c].cell
           /\ client'[c].known = client[c].known /\ client'[c].restore = client[c].restore
           /\ client'[c].vm = client[c].vm /\ client'[c].prov = client[c].prov
           /\ \A d \in Client : d # c => client'[d] = client[d]
  <1>1. client[c] \in ClientState
    BY DEF TypeOK
  <1>2. client' = [client EXCEPT ![c] = [client[c] EXCEPT !.ph = p]]
    BY DEF Move
  <1>3. [client[c] EXCEPT !.ph = p] \in ClientState
    BY <1>1, ClientFields
  <1>4. QED
    BY <1>1, <1>2, <1>3 DEF TypeOK, ClientState

LEMMA LeaveEffect ==
    ASSUME TypeOK, NEW c \in Client, Leave(c)
    PROVE  /\ client' \in [Client -> ClientState] /\ client'[c] = Idle
           /\ \A d \in Client : d # c => client'[d] = client[d]
  BY IdleState DEF TypeOK, Leave

\* ReadRecord and the two ways of pick_restore.
LEMMA ReadEffect ==
    ASSUME TypeOK, NEW c \in Client, ReadRecord(c)
    PROVE  /\ client' \in [Client -> ClientState]
           /\ client'[c].ph = IF row # NoRow /\ row.tier = "Archived" THEN "head" ELSE "init"
           /\ client'[c].cell = client[c].cell
           /\ client'[c].known = IF row = NoRow THEN 0 ELSE row.id
           /\ client'[c].restore =
                  IF row = NoRow THEN "none"
                  ELSE CASE row.tier = "Frozen" -> "LocalDump"
                         [] row.tier = "Compacted" -> "LocalImage"
                         [] OTHER -> "none"
           /\ client'[c].vm = client[c].vm /\ client'[c].prov = client[c].prov
           /\ \A d \in Client : d # c => client'[d] = client[d]
  <1> DEFINE k == IF row = NoRow THEN 0 ELSE row.id
             r == IF row = NoRow THEN "none"
                  ELSE CASE row.tier = "Frozen" -> "LocalDump"
                         [] row.tier = "Compacted" -> "LocalImage"
                         [] OTHER -> "none"
             p == IF row # NoRow /\ row.tier = "Archived" THEN "head" ELSE "init"
  <1>1. client[c] \in ClientState
    BY DEF TypeOK
  <1>2. k \in Vm \cup {0}
    BY DEF TypeOK, Row
  <1>3. r \in Restore /\ p \in Phase
    BY DEF Restore, Phase
  <1>4. client' = [client EXCEPT ![c] = [client[c] EXCEPT !.known = k, !.restore = r, !.ph = p]]
    BY DEF ReadRecord
  <1> HIDE DEF k, r, p
  <1>5. [client[c] EXCEPT !.known = k, !.restore = r, !.ph = p] \in ClientState
    BY <1>1, <1>2, <1>3 DEF ClientState
  <1>6. /\ client' \in [Client -> ClientState]
        /\ client'[c] = [client[c] EXCEPT !.known = k, !.restore = r, !.ph = p]
        /\ \A d \in Client : d # c => client'[d] = client[d]
    BY <1>4, <1>5 DEF TypeOK
  <1>7. /\ client'[c].ph = p /\ client'[c].cell = client[c].cell /\ client'[c].known = k
        /\ client'[c].restore = r /\ client'[c].vm = client[c].vm /\ client'[c].prov = client[c].prov
    BY <1>1, <1>6 DEF ClientState
  <1>8. QED
    BY <1>6, <1>7 DEF k, r, p

LEMMA PickEffect ==
    ASSUME TypeOK, NEW c \in Client, NEW source \in Restore,
           client' = [client EXCEPT ![c].restore = source, ![c].ph = "init"]
    PROVE  /\ client' \in [Client -> ClientState]
           /\ client'[c].ph = "init" /\ client'[c].cell = client[c].cell
           /\ client'[c].known = client[c].known /\ client'[c].restore = source
           /\ client'[c].vm = client[c].vm /\ client'[c].prov = client[c].prov
           /\ \A d \in Client : d # c => client'[d] = client[d]
  <1>1. client[c] \in ClientState
    BY DEF TypeOK
  <1>2. client' = [client EXCEPT ![c] = [client[c] EXCEPT !.restore = source, !.ph = "init"]]
    OBVIOUS
  <1>3. [client[c] EXCEPT !.restore = source, !.ph = "init"] \in ClientState
    BY <1>1 DEF ClientState, Phase
  <1>4. QED
    BY <1>1, <1>2, <1>3 DEF TypeOK, ClientState

LEMMA Chosen == \A dump, image : choose_restore(dump, image) \in Restore
  BY DEF choose_restore, Restore

\* Lookup: the cell of the map or an unused one.
LEMMA LookupEffect ==
    ASSUME TypeOK, NEW c \in Client, Lookup(c)
    PROVE  /\ cur' \in Cell
           /\ cur # 0 => cur' = cur
           /\ cur = 0 => \A d \in Client : client[d].cell # cur'
           /\ client' \in [Client -> ClientState]
           /\ client'[c].cell = cur'
           /\ client'[c].ph = IF entry[cur'] # 0 THEN "warm" ELSE "cold"
           /\ client'[c].known = client[c].known /\ client'[c].restore = client[c].restore
           /\ client'[c].vm = client[c].vm /\ client'[c].prov = client[c].prov
           /\ \A d \in Client : d # c => client'[d] = client[d]
  <1> DEFINE k == IF cur # 0 THEN cur ELSE Unused
             p == IF entry[k] # 0 THEN "warm" ELSE "cold"
  <1>1. client[c] \in ClientState /\ p \in Phase
    BY DEF TypeOK, Phase
  <1>2. \E n \in Cell : \A d \in Client : client[d].cell # n
    BY FreeCell
  <1>3. Unused \in Cell /\ \A d \in Client : client[d].cell # Unused
    BY <1>2, Zenon DEF Unused
  <1>4. k \in Cell /\ (cur # 0 => k = cur) /\ (cur = 0 => \A d \in Client : client[d].cell # k)
    BY <1>3 DEF TypeOK
  <1>5. cur' = k /\ client' = [client EXCEPT ![c] = [client[c] EXCEPT !.cell = k, !.ph = p]]
    BY DEF Lookup
  <1>6. PICK n : n = k
    OBVIOUS
  <1>7. PICK q : q = p
    OBVIOUS
  <1> HIDE DEF k, p
  <1>8. [client[c] EXCEPT !.cell = n, !.ph = q] \in ClientState
    BY <1>1, <1>4, <1>6, <1>7 DEF ClientState
  <1>9. /\ client' \in [Client -> ClientState]
        /\ client'[c] = [client[c] EXCEPT !.cell = n, !.ph = q]
        /\ \A d \in Client : d # c => client'[d] = client[d]
    BY <1>5, <1>6, <1>7, <1>8 DEF TypeOK
  <1>10. /\ client'[c].ph = q /\ client'[c].cell = n /\ client'[c].known = client[c].known
         /\ client'[c].restore = client[c].restore /\ client'[c].vm = client[c].vm
         /\ client'[c].prov = client[c].prov
    BY <1>1, <1>9 DEF ClientState
  <1>11. q = IF entry[cur'] # 0 THEN "warm" ELSE "cold"
    BY <1>5, <1>7 DEF p
  <1>12. QED
    BY <1>4, <1>5, <1>6, <1>9, <1>10, <1>11

\* A bring-up gets VM r.
LEMMA ResolvedEffect ==
    ASSUME TypeOK, NEW c \in Client, NEW r, r.id \in Vm, r.prov \in Provenance, NEW data \in Data,
           Resolved(c, r, data)
    PROVE  /\ client' \in [Client -> ClientState]
           /\ client'[c].ph = "load" /\ client'[c].cell = client[c].cell
           /\ client'[c].known = client[c].known /\ client'[c].restore = client[c].restore
           /\ client'[c].vm = r.id /\ client'[c].prov = r.prov
           /\ \A d \in Client : d # c => client'[d] = client[d]
           /\ Boot(r, data)
  <1>1. PICK i \in Vm, p \in Provenance : i = r.id /\ p = r.prov
    OBVIOUS
  <1>2. client[c] \in ClientState
    BY DEF TypeOK
  <1>3. client' = [client EXCEPT ![c] = [client[c] EXCEPT !.vm = i, !.prov = p, !.ph = "load"]]
    BY <1>1 DEF Resolved
  <1>4. [client[c] EXCEPT !.vm = i, !.prov = p, !.ph = "load"] \in ClientState
    BY <1>2 DEF ClientState, Phase
  <1>5. /\ client' \in [Client -> ClientState]
        /\ client'[c] = [client[c] EXCEPT !.vm = i, !.prov = p, !.ph = "load"]
        /\ \A d \in Client : d # c => client'[d] = client[d]
    BY <1>3, <1>4 DEF TypeOK
  <1>6. QED
    BY <1>1, <1>2, <1>5 DEF ClientState, Resolved

\* Evict and Unlink: the checkout starts over, or goes on with its cell only.
LEMMA ResetEffect ==
    ASSUME TypeOK, NEW c \in Client, NEW s \in ClientState, client' = [client EXCEPT ![c] = s]
    PROVE  /\ client' \in [Client -> ClientState] /\ client'[c] = s
           /\ \A d \in Client : d # c => client'[d] = client[d]
  BY DEF TypeOK

LEMMA IdleFields ==
    /\ Idle.ph = "idle" /\ Idle.cell = 0 /\ Idle.known = 0 /\ Idle.restore = "none"
    /\ Idle.vm = 0 /\ Idle.prov = "Existing"
  BY DEF Idle

\* The row goes from a row to a row, and what is sent to the file is a row.
LEMMA StampTypes ==
    ASSUME TypeOK, NEW r \in Row, Stamp(r)
    PROVE  row' = r /\ row' \in Row /\ saved' \in Row /\ pending' \in Seq(Row)
  BY DEF TypeOK, Stamp

LEMMA PutTypes ==
    ASSUME TypeOK, NEW i \in Vm, Put(i)
    PROVE  row' = [id |-> i, tier |-> "Live"] /\ row' \in Row /\ saved' \in Row /\ pending' \in Seq(Row)
  <1>1. [id |-> i, tier |-> "Live"] \in Row
    BY DEF Row, Tier
  <1>2. CASE row = [id |-> i, tier |-> "Live"]
    BY <1>1, <1>2 DEF Put, registry, TypeOK
  <1>3. CASE row # [id |-> i, tier |-> "Live"]
    BY <1>1, <1>3, StampTypes DEF Put
  <1>4. QED
    BY <1>2, <1>3

LEMMA CheckoutTypes ==
    ASSUME TypeOK, Placed, NEW c \in Client,
           \/ Checkout(c) \/ Check(c) \/ Lookup(c) \/ Admit(c) \/ AdmitTimeout(c) \/ Probe(c)
           \/ Evict(c) \/ BreakerHold(c) \/ ReadRecord(c) \/ PickRestore(c) \/ PickRestoreError(c)
    PROVE  TypeOK' /\ Placed'
  <1>1. client[c].ph \in Phase /\ client[c].cell \in Cell \cup {0}
    BY ClientFields DEF TypeOK
  <1> DEFINE Same == UNCHANGED <<registry, job, reaped, daemon, tripped, copies, history>>
  <1>2. ASSUME Same, client' \in [Client -> ClientState], cur' \in Cell \cup {0},
               entry' \in [Cell -> Vm \cup {0}], faults' \in [Fault -> Nat],
               client'[c].cell = 0 <=> client'[c].ph \in Early,
               \A d \in Client : d # c => client'[d] = client[d]
        PROVE  TypeOK' /\ Placed'
    <2>1. TypeOK'
      BY <1>2 DEF TypeOK, registry, daemon, copies, history
    <2>2. Placed'
      BY <1>2 DEF Placed, registry
    <2>3. QED
      BY <2>1, <2>2
  <1>3. CASE Checkout(c)
    <2>1. "check" \in Phase /\ client[c].ph = "idle"
      BY <1>3 DEF Phase, Checkout
    <2>2. QED
      BY <1>2, <1>3, <2>1, MoveEffect DEF Checkout, TypeOK, Placed, Early
  <1>4. CASE Check(c)
    <2>1. "lookup" \in Phase /\ client[c].ph = "check"
      BY <1>4 DEF Phase, Check
    <2>2. QED
      BY <1>2, <1>4, <2>1, MoveEffect DEF Check, TypeOK, Placed, Early
  <1>5. CASE Lookup(c)
    <2>1. cur' \in Cell /\ client' \in [Client -> ClientState] /\ client'[c].cell = cur'
          /\ client'[c].ph \in {"warm", "cold"} /\ \A d \in Client : d # c => client'[d] = client[d]
      BY <1>5, LookupEffect
    <2>2. 0 \notin Cell
      BY DEF Cell
    <2>3. QED
      BY <1>2, <1>5, <2>1, <2>2 DEF Lookup, TypeOK, Early
  <1>6. CASE Admit(c)
    <2>1. PICK p \in {"probe", "serving", "broken"} : Move(c, p)
      BY <1>6 DEF Admit
    <2>2. p \in Phase /\ client[c].ph \in {"warm", "admit"}
      BY <1>6 DEF Phase, Admit
    <2>3. QED
      BY <1>2, <1>6, <2>1, <2>2, MoveEffect DEF Admit, TypeOK, Placed, Early
  <1>7. CASE AdmitTimeout(c) \/ BreakerHold(c)
    <2>1. Leave(c) /\ Entries(cur) /\ Same /\ UNCHANGED <<cur, faults>>
      BY <1>7 DEF AdmitTimeout, BreakerHold
    <2>2. QED
      BY <1>2, <2>1, LeaveEffect, EntriesEffect, IdleFields DEF TypeOK, Early
  <1>8. CASE Probe(c)
    <2>1. PICK p \in {"serving", "evict"} : Move(c, p)
      BY <1>8 DEF Probe
    <2>2. p \in Phase /\ client[c].ph = "probe"
      BY <1>8 DEF Phase, Probe
    <2>3. QED
      BY <1>2, <1>8, <2>1, <2>2, MoveEffect DEF Probe, TypeOK, Placed, Early
  <1>9. CASE Evict(c)
    <2>1. "check" \in Phase /\ [Idle EXCEPT !.ph = "check"] \in ClientState
      BY IdleState DEF Phase
    <2>2. [Idle EXCEPT !.ph = "check"].ph = "check" /\ [Idle EXCEPT !.ph = "check"].cell = 0
      BY DEF Idle
    <2>3. cur' \in Cell \cup {0} /\ entry' \in [Cell -> Vm \cup {0}]
      BY <1>9, EntriesEffect DEF Evict, TypeOK
    <2>4. client' = [client EXCEPT ![c] = [Idle EXCEPT !.ph = "check"]]
      BY <1>9 DEF Evict
    <2>5. client' \in [Client -> ClientState] /\ client'[c] = [Idle EXCEPT !.ph = "check"]
          /\ \A d \in Client : d # c => client'[d] = client[d]
      BY <2>1, <2>4, ResetEffect
    <2>6. QED
      BY <1>2, <1>9, <2>2, <2>3, <2>5 DEF Evict, TypeOK, Early
  <1>10. CASE ReadRecord(c)
    <2>1. client'[c].ph \in {"head", "init"} /\ client[c].ph = "cold"
          /\ client' \in [Client -> ClientState] /\ client'[c].cell = client[c].cell
          /\ \A d \in Client : d # c => client'[d] = client[d]
      BY <1>10, ReadEffect DEF ReadRecord
    <2>2. QED
      BY <1>2, <1>10, <2>1 DEF ReadRecord, TypeOK, Placed, Early
  <1>11. CASE PickRestore(c) \/ PickRestoreError(c)
    <2>1. PICK source \in Restore : client' = [client EXCEPT ![c].restore = source, ![c].ph = "init"]
      BY <1>11, Chosen DEF PickRestore, PickRestoreError
    <2>2. client'[c].ph = "init" /\ client'[c].cell = client[c].cell /\ client[c].ph = "head"
          /\ client' \in [Client -> ClientState] /\ \A d \in Client : d # c => client'[d] = client[d]
      BY <1>11, <2>1, PickEffect DEF PickRestore, PickRestoreError
    <2>3. faults' \in [Fault -> Nat]
      <3>1. "head" \in Fault
        BY DEF Fault
      <3>2. QED
        BY <1>11, <3>1, SpendEffect DEF PickRestore, PickRestoreError, TypeOK
    <2>4. Same /\ UNCHANGED <<cur, entry>>
      BY <1>11 DEF PickRestore, PickRestoreError
    <2>5. QED
      BY <1>2, <2>2, <2>3, <2>4 DEF TypeOK, Placed, Early
  <1>12. QED
    BY <1>3, <1>4, <1>5, <1>6, <1>7, <1>8, <1>9, <1>10, <1>11

\* Resolve, ReattachError and Materialize: a VM is started or made.
LEMMA ResolveTypes ==
    ASSUME TypeOK, Placed, NEW c \in Client, Resolve(c) \/ ReattachError(c) \/ Materialize(c)
    PROVE  TypeOK' /\ Placed'
  <1>1. client[c].ph = "init" /\ client[c].known \in Vm \cup {0}
    BY ClientFields DEF TypeOK, Resolve, ReattachError, Materialize, CanInit
  <1>2. PICK r, data : r.id \in Vm /\ r.prov \in Provenance /\ data \in Data /\ Resolved(c, r, data)
    <2>1. CASE Resolve(c)
      <3>1. PICK k : k = IF client[c].restore = "none" THEN client[c].known ELSE 0
        OBVIOUS
      <3>2. PICK r \in resolve_sandbox(k, TRUE) : Resolved(c, r, {})
        BY <2>1, <3>1 DEF Resolve
      <3>3. k \in Vm \cup {0} /\ {} \in Data
        BY <1>1, <3>1 DEF Data
      <3>4. QED
        BY <3>2, <3>3, ResolvedVm
    <2>2. CASE ReattachError(c)
      <3>1. PICK r \in FindOrCreate(TRUE) : Resolved(c, r, {})
        BY <2>2 DEF ReattachError
      <3>2. {} \in Data
        BY DEF Data
      <3>3. QED
        BY <3>1, <3>2, FoundOrNew
    <2>3. CASE Materialize(c)
      <3>1. PICK r \in New(TRUE) : Resolved(c, r, Source(client[c].restore))
        BY <2>3 DEF Materialize
      <3>2. Source(client[c].restore) \in Data
        BY <2>3, SourceType DEF Materialize
      <3>3. QED
        BY <3>1, <3>2, NewVm
    <2>4. QED
      BY <2>1, <2>2, <2>3
  <1>3. /\ client' \in [Client -> ClientState] /\ client'[c].ph = "load"
        /\ client'[c].cell = client[c].cell /\ \A d \in Client : d # c => client'[d] = client[d]
        /\ Boot(r, data)
    BY <1>2, ResolvedEffect
  <1>4. vm' \in [Vm -> VmState] /\ inv' \in Vm \cup {0}
    BY <1>2, <1>3, BootEffect
  <1>5. faults' \in [Fault -> Nat]
    <2>1. "reattach" \in Fault
      BY DEF Fault
    <2>2. QED
      BY <2>1, SpendEffect DEF Resolve, ReattachError, Materialize, TypeOK
  <1>6. UNCHANGED <<registry, cur, entry, job, reaped, tripped, copies, history>>
    BY DEF Resolve, ReattachError, Materialize
  <1>7. TypeOK'
    BY <1>3, <1>4, <1>5, <1>6 DEF TypeOK, registry, copies, history
  <1>8. Placed'
    BY <1>1, <1>3, <1>6 DEF Placed, Early, registry
  <1>9. QED
    BY <1>7, <1>8

\* The steps of a bring-up that move the checkout and may spend a fault.
LEMMA FailTypes ==
    ASSUME TypeOK, Placed, NEW c \in Client,
           ResolveFail(c) \/ BringupFail(c) \/ DisposeFail(c)
    PROVE  TypeOK' /\ Placed'
  <1>1. PICK p \in {"cleanup", "dispose"} : Move(c, p)
    BY DEF ResolveFail, BringupFail, DisposeFail
  <1>2. p \in Phase /\ client[c].ph \in {"init", "load", "dispose"}
    BY DEF Phase, ResolveFail, BringupFail, DisposeFail, CanInit
  <1>3. /\ client' \in [Client -> ClientState] /\ client'[c].ph = p
        /\ client'[c].cell = client[c].cell /\ \A d \in Client : d # c => client'[d] = client[d]
    BY <1>1, <1>2, MoveEffect
  <1>4. faults' \in [Fault -> Nat]
    <2>1. "boot" \in Fault /\ "kill" \in Fault
      BY DEF Fault
    <2>2. CASE faults' = faults
      BY <2>2 DEF TypeOK
    <2>3. CASE Spend("boot") \/ Spend("kill")
      BY <2>1, <2>3, SpendEffect
    <2>4. QED
      BY <2>2, <2>3 DEF ResolveFail, BringupFail, DisposeFail
  <1>5. UNCHANGED <<registry, cur, entry, job, reaped, vm, tripped, copies, history>>
    BY DEF ResolveFail, BringupFail, DisposeFail, daemon
  <1>6. inv' \in Vm \cup {0}
    BY DEF ResolveFail, BringupFail, DisposeFail, daemon, TypeOK
  <1>7. TypeOK'
    BY <1>3, <1>4, <1>5, <1>6 DEF TypeOK, registry, copies, history
  <1>8. Placed'
    BY <1>1, <1>2, <1>3, <1>5 DEF Placed, Early, registry
  <1>9. QED
    BY <1>7, <1>8

LEMMA LoadTypes ==
    ASSUME TypeOK, Placed, NEW c \in Client, Load(c) \/ Join(c)
    PROVE  TypeOK' /\ Placed'
  <1>1. client[c].ph \in {"init", "load"} /\ "unlink" \in Phase /\ client[c].vm \in Vm \cup {0}
        /\ client[c].cell \in Cell
    BY ClientFields DEF Load, Join, Phase, TypeOK, Placed, Early
  <1>2. /\ client' \in [Client -> ClientState] /\ client'[c].ph = "unlink"
        /\ client'[c].cell = client[c].cell /\ \A d \in Client : d # c => client'[d] = client[d]
    BY <1>1, MoveEffect DEF Load, Join
  <1>3. PICK i \in Vm : Put(i) /\ (entry' = entry \/ entry' = [entry EXCEPT ![client[c].cell] = i])
    BY <1>1 DEF Load, Join, TypeOK, Running
  <1>4. row' \in Row /\ saved' \in Row /\ pending' \in Seq(Row) /\ row' # NoRow
    <2>1. [id |-> i, tier |-> "Live"] # NoRow
      BY SpecialValues DEF Tier
    <2>2. QED
      BY <1>3, <2>1, PutTypes
  <1>5. entry' \in [Cell -> Vm \cup {0}]
    BY <1>1, <1>3 DEF TypeOK
  <1>6. vm' \in [Vm -> VmState]
    <2>1. CASE vm' = vm
      BY <2>1 DEF TypeOK
    <2>2. CASE vm' # vm
      <3>1. PICK data \in Data, j \in Vm : vm' = [vm EXCEPT ![j] = [vm[j] EXCEPT !.data = data]]
        <4>1. Source(client[c].restore) # Absent /\ client[c].vm \in Vm
          BY <1>1, <2>2 DEF Load, Join, daemon, Running
        <4>2. vm' = [vm EXCEPT ![client[c].vm] = [vm[client[c].vm] EXCEPT !.data = Source(client[c].restore)]]
          BY <2>2 DEF Load, Join, daemon
        <4>3. QED
          BY <4>1, <4>2, SourceType
      <3>2. vm[j] \in VmState
        BY DEF TypeOK
      <3>3. [vm[j] EXCEPT !.data = data] \in VmState
        BY <3>2 DEF VmState
      <3>4. QED
        BY <3>1, <3>3 DEF TypeOK
    <2>3. QED
      BY <2>1, <2>2
  <1>7. UNCHANGED <<cur, job, reaped, inv, tripped, copies, faults, history>>
    BY DEF Load, Join, daemon
  <1>8. TypeOK'
    BY <1>2, <1>4, <1>5, <1>6, <1>7 DEF TypeOK, copies, history
  <1>9. Placed'
    BY <1>1, <1>2, <1>4, <1>7 DEF Placed, Early
  <1>10. QED
    BY <1>8, <1>9

LEMMA DisposeTypes ==
    ASSUME TypeOK, Placed, NEW c \in Client, Dispose(c)
    PROVE  TypeOK' /\ Placed'
  <1>1. PICK cl : cl = [client EXCEPT ![c].ph = "cleanup"]
    OBVIOUS
  <1>2. client[c] \in ClientState /\ client[c].vm \in Vm \cup {0} /\ "cleanup" \in Phase
    BY ClientFields DEF TypeOK, Phase
  <1>3. cl \in [Client -> ClientState] /\ cl[c].ph = "cleanup" /\ cl[c].cell = client[c].cell
        /\ \A d \in Client : d # c => cl[d] = client[d]
    <2>1. [client[c] EXCEPT !.ph = "cleanup"] \in ClientState
      BY <1>2, ClientFields
    <2>2. QED
      BY <1>1, <1>2, <2>1 DEF TypeOK, ClientState
  <1>4. PICK i : i = client[c].vm
    OBVIOUS
  <1>5. Kill(i, cl)
    BY <1>1, <1>4 DEF Dispose
  <1>6. vm' \in [Vm -> VmState] /\ client' = Broken(cl, i) /\ inv' \in Vm \cup {0}
    BY <1>2, <1>4, <1>5, KillEffect
  <1>7. client' \in [Client -> ClientState]
        /\ \A d \in Client : client'[d].cell = cl[d].cell
               /\ (client'[d].ph = cl[d].ph \/ (cl[d].ph = "serving" /\ client'[d].ph = "broken"))
    BY <1>3, <1>6, BrokenEffect
  <1>8. UNCHANGED <<registry, cur, entry, job, reaped, tripped, copies, faults, history>>
    BY DEF Dispose
  <1>9. TypeOK'
    BY <1>6, <1>7, <1>8 DEF TypeOK, registry, copies, history
  <1>10. Placed'
    <2>1. client[c].ph = "dispose"
      BY DEF Dispose
    <2>2. QED
      BY <1>3, <1>7, <1>8, <2>1 DEF Placed, Early, registry
  <1>11. QED
    BY <1>9, <1>10

LEMMA CleanupTypes ==
    ASSUME TypeOK, Placed, NEW c \in Client, Cleanup(c)
    PROVE  TypeOK' /\ Placed'
  <1>1. PICK cl : cl = [client EXCEPT ![c] = Idle]
    OBVIOUS
  <1>2. client[c] \in ClientState /\ client[c].known \in Vm \cup {0}
    BY ClientFields DEF TypeOK
  <1>3. cl \in [Client -> ClientState] /\ cl[c] = Idle /\ \A d \in Client : d # c => cl[d] = client[d]
    BY <1>1, IdleState DEF TypeOK
  <1>4. PICK i \in Leaked(client[c].known) : Stop(i, cl)
    BY <1>1 DEF Cleanup
  <1>5. i \in Vm \cup {0} /\ Named \subseteq Vm
    BY <1>2, <1>4 DEF Leaked, Named
  <1>6. vm' \in [Vm -> VmState] /\ client' = Broken(cl, i)
    BY <1>4, <1>5, StopEffect
  <1>7. client' \in [Client -> ClientState]
        /\ \A d \in Client : client'[d].cell = cl[d].cell
               /\ (client'[d].ph = cl[d].ph \/ (cl[d].ph = "serving" /\ client'[d].ph = "broken"))
    BY <1>3, <1>6, BrokenEffect
  <1>8. inv' \in Vm \cup {0}
    BY <1>5 DEF Cleanup, TypeOK
  <1>9. entry' \in [Cell -> Vm \cup {0}]
    BY EntriesEffect DEF Cleanup
  <1>10. UNCHANGED <<registry, cur, job, reaped, copies, faults, history>> /\ tripped' = TRUE
    BY DEF Cleanup
  <1>11. TypeOK'
    BY <1>6, <1>7, <1>8, <1>9, <1>10 DEF TypeOK, registry, copies, history
  <1>12. Placed'
    BY <1>3, <1>7, <1>10, IdleFields DEF Placed, Early, registry
  <1>13. QED
    BY <1>11, <1>12

LEMMA UnlinkEffect ==
    ASSUME TypeOK, Placed, NEW c \in Client, Unlink(c)
    PROVE  /\ client[c].ph = "unlink"
           /\ client' \in [Client -> ClientState]
           /\ client'[c].ph = "admit" /\ client'[c].cell = client[c].cell
           /\ client'[c].restore = "none" /\ client'[c].known = 0
           /\ \A d \in Client : d # c => client'[d] = client[d]
           /\ dumpFile' \in {dumpFile, Absent} /\ imageFile' \in {imageFile, Absent}
           /\ faults' \in [Fault -> Nat]
           /\ \A g \in Fault : faults[g] = 0 => faults'[g] = 0
           /\ faults'["overlap"] = faults["overlap"]
           /\ UNCHANGED <<registry, cur, entry, job, reaped, daemon, s3dump, s3img, history>>
  <1>1. client[c].ph = "unlink" /\ client[c].cell \in Cell
    BY ClientFields DEF Unlink, TypeOK, Placed, Early
  <1>2. PICK k \in Cell : k = client[c].cell
    BY <1>1
  <1>3. client' = [client EXCEPT ![c] = [Idle EXCEPT !.ph = "admit", !.cell = k]]
    BY <1>2 DEF Unlink
  <1>4. [Idle EXCEPT !.ph = "admit", !.cell = k] \in ClientState
    BY IdleState DEF Phase
  <1>5. client' \in [Client -> ClientState] /\ client'[c] = [Idle EXCEPT !.ph = "admit", !.cell = k]
        /\ \A d \in Client : d # c => client'[d] = client[d]
    BY <1>3, <1>4, ResetEffect
  <1>6. client'[c].ph = "admit" /\ client'[c].cell = k /\ client'[c].restore = "none" /\ client'[c].known = 0
    BY <1>5 DEF Idle
  <1>7. /\ faults' \in [Fault -> Nat]
        /\ \A g \in Fault : faults[g] = 0 => faults'[g] = 0
        /\ faults'["overlap"] = faults["overlap"]
    <2>1. "rm" \in Fault /\ "overlap" \in Fault
      BY DEF Fault
    <2>2. CASE faults' = faults
      BY <2>2 DEF TypeOK
    <2>3. CASE Spend("rm")
      BY <2>1, <2>3, SpendEffect
    <2>4. QED
      BY <2>2, <2>3 DEF Unlink
  <1>8. QED
    BY <1>1, <1>2, <1>5, <1>6, <1>7 DEF Unlink

LEMMA UnlinkTypes ==
    ASSUME TypeOK, Placed, NEW c \in Client, Unlink(c)
    PROVE  TypeOK' /\ Placed'
  <1>1. tripped' = FALSE
    BY DEF Unlink
  <1>2. dumpFile' \in Copy /\ imageFile' \in Copy
    BY UnlinkEffect DEF TypeOK, Copy
  <1>3. TypeOK'
    BY <1>1, <1>2, UnlinkEffect DEF TypeOK, registry, daemon, history
  <1>4. Placed'
    BY UnlinkEffect DEF Placed, Early, registry
  <1>5. QED
    BY <1>3, <1>4

\* A commit adds to the data of the session's VM and to what was ever committed.
LEMMA CommitEffect ==
    ASSUME TypeOK, Placed, NEW c \in Client, CommitTx(c)
    PROVE  /\ client[c].ph = "serving"
           /\ vm' \in [Vm -> VmState] /\ truth' \in Data /\ safe' \in Data
           /\ \E n \in Commit :
                  /\ truth' = truth \cup {n}
                  /\ \A j \in Vm : j # entry[client[c].cell] => vm'[j] = vm[j]
                  /\ entry[client[c].cell] # 0 =>
                         vm'[entry[client[c].cell]].data = vm[entry[client[c].cell]].data \cup {n}
           /\ \A j \in Vm : vm'[j].st = vm[j].st /\ vm'[j].named = vm[j].named
           /\ \A j \in Vm : vm[j].data \subseteq vm'[j].data
           /\ UNCHANGED <<registry, map, job, reaped, inv, tripped, copies, faults>>
  <1>1. client[c].ph = "serving" /\ client[c].cell \in Cell
    BY ClientFields DEF CommitTx, TypeOK, Placed, Early
  <1>2. PICK i \in Vm \cup {0} : i = entry[client[c].cell]
    BY <1>1 DEF TypeOK
  <1>3. PICK n \in Commit : vm' = [vm EXCEPT ![i].data = @ \cup {n}] /\ truth' = truth \cup {n}
    BY <1>2 DEF CommitTx
  <1>4. truth' \in Data
    BY <1>3 DEF TypeOK, Data
  <1>5. CASE i = 0
    <2>1. vm' = vm
      <3>1. 0 \notin Vm /\ vm = [j \in Vm |-> vm[j]]
        BY DEF TypeOK, Vm
      <3>2. QED
        BY <1>3, <1>5, <3>1
    <2>2. safe' \in Data
      BY <2>1 DEF CommitTx, Held, TypeOK, VmState, Row, Data
    <2>3. QED
      BY <1>1, <1>2, <1>3, <1>4, <1>5, <2>1, <2>2 DEF CommitTx, TypeOK
  <1>6. CASE i \in Vm
    <2>1. vm[i] \in VmState
      BY <1>6 DEF TypeOK
    <2>2. vm' = [vm EXCEPT ![i] = [vm[i] EXCEPT !.data = vm[i].data \cup {n}]]
      BY <1>3
    <2>3. [vm[i] EXCEPT !.data = vm[i].data \cup {n}] \in VmState
      BY <2>1 DEF VmState, Data
    <2>4. /\ vm' \in [Vm -> VmState] /\ \A j \in Vm : j # i => vm'[j] = vm[j]
          /\ vm'[i] = [vm[i] EXCEPT !.data = vm[i].data \cup {n}]
      BY <1>6, <2>2, <2>3 DEF TypeOK
    <2>5. vm'[i].st = vm[i].st /\ vm'[i].named = vm[i].named /\ vm'[i].data = vm[i].data \cup {n}
      BY <2>1, <2>4 DEF VmState
    <2>6. safe' \in Data
      <3>1. \A j \in Vm : vm'[j].data \in Data
        BY <2>4 DEF VmState
      <3>2. CASE saved = NoRow \/ saved.tier # "Live"
        BY <3>2 DEF CommitTx, Held, TypeOK, Data
      <3>3. CASE saved # NoRow /\ saved.tier = "Live"
        <4>1. saved.id \in Vm
          BY <3>3 DEF TypeOK, Row
        <4>2. QED
          BY <3>1, <3>3, <4>1 DEF CommitTx, Held, TypeOK, Data
      <3>4. QED
        BY <3>2, <3>3
    <2>7. QED
      BY <1>1, <1>2, <1>3, <1>4, <1>6, <2>4, <2>5, <2>6 DEF CommitTx
  <1>7. QED
    BY <1>5, <1>6

LEMMA CommitTypes ==
    ASSUME TypeOK, Placed, NEW c \in Client, CommitTx(c)
    PROVE  TypeOK' /\ Placed'
  <1>1. vm' \in [Vm -> VmState] /\ truth' \in Data /\ safe' \in Data
        /\ UNCHANGED <<registry, map, job, reaped, inv, tripped, copies, faults>>
    BY CommitEffect
  <1>2. TypeOK'
    BY <1>1 DEF TypeOK, registry, map, copies
  <1>3. Placed'
    BY <1>1 DEF Placed, registry, map
  <1>4. QED
    BY <1>2, <1>3

LEMMA EndTypes ==
    ASSUME TypeOK, Placed, NEW c \in Client, EndSession(c)
    PROVE  TypeOK' /\ Placed'
  <1>1. /\ client' \in [Client -> ClientState] /\ client'[c] = Idle
        /\ \A d \in Client : d # c => client'[d] = client[d]
        /\ entry' \in [Cell -> Vm \cup {0}]
    BY LeaveEffect, EntriesEffect DEF EndSession
  <1>2. UNCHANGED <<registry, cur, job, reaped, daemon, tripped, copies, faults, history>>
    BY DEF EndSession
  <1>3. TypeOK'
    BY <1>1, <1>2 DEF TypeOK, registry, daemon, copies, history
  <1>4. Placed'
    BY <1>1, <1>2, IdleFields DEF Placed, Early, registry
  <1>5. QED
    BY <1>3, <1>4

LEMMA ReapTypes ==
    ASSUME TypeOK, Placed, ReapEvict \/ ReapStop
    PROVE  TypeOK' /\ Placed'
  <1>1. CASE ReapEvict
    <2>1. /\ entry' \in [Cell -> Vm \cup {0}] /\ cur' \in Cell \cup {0} /\ reaped' \in Vm \cup {0}
      BY <1>1, EntriesEffect DEF ReapEvict, TypeOK
    <2>2. faults' \in [Fault -> Nat]
      <3>1. "reap" \in Fault
        BY DEF Fault
      <3>2. QED
        BY <1>1, <3>1, SpendEffect DEF ReapEvict
    <2>3. UNCHANGED <<registry, client, job, daemon, tripped, copies, history>>
      BY <1>1 DEF ReapEvict
    <2>4. TypeOK' /\ Placed'
      BY <2>1, <2>2, <2>3 DEF TypeOK, Placed, registry, daemon, copies, history
    <2>5. QED
      BY <2>4
  <1>2. CASE ReapStop
    <2>1. PICK i \in Vm \cup {0} : i = reaped
      BY DEF TypeOK
    <2>2. vm' \in [Vm -> VmState] /\ client' = Broken(client, i)
      BY <1>2, <2>1, StopEffect DEF ReapStop
    <2>3. client' \in [Client -> ClientState]
          /\ \A d \in Client : client'[d].cell = client[d].cell
                 /\ (client'[d].ph = client[d].ph \/ (client[d].ph = "serving" /\ client'[d].ph = "broken"))
      BY <2>2, BrokenEffect DEF TypeOK
    <2>4. UNCHANGED <<registry, cur, entry, job, inv, tripped, copies, faults, history>> /\ reaped' = 0
      BY <1>2 DEF ReapStop
    <2>5. TypeOK'
      BY <2>2, <2>3, <2>4 DEF TypeOK, registry, copies, history
    <2>6. Placed'
      BY <2>3, <2>4 DEF Placed, Early, registry
    <2>7. QED
      BY <2>5, <2>6
  <1>3. QED
    BY <1>1, <1>2

\* A job's record is that of a job in the phases the code can be in next.
LEMMA JobStates ==
    ASSUME TypeOK, Placed
    PROVE  /\ JobPhase = {"none", "evict", "boot", "dump", "image", "compact", "undump", "promote",
                          "mark", "await", "kill", "rm"}
           /\ \A kind \in Kind, p \in JobPhase :
                  /\ [NoJob EXCEPT !.kind = kind, !.ph = p] \in JobState
                  /\ [NoJob EXCEPT !.kind = kind, !.ph = p].ph = p
                  /\ [NoJob EXCEPT !.kind = kind, !.ph = p].kind = kind
           /\ \A p \in JobPhase : [job EXCEPT !.ph = p] \in JobState
           /\ \A p \in JobPhase, i \in Vm : [job EXCEPT !.vm = i, !.ph = p] \in JobState
           /\ NoJob \in JobState /\ NoJob.ph = "none"
  <1>1. job \in JobState
    BY DEF TypeOK
  <1>2. \A kind \in Kind, p \in JobPhase :
            /\ [NoJob EXCEPT !.kind = kind, !.ph = p] \in JobState
            /\ [NoJob EXCEPT !.kind = kind, !.ph = p].ph = p
            /\ [NoJob EXCEPT !.kind = kind, !.ph = p].kind = kind
    BY DEF NoJob, JobState
  <1>3. QED
    BY <1>1, <1>2, JobFields, NoJobState DEF JobPhase, NoJob

\* The steps that change the job only, and perhaps spend a fault.
LEMMA BareJobTypes ==
    ASSUME TypeOK, Placed,
           \/ \E kind \in Kind : JobClaim(kind)
           \/ JobRefuse \/ JobStepFail \/ JobAwait \/ JobAwaitFail \/ JobKillFail
    PROVE  TypeOK' /\ Placed'
  <1>1. job \in JobState
    BY DEF TypeOK
  <1>2. job' \in JobState /\ (job'.ph # "none" => row # NoRow) /\ job'.ph # "dump"
    <2>1. ASSUME NEW kind \in Kind, JobClaim(kind)
          PROVE  job' \in JobState /\ row # NoRow /\ job'.ph # "dump"
      <3>1. PICK p \in {"promote", "evict"} : job' = [NoJob EXCEPT !.kind = kind, !.ph = p]
        BY <2>1 DEF JobClaim
      <3>2. p \in JobPhase
        BY DEF JobPhase
      <3>3. job' \in JobState /\ job'.ph = p
        BY <3>1, <3>2 DEF NoJob, JobState
      <3>4. QED
        BY <2>1, <3>3 DEF JobClaim
    <2>2. CASE JobRefuse \/ JobStepFail \/ JobKillFail
      BY <2>2, JobStates DEF JobRefuse, JobStepFail, JobKillFail
    <2>3. CASE JobAwait
      <3>1. PICK p \in {"rm", "kill"} : job' = [job EXCEPT !.ph = p]
        BY <2>3 DEF JobAwait
      <3>2. p \in JobPhase
        BY DEF JobPhase
      <3>3. job' \in JobState /\ job'.ph = p
        BY <1>1, <3>1, <3>2, JobFields DEF JobState
      <3>4. QED
        BY <2>3, <3>3 DEF JobAwait, Placed
    <2>4. CASE JobAwaitFail
      <3>1. job' \in JobState /\ job'.ph = job.ph /\ job.ph = "await"
        BY <1>1, <2>4, JobFields DEF JobAwaitFail, JobState
      <3>2. QED
        BY <3>1 DEF Placed
    <2>5. QED
      BY <2>1, <2>2, <2>3, <2>4
  <1>3. faults' \in [Fault -> Nat]
    <2>1. {"dump", "undump", "write", "kill"} \subseteq Fault
      BY DEF Fault
    <2>2. CASE faults' = faults
      BY <2>2 DEF TypeOK
    <2>3. CASE Spend("dump") \/ Spend("undump") \/ Spend("write") \/ Spend("kill")
      BY <2>1, <2>3, SpendEffect
    <2>4. QED
      BY <2>2, <2>3 DEF JobClaim, JobRefuse, JobStepFail, JobAwait, JobAwaitFail, JobKillFail
  <1>4. UNCHANGED <<registry, map, reaped, daemon, tripped, copies, history>>
    BY DEF JobClaim, JobRefuse, JobStepFail, JobAwait, JobAwaitFail, JobKillFail
  <1>5. TypeOK'
    BY <1>2, <1>3, <1>4 DEF TypeOK, registry, map, daemon, copies, history
  <1>6. Placed'
    BY <1>2, <1>4 DEF Placed, registry, map
  <1>7. QED
    BY <1>5, <1>6

\* What JobEvict does with its cell and its VM.
LEMMA EvictEffect ==
    ASSUME TypeOK, Placed, JobEvict
    PROVE  /\ job.ph = "evict" /\ ~Refused /\ cur' = 0 /\ row.id \in Vm
           /\ job' \in JobState /\ job'.vm = row.id /\ job'.kind = job.kind
           /\ job'.ph = CASE job.kind = "compact" -> "compact"
                          [] job.kind = "image" -> "image"
                          [] OTHER -> "boot"
           /\ vm' \in [Vm -> VmState]
           /\ \A j \in Vm : vm'[j].data = vm[j].data /\ vm'[j].named = vm[j].named
           /\ \A j \in Vm : vm'[j].st = vm[j].st \/ (vm[j].st = "running" /\ vm'[j].st = "stopped")
           /\ client' \in [Client -> ClientState]
           /\ \A c \in Client :
                  /\ client'[c].cell = client[c].cell
                  /\ client'[c].ph = client[c].ph \/ (client[c].ph = "serving" /\ client'[c].ph = "broken")
           /\ Entries(0)
           /\ UNCHANGED <<registry, reaped, inv, tripped, copies, faults, history>>
  <1>1. job.ph = "evict" /\ ~Refused /\ cur' = 0 /\ Entries(0)
        /\ UNCHANGED <<registry, reaped, inv, tripped, copies, faults, history>>
    BY DEF JobEvict
  <1>2. row.id \in Vm
    BY <1>1 DEF Placed, TypeOK, Row
  <1>3. PICK i \in Vm : i = row.id
    BY <1>2
  <1>4. /\ vm' \in [Vm -> VmState]
        /\ \A j \in Vm : vm'[j].data = vm[j].data /\ vm'[j].named = vm[j].named
        /\ \A j \in Vm : vm'[j].st = vm[j].st \/ (vm[j].st = "running" /\ vm'[j].st = "stopped")
        /\ client' \in [Client -> ClientState]
        /\ \A c \in Client :
               /\ client'[c].cell = client[c].cell
               /\ client'[c].ph = client[c].ph \/ (client[c].ph = "serving" /\ client'[c].ph = "broken")
    <2>1. CASE job.kind = "image"
      <3>1. Stop(i, client)
        BY <1>3, <2>1 DEF JobEvict
      <3>2. client' = Broken(client, i)
        BY <3>1 DEF Stop
      <3>3. QED
        BY <3>1, <3>2, StopEffect, BrokenEffect DEF TypeOK
    <2>2. CASE job.kind # "image"
      BY <2>2 DEF JobEvict, TypeOK
    <2>3. QED
      BY <2>1, <2>2
  <1> DEFINE p == CASE job.kind = "compact" -> "compact" [] job.kind = "image" -> "image" [] OTHER -> "boot"
  <1>5. p \in JobPhase /\ job \in JobState
    BY DEF JobPhase, TypeOK
  <1>6. job' = [job EXCEPT !.vm = row.id, !.ph = p]
    BY DEF JobEvict
  <1>7. PICK q \in JobPhase : q = p
    BY <1>5
  <1> HIDE DEF p
  <1>8. job' = [job EXCEPT !.vm = i, !.ph = q]
    BY <1>3, <1>6, <1>7
  <1>9. job' \in JobState /\ job'.vm = i /\ job'.kind = job.kind /\ job'.ph = q
    BY <1>5, <1>8, JobFields DEF JobState
  <1>10. QED
    BY <1>1, <1>2, <1>3, <1>4, <1>7, <1>9 DEF p

\* What JobBootFail and JobDumpFail do besides spending a fault and leaving an object.
LEMMA JobFailEffect ==
    ASSUME TypeOK, Placed, JobBootFail \/ JobDumpFail
    PROVE  /\ job.ph \in {"boot", "dump"}
           /\ job' \in JobState
           /\ IF job.kind = "archive"
              THEN job'.ph = "image" /\ job'.kind = job.kind /\ job'.vm = job.vm ELSE job' = NoJob
           /\ vm' \in [Vm -> VmState]
           /\ \A j \in Vm : vm'[j].data = vm[j].data /\ vm'[j].named = vm[j].named
           /\ \A j \in Vm : vm'[j].st = vm[j].st \/ (vm[j].st = "running" /\ vm'[j].st = "stopped")
           /\ client' \in [Client -> ClientState]
           /\ \A c \in Client :
                  /\ client'[c].cell = client[c].cell
                  /\ client'[c].ph = client[c].ph \/ (client[c].ph = "serving" /\ client'[c].ph = "broken")
           /\ faults' \in [Fault -> Nat]
           /\ \A g \in Fault : faults[g] = 0 => faults'[g] = 0
           /\ faults'["overlap"] = faults["overlap"]
           /\ UNCHANGED <<registry, cur, entry, reaped, inv, tripped, imageFile, s3img, history>>
           /\ dumpFile' \in Copy /\ s3dump' \in Copy
  <1>1. job.ph \in {"boot", "dump"} /\ job \in JobState /\ job.vm \in Vm \cup {0}
    BY JobFields DEF JobBootFail, JobDumpFail, TypeOK
  <1>2. PICK i \in Vm \cup {0} : i = job.vm
    BY <1>1
  <1>3. Stop(i, client) /\ client' = Broken(client, i)
    BY <1>2 DEF JobBootFail, JobDumpFail, Stop
  <1>4. job' = IF job.kind = "archive" THEN [job EXCEPT !.ph = "image"] ELSE NoJob
    BY DEF JobBootFail, JobDumpFail
  <1>5. job' \in JobState /\ IF job.kind = "archive"
              THEN job'.ph = "image" /\ job'.kind = job.kind /\ job'.vm = job.vm ELSE job' = NoJob
    <2>1. "image" \in JobPhase
      BY DEF JobPhase
    <2>2. QED
      BY <1>1, <1>4, <2>1, JobFields, NoJobState DEF JobState
  <1>6. /\ faults' \in [Fault -> Nat]
        /\ \A g \in Fault : faults[g] = 0 => faults'[g] = 0
        /\ faults'["overlap"] = faults["overlap"]
    <2>1. "dump" \in Fault /\ "jobBoot" \in Fault /\ "overlap" \in Fault
      BY DEF Fault
    <2>2. CASE faults' = faults
      BY <2>2 DEF TypeOK
    <2>3. CASE Spend("dump") \/ Spend("jobBoot")
      BY <2>1, <2>3, SpendEffect
    <2>4. QED
      BY <2>2, <2>3 DEF JobBootFail, JobDumpFail
  <1>7. dumpFile' \in Copy /\ s3dump' \in Copy
    <2>1. CASE JobBootFail
      BY <2>1 DEF JobBootFail, TypeOK, copies
    <2>2. CASE JobDumpFail
      <3>1. job.vm \in Vm
        BY <1>1, <2>2 DEF JobDumpFail, Placed
      <3>2. vm[job.vm].data \in Copy
        BY <3>1 DEF TypeOK, VmState, Copy
      <3>3. QED
        BY <2>2, <3>2 DEF JobDumpFail, TypeOK
    <2>3. QED
      BY <2>1, <2>2
  <1>8. UNCHANGED <<registry, cur, entry, reaped, inv, tripped, imageFile, s3img, history>>
    BY DEF JobBootFail, JobDumpFail, copies
  <1>9. /\ vm' \in [Vm -> VmState]
        /\ \A j \in Vm : vm'[j].data = vm[j].data /\ vm'[j].named = vm[j].named
        /\ \A j \in Vm : vm'[j].st = vm[j].st \/ (vm[j].st = "running" /\ vm'[j].st = "stopped")
    BY <1>3, StopEffect
  <1>10. /\ client' \in [Client -> ClientState]
         /\ \A c \in Client :
               /\ client'[c].cell = client[c].cell
               /\ client'[c].ph = client[c].ph \/ (client[c].ph = "serving" /\ client'[c].ph = "broken")
    BY <1>3, BrokenEffect DEF TypeOK
  <1>11. QED
    BY <1>1, <1>5, <1>6, <1>7, <1>8, <1>9, <1>10

LEMMA StoppingJobTypes ==
    ASSUME TypeOK, Placed, JobEvict \/ JobBootFail \/ JobDumpFail
    PROVE  TypeOK' /\ Placed'
  <1>1. CASE JobEvict
    <2>1. entry' \in [Cell -> Vm \cup {0}]
      BY <1>1, EvictEffect, EntriesEffect
    <2>2. TypeOK'
      BY <1>1, <2>1, EvictEffect DEF TypeOK, registry, copies, history
    <2>3. job.ph = "evict" /\ job'.ph # "dump"
      BY <1>1, EvictEffect
    <2>4. Placed'
      BY <1>1, <2>3, EvictEffect DEF Placed, Early, registry
    <2>5. QED
      BY <2>2, <2>4
  <1>2. CASE JobBootFail \/ JobDumpFail
    <2>1. TypeOK'
      BY <1>2, JobFailEffect DEF TypeOK, registry, history
    <2>2. job.ph # "none" /\ job'.ph \in {"none", "image"}
      BY <1>2, JobFailEffect DEF NoJob
    <2>3. Placed'
      BY <1>2, <2>2, JobFailEffect DEF Placed, Early, registry
    <2>4. QED
      BY <2>1, <2>3
  <1>3. QED
    BY <1>1, <1>2

\* A job boots the VM whose data it is to dump.
LEMMA JobBootEffect ==
    ASSUME TypeOK, Placed, NEW r, r.id \in Vm, r.prov \in Provenance, Boot(r, {}),
           job' = [job EXCEPT !.vm = r.id, !.ph = "dump"]
    PROVE  /\ job' \in JobState /\ job'.ph = "dump" /\ job'.vm = r.id /\ job'.kind = job.kind
           /\ vm' \in [Vm -> VmState] /\ inv' \in Vm \cup {0}
           /\ \A j \in Vm : j # r.id => vm'[j] = vm[j]
           /\ vm'[r.id].st = "running"
           /\ r.prov = "Existing" => vm'[r.id].data = vm[r.id].data
  <1>1. {} \in Data /\ job \in JobState /\ "dump" \in JobPhase
    BY DEF Data, TypeOK, JobPhase
  <1>2. PICK i \in Vm : i = r.id
    OBVIOUS
  <1>3. job' = [job EXCEPT !.vm = i, !.ph = "dump"]
    BY <1>2
  <1>4. job' \in JobState /\ job'.ph = "dump" /\ job'.vm = i /\ job'.kind = job.kind
    BY <1>1, <1>3, JobFields DEF JobState
  <1>5. QED
    BY <1>1, <1>2, <1>4, BootEffect

LEMMA JobBootTypes ==
    ASSUME TypeOK, Placed, JobBoot \/ JobReattachError
    PROVE  TypeOK' /\ Placed'
  <1>1. job.ph = "boot" /\ job.vm \in Vm \cup {0}
    BY JobFields DEF JobBoot, JobReattachError, TypeOK
  <1>2. PICK r : /\ r.id \in Vm /\ r.prov \in Provenance /\ Boot(r, {})
                 /\ job' = [job EXCEPT !.vm = r.id, !.ph = "dump"]
    <2>1. CASE JobBoot
      <3>1. PICK k \in Vm \cup {0} : k = job.vm
        BY <1>1
      <3>2. PICK r \in resolve_sandbox(k, FALSE) :
                Boot(r, {}) /\ job' = [job EXCEPT !.vm = r.id, !.ph = "dump"]
        BY <2>1, <3>1 DEF JobBoot
      <3>3. QED
        BY <3>2, ResolvedVm
    <2>2. CASE JobReattachError
      <3>1. PICK r \in FindOrCreate(FALSE) :
                Boot(r, {}) /\ job' = [job EXCEPT !.vm = r.id, !.ph = "dump"]
        BY <2>2 DEF JobReattachError
      <3>2. QED
        BY <3>1, FoundOrNew
    <2>3. QED
      BY <2>1, <2>2
  <1>3. /\ job' \in JobState /\ job'.ph = "dump" /\ job'.vm = r.id
        /\ vm' \in [Vm -> VmState] /\ inv' \in Vm \cup {0}
    BY <1>2, JobBootEffect
  <1>4. faults' \in [Fault -> Nat]
    <2>1. "reattach" \in Fault
      BY DEF Fault
    <2>2. QED
      BY <2>1, SpendEffect DEF JobBoot, JobReattachError, TypeOK
  <1>5. UNCHANGED <<registry, map, reaped, tripped, copies, history>>
    BY DEF JobBoot, JobReattachError
  <1>6. TypeOK'
    BY <1>3, <1>4, <1>5 DEF TypeOK, registry, map, copies, history
  <1>7. Placed'
    <2>1. job'.vm # 0 /\ row # NoRow
      BY <1>1, <1>2, <1>3 DEF Vm, Placed
    <2>2. QED
      BY <1>5, <2>1 DEF Placed, registry, map
  <1>8. QED
    BY <1>6, <1>7

\* The steps that move a copy.
LEMMA CopyTypes ==
    ASSUME TypeOK, Placed, JobDump \/ JobImage \/ JobUndump \/ JobCompact \/ JobPromote \/ JobRm
    PROVE  TypeOK' /\ Placed'
  <1>1. job \in JobState /\ job.vm \in Vm \cup {0} /\ job.ph # "none"
    BY JobFields DEF TypeOK, JobDump, JobImage, JobUndump, JobCompact, JobPromote, JobRm
  <1>2. \A i \in Vm : vm[i].data \in Copy
    BY DEF TypeOK, VmState, Copy
  <1>3. /\ dumpFile' \in Copy /\ imageFile' \in Copy /\ s3dump' \in Copy /\ s3img' \in Copy
    <2>1. CASE JobDump
      BY <1>1, <1>2, <2>1 DEF JobDump, Running, TypeOK, Copy
    <2>2. CASE JobImage \/ JobCompact
      BY <1>1, <1>2, <2>2 DEF JobImage, JobCompact, Alive, TypeOK
    <2>3. CASE JobUndump \/ JobRm
      BY <2>3 DEF JobUndump, JobRm, TypeOK, Copy
    <2>4. CASE JobPromote
      BY <2>4 DEF JobPromote, TypeOK
    <2>5. QED
      BY <2>1, <2>2, <2>3, <2>4
  <1>4. job' \in JobState /\ job'.ph \in {"mark", "undump", "none"}
    <2>1. "mark" \in JobPhase /\ "undump" \in JobPhase
      BY DEF JobPhase
    <2>2. \A p \in {"mark", "undump"} : [job EXCEPT !.ph = p] \in JobState /\ [job EXCEPT !.ph = p].ph = p
      BY <1>1, <2>1, JobFields DEF JobState
    <2>3. \/ job' = [job EXCEPT !.ph = "mark"] \/ job' = [job EXCEPT !.ph = "undump"] \/ job' = NoJob
      BY DEF JobDump, JobImage, JobUndump, JobCompact, JobPromote, JobRm
    <2>4. NoJob.ph = "none"
      BY DEF NoJob
    <2>5. QED
      BY <2>2, <2>3, <2>4, NoJobState
  <1>5. faults' \in [Fault -> Nat]
    <2>1. "rm" \in Fault
      BY DEF Fault
    <2>2. CASE faults' = faults
      BY <2>2 DEF TypeOK
    <2>3. CASE Spend("rm")
      BY <2>1, <2>3, SpendEffect
    <2>4. QED
      BY <2>2, <2>3 DEF JobDump, JobImage, JobUndump, JobCompact, JobPromote, JobRm
  <1>6. UNCHANGED <<registry, map, reaped, daemon, tripped, history>>
    BY DEF JobDump, JobImage, JobUndump, JobCompact, JobPromote, JobRm
  <1>7. TypeOK'
    BY <1>3, <1>4, <1>5, <1>6 DEF TypeOK, registry, map, daemon, history
  <1>8. Placed'
    BY <1>1, <1>4, <1>6 DEF Placed, registry, map
  <1>9. QED
    BY <1>7, <1>8

\* The row keeps its id and gets the tier of the job.
LEMMA MarkEffect ==
    ASSUME TypeOK, Placed, JobMark
    PROVE  /\ job.ph = "mark" /\ row # NoRow /\ row.id \in Vm
           /\ row' \in Row /\ row' # NoRow /\ row'.id = row.id /\ row'.tier = JobTier
           /\ saved' \in Row /\ pending' \in Seq(Row)
           /\ job' \in JobState /\ job'.ph = "await" /\ job'.kind = job.kind /\ job'.vm = job.vm
           /\ UNCHANGED <<map, reaped, daemon, tripped, copies, faults, history>>
  <1>1. job.ph = "mark" /\ row # NoRow /\ job \in JobState
    BY DEF JobMark, Placed, TypeOK
  <1>2. row \in [id : Vm, tier : Tier] /\ JobTier \in Tier
    BY <1>1 DEF TypeOK, Row, Tier, JobTier
  <1>3. PICK r : r = [row EXCEPT !.tier = JobTier]
    OBVIOUS
  <1>4. r \in [id : Vm, tier : Tier] /\ r.id = row.id /\ r.tier = JobTier
    BY <1>2, <1>3
  <1>5. r \in Row /\ r # NoRow /\ Stamp(r)
    BY <1>3, <1>4, SpecialValues DEF JobMark, Row
  <1>6. row' = r /\ saved' \in Row /\ pending' \in Seq(Row)
    BY <1>5, StampTypes
  <1>7. Len(pending') \in Nat /\ "await" \in JobPhase
    BY <1>6, LenProperties DEF JobPhase
  <1>8. PICK n \in Nat : n = Len(pending')
    BY <1>7
  <1>9. job' = [job EXCEPT !.ph = "await", !.wait = n]
    BY <1>8 DEF JobMark
  <1>10. job' \in JobState /\ job'.ph = "await" /\ job'.kind = job.kind /\ job'.vm = job.vm
    BY <1>1, <1>7, <1>9, JobFields DEF JobState
  <1>11. QED
    BY <1>1, <1>2, <1>4, <1>5, <1>6, <1>10 DEF JobMark

LEMMA MarkTypes ==
    ASSUME TypeOK, Placed, JobMark
    PROVE  TypeOK' /\ Placed'
  <1>1. TypeOK'
    BY MarkEffect DEF TypeOK, map, daemon, copies, history
  <1>2. Placed'
    BY MarkEffect DEF Placed, map
  <1>3. QED
    BY <1>1, <1>2

\* The job's VM is killed; whoever was still on it is cut off.
LEMMA JobKillEffect ==
    ASSUME TypeOK, Placed, JobKill
    PROVE  /\ job.ph = "kill" /\ job' = NoJob
           /\ vm' \in [Vm -> VmState] /\ inv' \in Vm \cup {0}
           /\ \A j \in Vm : j # job.vm => vm'[j] = vm[j]
           /\ job.vm # 0 => vm'[job.vm].st = "gone"
           /\ client' \in [Client -> ClientState]
           /\ \A c \in Client :
                  /\ client'[c].cell = client[c].cell
                  /\ client'[c].ph = client[c].ph \/ (client[c].ph = "serving" /\ client'[c].ph = "broken")
           /\ UNCHANGED <<registry, cur, entry, reaped, tripped, copies, faults, history>>
  <1>1. job.vm \in Vm \cup {0}
    BY JobFields DEF TypeOK
  <1>2. PICK i \in Vm \cup {0} : i = job.vm
    BY <1>1
  <1>3. Kill(i, client) /\ client' = Broken(client, i)
    BY <1>2 DEF JobKill, Kill
  <1>4. /\ vm' \in [Vm -> VmState] /\ inv' \in Vm \cup {0}
        /\ \A j \in Vm : j # i => vm'[j] = vm[j]
        /\ i # 0 => vm'[i].st = "gone"
    BY <1>3, KillEffect
  <1>5. /\ client' \in [Client -> ClientState]
        /\ \A c \in Client :
               /\ client'[c].cell = client[c].cell
               /\ client'[c].ph = client[c].ph \/ (client[c].ph = "serving" /\ client'[c].ph = "broken")
    BY <1>3, BrokenEffect DEF TypeOK
  <1>6. QED
    BY <1>2, <1>4, <1>5 DEF JobKill

LEMMA JobKillTypes ==
    ASSUME TypeOK, Placed, JobKill
    PROVE  TypeOK' /\ Placed'
  <1>1. TypeOK'
    BY JobKillEffect, NoJobState DEF TypeOK, registry, copies, history
  <1>2. Placed'
    BY JobKillEffect DEF Placed, Early, registry, NoJob
  <1>3. QED
    BY <1>1, <1>2

\* The file catches up, and the job waits for that much less.
LEMMA PersistEffect ==
    ASSUME TypeOK, Persist
    PROVE  /\ saved' \in Row /\ pending' \in Seq(Row) /\ safe' \in Data
           /\ job' \in JobState /\ job'.ph = job.ph /\ job'.kind = job.kind /\ job'.vm = job.vm
           /\ UNCHANGED <<row, map, reaped, daemon, tripped, copies, faults, truth>>
  <1>1. PICK i \in 1..Len(pending) :
            /\ saved' = pending[i]
            /\ pending' = SubSeq(pending, i + 1, Len(pending))
            /\ job' = [job EXCEPT !.wait = IF @ > i THEN @ - i ELSE 0]
            /\ safe' = safe \cup Held(saved', vm)
            /\ UNCHANGED <<row, map, reaped, daemon, tripped, copies, faults, truth>>
    BY DEF Persist
  <1>2. pending \in Seq(Row) /\ Len(pending) \in Nat /\ job \in JobState /\ job.wait \in Nat
    BY JobFields, LenProperties DEF TypeOK
  <1>3. saved' \in Row
    BY <1>1, <1>2
  <1>4. pending' \in Seq(Row)
    <2>1. \A k \in i+1 .. Len(pending) : k \in 1..Len(pending)
      BY <1>2
    <2>2. i + 1 \in Int /\ Len(pending) \in Int
      BY <1>2
    <2>3. \A k \in i+1 .. Len(pending) : pending[k] \in Row
      BY <1>2, <2>1, ElementOfSeq
    <2>4. QED
      BY <1>1, <1>2, <2>2, <2>3, SubSeqProperties
  <1>5. PICK n \in Nat : job' = [job EXCEPT !.wait = n]
    <2>1. CASE job.wait > i
      <3>1. job.wait - i \in Nat
        BY <1>2, <2>1
      <3>2. QED
        BY <1>1, <2>1, <3>1
    <2>2. CASE ~(job.wait > i)
      BY <1>1, <2>2
    <2>3. QED
      BY <2>1, <2>2
  <1>6. job' \in JobState /\ job'.ph = job.ph /\ job'.kind = job.kind /\ job'.vm = job.vm
    BY <1>2, <1>5, JobFields DEF JobState
  <1>7. Held(saved', vm) \in Data
    <2>1. CASE saved' = NoRow \/ saved'.tier # "Live"
      BY <2>1 DEF Held, Data
    <2>2. CASE saved' # NoRow /\ saved'.tier = "Live"
      <3>1. saved'.id \in Vm
        BY <1>3, <2>2 DEF Row
      <3>2. QED
        BY <2>2, <3>1 DEF Held, TypeOK, VmState
    <2>3. QED
      BY <2>1, <2>2
  <1>8. safe' \in Data
    BY <1>1, <1>7 DEF TypeOK, Data
  <1>9. QED
    BY <1>1, <1>3, <1>4, <1>6, <1>8

LEMMA PersistTypes ==
    ASSUME TypeOK, Placed, Persist
    PROVE  TypeOK' /\ Placed'
  <1>1. TypeOK'
    BY PersistEffect DEF TypeOK, map, daemon, copies
  <1>2. Placed'
    BY PersistEffect DEF Placed, map
  <1>3. QED
    BY <1>1, <1>2

LEMMA CrashTypes ==
    ASSUME TypeOK, Placed, Crash
    PROVE  TypeOK' /\ Placed'
  <1>1. "crash" \in Fault
    BY DEF Fault
  <1>2. faults' \in [Fault -> Nat]
    BY <1>1, SpendEffect DEF Crash
  <1>3. client' \in [Client -> ClientState] /\ entry' \in [Cell -> Vm \cup {0}]
    BY IdleState DEF Crash
  <1>4. row' \in Row /\ saved' \in Row /\ pending' \in Seq(Row) /\ job' \in JobState
    BY NoJobState DEF Crash, TypeOK
  <1>5. TypeOK'
    BY <1>2, <1>3, <1>4 DEF Crash, TypeOK, copies, history
  <1>6. Placed'
    BY IdleFields DEF Crash, Placed, Early, NoJob
  <1>7. QED
    BY <1>5, <1>6

\* Every step of the system keeps the types.
LEMMA KeptTypes ==
    ASSUME TypeOK, Placed, [Next]_vars
    PROVE  TypeOK' /\ Placed'
  <1>1. CASE UNCHANGED vars
    BY <1>1 DEF TypeOK, Placed, vars, registry, map, daemon, copies, history
  <1>2. ASSUME NEW c \in Client,
               \/ Checkout(c) \/ Check(c) \/ ClientStep(c) \/ BreakerHold(c)
               \/ PickRestoreError(c) \/ ReattachError(c) \/ DisposeFail(c)
               \/ CommitTx(c) \/ EndSession(c)
        PROVE  TypeOK' /\ Placed'
    BY <1>2, CheckoutTypes, ResolveTypes, FailTypes, LoadTypes, DisposeTypes, CleanupTypes, UnlinkTypes,
       CommitTypes, EndTypes DEF ClientStep, BringupStep
  <1>3. CASE ReapEvict \/ ReapStop \/ (\E kind \in Kind : JobClaim(kind)) \/ JobStep
             \/ JobReattachError \/ JobAwaitFail \/ JobKillFail
    BY <1>3, ReapTypes, BareJobTypes, StoppingJobTypes, JobBootTypes, CopyTypes, MarkTypes, JobKillTypes
    DEF JobStep
  <1>4. CASE Persist \/ Crash
    BY <1>4, PersistTypes, CrashTypes
  <1>5. QED
    BY <1>1, <1>2, <1>3, <1>4 DEF Next

\* TypeInvariant: every reachable state is well typed, whatever goes wrong, a checkout has
\* a cell exactly from its lookup on, and a job that holds the claim has a row.
THEOREM TypeInvariant == Spec => [](TypeOK /\ Placed)
  <1>1. Init => TypeOK /\ Placed
    <2> SUFFICES ASSUME Init PROVE TypeOK /\ Placed
      OBVIOUS
    <2>1. client \in [Client -> ClientState] /\ entry \in [Cell -> Vm \cup {0}] /\ job \in JobState
      BY IdleState, NoJobState DEF Init
    <2>2. vm \in [Vm -> VmState]
      BY DEF Init, VmState, Data
    <2>3. faults \in [Fault -> Nat]
      BY LifeAssumption DEF Init
    <2>4. TypeOK
      <3>1. row \in Row /\ saved \in Row /\ pending \in Seq(Row)
        BY DEF Init, Row
      <3>2. truth \in Data /\ safe \in Data
        BY DEF Init, Data
      <3>3. dumpFile \in Copy /\ imageFile \in Copy /\ s3dump \in Copy /\ s3img \in Copy
        BY DEF Init, Copy
      <3>4. QED
        BY <2>1, <2>2, <2>3, <3>1, <3>2, <3>3 DEF Init, TypeOK
    <2>5. Placed
      BY IdleFields DEF Init, Placed, Early, NoJob
    <2>6. QED
      BY <2>4, <2>5
  <1>2. TypeOK /\ Placed /\ [Next]_vars => TypeOK' /\ Placed'
    BY KeptTypes
  <1>3. QED
    BY <1>1, <1>2, PTL DEF Spec

\* TypeCorrect: every reachable state of a schema's life is well typed.
THEOREM TypeCorrect == Spec => []TypeOK
  BY TypeInvariant, PTL

-----------------------------------------------------------------------------
(* Calm behaviours: the row leads to the data.                             *)

\* Faults only get fewer, and company stays.
Fewer ==
    /\ \A g \in Fault : faults[g] = 0 => faults'[g] = 0
    /\ faults'["overlap"] = faults["overlap"]

LEMMA SpendFewer ==
    ASSUME TypeOK, NEW f \in Fault, f # "overlap", Spend(f)
    PROVE  Fewer /\ faults[f] # 0
  <1>1. "overlap" \in Fault
    BY DEF Fault
  <1>2. QED
    BY <1>1, SpendEffect DEF Fewer

LEMMA QuietKeeps ==
    ASSUME Quiet, Fewer,
           faults["overlap"] = 0 =>
               \A c, d \in Client : client'[c].ph # "idle" /\ client'[d].ph # "idle" => c = d
    PROVE  Quiet'
  <1>1. {"reattach", "head", "crash", "boot", "kill", "reap"} \subseteq Fault
    BY DEF Fault
  <1>2. /\ ~Anytime /\ (~Calm => faults'["overlap"] = 0)
        /\ Calm => faults'["reattach"] = 0 /\ faults'["head"] = 0 /\ faults'["crash"] = 0
        /\ faults'["overlap"] = 0 \/ (faults'["boot"] = 0 /\ faults'["kill"] = 0 /\ faults'["reap"] = 0)
    BY <1>1 DEF Quiet, Fewer
  <1>3. QED
    BY <1>2 DEF Quiet, Fewer

\* A cell that keeps its place in the map keeps its entry, and no other cell has one.
LEMMA EntriesKept ==
    ASSUME TypeOK, Tracked, Entries(cur)
    PROVE  entry' = entry
  <1>1. entry' \in [Cell -> Vm \cup {0}] /\ \A k \in Cell : entry'[k] \in {entry[k], 0}
    BY EntriesEffect
  <1>2. \A k \in Cell : k = cur => entry'[k] = entry[k]
    BY EntriesEffect
  <1>3. \A k \in Cell : entry'[k] = entry[k]
    BY <1>1, <1>2 DEF Tracked
  <1>4. QED
    BY <1>1, <1>3 DEF TypeOK

\* An empty map: nobody is beyond the lookup.
LEMMA Deserted ==
    ASSUME IInv, \A k \in Cell : entry[k] = 0, job.ph # "none"
    PROVE  \A c \in Client : client[c].ph \in {"idle", "check"}
  <1>1. SUFFICES ASSUME NEW c \in Client, client[c].ph \in {"serving", "broken"}
                 PROVE  FALSE
    BY DEF IInv, Claimed
  <1>2. client[c].cell \in Cell
    BY <1>1, ClientFields DEF IInv, TypeOK, Placed, Early
  <1>3. QED
    BY <1>1, <1>2 DEF IInv, Tracked, OnCell

\* A step of one checkout that leaves the rest alone keeps the invariant if the checkout
\* fits where it goes.
LEMMA ClientMoves ==
    ASSUME IInv, TypeOK', Placed', Fewer, NEW c \in Client,
           UNCHANGED <<row, cur, entry, job, reaped, vm, copies, Owed>>,
           \A d \in Client : d # c => client'[d] = client[d],
           client[c].ph # "idle" \/ faults["overlap"] # 0 \/ \A d \in Client : client[d].ph = "idle",
           OnCell(c)', client'[c].ph \notin Early => Reads(c)', Loads(c)',
           faults["overlap"] # 0 => Meets(c)',
           job.ph # "none" => client'[c].ph \in {"idle", "check", "serving", "broken"},
           client'[c].ph \in {"load", "dispose"} => client[c].ph \in {"load", "dispose"}
    PROVE  IInv'
  <1>1. Quiet'
    <2>1. faults["overlap"] = 0 =>
              \A e, d \in Client : client'[e].ph # "idle" /\ client'[d].ph # "idle" => e = d
      BY DEF IInv, Quiet
    <2>2. QED
      BY <2>1, QuietKeeps DEF IInv
  <1>2. Tracked'
    <2>1. \A d \in Client : d # c => OnCell(d)'
      BY DEF IInv, Tracked, OnCell
    <2>2. QED
      BY <2>1 DEF IInv, Tracked
  <1>3. Claimed'
    BY DEF IInv, Claimed
  <1>4. Stages'
    BY DEF IInv, Stages, Whole, Holds, JobTier, copies
  <1>5. Kept'
    BY DEF IInv, Kept, KeptBy, Whole, Holds, Missing, Alive, copies
  <1>6. Reading'
    <2>1. \A d \in Client : d # c => (client'[d].ph \notin Early => Reads(d)')
      BY DEF IInv, Reading, Reads, copies
    <2>2. QED
      BY <2>1 DEF Reading
  <1>7. Loading'
    <2>1. \A d \in Client : d # c => Loads(d)'
      BY DEF IInv, Loading, Loads
    <2>2. QED
      BY <2>1 DEF Loading
  <1>8. Together'
    <2>1. Named' = Named /\ Fresh' = Fresh
      BY DEF Named, Fresh, Alive
    <2>2. \A d \in Client : d # c /\ faults["overlap"] # 0 => Meets(d)'
      BY <2>1 DEF IInv, Together, Meets, Gone
    <2>3. QED
      BY <2>2 DEF IInv, Together, Gone, Fewer
  <1>9. QED
    BY <1>1, <1>2, <1>3, <1>4, <1>5, <1>6, <1>7, <1>8 DEF IInv

\* What a checkout in flight may rely on.
LEMMA OnItsCell ==
    ASSUME IInv, NEW c \in Client, client[c].ph \notin Early
    PROVE  /\ client[c].cell \in Cell /\ client[c].cell = cur
           /\ client[c].ph \notin {"serving", "broken"} => job.ph = "none"
           /\ entry[client[c].cell] \in Vm \cup {0} /\ Reads(c)
  <1>1. client[c].cell \in Cell
    BY ClientFields DEF IInv, TypeOK, Placed
  <1>2. client[c].cell = cur /\ Reads(c)
    BY DEF IInv, Tracked, OnCell, Reading
  <1>3. client[c].ph \notin {"serving", "broken"} => job.ph = "none"
    BY DEF IInv, Claimed, Early
  <1>4. QED
    BY <1>1, <1>2, <1>3 DEF IInv, TypeOK

\* Entering and passing the poll on the archiving set.
LEMMA EnterKeeps ==
    ASSUME IInv, NEW c \in Client, Checkout(c) \/ Check(c)
    PROVE  IInv'
  <1>1. PICK p \in {"check", "lookup"} : Move(c, p) /\ (p = "lookup" => job.ph = "none" /\ client[c].ph = "check")
    BY DEF Checkout, Check
  <1>2. p \in Phase /\ TypeOK
    BY DEF Phase, IInv
  <1>3. client'[c].ph = p /\ \A d \in Client : d # c => client'[d] = client[d]
    BY <1>1, <1>2, MoveEffect
  <1>4. /\ UNCHANGED <<row, cur, entry, job, reaped, vm, copies, Owed>>
        /\ Fewer
        /\ client[c].ph # "idle" \/ faults["overlap"] # 0 \/ \A d \in Client : client[d].ph = "idle"
    BY DEF Checkout, Check, registry, daemon, history, Owed, Fewer
  <1>5. TypeOK' /\ Placed'
    BY CheckoutTypes DEF IInv
  <1>6. OnCell(c)' /\ Loads(c)' /\ Meets(c)' /\ client'[c].ph \in Early
    BY <1>3 DEF OnCell, Loads, Meets, Early
  <1>7. job.ph # "none" => client'[c].ph \in {"idle", "check", "serving", "broken"}
    BY <1>1, <1>3
  <1>8. QED
    BY <1>3, <1>4, <1>5, <1>6, <1>7, ClientMoves

\* Admission and probe: with company the probe finds the VM running.
LEMMA AdmitKeeps ==
    ASSUME IInv, NEW c \in Client, Admit(c) \/ Probe(c)
    PROVE  IInv'
  <1>1. PICK p \in {"probe", "serving", "broken", "evict"} :
            Move(c, p) /\ (p = "evict" => client[c].ph = "probe" /\ ~Running(entry[client[c].cell]))
    BY DEF Admit, Probe
  <1>2. p \in Phase /\ TypeOK
    BY DEF Phase, IInv
  <1>3. /\ client'[c].ph = p /\ client'[c].cell = client[c].cell
        /\ \A d \in Client : d # c => client'[d] = client[d]
    BY <1>1, <1>2, MoveEffect
  <1>4. /\ UNCHANGED <<row, cur, entry, job, reaped, vm, copies, Owed>>
        /\ Fewer /\ client[c].ph \in {"warm", "admit", "probe"}
    BY DEF Admit, Probe, registry, daemon, history, Owed, Fewer
  <1>5. TypeOK' /\ Placed'
    BY CheckoutTypes DEF IInv
  <1>6. client[c].cell \in Cell /\ client[c].cell = cur /\ job.ph = "none" /\ entry[client[c].cell] # 0
    BY <1>4, OnItsCell DEF Early, IInv, Tracked, OnCell
  <1>7. OnCell(c)' /\ Loads(c)' /\ Reads(c)'
    BY <1>3, <1>4, <1>6 DEF OnCell, Loads, Reads
  <1>8. faults["overlap"] # 0 => Meets(c)'
    <2>1. faults["overlap"] # 0 => Running(entry[client[c].cell])
      BY <1>6 DEF IInv, Together, Running
    <2>2. QED
      BY <1>1, <1>3, <2>1 DEF Meets
  <1>9. QED
    BY <1>3, <1>4, <1>5, <1>6, <1>7, <1>8, ClientMoves

\* A checkout or a session ends.
LEMMA LeaveKeeps ==
    ASSUME IInv, NEW c \in Client, AdmitTimeout(c) \/ BreakerHold(c) \/ EndSession(c)
    PROVE  IInv'
  <1>1. Leave(c) /\ Entries(cur) /\ TypeOK /\ Tracked
    BY DEF AdmitTimeout, BreakerHold, EndSession, IInv
  <1>2. client'[c].ph = "idle" /\ \A d \in Client : d # c => client'[d] = client[d]
    BY <1>1, LeaveEffect, IdleFields
  <1>3. entry' = entry
    BY <1>1, EntriesKept
  <1>4. /\ UNCHANGED <<row, cur, job, reaped, vm, copies, Owed>>
        /\ Fewer /\ client[c].ph # "idle"
    BY DEF AdmitTimeout, BreakerHold, EndSession, registry, daemon, history, Owed, Fewer
  <1>5. TypeOK' /\ Placed'
    BY CheckoutTypes, EndTypes DEF IInv
  <1>6. OnCell(c)' /\ Loads(c)' /\ Meets(c)' /\ client'[c].ph \in Early
    BY <1>2 DEF OnCell, Loads, Meets, Early
  <1>7. QED
    BY <1>2, <1>3, <1>4, <1>5, <1>6, ClientMoves

\* The row is read, and both HEADs are answered.
LEMMA ReadKeeps ==
    ASSUME IInv, NEW c \in Client, ReadRecord(c)
    PROVE  IInv'
  <1>1. TypeOK /\ client[c].ph = "cold"
        /\ UNCHANGED <<row, cur, entry, job, reaped, vm, copies, Owed>> /\ Fewer
    BY DEF IInv, ReadRecord, registry, daemon, history, Owed, Fewer
  <1>2. TypeOK' /\ Placed'
    BY CheckoutTypes DEF IInv
  <1>3. client[c].cell = cur /\ job.ph = "none"
    BY <1>1, OnItsCell DEF Early
  <1>4. /\ client'[c].ph = IF row # NoRow /\ row.tier = "Archived" THEN "head" ELSE "init"
        /\ client'[c].cell = client[c].cell
        /\ client'[c].known = IF row = NoRow THEN 0 ELSE row.id
        /\ client'[c].restore =
               IF row = NoRow THEN "none"
               ELSE CASE row.tier = "Frozen" -> "LocalDump"
                      [] row.tier = "Compacted" -> "LocalImage"
                      [] OTHER -> "none"
        /\ \A d \in Client : d # c => client'[d] = client[d]
    BY <1>1, ReadEffect
  <1>5. row # NoRow => row.tier \in {"Live", "Frozen", "Compacted", "Archived"}
    BY <1>1 DEF TypeOK, Row, Tier
  <1>6. OnCell(c)' /\ Loads(c)'
    BY <1>1, <1>3, <1>4 DEF OnCell, Loads
  <1>7. Reads(c)'
    BY <1>1, <1>4, <1>5 DEF Reads
  <1>8. faults["overlap"] # 0 => Meets(c)'
    <2>1. faults["overlap"] # 0 /\ row # NoRow /\ row.tier # "Live" => Gone(row.id)
      BY <1>3 DEF IInv, Together
    <2>2. QED
      BY <1>1, <1>4, <1>5, <2>1 DEF Meets, Gone
  <1>9. QED
    BY <1>1, <1>2, <1>3, <1>4, <1>6, <1>7, <1>8, ClientMoves

LEMMA PickKeeps ==
    ASSUME IInv, NEW c \in Client, PickRestore(c)
    PROVE  IInv'
  <1>1. TypeOK /\ client[c].ph = "head"
        /\ UNCHANGED <<row, cur, entry, job, reaped, vm, copies, Owed>> /\ Fewer
    BY DEF IInv, PickRestore, registry, daemon, history, Owed, Fewer
  <1>2. TypeOK' /\ Placed'
    BY CheckoutTypes DEF IInv
  <1>3. client[c].cell = cur /\ job.ph = "none" /\ Reads(c)
    BY <1>1, OnItsCell DEF Early
  <1>4. /\ client'[c].ph = "init" /\ client'[c].cell = client[c].cell
        /\ client'[c].known = client[c].known
        /\ client'[c].restore = choose_restore(s3dump # Absent, s3img # Absent)
        /\ \A d \in Client : d # c => client'[d] = client[d]
    <2>1. PICK source \in Restore : source = choose_restore(s3dump # Absent, s3img # Absent)
      BY Chosen
    <2>2. QED
      BY <1>1, <2>1, PickEffect DEF PickRestore
  <1>5. OnCell(c)' /\ Loads(c)'
    BY <1>1, <1>3, <1>4 DEF OnCell, Loads
  <1>6. Reads(c)'
    BY <1>1, <1>3, <1>4 DEF Reads, copies
  <1>7. faults["overlap"] # 0 => Meets(c)'
    BY <1>1, <1>4 DEF IInv, Together, Meets, Gone
  <1>8. QED
    BY <1>1, <1>2, <1>3, <1>4, <1>5, <1>6, <1>7, ClientMoves

\* A checkout whose cell is empty restores from a complete copy, or one that is missing, or
\* reattaches to the VM of a live row.
LEMMA SourceWhole ==
    ASSUME IInv, NEW c \in Client, client[c].ph \in {"init", "load"}, entry[client[c].cell] = 0
    PROVE  /\ client[c].known = IF row = NoRow THEN 0 ELSE row.id
           /\ client[c].restore = "none" => row = NoRow \/ row.tier = "Live"
           /\ client[c].restore # "none" =>
                  /\ row # NoRow /\ row.tier # "Live"
                  /\ Whole(Source(client[c].restore)) \/ (~Calm /\ Source(client[c].restore) = Absent)
  <1>1. Reads(c) /\ TypeOK /\ Kept
    BY OnItsCell DEF Early, IInv
  <1>2. row # NoRow => row.tier \in {"Live", "Frozen", "Compacted", "Archived"}
    BY <1>1 DEF TypeOK, Row, Tier
  <1>3. CASE row = NoRow \/ row.tier = "Live"
    BY <1>1, <1>3 DEF Reads
  <1>4. CASE row # NoRow /\ row.tier = "Frozen"
    BY <1>1, <1>4 DEF Reads, Kept, KeptBy, Holds, Missing, Source
  <1>5. CASE row # NoRow /\ row.tier = "Compacted"
    BY <1>1, <1>5 DEF Reads, Kept, KeptBy, Holds, Missing, Source
  <1>6. CASE row # NoRow /\ row.tier = "Archived"
    <2>1. client[c].restore = choose_restore(s3dump # Absent, s3img # Absent)
          /\ client[c].known = row.id
      BY <1>1, <1>6 DEF Reads
    <2>2. IF s3dump # Absent THEN Owed \subseteq s3dump ELSE Whole(s3img)
      BY <1>1, <1>6 DEF Kept, KeptBy, Holds, Missing
    <2>3. CASE s3dump # Absent
      BY <1>6, <2>1, <2>2, <2>3 DEF choose_restore, Source, Whole
    <2>4. CASE s3dump = Absent
      BY <1>6, <2>1, <2>2, <2>4 DEF choose_restore, Source, Whole
    <2>5. QED
      BY <2>3, <2>4
  <1>7. QED
    BY <1>2, <1>3, <1>4, <1>5, <1>6

\* No VM can be had.  With company that is final: the recorded VM is gone, or there is
\* none and no id is left.
LEMMA ResolveFailKeeps ==
    ASSUME IInv, NEW c \in Client, ResolveFail(c)
    PROVE  IInv'
  <1>1. /\ TypeOK /\ client[c].ph = "init" /\ entry[client[c].cell] = 0 /\ Move(c, "cleanup")
        /\ UNCHANGED <<row, cur, entry, job, reaped, vm, copies, Owed>>
    BY DEF IInv, ResolveFail, CanInit, registry, daemon, history, Owed
  <1>2. TypeOK' /\ Placed'
    BY FailTypes DEF IInv
  <1>3. client[c].cell = cur /\ job.ph = "none"
    BY <1>1, OnItsCell DEF Early
  <1>4. "cleanup" \in Phase /\ "boot" \in Fault
    BY DEF Phase, Fault
  <1>5. /\ client'[c].ph = "cleanup" /\ client'[c].cell = client[c].cell
        /\ client'[c].known = client[c].known /\ client'[c].restore = client[c].restore
        /\ \A d \in Client : d # c => client'[d] = client[d]
    BY <1>1, <1>4, MoveEffect
  <1>6. Fewer
    BY <1>1, <1>4, SpendFewer DEF ResolveFail, Fewer
  <1>7. OnCell(c)' /\ Loads(c)' /\ Reads(c)'
    BY <1>1, <1>3, <1>5 DEF OnCell, Loads, Reads
  <1>8. faults["overlap"] # 0 => Meets(c)'
    <2> SUFFICES ASSUME faults["overlap"] # 0 PROVE Meets(c)'
      OBVIOUS
    <2>1. Named' = Named /\ Fresh' = Fresh
      BY <1>1 DEF Named, Fresh, Alive
    <2>2. CASE client[c].restore # "none"
      <3>1. Gone(client[c].known)
        BY <1>1, <2>2 DEF IInv, Together, Meets
      <3>2. QED
        BY <1>1, <1>5, <3>1 DEF Meets, Gone
    <2>3. CASE client[c].restore = "none"
      <3>1. ~Spend("boot")
        BY DEF IInv, Quiet, Spend, TypeOK
      <3>2. ByName = {} /\ Fresh = {} /\ ~Alive(client[c].known)
        BY <2>3, <3>1 DEF ResolveFail, IsImage
      <3>3. Named = {}
        BY <3>2 DEF ByName
      <3>4. client[c].known = 0
        BY <1>1, <2>3, <3>2, SourceWhole DEF IInv, Kept, KeptBy
      <3>5. QED
        BY <1>5, <2>1, <2>3, <3>2, <3>3, <3>4 DEF Meets
    <2>4. QED
      BY <2>2, <2>3
  <1>9. QED
    BY <1>1, <1>2, <1>3, <1>5, <1>6, <1>7, <1>8, ClientMoves

\* A bring-up fails after its VM was had: that does not happen with company.
LEMMA BringupFailKeeps ==
    ASSUME IInv, NEW c \in Client, BringupFail(c)
    PROVE  IInv'
  <1>1. /\ TypeOK /\ client[c].ph = "load"
        /\ UNCHANGED <<row, cur, entry, job, reaped, vm, copies, Owed>>
    BY DEF IInv, BringupFail, registry, daemon, history, Owed
  <1>2. TypeOK' /\ Placed'
    BY FailTypes DEF IInv
  <1>3. client[c].cell = cur /\ job.ph = "none" /\ entry[client[c].cell] = 0 /\ Reads(c) /\ Loads(c)
    BY <1>1, OnItsCell DEF Early, IInv, Tracked, OnCell, Loading
  <1>4. PICK p \in {"cleanup", "dispose"} :
            Move(c, p) /\ (p = "dispose" => client[c].prov # "Existing")
    BY DEF BringupFail
  <1>5. p \in Phase /\ "boot" \in Fault
    BY DEF Phase, Fault
  <1>6. /\ client'[c].ph = p /\ client'[c].cell = client[c].cell /\ client'[c].vm = client[c].vm
        /\ client'[c].known = client[c].known /\ client'[c].restore = client[c].restore
        /\ \A d \in Client : d # c => client'[d] = client[d]
    BY <1>1, <1>4, <1>5, MoveEffect
  <1>7. Fewer
    BY <1>1, <1>5, SpendFewer DEF BringupFail, Fewer
  <1>8. OnCell(c)' /\ Loads(c)'
    BY <1>1, <1>3, <1>4, <1>6 DEF OnCell, Loads
  <1>9. Reads(c)'
    BY <1>1, <1>3, <1>6 DEF Reads, copies
  <1>10. faults["overlap"] = 0
    <2> SUFFICES ASSUME faults["overlap"] # 0 PROVE FALSE
      OBVIOUS
    <2>1. ~Spend("boot")
      BY DEF IInv, Quiet, Spend, TypeOK
    <2>2. vm[client[c].vm].st = "running" /\ client[c].vm # 0
      BY <1>1, <1>3 DEF IInv, Together, Meets, Loads
    <2>3. client[c].restore # "none" => Source(client[c].restore) # Absent
      BY <1>1, <1>3, SourceWhole DEF Whole, IInv, Quiet
    <2>4. QED
      BY <2>1, <2>2, <2>3 DEF BringupFail, Running
  <1>11. QED
    BY <1>1, <1>2, <1>3, <1>6, <1>7, <1>8, <1>9, <1>10, ClientMoves

LEMMA DisposeFailKeeps ==
    ASSUME IInv, NEW c \in Client, DisposeFail(c)
    PROVE  IInv'
  <1>1. /\ TypeOK /\ client[c].ph = "dispose" /\ Move(c, "cleanup") /\ Spend("kill")
        /\ UNCHANGED <<row, cur, entry, job, reaped, vm, copies, Owed>>
    BY DEF IInv, DisposeFail, registry, history, Owed
  <1>2. TypeOK' /\ Placed'
    BY FailTypes DEF IInv
  <1>3. client[c].cell = cur /\ job.ph = "none"
    BY <1>1, OnItsCell DEF Early
  <1>4. "cleanup" \in Phase /\ "kill" \in Fault
    BY DEF Phase, Fault
  <1>5. /\ client'[c].ph = "cleanup" /\ client'[c].cell = client[c].cell
        /\ \A d \in Client : d # c => client'[d] = client[d]
    BY <1>1, <1>4, MoveEffect
  <1>6. Fewer /\ faults["overlap"] = 0
    BY <1>1, <1>4, SpendFewer DEF IInv, Quiet
  <1>7. OnCell(c)' /\ Loads(c)' /\ Reads(c)'
    BY <1>1, <1>3, <1>5 DEF OnCell, Loads, Reads
  <1>8. QED
    BY <1>1, <1>2, <1>3, <1>5, <1>6, <1>7, ClientMoves

\* Another checkout has initialised the cell: its VM is the row's already.
LEMMA JoinKeeps ==
    ASSUME IInv, NEW c \in Client, Join(c)
    PROVE  IInv'
  <1>1. /\ TypeOK /\ client[c].ph = "init" /\ entry[client[c].cell] # 0 /\ Move(c, "unlink")
        /\ Put(entry[client[c].cell]) /\ Fewer
        /\ UNCHANGED <<cur, entry, job, reaped, vm, copies, Owed>>
    BY DEF IInv, Join, daemon, history, Owed, Fewer
  <1>2. TypeOK' /\ Placed'
    BY LoadTypes DEF IInv
  <1>3. client[c].cell = cur /\ client[c].cell \in Cell /\ job.ph = "none"
    BY <1>1, OnItsCell DEF Early
  <1>4. row' = row
    BY <1>1, <1>3 DEF Put, registry, IInv, Tracked
  <1>5. "unlink" \in Phase
    BY DEF Phase
  <1>6. /\ client'[c].ph = "unlink" /\ client'[c].cell = client[c].cell
        /\ \A d \in Client : d # c => client'[d] = client[d]
    BY <1>1, <1>5, MoveEffect
  <1>7. OnCell(c)' /\ Loads(c)' /\ Reads(c)' /\ Meets(c)'
    BY <1>1, <1>3, <1>6 DEF OnCell, Loads, Reads, Meets
  <1>8. QED
    BY <1>1, <1>2, <1>3, <1>4, <1>6, <1>7, ClientMoves

\* Alone and not beyond the lookup: nothing is left to say of the checkouts.
LEMMA NobodyInFlight ==
    ASSUME TypeOK', Placed', Quiet', faults'["overlap"] = 0,
           \A d \in Client : client'[d].ph \in Early,
           \A k \in Cell : entry'[k] # 0 => k = cur' /\ row' = [id |-> entry'[k], tier |-> "Live"],
           Claimed', Stages', Kept'
    PROVE  IInv'
  <1>1. Tracked'
    BY DEF Tracked, OnCell, Early
  <1>2. Reading' /\ Loading'
    BY DEF Reading, Loading, Loads, Early
  <1>3. Together'
    BY DEF Together
  <1>4. QED
    BY <1>1, <1>2, <1>3 DEF IInv

\* Stopping a VM does not hurt its data.
LEMMA StopKeepsRow ==
    ASSUME IInv, UNCHANGED <<row, copies, Owed>>,
           \A j \in Vm : vm'[j].data = vm[j].data,
           \A j \in Vm : vm'[j].st = vm[j].st \/ (vm[j].st = "running" /\ vm'[j].st = "stopped")
    PROVE  Kept'
  <1>1. row # NoRow => row.id \in Vm
    BY DEF IInv, TypeOK, Row
  <1>2. CASE row # NoRow /\ row.tier = "Live"
    BY <1>1, <1>2 DEF IInv, Kept, KeptBy, Alive
  <1>3. CASE row = NoRow \/ row.tier # "Live"
    BY <1>3 DEF IInv, Kept, KeptBy, Holds, Missing, Whole, copies
  <1>4. QED
    BY <1>2, <1>3

\* A job that does not move keeps its place while row, copies and Owed do.
LEMMA StagesKeep ==
    ASSUME IInv, UNCHANGED <<row, copies, Owed>>, job'.ph = job.ph, job'.kind = job.kind, job'.vm = job.vm
    PROVE  Stages'
  BY DEF IInv, Stages, Holds, Whole, JobTier, copies

\* Under the map lock: the cell of the map, or a new one.
LEMMA LookupKeeps ==
    ASSUME IInv, NEW c \in Client, Lookup(c)
    PROVE  IInv'
  <1>1. /\ TypeOK /\ client[c].ph = "lookup" /\ Fewer
        /\ UNCHANGED <<row, entry, job, reaped, vm, copies, Owed>>
    BY DEF IInv, Lookup, registry, daemon, history, Owed, Fewer
  <1>2. TypeOK' /\ Placed'
    BY CheckoutTypes DEF IInv
  <1>3. /\ cur' \in Cell
        /\ cur # 0 => cur' = cur
        /\ client'[c].cell = cur'
        /\ client'[c].ph = IF entry[cur'] # 0 THEN "warm" ELSE "cold"
        /\ \A d \in Client : d # c => client'[d] = client[d]
    BY <1>1, LookupEffect
  <1>4. job.ph = "none"
    BY <1>1 DEF IInv, Claimed
  <1>5. OnCell(c)' /\ Loads(c)' /\ Reads(c)' /\ Meets(c)'
    BY <1>1, <1>3 DEF OnCell, Loads, Reads, Meets
  <1>6. CASE cur # 0
    BY <1>1, <1>2, <1>3, <1>4, <1>5, <1>6, ClientMoves
  <1>7. CASE cur = 0
    <2>1. \A d \in Client : d # c => client'[d].ph \in Early /\ client'[d] = client[d]
      BY <1>3, <1>7 DEF IInv, Tracked, OnCell, Placed
    <2>2. \A k \in Cell : entry'[k] = 0
      <3>1. 0 \notin Cell
        BY DEF Cell
      <3>2. QED
        BY <1>1, <1>7, <3>1 DEF IInv, Tracked
    <2>3. Quiet'
      <3>1. faults["overlap"] = 0 =>
                \A e, d \in Client : client'[e].ph # "idle" /\ client'[d].ph # "idle" => e = d
        BY <1>1, <1>3 DEF IInv, Quiet
      <3>2. QED
        BY <1>1, <3>1, QuietKeeps DEF IInv
    <2>4. Tracked'
      <3>1. \A d \in Client : d # c => OnCell(d)'
        BY <2>1 DEF OnCell, Early
      <3>2. \A d \in Client : client'[d].ph \notin {"load", "dispose"}
        BY <1>3, <2>1 DEF Early
      <3>3. QED
        BY <1>5, <2>2, <3>1, <3>2 DEF Tracked
    <2>5. Claimed' /\ Stages' /\ Kept'
      BY <1>1, <1>4, StagesKeep, StopKeepsRow DEF Claimed
    <2>6. Reading' /\ Loading'
      BY <1>5, <2>1 DEF Reading, Loading, Loads, Early
    <2>7. Together'
      <3>1. \A d \in Client : d # c => Meets(d)'
        BY <2>1 DEF Meets, Early
      <3>2. QED
        BY <1>1, <1>5, <2>2, <3>1 DEF IInv, Together, Gone, Fewer
    <2>8. QED
      BY <1>2, <2>3, <2>4, <2>5, <2>6, <2>7 DEF IInv
  <1>8. QED
    BY <1>6, <1>7

\* The probe found the VM dead: only without company.
LEMMA EvictKeeps ==
    ASSUME IInv, NEW c \in Client, Evict(c)
    PROVE  IInv'
  <1>1. /\ TypeOK /\ client[c].ph = "evict" /\ Fewer /\ Entries(cur')
        /\ UNCHANGED <<row, job, reaped, vm, copies, Owed>>
        /\ cur' = IF cur = client[c].cell THEN 0 ELSE cur
        /\ client' = [client EXCEPT ![c] = [Idle EXCEPT !.ph = "check"]]
    BY DEF IInv, Evict, registry, daemon, history, Owed, Fewer
  <1>2. TypeOK' /\ Placed'
    BY CheckoutTypes DEF IInv
  <1>3. client[c].cell = cur /\ job.ph = "none"
    BY <1>1, OnItsCell DEF Early
  <1>4. faults["overlap"] = 0
    BY <1>1 DEF IInv, Together, Meets
  <1>5. \A d \in Client : d # c => client'[d] = client[d] /\ client[d].ph = "idle"
    BY <1>1, <1>4 DEF IInv, Quiet
  <1>6. client'[c].ph = "check"
    BY <1>1 DEF Idle, TypeOK
  <1>7. \A d \in Client : client'[d].ph \in Early /\ client'[d].cell = 0
    BY <1>2, <1>5, <1>6 DEF Early, Placed
  <1>8. \A k \in Cell : entry'[k] = 0
    <2>1. cur' = 0 /\ \A k \in Cell : k # 0
      BY <1>1, <1>3 DEF Cell
    <2>2. QED
      BY <1>1, <1>7, <2>1, EntriesEffect
  <1>9. Quiet'
    <2>1. \A e, d \in Client : client'[e].ph # "idle" /\ client'[d].ph # "idle" => e = d
      BY <1>5
    <2>2. QED
      BY <1>1, <2>1, QuietKeeps DEF IInv
  <1>10. Claimed' /\ Stages' /\ Kept'
    BY <1>1, <1>3, StagesKeep, StopKeepsRow DEF Claimed
  <1>11. QED
    BY <1>1, <1>2, <1>4, <1>7, <1>8, <1>9, <1>10, NobodyInFlight DEF Fewer

\* A bring-up gets its VM: the row's if the row is live, else one that is nobody's data or
\* holds the image.
LEMMA ResolvedKeeps ==
    ASSUME IInv, TypeOK', Placed', NEW c \in Client, CanInit(c),
           NEW r, r.id \in Vm, r.prov \in Provenance, NEW data \in Data, Resolved(c, r, data),
           r.prov = "Existing" => Alive(r.id),
           r.prov # "Existing" => r.id \in Fresh /\ vm[r.id].st = "none",
           IsImage(client[c].restore) => Owed \subseteq data /\ r.prov # "Existing",
           row # NoRow /\ row.tier = "Live" => r.id = row.id /\ r.prov = "Existing",
           UNCHANGED <<row, cur, entry, job, reaped, copies, faults, Owed>>
    PROVE  IInv'
  <1>1. TypeOK /\ client[c].ph = "init" /\ entry[client[c].cell] = 0
    BY DEF IInv, CanInit
  <1>2. client[c].cell = cur /\ client[c].cell \in Cell /\ job.ph = "none" /\ Reads(c)
    BY <1>1, OnItsCell DEF Early
  <1>3. /\ client'[c].ph = "load" /\ client'[c].cell = client[c].cell
        /\ client'[c].known = client[c].known /\ client'[c].restore = client[c].restore
        /\ client'[c].vm = r.id /\ client'[c].prov = r.prov
        /\ \A d \in Client : d # c => client'[d] = client[d]
        /\ Boot(r, data)
    BY <1>1, ResolvedEffect
  <1>4. PICK i \in Vm : i = r.id
    OBVIOUS
  <1>5. /\ \A j \in Vm : j # i => vm'[j] = vm[j]
        /\ vm'[i].st = "running"
        /\ r.prov = "Existing" => vm'[i].data = vm[i].data /\ vm'[i].named = vm[i].named
        /\ r.prov # "Existing" => vm'[i].data = data
    BY <1>1, <1>3, <1>4, BootEffect
  <1>6. 0 \notin Vm /\ \A j \in Vm : vm[j].st = "gone" => vm'[j].st = "gone"
    BY <1>4, <1>5 DEF Alive, Vm
  <1>7. \A d \in Client : d # c => client[d].ph \notin {"load", "dispose"}
    <2>1. SUFFICES ASSUME NEW d \in Client, client[d].ph \in {"load", "dispose"} PROVE FALSE
      OBVIOUS
    <2>2. client[d].cell = cur
      BY <2>1, OnItsCell DEF Early
    <2>3. QED
      BY <1>2, <2>1, <2>2 DEF CanInit, Initialising
  <1>8. Quiet'
    <2>1. faults["overlap"] = 0 =>
              \A e, d \in Client : client'[e].ph # "idle" /\ client'[d].ph # "idle" => e = d
      BY <1>1, <1>3 DEF IInv, Quiet
    <2>2. QED
      BY <2>1, QuietKeeps DEF IInv, Fewer
  <1>9. Tracked'
    <2>1. \A d \in Client : d # c => OnCell(d)'
      BY <1>3 DEF IInv, Tracked, OnCell
    <2>2. OnCell(c)'
      BY <1>1, <1>2, <1>3 DEF OnCell
    <2>3. \A d \in Client : d # c => client'[d].ph \notin {"load", "dispose"}
      BY <1>3, <1>7
    <2>4. QED
      BY <2>1, <2>2, <2>3 DEF IInv, Tracked
  <1>10. Claimed' /\ Stages'
    BY <1>2, StagesKeep DEF Claimed
  <1>11. Kept'
    <2>1. CASE row # NoRow /\ row.tier = "Live"
      <3>1. i = row.id /\ r.prov = "Existing"
        BY <1>4, <2>1
      <3>2. QED
        BY <1>5, <1>6, <2>1, <3>1 DEF IInv, Kept, KeptBy, Alive
    <2>2. CASE row = NoRow \/ row.tier # "Live"
      BY <2>2 DEF IInv, Kept, KeptBy, Holds, Missing, Whole, copies
    <2>3. QED
      BY <2>1, <2>2
  <1>12. Reading'
    <2>1. \A d \in Client : d # c => (client'[d].ph \notin Early => Reads(d)')
      BY <1>3 DEF IInv, Reading, Reads, copies
    <2>2. Reads(c)'
      BY <1>1, <1>2, <1>3 DEF Reads, copies
    <2>3. QED
      BY <2>1, <2>2 DEF Reading
  <1>13. Loading'
    <2>1. \A d \in Client : d # c => Loads(d)'
      BY <1>3, <1>7 DEF Loads
    <2>2. Loads(c)'
      BY <1>3, <1>4, <1>5, <1>6 DEF Loads
    <2>3. QED
      BY <2>1, <2>2 DEF Loading
  <1>14. Together'
    <2> SUFFICES ASSUME faults["overlap"] # 0 PROVE Together'
      BY DEF Together
    <2>1. \A k \in Cell : entry'[k] = 0
      BY <1>1, <1>2 DEF IInv, Tracked
    <2>2. row # NoRow /\ row.tier # "Live" => Gone(row.id)'
      <3>1. row # NoRow => row.id \in Vm
        BY <1>1 DEF TypeOK, Row
      <3>2. QED
        BY <1>2, <1>6, <3>1 DEF IInv, Together, Gone
    <2>3. Named = {} /\ Fresh = {} => Named' = {} /\ Fresh' = {}
      <3> SUFFICES ASSUME Named = {}, Fresh = {} PROVE Named' = {} /\ Fresh' = {}
        OBVIOUS
      <3>1. r.prov = "Existing" /\ Alive(i)
        BY <1>4
      <3>2. vm[i].st # "none" /\ vm[i].named # TRUE
        BY <3>1, <1>6 DEF Named, Alive
      <3>3. \A j \in Vm : (Alive(j) /\ vm[j].named)' => Alive(j) /\ vm[j].named
        BY <1>5, <3>1, <3>2 DEF Alive
      <3>4. \A j \in Vm : vm'[j].st = "none" <=> vm[j].st = "none"
        BY <1>5, <3>2
      <3>5. QED
        BY <3>3, <3>4 DEF Named, Fresh
    <2>4. ASSUME NEW d \in Client, d # c PROVE Meets(d)'
      <3>1. Meets(d) /\ client'[d] = client[d] /\ client[d].known \in Vm \cup {0}
        BY <1>1, <1>3, <2>4, ClientFields DEF IInv, Together, TypeOK
      <3>2. Gone(client[d].known) => Gone(client[d].known)'
        BY <1>6, <3>1 DEF Gone
      <3>3. QED
        BY <1>7, <2>3, <2>4, <3>1, <3>2 DEF Meets
    <2>5. Meets(c)'
      <3>1. Meets(c) /\ client[c].known \in Vm \cup {0}
        BY <1>1, ClientFields DEF IInv, Together, TypeOK
      <3>2. Gone(client[c].known) => Gone(client[c].known)'
        BY <1>3, <1>6, <3>1 DEF Gone
      <3>3. QED
        BY <1>1, <1>3, <1>4, <1>5, <3>1, <3>2 DEF Meets
    <2>6. QED
      BY <2>1, <2>2, <2>4, <2>5 DEF IInv, Together
  <1>15. QED
    BY <1>8, <1>9, <1>10, <1>11, <1>12, <1>13, <1>14 DEF IInv

LEMMA ResolveKeeps ==
    ASSUME IInv, NEW c \in Client, Resolve(c) \/ Materialize(c)
    PROVE  IInv'
  <1>1. TypeOK /\ CanInit(c) /\ client[c].ph = "init" /\ entry[client[c].cell] = 0
        /\ UNCHANGED <<row, cur, entry, job, reaped, copies, faults, Owed>>
    BY DEF IInv, Resolve, Materialize, CanInit, registry, history, Owed
  <1>2. TypeOK' /\ Placed'
    BY ResolveTypes DEF IInv
  <1>3. /\ client[c].known = IF row = NoRow THEN 0 ELSE row.id
        /\ client[c].restore = "none" => row = NoRow \/ row.tier = "Live"
        /\ client[c].restore # "none" =>
               /\ row # NoRow /\ row.tier # "Live"
               /\ Whole(Source(client[c].restore)) \/ Source(client[c].restore) = Absent
    BY <1>1, SourceWhole
  <1>4. CASE Resolve(c)
    <2>1. PICK k : k = IF client[c].restore = "none" THEN client[c].known ELSE 0
      OBVIOUS
    <2>2. PICK r \in resolve_sandbox(k, TRUE) : Resolved(c, r, {})
      BY <1>4, <2>1 DEF Resolve
    <2>3. k \in Vm \cup {0} /\ {} \in Data /\ ~IsImage(client[c].restore)
      BY <1>1, <1>4, <2>1, ClientFields DEF Data, TypeOK, Resolve
    <2>4. /\ r.id \in Vm /\ r.prov \in Provenance
          /\ Alive(k) => r.id = k /\ r.prov = "Existing"
          /\ r.prov = "Existing" => Alive(r.id)
          /\ r.prov # "Existing" => r.id \in Fresh /\ vm[r.id].st = "none"
      <3>1. TypeOK /\ TRUE \in BOOLEAN /\ k \in Vm \cup {0} /\ r \in resolve_sandbox(k, TRUE)
        BY <1>1, <2>2, <2>3
      <3>2. QED
        BY <3>1, ResolvedVm, Zenon
    <2>5. row # NoRow /\ row.tier = "Live" => r.id = row.id /\ r.prov = "Existing"
      <3>1. row # NoRow /\ row.tier = "Live" => k = row.id /\ Alive(k)
        BY <1>3, <2>1 DEF IInv, Kept, KeptBy
      <3>2. QED
        BY <2>4, <3>1
    <2>6. QED
      BY <1>1, <1>2, <2>2, <2>3, <2>4, <2>5, ResolvedKeeps
  <1>5. CASE Materialize(c)
    <2>1. PICK data : data = Source(client[c].restore)
      OBVIOUS
    <2>2. data \in Data /\ IsImage(client[c].restore) /\ client[c].restore # "none"
      BY <1>1, <1>5, <2>1, SourceType DEF Materialize, IsImage
    <2>3. PICK r \in New(TRUE) : Resolved(c, r, data)
      BY <1>5, <2>1 DEF Materialize
    <2>4. r.id \in Vm /\ r.prov \in Provenance /\ r.prov # "Existing" /\ r.id \in Fresh /\ vm[r.id].st = "none"
      BY <2>3, NewVm
    <2>5. Owed \subseteq data /\ row.tier # "Live"
      BY <1>3, <1>5, <2>1, <2>2 DEF Whole, Materialize
    <2>6. QED
      BY <1>1, <1>2, <2>2, <2>3, <2>4, <2>5, ResolvedKeeps
  <1>6. QED
    BY <1>4, <1>5

\* The VM is published to the cell and recorded: it has everything that was committed.
LEMMA LoadKeeps ==
    ASSUME IInv, NEW c \in Client, Load(c)
    PROVE  IInv'
  <1>1. /\ TypeOK /\ client[c].ph = "load" /\ Running(client[c].vm) /\ Move(c, "unlink")
        /\ Put(client[c].vm)
        /\ UNCHANGED <<cur, job, reaped, copies, faults, Owed>>
    BY DEF IInv, Load, history, Owed
  <1>2. TypeOK' /\ Placed'
    BY LoadTypes DEF IInv
  <1>3. client[c].cell = cur /\ client[c].cell \in Cell /\ job.ph = "none"
        /\ entry[client[c].cell] = 0 /\ Loads(c)
    BY <1>1, OnItsCell DEF Early, IInv, Tracked, OnCell, Loading
  <1>4. PICK i \in Vm : i = client[c].vm
    <2>1. client[c].vm \in Vm \cup {0}
      BY <1>1, ClientFields DEF TypeOK
    <2>2. QED
      BY <1>1, <2>1 DEF Running
  <1>5. entry' = [entry EXCEPT ![cur] = i] /\ row' = [id |-> i, tier |-> "Live"] /\ row' # NoRow
    <2>1. entry' = [entry EXCEPT ![cur] = i]
      BY <1>3, <1>4 DEF Load
    <2>2. row' = [id |-> i, tier |-> "Live"]
      BY <1>1, <1>4, PutTypes
    <2>3. [id |-> i, tier |-> "Live"] # NoRow
      BY SpecialValues DEF Tier
    <2>4. QED
      BY <2>1, <2>2, <2>3
  <1>6. entry'[cur] = i /\ i # 0 /\ \A k \in Cell : k # cur => entry'[k] = 0
    BY <1>1, <1>3, <1>5 DEF TypeOK, Vm, IInv, Tracked
  <1>7. "unlink" \in Phase
    BY DEF Phase
  <1>8. /\ client'[c].ph = "unlink" /\ client'[c].cell = client[c].cell
        /\ \A d \in Client : d # c => client'[d] = client[d]
    BY <1>1, <1>7, MoveEffect
  <1>9. \A d \in Client : client'[d].ph \notin {"load", "dispose"}
    BY <1>1, <1>8 DEF IInv, Tracked
  <1>10. \A d \in Client : client'[d].ph \notin Early => client'[d].cell = cur
    BY <1>3, <1>8 DEF IInv, Tracked, OnCell
  <1>11. /\ \A j \in Vm : vm'[j].st = vm[j].st /\ vm'[j].named = vm[j].named
         /\ Owed \subseteq vm'[i].data
    <2>1. vm[i] \in VmState
      BY <1>1 DEF TypeOK
    <2>2. CASE client[c].restore \in {"LocalDump", "S3Dump"}
      <3>1. PICK data : data = Source(client[c].restore)
        OBVIOUS
      <3>2. vm' = [vm EXCEPT ![i] = [vm[i] EXCEPT !.data = data]]
        BY <1>4, <2>2, <3>1 DEF Load
      <3>3. Owed \subseteq data
        BY <1>1, <1>3, <2>2, <3>1, SourceWhole DEF Whole, Load
      <3>4. /\ \A j \in Vm : j # i => vm'[j] = vm[j]
            /\ vm'[i] = [vm[i] EXCEPT !.data = data]
        BY <1>1, <3>2 DEF TypeOK
      <3>5. QED
        BY <2>1, <3>3, <3>4 DEF VmState
    <2>3. CASE client[c].restore \notin {"LocalDump", "S3Dump"}
      <3>1. vm' = vm
        BY <2>3 DEF Load
      <3>2. Owed \subseteq vm[i].data
        <4>1. CASE client[c].restore = "none"
          <5>1. row = NoRow \/ row.tier = "Live"
            BY <1>1, <1>3, <4>1, SourceWhole
          <5>2. QED
            BY <1>1, <1>3, <1>4, <5>1 DEF IInv, Kept, KeptBy, Loads
        <4>2. CASE client[c].restore # "none"
          <5>1. client[c].restore \in Restore
            BY <1>1, ClientFields DEF TypeOK
          <5>2. IsImage(client[c].restore)
            BY <2>3, <4>2, <5>1 DEF Restore, IsImage
          <5>3. QED
            BY <1>1, <1>3, <1>4, <5>2 DEF Loads
        <4>3. QED
          BY <4>1, <4>2
      <3>3. QED
        BY <3>1, <3>2
    <2>4. QED
      BY <2>2, <2>3
  <1>12. Quiet'
    <2>1. faults["overlap"] = 0 =>
              \A e, d \in Client : client'[e].ph # "idle" /\ client'[d].ph # "idle" => e = d
      BY <1>1, <1>8 DEF IInv, Quiet
    <2>2. QED
      BY <1>1, <2>1, QuietKeeps DEF IInv, Fewer
  <1>13. Tracked'
    <2>1. \A d \in Client : OnCell(d)'
      BY <1>1, <1>6, <1>9, <1>10 DEF OnCell, Early
    <2>2. \A k \in Cell : entry'[k] # 0 => k = cur' /\ row' = [id |-> entry'[k], tier |-> "Live"]
      BY <1>1, <1>5, <1>6
    <2>3. QED
      BY <1>9, <2>1, <2>2 DEF Tracked
  <1>14. Claimed'
    BY <1>1, <1>3 DEF Claimed
  <1>15. Stages'
    BY <1>1, <1>3 DEF Stages
  <1>16. Kept'
    <2>1. Alive(i)'
      BY <1>1, <1>4, <1>6, <1>11 DEF Running, Alive
    <2>2. row'.tier = "Live" /\ row'.id = i
      BY <1>5
    <2>3. QED
      BY <1>1, <1>5, <1>11, <2>1, <2>2 DEF Kept, KeptBy
  <1>17. Reading'
    BY <1>6, <1>10 DEF Reading, Reads
  <1>18. Loading'
    BY <1>9 DEF Loading, Loads
  <1>19. Together'
    <2> SUFFICES ASSUME faults["overlap"] # 0 PROVE Together'
      BY <1>1 DEF Together
    <2>1. Named' = Named /\ Fresh' = Fresh
      BY <1>11 DEF Named, Fresh, Alive
    <2>2. \A j \in Vm \cup {0} : Gone(j) => Gone(j)'
      BY <1>11 DEF Gone
    <2>3. \A d \in Client : d # c => Meets(d)'
      <3> SUFFICES ASSUME NEW d \in Client, d # c PROVE Meets(d)'
        OBVIOUS
      <3>1. Meets(d) /\ client'[d] = client[d] /\ client[d].known \in Vm \cup {0}
        BY <1>1, <1>8, ClientFields DEF IInv, Together, TypeOK
      <3>2. Gone(client[d].known) => Gone(client[d].known)'
        BY <1>11, <3>1 DEF Gone
      <3>3. QED
        BY <1>9, <2>1, <3>1, <3>2 DEF Meets
    <2>4. Meets(c)'
      BY <1>8 DEF Meets
    <2>5. vm'[i].st = "running"
      BY <1>1, <1>4, <1>11 DEF Running
    <2>6. row'.tier = "Live"
      BY <1>5
    <2>7. QED
      BY <1>1, <1>6, <2>3, <2>4, <2>5, <2>6 DEF IInv, Together
  <1>20. QED
    BY <1>2, <1>12, <1>13, <1>14, <1>15, <1>16, <1>17, <1>18, <1>19 DEF IInv

\* The file a schema was thawed from is removed: the row is live by then.
LEMMA UnlinkKeeps ==
    ASSUME IInv, NEW c \in Client, Unlink(c)
    PROVE  IInv'
  <1>1. TypeOK /\ Placed
    BY DEF IInv
  <1>2. /\ client[c].ph = "unlink"
        /\ client'[c].ph = "admit" /\ client'[c].cell = client[c].cell
        /\ \A d \in Client : d # c => client'[d] = client[d]
        /\ Fewer
        /\ UNCHANGED <<row, cur, entry, job, reaped, vm, s3dump, s3img, Owed>>
    BY <1>1, UnlinkEffect DEF Fewer, registry, daemon, history, Owed
  <1>3. TypeOK' /\ Placed'
    BY <1>1, UnlinkTypes
  <1>4. client[c].cell = cur /\ cur \in Cell /\ job.ph = "none" /\ entry[cur] # 0
    BY <1>2, OnItsCell DEF Early, IInv, Tracked, OnCell
  <1>5. row = [id |-> entry[cur], tier |-> "Live"] /\ row.tier = "Live"
    BY <1>4 DEF IInv, Tracked
  <1>6. row # NoRow
    BY <1>1, <1>4, <1>5, SpecialValues DEF TypeOK, Tier
  <1>7. Quiet'
    <2>1. faults["overlap"] = 0 =>
              \A e, d \in Client : client'[e].ph # "idle" /\ client'[d].ph # "idle" => e = d
      BY <1>2 DEF IInv, Quiet
    <2>2. QED
      BY <1>2, <2>1, QuietKeeps DEF IInv
  <1>8. Tracked'
    <2>1. \A d \in Client : OnCell(d)'
      BY <1>2, <1>4 DEF IInv, Tracked, OnCell
    <2>2. \A d, e \in Client :
              client'[d].ph \in {"load", "dispose"} /\ client'[e].ph \in {"load", "dispose"} => d = e
      BY <1>2 DEF IInv, Tracked
    <2>3. QED
      BY <1>2, <2>1, <2>2 DEF IInv, Tracked
  <1>9. Claimed' /\ Stages'
    BY <1>2, <1>4 DEF Claimed, Stages
  <1>10. Kept'
    BY <1>2, <1>5, <1>6 DEF IInv, Kept, KeptBy, Alive
  <1>11. Reading'
    BY <1>2, <1>4, <1>8 DEF Reading, Reads, Tracked, OnCell
  <1>12. Loading'
    <2>1. \A d \in Client : d # c => Loads(d)'
      BY <1>2 DEF IInv, Loading, Loads
    <2>2. Loads(c)'
      BY <1>2 DEF Loads
    <2>3. QED
      BY <2>1, <2>2 DEF Loading
  <1>13. Together'
    <2>1. Named' = Named /\ Fresh' = Fresh
      BY <1>2 DEF Named, Fresh, Alive
    <2>2. \A d \in Client : d # c /\ faults["overlap"] # 0 => Meets(d)'
      BY <1>2, <2>1 DEF IInv, Together, Meets, Gone
    <2>3. Meets(c)'
      BY <1>2 DEF Meets
    <2>4. QED
      BY <1>2, <2>2, <2>3 DEF IInv, Together, Gone, Fewer
  <1>14. QED
    BY <1>3, <1>7, <1>8, <1>9, <1>10, <1>11, <1>12, <1>13 DEF IInv

\* A VM that a failed bring-up made or claimed is killed: it is not the row's.
LEMMA DisposeKeeps ==
    ASSUME IInv, NEW c \in Client, Dispose(c)
    PROVE  IInv'
  <1>1. /\ TypeOK /\ Placed /\ client[c].ph = "dispose" /\ Fewer
        /\ UNCHANGED <<row, cur, entry, job, reaped, copies, Owed, faults>>
    BY DEF IInv, Dispose, registry, history, Owed, Fewer
  <1>2. TypeOK' /\ Placed'
    BY <1>1, DisposeTypes
  <1>3. client[c].cell = cur /\ job.ph = "none"
    BY <1>1, OnItsCell DEF Early
  <1>4. faults["overlap"] = 0
    BY <1>1 DEF IInv, Together, Meets
  <1>5. \A d \in Client : d # c => client[d].ph = "idle"
    BY <1>1, <1>4 DEF IInv, Quiet
  <1>6. client'[c].ph = "cleanup" /\ client'[c].cell = client[c].cell
        /\ \A d \in Client : d # c => client'[d].ph = "idle"
    <2>1. PICK cl : cl = [client EXCEPT ![c].ph = "cleanup"]
      OBVIOUS
    <2>2. client[c] \in ClientState /\ "cleanup" \in Phase
      BY <1>1 DEF TypeOK, Phase
    <2>3. cl \in [Client -> ClientState] /\ cl[c].ph = "cleanup" /\ cl[c].cell = client[c].cell
          /\ \A d \in Client : d # c => cl[d] = client[d]
      <3>1. [client[c] EXCEPT !.ph = "cleanup"] \in ClientState
        BY <2>2, ClientFields
      <3>2. QED
        BY <1>1, <2>1, <2>2, <3>1 DEF TypeOK, ClientState
    <2>4. PICK i : i = client[c].vm
      OBVIOUS
    <2>5. client' = Broken(cl, i)
      BY <2>1, <2>4 DEF Dispose, Kill
    <2>6. \A d \in Client : client'[d].cell = cl[d].cell
              /\ (client'[d].ph = cl[d].ph \/ (cl[d].ph = "serving" /\ client'[d].ph = "broken"))
      BY <2>3, <2>5, BrokenEffect
    <2>7. QED
      BY <1>5, <2>3, <2>6
  <1>7. Quiet'
    <2>1. \A e, d \in Client : client'[e].ph # "idle" /\ client'[d].ph # "idle" => e = d
      BY <1>6
    <2>2. QED
      BY <1>1, <2>1, QuietKeeps DEF IInv
  <1>8. Tracked'
    <2>1. \A d \in Client : OnCell(d)'
      BY <1>1, <1>3, <1>6 DEF OnCell, Early
    <2>2. \A d \in Client : client'[d].ph \notin {"load", "dispose"}
      BY <1>6
    <2>3. QED
      BY <1>1, <2>1, <2>2 DEF IInv, Tracked
  <1>9. Claimed' /\ Stages'
    BY <1>1, <1>3 DEF Claimed, Stages
  <1>10. row = NoRow \/ row.tier # "Live"
    BY <1>1 DEF IInv, Loading, Loads
  <1>11. Kept'
    BY <1>1, <1>10 DEF IInv, Kept, KeptBy, Holds, Missing, Whole, copies
  <1>12. Reading' /\ Loading'
    BY <1>6 DEF Reading, Reads, Loading, Loads, Early
  <1>13. Together'
    BY <1>1, <1>4 DEF Together
  <1>14. QED
    BY <1>2, <1>7, <1>8, <1>9, <1>11, <1>12, <1>13 DEF IInv

\* The VM behind a failed bring-up is stopped: with company it is gone already.
LEMMA CleanupKeeps ==
    ASSUME IInv, NEW c \in Client, Cleanup(c)
    PROVE  IInv'
  <1>1. /\ TypeOK /\ Placed /\ Tracked /\ client[c].ph = "cleanup" /\ Fewer /\ Entries(cur)
        /\ UNCHANGED <<row, cur, job, reaped, copies, Owed, faults>>
    BY DEF IInv, Cleanup, registry, history, Owed, Fewer
  <1>2. TypeOK' /\ Placed'
    BY <1>1, CleanupTypes
  <1>3. entry' = entry
    BY <1>1, EntriesKept
  <1>4. client[c].cell = cur /\ job.ph = "none"
    BY <1>1, OnItsCell DEF Early
  <1>5. PICK cl : cl = [client EXCEPT ![c] = Idle]
    OBVIOUS
  <1>6. cl \in [Client -> ClientState] /\ cl[c] = Idle /\ \A d \in Client : d # c => cl[d] = client[d]
    BY <1>1, <1>5, IdleState DEF TypeOK
  <1>7. PICK i \in Leaked(client[c].known) : Stop(i, cl)
    BY <1>5 DEF Cleanup
  <1>8. i \in Vm \cup {0}
    <2>1. client[c].known \in Vm \cup {0} /\ Named \subseteq Vm
      BY <1>1, ClientFields DEF TypeOK, Named
    <2>2. QED
      BY <1>7, <2>1 DEF Leaked
  <1>9. /\ client' = Broken(cl, i)
        /\ \A j \in Vm : vm'[j].data = vm[j].data
        /\ \A j \in Vm : vm'[j].st = vm[j].st \/ (vm[j].st = "running" /\ vm'[j].st = "stopped")
    BY <1>1, <1>7, <1>8, StopEffect
  <1>10. client'[c].ph = "idle"
    BY <1>6, <1>9, BrokenEffect, IdleFields
  <1>11. CASE faults["overlap"] # 0
    <2>1. Gone(client[c].known) \/ (client[c].known = 0 /\ Named = {})
      BY <1>1, <1>11 DEF IInv, Together, Meets
    <2>2. i = 0 \/ Gone(i)
      BY <1>7, <2>1 DEF Leaked, Gone
    <2>3. ~Running(i)
      BY <2>2 DEF Running, Gone
    <2>4. vm' = vm
      BY <1>7, <2>3 DEF Stop
    <2>5. ASSUME NEW d \in Client, cl[d].ph = "serving"
          PROVE  entry[cl[d].cell] # i
      <3>1. d # c /\ cl[d] = client[d]
        BY <1>6, <2>5, IdleFields
      <3>2. client[d].ph = "serving" /\ client[d].ph \notin Early
        BY <2>5, <3>1 DEF Early
      <3>3. client[d].cell \in Cell /\ entry[client[d].cell] # 0
        BY <3>2, OnItsCell DEF IInv, Tracked, OnCell
      <3>4. vm[entry[client[d].cell]].st = "running"
        BY <1>11, <3>3 DEF IInv, Together
      <3>5. QED
        BY <2>2, <3>1, <3>3, <3>4 DEF Gone
    <2>6. \A d \in Client : d # c => client'[d] = client[d]
      BY <1>6, <1>9, <2>5 DEF Broken
    <2>7. OnCell(c)' /\ Loads(c)' /\ Meets(c)' /\ client'[c].ph \in Early
      BY <1>10 DEF OnCell, Loads, Meets, Early
    <2>8. QED
      BY <1>1, <1>2, <1>3, <1>4, <1>10, <2>4, <2>6, <2>7, ClientMoves
  <1>12. CASE faults["overlap"] = 0
    <2>1. \A d \in Client : d # c => cl[d].ph = "idle"
      BY <1>1, <1>6, <1>12 DEF IInv, Quiet
    <2>2. \A d \in Client : client'[d].ph = "idle"
      BY <1>6, <1>9, <1>10, <2>1, BrokenEffect
    <2>3. Quiet'
      BY <1>1, <2>2, QuietKeeps DEF IInv
    <2>4. Claimed' /\ Stages' /\ Kept'
      BY <1>1, <1>4, <1>9, StagesKeep, StopKeepsRow DEF Claimed
    <2>5. \A k \in Cell : entry'[k] # 0 => k = cur' /\ row' = [id |-> entry'[k], tier |-> "Live"]
      BY <1>1, <1>3 DEF Tracked
    <2>6. QED
      BY <1>1, <1>2, <1>12, <2>2, <2>3, <2>4, <2>5, NobodyInFlight DEF Early
  <1>13. QED
    BY <1>11, <1>12

\* A transaction commits in the VM the row leads to.
LEMMA CommitKeeps ==
    ASSUME IInv, NEW c \in Client, CommitTx(c), Owed' \subseteq Owed \cup vm'[row.id].data
    PROVE  IInv'
  <1>1. TypeOK /\ Placed
    BY DEF IInv
  <1>2. /\ client[c].ph = "serving" /\ Fewer
        /\ \A j \in Vm : vm'[j].st = vm[j].st /\ vm'[j].named = vm[j].named
        /\ UNCHANGED <<row, cur, entry, client, job, reaped, copies, faults>>
    BY <1>1, CommitEffect DEF registry, map, Fewer
  <1>3. TypeOK' /\ Placed'
    BY <1>1, CommitTypes
  <1>4. client[c].cell = cur /\ cur \in Cell /\ entry[cur] # 0 /\ entry[cur] \in Vm
    BY <1>2, OnItsCell DEF Early, IInv, Tracked, OnCell
  <1>5. row = [id |-> entry[cur], tier |-> "Live"] /\ row.id = entry[cur] /\ row.tier = "Live"
    BY <1>4 DEF IInv, Tracked
  <1>6. row # NoRow
    BY <1>4, <1>5, SpecialValues DEF Tier
  <1>7. job.ph \in {"none", "evict"}
    BY <1>4 DEF IInv, Claimed
  <1>8. Owed \subseteq vm[row.id].data /\ vm[row.id].data \subseteq vm'[row.id].data
    BY <1>1, <1>4, <1>5, <1>6, CommitEffect DEF IInv, Kept, KeptBy
  <1>9. Quiet' /\ Tracked' /\ Claimed'
    BY <1>2 DEF IInv, Quiet, Tracked, OnCell, Claimed
  <1>10. Stages'
    BY <1>2, <1>7 DEF IInv, Stages, From
  <1>11. Kept'
    BY <1>2, <1>4, <1>5, <1>6, <1>8 DEF IInv, Kept, KeptBy, Alive
  <1>12. Reading'
    BY <1>2 DEF IInv, Reading, Reads, copies
  <1>13. Loading'
    <2>1. \A d \in Client : client[d].ph \notin {"load", "dispose"}
      BY <1>4 DEF IInv, Tracked, OnCell, Early
    <2>2. QED
      BY <1>2, <2>1 DEF Loading, Loads
  <1>14. Together'
    <2>1. Named' = Named /\ Fresh' = Fresh
      BY <1>2 DEF Named, Fresh, Alive
    <2>2. \A j \in Vm : Gone(j)' = Gone(j)
      BY <1>2 DEF Gone
    <2>3. ASSUME NEW d \in Client, Meets(d) PROVE Meets(d)'
      <3>1. client[d].known \in Vm \cup {0} /\ client[d].vm \in Vm \cup {0}
        BY <1>1, ClientFields DEF TypeOK
      <3>2. Gone(client[d].known)' = Gone(client[d].known)
        BY <1>2, <3>1 DEF Gone
      <3>3. client[d].ph = "load" => client[d].vm \in Vm
        BY <3>1 DEF IInv, Loading, Loads
      <3>4. QED
        BY <1>2, <2>1, <2>3, <3>2, <3>3 DEF Meets
    <2>4. \A k \in Cell : entry[k] \in Vm \cup {0}
      BY <1>1 DEF TypeOK
    <2>5. QED
      BY <1>2, <1>5, <2>3, <2>4 DEF IInv, Together
  <1>15. QED
    BY <1>3, <1>9, <1>10, <1>11, <1>12, <1>13, <1>14 DEF IInv

\* The idle reaper, which only runs without company: the cell it takes is nobody's.
LEMMA ReapKeeps ==
    ASSUME IInv, ReapEvict \/ ReapStop
    PROVE  IInv'
  <1>1. TypeOK /\ Placed
    BY DEF IInv
  <1>2. TypeOK' /\ Placed'
    BY <1>1, ReapTypes
  <1>3. CASE ReapEvict
    <2>1. /\ Spend("reap") /\ cur # 0 /\ Active(cur) = {} /\ Recent(cur) = {} /\ cur' = 0
          /\ Entries(0)
          /\ UNCHANGED <<row, client, job, vm, copies, Owed>>
      BY <1>3 DEF ReapEvict, registry, daemon, history, Owed
    <2>2. Fewer /\ faults["overlap"] = 0
      <3>1. "reap" \in Fault /\ "reap" # "overlap"
        BY DEF Fault
      <3>2. Fewer /\ faults["reap"] # 0
        BY <1>1, <2>1, <3>1, SpendFewer
      <3>3. QED
        BY <3>2 DEF IInv, Quiet
    <2>3. \A d \in Client : client'[d].ph \in Early /\ client'[d].cell = 0
      <3>1. \A d \in Client : client[d].cell # cur
        BY <2>1 DEF Active, Recent
      <3>2. QED
        BY <2>1, <3>1 DEF IInv, Tracked, OnCell, Placed
    <2>4. \A k \in Cell : entry'[k] = 0
      <3>1. \A k \in Cell : k # 0
        BY DEF Cell
      <3>2. QED
        BY <1>1, <2>1, <2>3, <3>1, EntriesEffect
    <2>5. Quiet'
      <3>1. \A e, d \in Client : client'[e].ph # "idle" /\ client'[d].ph # "idle" => e = d
        BY <2>1, <2>2 DEF IInv, Quiet
      <3>2. QED
        BY <2>2, <3>1, QuietKeeps DEF IInv
    <2>6. Claimed'
      BY <2>1, <2>4 DEF IInv, Claimed
    <2>7. Stages' /\ Kept'
      BY <2>1, StagesKeep, StopKeepsRow
    <2>8. QED
      BY <1>2, <2>2, <2>3, <2>4, <2>5, <2>6, <2>7, NobodyInFlight DEF Fewer
  <1>4. CASE ReapStop
    <2>1. PICK i \in Vm \cup {0} : i = reaped
      BY <1>1 DEF TypeOK
    <2>2. /\ Stop(i, client) /\ i # 0 /\ Fewer
          /\ UNCHANGED <<row, cur, entry, job, copies, Owed, faults>>
      BY <1>4, <2>1 DEF ReapStop, registry, history, Owed, Fewer
    <2>3. faults["overlap"] = 0
      BY <2>1, <2>2 DEF IInv, Together
    <2>4. /\ client' = Broken(client, i)
          /\ \A j \in Vm : vm'[j].data = vm[j].data
          /\ \A j \in Vm : vm'[j].st = vm[j].st \/ (vm[j].st = "running" /\ vm'[j].st = "stopped")
      BY <1>1, <2>2, StopEffect
    <2>5. \A d \in Client :
              /\ client'[d].cell = client[d].cell /\ client'[d].known = client[d].known
              /\ client'[d].restore = client[d].restore
              /\ client'[d].vm = client[d].vm /\ client'[d].prov = client[d].prov
              /\ client'[d].ph = client[d].ph \/ (client[d].ph = "serving" /\ client'[d].ph = "broken")
      BY <1>1, <2>4, BrokenEffect DEF TypeOK
    <2>6. Quiet'
      <3>1. \A e, d \in Client : client'[e].ph # "idle" /\ client'[d].ph # "idle" => e = d
        BY <2>3, <2>5 DEF IInv, Quiet
      <3>2. QED
        BY <2>2, <3>1, QuietKeeps DEF IInv
    <2>7. Tracked'
      <3>1. \A d \in Client : OnCell(d)'
        BY <2>2, <2>5 DEF IInv, Tracked, OnCell, Early
      <3>2. \A d, e \in Client :
                client'[d].ph \in {"load", "dispose"} /\ client'[e].ph \in {"load", "dispose"} => d = e
        BY <2>5 DEF IInv, Tracked
      <3>3. QED
        BY <2>2, <3>1, <3>2 DEF IInv, Tracked
    <2>8. Claimed'
      BY <2>2, <2>5 DEF IInv, Claimed
    <2>9. Stages' /\ Kept'
      BY <2>2, <2>4, StagesKeep, StopKeepsRow
    <2>10. Reading'
      <3>1. ASSUME NEW d \in Client, client'[d].ph \notin Early
            PROVE  Reads(d)'
        <4>1. Reads(d)
          BY <2>5, <3>1 DEF IInv, Reading, Early
        <4>2. QED
          BY <2>2, <2>5, <4>1 DEF Reads, copies
      <3>2. QED
        BY <3>1 DEF Reading
    <2>11. Loading'
      <3>1. ASSUME NEW d \in Client PROVE Loads(d)'
        <4>1. Loads(d)
          BY DEF IInv, Loading
        <4>2. client[d].ph = "load" => client[d].vm \in Vm
          BY <1>1, <4>1, ClientFields DEF Loads, TypeOK
        <4>3. QED
          BY <2>2, <2>4, <2>5, <4>1, <4>2 DEF Loads
      <3>2. QED
        BY <3>1 DEF Loading
    <2>12. Together'
      BY <2>2, <2>3 DEF Together
    <2>13. QED
      BY <1>2, <2>6, <2>7, <2>8, <2>9, <2>10, <2>11, <2>12 DEF IInv
  <1>5. QED
    BY <1>3, <1>4

\* An empty map and nobody beyond the poll: what is left to show of a job's step.
LEMMA NobodyServed ==
    ASSUME IInv, TypeOK', Placed', Fewer, reaped' = reaped,
           \A k \in Cell : entry'[k] = 0,
           \A d \in Client : client[d].ph \in {"idle", "check"} /\ client'[d].ph = client[d].ph,
           Stages', Kept',
           faults["overlap"] # 0 /\ row' # NoRow /\ row'.tier # "Live"
               /\ (job'.ph \in {"await", "kill"} => job'.kind \in Promotion) => Gone(row.id)'
    PROVE  IInv'
  <1>1. Quiet'
    <2>1. faults["overlap"] = 0 =>
              \A e, d \in Client : client'[e].ph # "idle" /\ client'[d].ph # "idle" => e = d
      BY DEF IInv, Quiet
    <2>2. QED
      BY <2>1, QuietKeeps DEF IInv
  <1>2. Tracked'
    BY DEF Tracked, OnCell, Early
  <1>3. Claimed'
    BY DEF Claimed
  <1>4. Reading' /\ Loading'
    BY DEF Reading, Loading, Loads, Early
  <1>5. Together'
    <2>1. \A d \in Client : Meets(d)'
      BY DEF Meets
    <2>2. faults'["overlap"] # 0 => faults["overlap"] # 0 /\ reaped' = 0
      BY DEF IInv, Together, Fewer
    <2>3. QED
      BY <2>1, <2>2 DEF Together
  <1>6. QED
    BY <1>1, <1>2, <1>3, <1>4, <1>5 DEF IInv

\* A job past its eviction has the schema to itself.
LEMMA JobMoves ==
    ASSUME IInv, TypeOK', Placed', Fewer, job.ph \notin {"none", "evict"},
           UNCHANGED <<cur, entry, reaped>>,
           \A d \in Client : client'[d].ph = client[d].ph \/ client[d].ph = "serving",
           Stages', Kept',
           faults["overlap"] # 0 /\ row' # NoRow /\ row'.tier # "Live"
               /\ (job'.ph \in {"await", "kill"} => job'.kind \in Promotion) => Gone(row.id)'
    PROVE  IInv'
  <1>1. \A k \in Cell : entry[k] = 0
    BY DEF IInv, Claimed
  <1>2. \A d \in Client : client[d].ph \in {"idle", "check"}
    BY <1>1, Deserted
  <1>3. QED
    BY <1>1, <1>2, NobodyServed

\* Nothing but the job changes, and what is owed.
LEMMA JobAlone ==
    ASSUME IInv, TypeOK', Placed', Fewer,
           UNCHANGED <<row, cur, entry, client, reaped, vm, copies>>,
           Claimed', Stages', Kept', Loading',
           job.ph \in {"await", "kill"} => job'.ph = job.ph /\ job'.kind = job.kind
    PROVE  IInv'
  <1>1. Quiet'
    <2>1. faults["overlap"] = 0 =>
              \A e, d \in Client : client'[e].ph # "idle" /\ client'[d].ph # "idle" => e = d
      BY DEF IInv, Quiet
    <2>2. QED
      BY <2>1, QuietKeeps DEF IInv
  <1>2. Tracked'
    BY DEF IInv, Tracked, OnCell
  <1>3. Reading'
    BY DEF IInv, Reading, Reads, copies
  <1>4. Together'
    <2>1. Named' = Named /\ Fresh' = Fresh
      BY DEF Named, Fresh, Alive
    <2>2. \A d \in Client : faults["overlap"] # 0 => Meets(d)'
      BY <2>1 DEF IInv, Together, Meets, Gone
    <2>3. QED
      BY <2>2 DEF IInv, Together, Gone, Fewer
  <1>5. QED
    BY <1>1, <1>2, <1>3, <1>4 DEF IInv

LEMMA JobOnly ==
    ASSUME IInv, TypeOK', Placed', Fewer,
           UNCHANGED <<row, cur, entry, client, reaped, vm, copies, Owed>>,
           Claimed', Stages', job.ph \in {"await", "kill"} => job'.ph = job.ph /\ job'.kind = job.kind
    PROVE  IInv'
  <1>1. Kept'
    BY StopKeepsRow
  <1>2. Loading'
    BY DEF IInv, Loading, Loads
  <1>3. QED
    BY <1>1, <1>2, JobAlone

LEMMA JobTo ==
    ASSUME TypeOK, NEW p \in JobPhase, job' = [job EXCEPT !.ph = p]
    PROVE  job'.ph = p /\ job'.kind = job.kind /\ job'.vm = job.vm
  BY DEF TypeOK, JobState

LEMMA JobDone ==
    ASSUME job' = NoJob
    PROVE  job'.ph = "none" /\ Stages'
  BY DEF NoJob, Stages

\* The claim, and the refusal of a schema in use.
LEMMA ClaimKeeps ==
    ASSUME IInv, (\E kind \in Kind : JobClaim(kind)) \/ JobRefuse
    PROVE  IInv'
  <1>1. TypeOK /\ Placed
    BY DEF IInv
  <1>2. TypeOK' /\ Placed'
    BY <1>1, BareJobTypes
  <1>3. Fewer /\ UNCHANGED <<row, cur, entry, client, reaped, vm, copies, Owed>>
    BY DEF JobClaim, JobRefuse, registry, map, daemon, history, Owed, Fewer
  <1>4. CASE JobRefuse
    <2>1. job.ph = "evict" /\ job' = NoJob
      BY <1>4 DEF JobRefuse
    <2>2. job'.ph = "none" /\ Stages'
      BY <2>1, JobDone
    <2>3. Claimed'
      BY <2>2 DEF Claimed
    <2>4. QED
      BY <1>2, <1>3, <2>1, <2>2, <2>3, JobOnly
  <1>5. ASSUME NEW kind \in Kind, JobClaim(kind)
        PROVE  IInv'
    <2>1. /\ job.ph = "none" /\ row # NoRow /\ InFlight = {} /\ row.tier = From(kind)
      BY <1>5 DEF JobClaim, From, IInv, Quiet
    <2>2. PICK p \in {"promote", "evict"} :
              /\ job' = [NoJob EXCEPT !.kind = kind, !.ph = p]
              /\ p = "promote" <=> kind \in Promotion
      BY <1>5 DEF JobClaim, Promotion
    <2>3. job'.ph = p /\ job'.kind = kind
      BY <2>2 DEF NoJob
    <2>4. Claimed'
      <3>1. \A d \in Client : client[d].ph \in {"idle", "serving", "broken"}
        BY <2>1 DEF InFlight
      <3>2. p = "promote" => \A k \in Cell : entry[k] = 0
        BY <2>1, <2>2 DEF IInv, Tracked, From, Promotion
      <3>3. QED
        BY <1>3, <2>3, <3>1, <3>2 DEF Claimed
    <2>5. Stages'
      BY <1>3, <2>1, <2>2, <2>3 DEF Stages
    <2>6. QED
      BY <1>2, <1>3, <2>1, <2>4, <2>5, JobOnly
  <1>6. QED
    BY <1>4, <1>5

\* A job takes the cell out of the map: it is nobody's, and its VM keeps its data.
LEMMA JobEvictKeeps ==
    ASSUME IInv, JobEvict
    PROVE  IInv'
  <1>1. TypeOK /\ Placed
    BY DEF IInv
  <1>2. TypeOK' /\ Placed'
    BY <1>1, StoppingJobTypes
  <1>3. /\ job.ph = "evict" /\ ~Refused /\ row # NoRow /\ Fewer /\ Entries(0) /\ cur' = 0
        /\ UNCHANGED <<row, reaped, copies, Owed>>
        /\ job'.vm = row.id /\ job'.kind = job.kind
        /\ job'.ph = CASE job.kind = "compact" -> "compact"
                       [] job.kind = "image" -> "image"
                       [] OTHER -> "boot"
        /\ \A j \in Vm : vm'[j].data = vm[j].data
        /\ \A j \in Vm : vm'[j].st = vm[j].st \/ (vm[j].st = "running" /\ vm'[j].st = "stopped")
        /\ \A d \in Client :
               /\ client'[d].cell = client[d].cell
               /\ client'[d].ph = client[d].ph \/ (client[d].ph = "serving" /\ client'[d].ph = "broken")
    BY <1>1, EvictEffect DEF registry, history, Owed, Fewer, Placed
  <1>4. row.tier = "Live" /\ job.kind \notin Promotion /\ job.kind \in Kind
    BY <1>1, <1>3, JobFields DEF IInv, Stages, From, Promotion, TypeOK
  <1>5. \A d \in Client : client[d].ph \in {"idle", "check"}
    <2>1. SUFFICES ASSUME NEW d \in Client, client[d].ph \in {"serving", "broken"}
                   PROVE  FALSE
      BY <1>3 DEF IInv, Claimed
    <2>2. client[d].cell = cur /\ cur \in Cell /\ entry[cur] # 0
      BY <2>1, OnItsCell DEF Early, IInv, Tracked, OnCell
    <2>3. cur # 0 /\ d \in Active(cur)
      BY <2>1, <2>2 DEF Cell, Active, Guard
    <2>4. QED
      BY <1>3, <2>2, <2>3 DEF Refused
  <1>6. \A d \in Client : client'[d].ph = client[d].ph /\ client'[d].cell = 0
    BY <1>2, <1>3, <1>5 DEF Placed, Early
  <1>7. \A k \in Cell : entry'[k] = 0
    <2>1. \A k \in Cell : k # 0
      BY DEF Cell
    <2>2. QED
      BY <1>1, <1>3, <1>6, <2>1, EntriesEffect
  <1>8. Kept'
    BY <1>3, StopKeepsRow
  <1>9. Stages'
    <2>1. job'.ph \in {"compact", "image", "boot"} /\ job'.kind \in {"archive", "freeze", "compact", "image"}
      BY <1>3, <1>4 DEF Kind, Promotion
    <2>2. job'.ph = "compact" <=> job'.kind = "compact"
      BY <1>3
    <2>3. job'.ph = "image" <=> job'.kind = "image"
      BY <1>3
    <2>4. QED
      BY <1>3, <1>4, <2>1, <2>2, <2>3 DEF Stages, From, Promotion
  <1>10. QED
    BY <1>2, <1>3, <1>4, <1>5, <1>6, <1>7, <1>8, <1>9, NobodyServed

\* A job finds the row's VM, which is there, by its id.
LEMMA JobBootKeeps ==
    ASSUME IInv, JobBoot
    PROVE  IInv'
  <1>1. TypeOK /\ Placed
    BY DEF IInv
  <1>2. TypeOK' /\ Placed'
    BY <1>1, JobBootTypes
  <1>3. /\ job.ph = "boot" /\ row # NoRow /\ Fewer
        /\ UNCHANGED <<row, cur, entry, client, reaped, copies, Owed>>
    BY <1>1 DEF JobBoot, Placed, registry, map, history, Owed, Fewer
  <1>4. job.vm = row.id /\ row.id \in Vm /\ row.tier = "Live" /\ job.kind \in {"archive", "freeze"}
    BY <1>1, <1>3 DEF IInv, Stages, From, Promotion, TypeOK, Row
  <1>5. Alive(row.id) /\ Owed \subseteq vm[row.id].data
    BY <1>3, <1>4 DEF IInv, Kept, KeptBy
  <1>6. PICK k \in Vm \cup {0} : k = job.vm
    BY <1>4
  <1>7. PICK r \in resolve_sandbox(k, FALSE) :
            Boot(r, {}) /\ job' = [job EXCEPT !.vm = r.id, !.ph = "dump"]
    BY <1>6 DEF JobBoot
  <1>8. r.id \in Vm /\ r.prov \in Provenance /\ (Alive(k) => r.id = k /\ r.prov = "Existing")
    BY <1>1, ResolvedVm, Zenon
  <1>9. r.id = row.id /\ r.prov = "Existing"
    BY <1>4, <1>5, <1>6, <1>8
  <1>10. /\ job'.ph = "dump" /\ job'.vm = row.id /\ job'.kind = job.kind
         /\ vm'[row.id].st = "running" /\ vm'[row.id].data = vm[row.id].data
    BY <1>1, <1>7, <1>8, <1>9, JobBootEffect
  <1>11. Stages'
    BY <1>3, <1>4, <1>10 DEF Stages, From, Promotion
  <1>12. Kept'
    BY <1>3, <1>4, <1>5, <1>10 DEF Kept, KeptBy, Alive
  <1>13. QED
    BY <1>2, <1>3, <1>4, <1>11, <1>12, JobMoves

\* A bring-up or a dump that fails stops the VM; the row is still live.
LEMMA JobFailKeeps ==
    ASSUME IInv, JobBootFail \/ JobDumpFail
    PROVE  IInv'
  <1>1. TypeOK /\ Placed
    BY DEF IInv
  <1>2. TypeOK' /\ Placed'
    BY <1>1, StoppingJobTypes
  <1>3. /\ job.ph \in {"boot", "dump"} /\ row # NoRow /\ Fewer
        /\ IF job.kind = "archive"
           THEN job'.ph = "image" /\ job'.kind = job.kind /\ job'.vm = job.vm ELSE job' = NoJob
        /\ UNCHANGED <<row, cur, entry, reaped, Owed>>
        /\ \A j \in Vm : vm'[j].data = vm[j].data
        /\ \A j \in Vm : vm'[j].st = vm[j].st \/ (vm[j].st = "running" /\ vm'[j].st = "stopped")
        /\ \A d \in Client : client'[d].ph = client[d].ph \/ client[d].ph = "serving"
    BY <1>1, JobFailEffect DEF registry, history, Owed, Fewer, Placed
  <1>4. job.vm = row.id /\ row.id \in Vm /\ row.tier = "Live" /\ job.kind \in {"archive", "freeze"}
    BY <1>1, <1>3 DEF IInv, Stages, From, Promotion, TypeOK, Row
  <1>5. Kept'
    BY <1>3, <1>4 DEF IInv, Kept, KeptBy, Alive
  <1>6. Stages'
    <2>1. CASE job.kind = "archive"
      BY <1>3, <1>4, <2>1 DEF Stages, From, Promotion
    <2>2. CASE job.kind # "archive"
      BY <1>3, <2>2, JobDone
    <2>3. QED
      BY <2>1, <2>2
  <1>7. QED
    BY <1>2, <1>3, <1>4, <1>5, <1>6, JobMoves

\* What the steps of a job that moves a copy have in common.
LEMMA CopyCommon ==
    ASSUME IInv, JobDump \/ JobImage \/ JobUndump \/ JobCompact \/ JobPromote \/ JobRm
    PROVE  /\ TypeOK /\ Placed /\ TypeOK' /\ Placed' /\ Fewer /\ row # NoRow /\ row.id \in Vm
           /\ job.ph \notin {"none", "evict"} /\ job.kind \in Kind
           /\ \A i \in Vm : vm[i].data # Absent
           /\ UNCHANGED <<row, cur, entry, client, reaped, vm, Owed>>
  <1>1. TypeOK /\ Placed
    BY DEF IInv
  <1>2. TypeOK' /\ Placed'
    BY <1>1, CopyTypes
  <1>3. /\ job.ph \notin {"none", "evict"}
        /\ UNCHANGED <<row, cur, entry, client, reaped, vm, Owed>>
    BY DEF JobDump, JobImage, JobUndump, JobCompact, JobPromote, JobRm, registry, map, daemon, history, Owed
  <1>4. row # NoRow /\ row.id \in Vm /\ job.kind \in Kind
    BY <1>1, <1>3, JobFields DEF Placed, TypeOK, Row
  <1>5. \A i \in Vm : vm[i].data # Absent
    BY <1>1, SpecialValues DEF TypeOK, VmState
  <1>6. Fewer
    <2>1. "rm" \in Fault /\ "rm" # "overlap"
      BY DEF Fault
    <2>2. CASE Spend("rm")
      BY <1>1, <2>1, <2>2, SpendFewer
    <2>3. CASE faults' = faults
      BY <2>3 DEF Fewer
    <2>4. QED
      BY <2>2, <2>3 DEF JobDump, JobImage, JobUndump, JobCompact, JobPromote, JobRm
  <1>7. QED
    BY <1>1, <1>2, <1>3, <1>4, <1>5, <1>6

\* What the live VM holds is copied before the row moves.
LEMMA DumpKeeps ==
    ASSUME IInv, JobDump \/ JobImage \/ JobCompact
    PROVE  IInv'
  <1>1. /\ TypeOK /\ Placed /\ TypeOK' /\ Placed' /\ Fewer /\ row # NoRow /\ row.id \in Vm
        /\ job.ph \in {"dump", "image", "compact"} /\ \A i \in Vm : vm[i].data # Absent
        /\ UNCHANGED <<row, cur, entry, client, reaped, vm, Owed>>
    BY CopyCommon DEF JobDump, JobImage, JobCompact
  <1>2. /\ job.vm = row.id /\ row.tier = "Live" /\ job.kind \notin Promotion
        /\ job.ph = "dump" => job.kind \in {"archive", "freeze"}
        /\ job.ph = "image" => job.kind \in {"archive", "image"}
        /\ job.ph = "compact" => job.kind = "compact"
    BY <1>1 DEF IInv, Stages, From, Promotion
  <1>3. Owed \subseteq vm[row.id].data /\ vm[row.id].data # Absent
    BY <1>1, <1>2 DEF IInv, Kept, KeptBy
  <1>4. Kept'
    BY <1>1, <1>2 DEF IInv, Kept, KeptBy, Alive
  <1>5. "mark" \in JobPhase /\ "undump" \in JobPhase
    BY DEF JobPhase
  <1>6. Stages'
    <2>1. CASE JobDump
      <3>1. job'.ph = "mark" /\ job'.kind = job.kind /\ job'.vm = job.vm /\ job.ph = "dump"
        BY <1>1, <1>5, <2>1, JobTo DEF JobDump
      <3>2. CASE job.kind = "archive"
        <4>1. s3dump' = vm[row.id].data
          BY <1>2, <2>1, <3>2 DEF JobDump
        <4>2. QED
          BY <1>1, <1>2, <1>3, <3>1, <3>2, <4>1 DEF Stages, From, Promotion, Holds, Whole, JobTier
      <3>3. CASE job.kind = "freeze"
        <4>1. dumpFile' = vm[row.id].data
          BY <1>2, <2>1, <3>3 DEF JobDump
        <4>2. QED
          BY <1>1, <1>2, <1>3, <3>1, <3>3, <4>1 DEF Stages, From, Promotion, Holds, Whole, JobTier
      <3>4. QED
        BY <1>2, <3>1, <3>2, <3>3
    <2>2. CASE JobImage
      <3>1. job'.ph = "undump" /\ job'.kind = job.kind /\ job'.vm = job.vm /\ job.ph = "image"
        BY <1>1, <1>5, <2>2, JobTo DEF JobImage
      <3>2. s3img' = vm[row.id].data
        BY <1>2, <2>2 DEF JobImage
      <3>3. QED
        BY <1>1, <1>2, <1>3, <3>1, <3>2 DEF Stages, From, Promotion, Whole
    <2>3. CASE JobCompact
      <3>1. job'.ph = "mark" /\ job'.kind = job.kind /\ job'.vm = job.vm /\ job.ph = "compact"
        BY <1>1, <1>5, <2>3, JobTo DEF JobCompact
      <3>2. imageFile' = vm[row.id].data
        BY <1>2, <2>3 DEF JobCompact
      <3>3. QED
        BY <1>1, <1>2, <1>3, <3>1, <3>2 DEF Stages, From, Promotion, Holds, Whole, JobTier
    <2>4. QED
      BY <2>1, <2>2, <2>3
  <1>7. QED
    BY <1>1, <1>2, <1>4, <1>6, JobMoves

\* The stale dump goes once the image is in place: until then the row leads elsewhere.
LEMMA UndumpKeeps ==
    ASSUME IInv, JobUndump
    PROVE  IInv'
  <1>1. /\ TypeOK /\ TypeOK' /\ Placed' /\ Fewer /\ row # NoRow /\ row.id \in Vm
        /\ job.ph = "undump" /\ s3dump' = Absent
        /\ UNCHANGED <<row, cur, entry, client, reaped, vm, Owed, dumpFile, imageFile, s3img>>
    BY CopyCommon DEF JobUndump
  <1>2. /\ job.kind \in {"archive", "image", "promoteImage"} /\ row.tier = From(job.kind) /\ Whole(s3img)
        /\ job.kind \notin Promotion => job.vm = row.id
    BY <1>1 DEF IInv, Stages
  <1>3. row.tier \in {"Live", "Compacted"}
    BY <1>2 DEF From
  <1>4. Kept'
    BY <1>1, <1>3 DEF IInv, Kept, KeptBy, Alive, Holds, Missing, Whole
  <1>5. "mark" \in JobPhase
    BY DEF JobPhase
  <1>6. job'.ph = "mark" /\ job'.kind = job.kind /\ job'.vm = job.vm
    BY <1>1, <1>5, JobTo DEF JobUndump
  <1>7. Stages'
    <2>1. JobTier' = "Archived"
      BY <1>2, <1>6 DEF JobTier
    <2>2. Holds("Archived")'
      BY <1>1, <1>2 DEF Holds, Whole
    <2>3. QED
      BY <1>1, <1>2, <1>6, <2>1, <2>2 DEF Stages
  <1>8. faults["overlap"] # 0 /\ row' # NoRow /\ row'.tier # "Live" => Gone(row.id)'
    BY <1>1 DEF IInv, Together, Gone
  <1>9. QED
    BY <1>1, <1>4, <1>7, <1>8, JobMoves

\* The local copy the row leads to is what a promotion uploads.
LEMMA PromoteKeeps ==
    ASSUME IInv, JobPromote
    PROVE  IInv'
  <1>1. /\ TypeOK /\ TypeOK' /\ Placed' /\ Fewer /\ row # NoRow /\ row.id \in Vm
        /\ job.ph = "promote"
        /\ UNCHANGED <<row, cur, entry, client, reaped, vm, Owed, dumpFile, imageFile>>
    BY CopyCommon DEF JobPromote
  <1>2. job.kind \in Promotion /\ row.tier = From(job.kind)
    BY <1>1 DEF IInv, Stages
  <1>3. row.tier \in {"Frozen", "Compacted"} /\ Holds(row.tier)
    BY <1>1, <1>2 DEF IInv, Kept, KeptBy, Missing, JobPromote, From, Promotion
  <1>4. Kept'
    BY <1>1, <1>3 DEF Kept, KeptBy, Holds, Missing, Whole
  <1>5. "mark" \in JobPhase /\ "undump" \in JobPhase
    BY DEF JobPhase
  <1>6. Stages'
    <2>1. CASE job.kind = "promoteDump"
      <3>1. job' = [job EXCEPT !.ph = "mark"] /\ s3dump' = dumpFile
        BY <2>1 DEF JobPromote
      <3>2. job'.ph = "mark" /\ job'.kind = job.kind
        BY <1>1, <1>5, <3>1, JobTo
      <3>3. Whole(dumpFile)
        BY <1>2, <1>3, <2>1 DEF From, Holds
      <3>4. QED
        BY <1>1, <1>2, <2>1, <3>1, <3>2, <3>3 DEF Stages, Holds, Whole, JobTier
    <2>2. CASE job.kind = "promoteImage"
      <3>1. job' = [job EXCEPT !.ph = "undump"] /\ s3img' = imageFile
        BY <2>2 DEF JobPromote
      <3>2. job'.ph = "undump" /\ job'.kind = job.kind
        BY <1>1, <1>5, <3>1, JobTo
      <3>3. Whole(imageFile)
        BY <1>2, <1>3, <2>2 DEF From, Holds
      <3>4. QED
        BY <1>1, <1>2, <2>2, <3>1, <3>2, <3>3 DEF Stages, Whole
    <2>3. QED
      BY <1>2, <2>1, <2>2 DEF Promotion
  <1>7. faults["overlap"] # 0 /\ row' # NoRow /\ row'.tier # "Live" => Gone(row.id)'
    BY <1>1 DEF IInv, Together, Gone
  <1>8. QED
    BY <1>1, <1>4, <1>6, <1>7, JobMoves

\* The local file goes when the row leads to S3.
LEMMA RmKeeps ==
    ASSUME IInv, JobRm
    PROVE  IInv'
  <1>1. /\ TypeOK /\ TypeOK' /\ Placed' /\ Fewer /\ row # NoRow /\ row.id \in Vm
        /\ job.ph = "rm" /\ job' = NoJob
        /\ UNCHANGED <<row, cur, entry, client, reaped, vm, Owed, s3dump, s3img>>
    BY CopyCommon DEF JobRm
  <1>2. row.tier = "Archived"
    BY <1>1 DEF IInv, Stages, JobTier, Promotion
  <1>3. Kept'
    BY <1>1, <1>2 DEF IInv, Kept, KeptBy, Holds, Missing, Whole
  <1>4. Stages'
    BY <1>1, JobDone
  <1>5. faults["overlap"] # 0 /\ row' # NoRow /\ row'.tier # "Live" => Gone(row.id)'
    BY <1>1 DEF IInv, Together, Gone
  <1>6. QED
    BY <1>1, <1>3, <1>4, <1>5, JobMoves

\* The job's steps that touch no copy and no VM.
LEMMA BareJobKeeps ==
    ASSUME IInv, JobStepFail \/ JobAwait \/ JobAwaitFail \/ JobKillFail
    PROVE  IInv'
  <1>1. TypeOK /\ Placed
    BY DEF IInv
  <1>2. TypeOK' /\ Placed'
    BY <1>1, BareJobTypes
  <1>3. /\ job.ph \notin {"none", "evict"}
        /\ UNCHANGED <<row, cur, entry, client, reaped, vm, copies, Owed>>
    BY DEF JobStepFail, JobAwait, JobAwaitFail, JobKillFail, registry, map, daemon, history, Owed
  <1>4. Fewer /\ (JobKillFail => faults["overlap"] = 0)
    <2>1. {"dump", "undump", "write", "kill"} \subseteq Fault
      BY DEF Fault
    <2>2. CASE JobKillFail
      <3>1. Fewer /\ faults["kill"] # 0
        BY <1>1, <2>1, <2>2, SpendFewer DEF JobKillFail
      <3>2. QED
        BY <3>1 DEF IInv, Quiet
    <2>3. CASE JobStepFail \/ JobAwait \/ JobAwaitFail
      <3>1. faults' = faults \/ Spend("dump") \/ Spend("undump") \/ Spend("write")
        BY <2>3 DEF JobStepFail, JobAwait, JobAwaitFail
      <3>2. faults' = faults => Fewer
        BY DEF Fewer
      <3>3. Fewer
        BY <1>1, <2>1, <3>1, <3>2, SpendFewer
      <3>4. ~JobKillFail
        BY <2>3 DEF JobStepFail, JobAwait, JobAwaitFail, JobKillFail
      <3>5. QED
        BY <3>3, <3>4
    <2>4. QED
      BY <2>2, <2>3
  <1>5. Kept'
    BY <1>3, StopKeepsRow
  <1>6. CASE JobStepFail \/ JobKillFail
    <2>1. job' = NoJob
      BY <1>6 DEF JobStepFail, JobKillFail
    <2>2. Stages'
      BY <2>1, JobDone
    <2>3. faults["overlap"] # 0 /\ row' # NoRow /\ row'.tier # "Live" => Gone(row.id)'
      <3>1. CASE JobKillFail
        BY <1>4, <3>1
      <3>2. CASE JobStepFail
        <4>1. job.ph \notin {"await", "kill"}
          BY <3>2 DEF JobStepFail
        <4>2. QED
          BY <1>3, <4>1 DEF IInv, Together, Gone
      <3>3. QED
        BY <1>6, <3>1, <3>2
    <2>4. QED
      BY <1>2, <1>3, <1>4, <1>5, <2>2, <2>3, JobMoves
  <1>7. CASE JobAwait
    <2>1. PICK p \in {"rm", "kill"} : job' = [job EXCEPT !.ph = p] /\ (p = "rm" <=> job.kind \in Promotion)
      BY <1>7 DEF JobAwait, Promotion
    <2>2. p \in JobPhase
      BY DEF JobPhase
    <2>3. job'.ph = p /\ job'.kind = job.kind /\ job'.vm = job.vm
      BY <1>1, <2>1, <2>2, JobTo
    <2>4. job.ph = "await" /\ row.tier = JobTier /\ (job.kind \notin Promotion => job.vm = row.id)
      BY <1>7 DEF JobAwait, IInv, Stages
    <2>5. Stages'
      BY <1>3, <2>1, <2>3, <2>4 DEF Stages, JobTier
    <2>6. faults["overlap"] # 0 /\ row' # NoRow /\ row'.tier # "Live"
              /\ (job'.ph \in {"await", "kill"} => job'.kind \in Promotion) => Gone(row.id)'
      BY <1>3, <2>1, <2>3, <2>4 DEF IInv, Together, Gone
    <2>7. QED
      BY <1>2, <1>3, <1>4, <1>5, <2>5, <2>6, JobMoves
  <1>8. CASE JobAwaitFail
    <2>1. job' = [job EXCEPT !.wait = 0] /\ job \in JobState
      BY <1>1, <1>8 DEF JobAwaitFail, TypeOK
    <2>2. job'.ph = job.ph /\ job'.kind = job.kind /\ job'.vm = job.vm
      BY <2>1 DEF JobState
    <2>3. Stages'
      BY <1>3, <2>2, StagesKeep
    <2>4. faults["overlap"] # 0 /\ row' # NoRow /\ row'.tier # "Live"
              /\ (job'.ph \in {"await", "kill"} => job'.kind \in Promotion) => Gone(row.id)'
      BY <1>3, <2>2 DEF IInv, Together, Gone
    <2>5. QED
      BY <1>2, <1>3, <1>4, <1>5, <2>3, <2>4, JobMoves
  <1>9. QED
    BY <1>6, <1>7, <1>8

\* The row moves to a tier where its data already is.
LEMMA MarkKeeps ==
    ASSUME IInv, JobMark
    PROVE  IInv'
  <1>1. TypeOK /\ Placed
    BY DEF IInv
  <1>2. TypeOK' /\ Placed'
    BY <1>1, MarkTypes
  <1>3. /\ job.ph = "mark" /\ row # NoRow /\ row' # NoRow /\ row'.id = row.id /\ row'.tier = JobTier
        /\ job'.ph = "await" /\ job'.kind = job.kind /\ job'.vm = job.vm /\ Fewer
        /\ UNCHANGED <<cur, entry, client, reaped, vm, copies, Owed>>
    BY <1>1, MarkEffect DEF map, daemon, history, Owed, Fewer
  <1>4. /\ Holds(JobTier) /\ JobTier # "Live" /\ JobTier' = JobTier
        /\ job.kind \notin Promotion => job.vm = row.id
        /\ job.kind \in Promotion => row.tier # "Live"
    BY <1>3 DEF IInv, Stages, JobTier, From, Promotion
  <1>5. Holds(JobTier)'
    BY <1>3, <1>4 DEF Holds, Whole, copies
  <1>6. Kept'
    BY <1>3, <1>4, <1>5 DEF Kept, KeptBy
  <1>7. Stages'
    BY <1>3, <1>4 DEF Stages
  <1>8. faults["overlap"] # 0 /\ row' # NoRow /\ row'.tier # "Live"
            /\ (job'.ph \in {"await", "kill"} => job'.kind \in Promotion) => Gone(row.id)'
    BY <1>3, <1>4 DEF IInv, Together, Gone
  <1>9. QED
    BY <1>2, <1>3, <1>6, <1>7, <1>8, JobMoves

\* The VM that is killed is the one the row has left.
LEMMA JobKillKeeps ==
    ASSUME IInv, JobKill
    PROVE  IInv'
  <1>1. TypeOK /\ Placed
    BY DEF IInv
  <1>2. TypeOK' /\ Placed'
    BY <1>1, JobKillTypes
  <1>3. /\ job.ph = "kill" /\ job' = NoJob /\ row # NoRow /\ Fewer
        /\ job.vm # 0 => vm'[job.vm].st = "gone"
        /\ UNCHANGED <<row, cur, entry, reaped, copies, Owed>>
        /\ \A d \in Client : client'[d].ph = client[d].ph \/ client[d].ph = "serving"
    BY <1>1, JobKillEffect DEF Placed, registry, history, Owed, Fewer
  <1>4. job.vm = row.id /\ row.tier # "Live" /\ row.id \in Vm
    BY <1>1, <1>3 DEF IInv, Stages, JobTier, TypeOK, Row
  <1>5. row.id # 0
    BY <1>4 DEF Vm
  <1>6. Kept'
    BY <1>3, <1>4 DEF IInv, Kept, KeptBy, Holds, Missing, Whole, copies
  <1>7. Stages'
    BY <1>3, JobDone
  <1>8. Gone(row.id)'
    BY <1>3, <1>4, <1>5 DEF Gone
  <1>9. QED
    BY <1>2, <1>3, <1>6, <1>7, <1>8, JobMoves

\* Writing the registry file changes nothing else, but what is owed may be more.
LEMMA PersistKeeps ==
    ASSUME IInv, Persist, Owed' = Owed \/ (Kept' /\ Stages' /\ Loading')
    PROVE  IInv'
  <1>1. TypeOK /\ Placed
    BY DEF IInv
  <1>2. TypeOK' /\ Placed'
    BY <1>1, PersistTypes
  <1>3. /\ job'.ph = job.ph /\ job'.kind = job.kind /\ job'.vm = job.vm /\ Fewer
        /\ UNCHANGED <<row, cur, entry, client, reaped, vm, copies>>
    BY <1>1, PersistEffect DEF map, daemon, Fewer
  <1>4. Claimed'
    BY <1>3 DEF IInv, Claimed
  <1>5. CASE Owed' = Owed
    <2>1. Stages'
      BY <1>3, <1>5, StagesKeep
    <2>2. QED
      BY <1>2, <1>3, <1>4, <1>5, <2>1, JobOnly
  <1>6. CASE Kept' /\ Stages' /\ Loading'
    BY <1>2, <1>3, <1>4, <1>6, JobAlone
  <1>7. QED
    BY <1>5, <1>6

\* The steps that keep what is owed as it is, in a calm behaviour or not.
SteadyStep(c) ==
    \/ Checkout(c) \/ Check(c) \/ ClientStep(c) \/ BreakerHold(c) \/ DisposeFail(c) \/ EndSession(c)

Steady ==
    \/ UNCHANGED vars
    \/ \E c \in Client : SteadyStep(c)
    \/ ReapEvict \/ ReapStop
    \/ \E kind \in Kind : JobClaim(kind)
    \/ JobStep \/ JobAwaitFail \/ JobKillFail

LEMMA SteadyKeeps ==
    ASSUME IInv, Steady
    PROVE  IInv'
  <1>1. CASE UNCHANGED vars
    <2>1. /\ TypeOK' /\ Placed' /\ Fewer /\ UNCHANGED <<row, cur, entry, client, reaped, vm, copies, Owed, job>>
      BY <1>1, KeptTypes DEF IInv, vars, registry, map, daemon, history, Owed, Fewer
    <2>2. Stages' /\ Claimed'
      BY <2>1, StagesKeep DEF IInv, Claimed
    <2>3. QED
      BY <2>1, <2>2, JobOnly
  <1>2. ASSUME NEW c \in Client, SteadyStep(c)
        PROVE  IInv'
    <2>1. CASE Checkout(c) \/ Check(c) \/ Lookup(c) \/ Admit(c) \/ AdmitTimeout(c) \/ Probe(c) \/ Evict(c)
               \/ BreakerHold(c) \/ EndSession(c)
      BY <2>1, EnterKeeps, LookupKeeps, AdmitKeeps, LeaveKeeps, EvictKeeps
    <2>2. CASE BringupStep(c) \/ DisposeFail(c)
      BY <2>2, ReadKeeps, PickKeeps, ResolveKeeps, ResolveFailKeeps, LoadKeeps, BringupFailKeeps,
         DisposeKeeps, DisposeFailKeeps, CleanupKeeps, JoinKeeps, UnlinkKeeps DEF BringupStep
    <2>3. QED
      BY <1>2, <2>1, <2>2 DEF ClientStep, SteadyStep
  <1>3. CASE JobStep
    BY <1>3, JobEvictKeeps, ClaimKeeps, JobBootKeeps, JobFailKeeps, DumpKeeps, UndumpKeeps, PromoteKeeps,
       BareJobKeeps, MarkKeeps, JobKillKeeps, RmKeeps DEF JobStep
  <1>4. CASE ReapEvict \/ ReapStop \/ (\E kind \in Kind : JobClaim(kind)) \/ JobAwaitFail \/ JobKillFail
    BY <1>4, ReapKeeps, ClaimKeeps, BareJobKeeps
  <1>5. QED
    BY <1>1, <1>2, <1>3, <1>4 DEF Steady

\* Faults that a calm behaviour does not have.
LEMMA NeverCalm ==
    ASSUME Calm, IInv
    PROVE  /\ ~Crash /\ ~JobReattachError
           /\ \A c \in Client : ~PickRestoreError(c) /\ ~ReattachError(c)
  <1>1. faults["crash"] = 0 /\ faults["reattach"] = 0 /\ faults["head"] = 0
    BY DEF IInv, Quiet
  <1>2. ~Spend("crash") /\ ~Spend("reattach") /\ ~Spend("head")
    BY <1>1 DEF Spend
  <1>3. QED
    BY <1>2 DEF Crash, JobReattachError, PickRestoreError, ReattachError

\* The steps of the specification.
LEMMA NextSteps ==
    ASSUME [Next]_vars
    PROVE  \/ Steady \/ Persist \/ Crash \/ JobReattachError
           \/ \E c \in Client : CommitTx(c) \/ PickRestoreError(c) \/ ReattachError(c)
  <1>1. CASE Next
    BY <1>1, Zenon DEF Next, Steady, SteadyStep
  <1>2. QED
    BY <1>1 DEF Steady

LEMMA CalmInductive ==
    ASSUME Calm, IInv, [Next]_vars
    PROVE  IInv'
  <1>1. CASE Persist
    <2>1. Owed' = Owed
      BY <1>1 DEF Persist, Owed
    <2>2. QED
      BY <1>1, <2>1, PersistKeeps
  <1>2. ASSUME NEW c \in Client, CommitTx(c)
        PROVE  IInv'
    <2>1. TypeOK /\ Placed /\ client[c].ph = "serving"
      BY <1>2 DEF IInv, CommitTx
    <2>2. client[c].cell = cur /\ cur \in Cell /\ entry[cur] # 0 /\ entry[cur] \in Vm
      BY <2>1, OnItsCell DEF Early, IInv, Tracked, OnCell
    <2>3. row.id = entry[cur]
      BY <2>2 DEF IInv, Tracked
    <2>4. PICK n \in Commit : truth' = truth \cup {n} /\ vm'[row.id].data = vm[row.id].data \cup {n}
      BY <1>2, <2>1, <2>2, <2>3, CommitEffect
    <2>5. Owed' \subseteq Owed \cup vm'[row.id].data
      BY <2>4 DEF Owed
    <2>6. QED
      BY <1>2, <2>5, CommitKeeps
  <1>3. QED
    BY <1>1, <1>2, NextSteps, SteadyKeeps, NeverCalm

\* In a calm behaviour, or in one where checkouts come one after the other, the first state is
\* as it has to be.
LEMMA InitHolds ==
    ASSUME Init, ~Anytime,
           Calm \/ \A b \in Budgets : b["overlap"] = 0
    PROVE  IInv
  <1>1. TypeOK /\ Placed
    <2>1. client \in [Client -> ClientState] /\ entry \in [Cell -> Vm \cup {0}] /\ job \in JobState
      BY IdleState, NoJobState DEF Init
    <2>2. vm \in [Vm -> VmState]
      BY DEF Init, VmState, Data
    <2>3. faults \in [Fault -> Nat]
      BY LifeAssumption DEF Init
    <2>4. row \in Row /\ saved \in Row /\ pending \in Seq(Row) /\ truth \in Data /\ safe \in Data
      BY DEF Init, Row, Data
    <2>5. dumpFile \in Copy /\ imageFile \in Copy /\ s3dump \in Copy /\ s3img \in Copy
      BY DEF Init, Copy
    <2>6. Placed
      BY IdleFields DEF Init, Placed, Early, NoJob
    <2>7. QED
      BY <2>1, <2>2, <2>3, <2>4, <2>5, <2>6 DEF Init, TypeOK
  <1>2. \A c \in Client : client[c].ph = "idle"
    BY IdleFields DEF Init
  <1>3. \A k \in Cell : entry[k] = 0
    BY DEF Init
  <1>4. job.ph = "none" /\ row = NoRow /\ Owed = {} /\ reaped = 0
    BY DEF Init, NoJob, Owed
  <1>5. Quiet
    BY <1>2 DEF Init, Calm, Quiet
  <1>6. Tracked
    BY <1>2, <1>3 DEF Tracked, OnCell, Early
  <1>7. Claimed /\ Stages /\ Kept
    BY <1>2, <1>4 DEF Claimed, Stages, Kept, KeptBy
  <1>8. Reading /\ Loading
    BY <1>2 DEF Reading, Loading, Loads, Early
  <1>9. Together
    BY <1>2, <1>3, <1>4 DEF Together, Meets
  <1>10. QED
    BY <1>1, <1>5, <1>6, <1>7, <1>8, <1>9 DEF IInv

\* CalmInvariant: in a calm behaviour everyone is on the cell of the map, which is the VM of
\* the row, every job moves the row only to a complete copy and deletes only what the row
\* has left, and what a checkout has read stays true until it is used.
THEOREM CalmInvariant == Calm /\ Spec => []IInv
  <1> SUFFICES ASSUME Calm PROVE Spec => []IInv
    OBVIOUS
  <1>1. Init => IInv
    BY InitHolds DEF Calm
  <1>2. IInv /\ [Next]_vars => IInv'
    BY CalmInductive
  <1>3. QED
    BY <1>1, <1>2, PTL DEF Spec

\* RowReaches: in a calm behaviour the schema's row leads, at every moment, to a copy with
\* every transaction ever committed, for any number of clients, VMs and commits: whichever
\* step of a checkout, a job or the reaper comes between which two of another's.
THEOREM RowReaches == Calm /\ Spec => []RowReachesData
  <1> SUFFICES ASSUME Calm PROVE Spec => []RowReachesData
    OBVIOUS
  <1>1. IInv => RowReachesData
    <2> SUFFICES ASSUME IInv PROVE RowReachesData
      OBVIOUS
    <2> Owed = truth
      BY DEF Owed
    <2>1. row # NoRow => row.tier \in Tier
      BY DEF IInv, TypeOK, Row
    <2>2. CASE row = NoRow
      BY <2>2 DEF IInv, Kept, KeptBy, RowReachesData, Reached
    <2>3. CASE row # NoRow /\ row.tier = "Live"
      <3>1. row.id \in Vm
        BY <2>3 DEF IInv, TypeOK, Row
      <3>2. vm[row.id].data # Absent
        BY <3>1, SpecialValues DEF IInv, TypeOK, VmState
      <3>3. QED
        BY <2>3, <3>2 DEF IInv, Kept, KeptBy, RowReachesData, Reached
    <2>4. CASE row # NoRow /\ row.tier \in {"Frozen", "Compacted"}
      BY <2>4 DEF IInv, Kept, KeptBy, Holds, Missing, Whole, RowReachesData, Reached
    <2>5. CASE row # NoRow /\ row.tier = "Archived"
      <3>1. IF s3dump # Absent THEN Owed \subseteq s3dump ELSE s3img # Absent /\ Owed \subseteq s3img
        BY <2>5 DEF IInv, Kept, KeptBy, Holds, Missing, Whole
      <3>2. QED
        BY <2>5, <3>1 DEF RowReachesData, Reached
    <2>6. QED
      BY <2>1, <2>2, <2>3, <2>4, <2>5 DEF Tier
  <1>2. QED
    BY <1>1, CalmInvariant, PTL

\* NewestServed: in a calm behaviour a session is only ever given a database that holds
\* every transaction committed before.
THEOREM NewestServed == Calm /\ Spec => []ServedNewest
  <1> SUFFICES ASSUME Calm PROVE Spec => []ServedNewest
    OBVIOUS
  <1>1. IInv => ServedNewest
    <2> SUFFICES ASSUME IInv, NEW c \in Client, client[c].ph = "serving"
                 PROVE  Owed \subseteq vm[entry[client[c].cell]].data
      BY DEF ServedNewest, Owed
    <2>1. client[c].cell \in Cell /\ entry[client[c].cell] # 0 /\ entry[client[c].cell] \in Vm
      BY OnItsCell DEF Early, IInv, Tracked, OnCell
    <2>2. row = [id |-> entry[client[c].cell], tier |-> "Live"]
      BY <2>1 DEF IInv, Tracked
    <2>3. row # NoRow
      BY <2>1, <2>2, SpecialValues DEF Tier
    <2>4. QED
      BY <2>2, <2>3 DEF IInv, Kept, KeptBy
  <1>2. QED
    BY <1>1, CalmInvariant, PTL

\* SessionsTracked: in a calm behaviour a live session is on the cell the map holds, where
\* the reaper and the jobs look for it.
THEOREM SessionsTracked == Calm /\ Spec => []SessionTracked
  <1>1. IInv => SessionTracked
    BY DEF IInv, Tracked, OnCell, Early, SessionTracked
  <1>2. QED
    BY <1>1, CalmInvariant, PTL

-----------------------------------------------------------------------------
(* Behaviours with restarts: nothing durable is lost.                      *)

\* Checkouts come one after the other and no job starts in the middle of one, but the pooler
\* may die at any moment, and anything may fail.
Rough ==
    /\ MaxVms # 0 /\ ~Anytime /\ \E b \in Budgets : b["crash"] # 0
    /\ \A b \in Budgets : b["overlap"] = 0
    /\ \A a, b \in Budgets : a["write"] = b["write"] /\ a["reattach"] = b["reattach"] /\ a["head"] = b["head"]

\* A registry write, a reattach or a HEAD has failed.
Lapses == {"write", "reattach", "head"}
Lapsed == \E f \in Lapses : Spent(f)
Bounded == \A f \in Lapses, b \in Budgets : faults[f] <= b[f]

\* The file is at most a restore and the tier after it behind: it has the row, or the row is a
\* live one to be written over one that is not; a job that waits has its version last.
Trail ==
    /\ job.ph # "await" =>
           \/ pending = <<>> /\ saved = row
           \/ /\ pending = <<row>> /\ row # NoRow /\ row.tier = "Live"
              /\ saved = NoRow \/ saved.tier # "Live"
    /\ job.ph = "await" =>
           \/ pending = <<>> /\ saved = row
           \/ pending = <<row>> /\ job.wait = 1
           \/ /\ pending = <<[id |-> row.id, tier |-> "Live"], row>> /\ job.wait = 2
              /\ job.kind \notin Promotion

\* A row of tier t leads to data, should that be asked of it later.
Covers(t, data) ==
    CASE t = "Frozen"    -> dumpFile # Absent /\ data \subseteq dumpFile
      [] t = "Compacted" -> imageFile # Absent /\ data \subseteq imageFile
      [] OTHER           -> IF s3dump # Absent THEN data \subseteq s3dump
                            ELSE s3img # Absent /\ data \subseteq s3img

\* What a job has copied is all its VM has, so that the row may still be recorded as live.
Copied ==
    /\ job.ph \in {"undump", "mark", "await"} /\ job.kind \notin Promotion => Alive(job.vm)
    /\ job.ph = "undump" /\ job.kind \notin Promotion =>
           s3img # Absent /\ vm[job.vm].data \subseteq s3img
    /\ job.ph \in {"mark", "await"} /\ job.kind \notin Promotion => Covers(JobTier, vm[job.vm].data)
    /\ job.ph = "await" /\ job.kind \notin Promotion => Owed \subseteq vm[job.vm].data
    /\ job.ph \in {"await", "kill"} => Holds(JobTier)

\* A VM that has what is owed and that no bring-up will dispose of.
Refuge(w) ==
    /\ Alive(w) /\ Owed \subseteq vm[w].data
    /\ \A c \in Client :
           client[c].ph \in {"load", "dispose"} /\ client[c].vm = w => client[c].prov = "Existing"

Stranded(r) == r # NoRow /\ Missing(r.tier)

\* Whichever row leads to a file that is gone, a VM has the data.
Survives ==
    /\ Stranded(row) \/ Stranded(saved) => \E w \in Vm : Refuge(w)
    /\ \A c \in Client : client[c].ph = "dispose" => client[c].prov # "Existing"

Sound == KeptBy(saved) /\ Trail /\ Copied /\ Survives

\* What Rough says of the constants.
LEMMA RoughBasics ==
    ASSUME Rough
    PROVE  ~Calm /\ Owed = safe /\ Owed' = safe' /\ 1 \in Vm /\ 0 \notin Vm
  <1>1. ~Calm
    BY DEF Rough, Calm
  <1>2. 1 \in Vm /\ 0 \notin Vm
    BY LifeAssumption DEF Rough, Vm
  <1>3. QED
    BY <1>1, <1>2 DEF Owed

\* What a row that is not live leads to depends on the files and objects alone.
LEMMA FileKept ==
    ASSUME Rough, TypeOK, KeptBy(saved), saved = NoRow \/ saved.tier # "Live", UNCHANGED <<saved, Owed>>,
           dumpFile' \in {dumpFile, Absent} \/ Whole(dumpFile)',
           imageFile' \in {imageFile, Absent} \/ Whole(imageFile)',
           Holds("Archived") => Holds("Archived")'
    PROVE  KeptBy(saved)'
  <1>1. CASE saved = NoRow
    BY <1>1 DEF KeptBy
  <1>2. CASE saved # NoRow
    <2>1. saved.tier \in {"Frozen", "Compacted", "Archived"} /\ ~Calm
      BY <1>2, RoughBasics DEF TypeOK, Row, Tier
    <2>2. CASE saved.tier = "Frozen"
      BY <1>2, <2>1, <2>2 DEF KeptBy, Holds, Missing, Whole
    <2>3. CASE saved.tier = "Compacted"
      BY <1>2, <2>1, <2>3 DEF KeptBy, Holds, Missing, Whole
    <2>4. CASE saved.tier = "Archived"
      BY <1>2, <2>1, <2>4 DEF KeptBy, Missing
    <2>5. QED
      BY <2>1, <2>2, <2>3, <2>4
  <1>3. QED
    BY <1>1, <1>2

\* The row in the file, where the row in memory stays and only files and objects may go or
\* be replaced by whole ones.
LEMMA SavedKept ==
    ASSUME Rough, IInv, IInv', Sound, job.ph # "await", UNCHANGED <<row, saved, Owed>>,
           dumpFile' \in {dumpFile, Absent} \/ Whole(dumpFile)',
           imageFile' \in {imageFile, Absent} \/ Whole(imageFile)',
           Holds("Archived") => Holds("Archived")'
    PROVE  KeptBy(saved)'
  <1>1. CASE saved = row
    BY <1>1 DEF IInv, Kept
  <1>2. CASE saved # row
    <2>1. saved = NoRow \/ saved.tier # "Live"
      BY <1>2 DEF Sound, Trail
    <2>2. QED
      BY <2>1, FileKept DEF IInv, Sound
  <1>3. QED
    BY <1>1, <1>2

\* No VM that is there goes or changes its data.
Mild == \A j \in Vm : Alive(j) => Alive(j)' /\ vm'[j].data = vm[j].data

\* A checkout that has a VM had it before, or found it there, or it is a new one.
Careful(c) ==
    /\ client'[c].ph \in {"load", "dispose"} =>
           \/ /\ client[c].ph \in {"load", "dispose"}
              /\ client'[c].vm = client[c].vm /\ client'[c].prov = client[c].prov
           \/ client'[c].prov = "Existing" \/ ~Alive(client'[c].vm)
    /\ client'[c].ph = "dispose" => client'[c].prov # "Existing"

LEMMA RefugeKeeps ==
    ASSUME Mild, UNCHANGED Owed, \A c \in Client : Careful(c), NEW w \in Vm, Refuge(w)
    PROVE  Refuge(w)'
  <1>1. Alive(w) /\ Alive(w)' /\ vm'[w].data = vm[w].data
    BY DEF Mild, Refuge
  <1>2. ASSUME NEW c \in Client, client'[c].ph \in {"load", "dispose"}, client'[c].vm = w
        PROVE  client'[c].prov = "Existing"
    BY <1>1, <1>2 DEF Careful, Refuge
  <1>3. QED
    BY <1>1, <1>2 DEF Refuge

\* A step that leaves the registry, the files and the objects alone.
LEMMA MildSound ==
    ASSUME Rough, IInv, Sound, UNCHANGED <<row, saved, pending, copies, Owed>>, Mild,
           \A c \in Client : Careful(c),
           \/ job'.ph = job.ph /\ job'.kind = job.kind /\ job'.vm = job.vm /\ job'.wait = job.wait
           \/ job.ph # "await" /\ job'.ph \notin {"undump", "mark", "await", "kill"}
    PROVE  Sound'
  <1>1. UNCHANGED <<dumpFile, imageFile, s3dump, s3img>>
    BY DEF copies
  <1>2. KeptBy(saved)'
    <2>1. saved # NoRow => saved.id \in Vm
      BY DEF IInv, TypeOK, Row
    <2>2. CASE saved # NoRow /\ saved.tier = "Live"
      BY <2>1, <2>2 DEF Sound, KeptBy, Mild
    <2>3. CASE saved = NoRow \/ saved.tier # "Live"
      BY <1>1, <2>3 DEF Sound, KeptBy, Holds, Whole, Missing
    <2>4. QED
      BY <2>2, <2>3
  <1>3. Trail'
    BY DEF Sound, Trail
  <1>4. Copied'
    <2>1. CASE job'.ph = job.ph /\ job'.kind = job.kind /\ job'.vm = job.vm
      <3>1. Alive(job.vm) => job.vm \in Vm
        BY JobFields DEF IInv, TypeOK, Alive
      <3>2. Alive(job.vm) => Alive(job.vm)' /\ vm'[job.vm].data = vm[job.vm].data
        BY <2>1, <3>1 DEF Mild, Alive
      <3>3. JobTier' = JobTier /\ (Holds(JobTier) => Holds(JobTier)')
        BY <1>1, <2>1 DEF JobTier, Holds, Whole
      <3>4. Alive(job.vm) /\ Covers(JobTier, vm[job.vm].data) => Covers(JobTier, vm[job.vm].data)'
        BY <1>1, <2>1, <3>2, <3>3 DEF Covers
      <3>5. QED
        BY <1>1, <2>1, <3>2, <3>3, <3>4 DEF Sound, Copied
    <2>2. CASE job'.ph \notin {"undump", "mark", "await", "kill"}
      BY <2>2 DEF Copied
    <2>3. QED
      BY <2>1, <2>2
  <1>5. Survives'
    <2>1. (Stranded(row) \/ Stranded(saved))' => Stranded(row) \/ Stranded(saved)
      BY <1>1 DEF Stranded, Missing
    <2>2. (Stranded(row) \/ Stranded(saved))' => \E w \in Vm : Refuge(w)'
      BY <2>1, RefugeKeeps DEF Sound, Survives
    <2>3. \A c \in Client : client'[c].ph = "dispose" => client'[c].prov # "Existing"
      BY DEF Careful
    <2>4. QED
      BY <2>2, <2>3 DEF Survives
  <1>6. QED
    BY <1>2, <1>3, <1>4, <1>5 DEF Sound

\* A checkout that does not get a VM is careful.
LEMMA StillCareful ==
    ASSUME Sound, NEW c \in Client,
           \/ client'[c].ph \notin {"load", "dispose"}
           \/ client'[c].ph = client[c].ph /\ client'[c].vm = client[c].vm /\ client'[c].prov = client[c].prov
    PROVE  Careful(c)
  BY DEF Careful, Sound, Survives

\* The steps of a checkout that touch no VM, no file and no row.
LEMMA MovesSound ==
    ASSUME Rough, IInv, Sound, NEW c \in Client,
           UNCHANGED <<row, saved, pending, copies, Owed, vm, job>>,
           \A d \in Client : d # c => client'[d] = client[d],
           Careful(c)
    PROVE  Sound'
  <1>1. Mild
    BY DEF Mild, Alive
  <1>2. \A d \in Client : Careful(d)
    BY StillCareful
  <1>3. QED
    BY <1>1, <1>2, MildSound

LEMMA CheckoutSound ==
    ASSUME Rough, IInv, Sound, NEW c \in Client,
           Checkout(c) \/ Check(c) \/ Lookup(c) \/ Admit(c) \/ AdmitTimeout(c) \/ Probe(c) \/ Evict(c)
               \/ BreakerHold(c) \/ EndSession(c) \/ ReadRecord(c) \/ PickRestore(c)
    PROVE  Sound'
  <1>1. TypeOK
    BY DEF IInv
  <1>2. UNCHANGED <<row, saved, pending, copies, Owed, vm, job>>
    BY DEF Checkout, Check, Lookup, Admit, AdmitTimeout, Probe, Evict, BreakerHold, EndSession, ReadRecord,
           PickRestore, registry, daemon, history, Owed
  <1>3. client'[c].ph \notin {"load", "dispose"} /\ \A d \in Client : d # c => client'[d] = client[d]
    <2>1. CASE Checkout(c) \/ Check(c) \/ Admit(c) \/ Probe(c)
      <3>1. PICK p \in {"check", "lookup", "probe", "serving", "broken", "evict"} : Move(c, p)
        BY <2>1 DEF Checkout, Check, Admit, Probe
      <3>2. p \in Phase
        BY DEF Phase
      <3>3. QED
        BY <1>1, <3>1, <3>2, MoveEffect
    <2>2. CASE Lookup(c)
      BY <1>1, <2>2, LookupEffect
    <2>3. CASE AdmitTimeout(c) \/ BreakerHold(c) \/ EndSession(c)
      BY <1>1, <2>3, LeaveEffect, IdleFields DEF AdmitTimeout, BreakerHold, EndSession
    <2>4. CASE Evict(c)
      <3>1. PICK s : s = [Idle EXCEPT !.ph = "check"]
        OBVIOUS
      <3>2. s \in ClientState /\ s.ph = "check"
        BY <3>1, IdleState DEF Phase, Idle
      <3>3. client' = [client EXCEPT ![c] = s]
        BY <2>4, <3>1 DEF Evict
      <3>4. QED
        BY <1>1, <3>2, <3>3, ResetEffect
    <2>5. CASE ReadRecord(c)
      BY <1>1, <2>5, ReadEffect
    <2>6. CASE PickRestore(c)
      BY <1>1, <2>6, Chosen, PickEffect DEF PickRestore
    <2>7. QED
      BY <2>1, <2>2, <2>3, <2>4, <2>5, <2>6
  <1>4. Careful(c)
    BY <1>3, StillCareful
  <1>5. QED
    BY <1>2, <1>3, <1>4, MovesSound

\* A bring-up that fails, and one that another caller served.
LEMMA FailSound ==
    ASSUME Rough, IInv, Sound, NEW c \in Client,
           ResolveFail(c) \/ BringupFail(c) \/ DisposeFail(c) \/ Join(c)
    PROVE  Sound'
  <1>1. TypeOK
    BY DEF IInv
  <1>2. PICK p \in {"cleanup", "dispose", "unlink"} :
            Move(c, p) /\ (p = "dispose" => client[c].ph = "load" /\ client[c].prov # "Existing")
    BY DEF ResolveFail, BringupFail, DisposeFail, Join
  <1>3. p \in Phase
    BY DEF Phase
  <1>4. client'[c].ph = p /\ client'[c].vm = client[c].vm /\ client'[c].prov = client[c].prov
        /\ \A d \in Client : d # c => client'[d] = client[d]
    BY <1>1, <1>2, <1>3, MoveEffect
  <1>5. Careful(c)
    BY <1>2, <1>4 DEF Careful
  <1>6. UNCHANGED <<row, saved, pending, copies, Owed, vm, job>>
    <2>1. CASE Join(c)
      <3>1. client[c].ph = "init" /\ entry[client[c].cell] # 0
        BY <2>1 DEF Join
      <3>2. client[c].cell \in Cell
        BY <3>1, OnItsCell DEF Early
      <3>3. row = [id |-> entry[client[c].cell], tier |-> "Live"]
        BY <3>1, <3>2 DEF IInv, Tracked
      <3>4. UNCHANGED registry
        BY <2>1, <3>3 DEF Join, Put
      <3>5. QED
        BY <2>1, <3>4 DEF Join, registry, daemon, history, Owed
    <2>2. CASE ResolveFail(c) \/ BringupFail(c) \/ DisposeFail(c)
      BY <2>2 DEF ResolveFail, BringupFail, DisposeFail, registry, daemon, history, Owed
    <2>3. QED
      BY <2>1, <2>2
  <1>7. QED
    BY <1>4, <1>5, <1>6, MovesSound

\* A bring-up starts a VM that is there, or a new one.
LEMMA ResolveSound ==
    ASSUME Rough, IInv, Sound, NEW c \in Client, Resolve(c) \/ Materialize(c)
    PROVE  Sound'
  <1>1. TypeOK /\ UNCHANGED <<row, saved, pending, copies, Owed, job>>
    BY DEF IInv, Resolve, Materialize, registry, history, Owed
  <1>2. PICK r :
            /\ \E data \in Data : Resolved(c, r, data)
            /\ r.id \in Vm /\ r.prov \in Provenance
            /\ r.prov = "Existing" => Alive(r.id)
            /\ r.prov # "Existing" => vm[r.id].st = "none"
    <2>1. CASE Resolve(c)
      <3>1. PICK k : k = IF client[c].restore = "none" THEN client[c].known ELSE 0
        OBVIOUS
      <3>2. PICK r \in resolve_sandbox(k, TRUE) : Resolved(c, r, {})
        BY <2>1, <3>1 DEF Resolve
      <3>3. k \in Vm \cup {0} /\ {} \in Data
        BY <1>1, <3>1, ClientFields DEF Data, TypeOK
      <3>4. TypeOK /\ TRUE \in BOOLEAN /\ k \in Vm \cup {0} /\ r \in resolve_sandbox(k, TRUE)
        BY <1>1, <3>2, <3>3
      <3>5. /\ r.id \in Vm /\ r.prov \in Provenance
            /\ r.prov = "Existing" => Alive(r.id)
            /\ r.prov # "Existing" => vm[r.id].st = "none"
        BY <3>4, ResolvedVm, Zenon
      <3>6. QED
        BY <3>2, <3>3, <3>5
    <2>2. CASE Materialize(c)
      <3>1. PICK data : data = Source(client[c].restore)
        OBVIOUS
      <3>2. data \in Data
        BY <1>1, <2>2, <3>1, SourceType DEF Materialize
      <3>3. PICK r \in New(TRUE) : Resolved(c, r, data)
        BY <2>2, <3>1 DEF Materialize
      <3>4. r.id \in Vm /\ r.prov \in Provenance /\ r.prov # "Existing" /\ vm[r.id].st = "none"
        BY <3>3, NewVm
      <3>5. QED
        BY <3>2, <3>3, <3>4
    <2>3. QED
      BY <2>1, <2>2
  <1> PICK data \in Data : Resolved(c, r, data)
    BY <1>2
  <1>3. /\ client'[c].ph = "load" /\ client'[c].vm = r.id /\ client'[c].prov = r.prov
        /\ \A d \in Client : d # c => client'[d] = client[d]
        /\ Boot(r, data)
    BY <1>1, <1>2, ResolvedEffect
  <1>4. PICK i \in Vm : i = r.id
    BY <1>2
  <1>5. /\ \A j \in Vm : j # i => vm'[j] = vm[j]
        /\ vm'[i].st = "running"
        /\ r.prov = "Existing" => vm'[i].data = vm[i].data
    BY <1>1, <1>2, <1>3, <1>4, BootEffect
  <1>6. r.prov # "Existing" => ~Alive(i)
    BY <1>2, <1>4 DEF Alive
  <1>7. Mild
    BY <1>5, <1>6 DEF Mild, Alive
  <1>8. \A d \in Client : Careful(d)
    <2>1. Careful(c)
      BY <1>3, <1>4, <1>6 DEF Careful
    <2>2. QED
      BY <1>3, <2>1, StillCareful
  <1>9. QED
    BY <1>1, <1>7, <1>8, MildSound

LEMMA StopMild ==
    ASSUME \A j \in Vm : vm'[j].data = vm[j].data,
           \A j \in Vm : vm'[j].st = vm[j].st \/ (vm[j].st = "running" /\ vm'[j].st = "stopped")
    PROVE  Mild
  BY DEF Mild, Alive

\* The clean-up after a failed bring-up, and the idle reaper.
LEMMA StopsSound ==
    ASSUME Rough, IInv, Sound, (\E c \in Client : Cleanup(c)) \/ ReapEvict \/ ReapStop
    PROVE  Sound'
  <1>1. TypeOK /\ UNCHANGED <<row, saved, pending, copies, Owed, job>>
    BY DEF IInv, Cleanup, ReapEvict, ReapStop, registry, history, Owed
  <1>2. CASE ReapEvict
    <2>1. UNCHANGED <<vm, client>>
      BY <1>2 DEF ReapEvict, daemon
    <2>2. Mild
      BY <2>1 DEF Mild, Alive
    <2>3. \A d \in Client : Careful(d)
      BY <2>1, StillCareful
    <2>4. QED
      BY <1>1, <2>2, <2>3, MildSound
  <1>3. ASSUME NEW i \in Vm \cup {0}, NEW cl \in [Client -> ClientState], Stop(i, cl),
               \A d \in Client : cl[d] = client[d] \/ cl[d].ph \notin {"load", "dispose"}
        PROVE  Sound'
    <2>1. Mild /\ client' = Broken(cl, i)
      BY <1>1, <1>3, StopEffect, StopMild
    <2>2. \A d \in Client :
              /\ client'[d].vm = cl[d].vm /\ client'[d].prov = cl[d].prov
              /\ client'[d].ph = cl[d].ph \/ client'[d].ph = "broken"
      BY <1>3, <2>1, BrokenEffect
    <2>3. \A d \in Client : Careful(d)
      BY <1>3, <2>2, StillCareful
    <2>4. QED
      BY <1>1, <2>1, <2>3, MildSound
  <1>4. CASE ReapStop
    BY <1>1, <1>3, <1>4 DEF ReapStop, TypeOK
  <1>5. ASSUME NEW c \in Client, Cleanup(c)
        PROVE  Sound'
    <2>1. PICK cl : cl = [client EXCEPT ![c] = Idle]
      OBVIOUS
    <2>2. cl \in [Client -> ClientState] /\ cl[c].ph = "idle" /\ \A d \in Client : d # c => cl[d] = client[d]
      BY <1>1, <2>1, IdleState, IdleFields DEF TypeOK
    <2>3. PICK i \in Leaked(client[c].known) : Stop(i, cl)
      BY <1>5, <2>1 DEF Cleanup
    <2>4. i \in Vm \cup {0}
      BY <1>1, ClientFields DEF Leaked, Named, TypeOK
    <2>5. QED
      BY <1>3, <2>2, <2>3, <2>4
  <1>6. QED
    BY <1>2, <1>4, <1>5

\* The steps of a job that leave the registry and the copies alone.
LEMMA JobStopsSound ==
    ASSUME Rough, IInv, Sound, JobEvict \/ JobBootFail
    PROVE  Sound'
  <1>1. TypeOK /\ Placed
    BY DEF IInv
  <1>2. /\ job.ph # "await" /\ job'.ph \notin {"undump", "mark", "await", "kill"}
        /\ \A j \in Vm : vm'[j].data = vm[j].data
        /\ \A j \in Vm : vm'[j].st = vm[j].st \/ (vm[j].st = "running" /\ vm'[j].st = "stopped")
        /\ \A d \in Client :
              client'[d].ph = client[d].ph \/ (client[d].ph = "serving" /\ client'[d].ph = "broken")
        /\ UNCHANGED <<row, saved, pending, copies, Owed>>
    <2>1. CASE JobEvict
      BY <1>1, <2>1, EvictEffect DEF registry, history, Owed
    <2>2. CASE JobBootFail
      <3>1. UNCHANGED <<row, saved, pending, copies, Owed>>
        BY <2>2 DEF JobBootFail, registry, history, Owed
      <3>2. NoJob.ph = "none"
        BY DEF NoJob
      <3>3. QED
        BY <1>1, <2>2, <3>1, <3>2, JobFailEffect
    <2>3. QED
      BY <2>1, <2>2
  <1>3. job.ph # "none"
    BY DEF JobEvict, JobBootFail
  <1>4. \A d \in Client : client'[d].ph \notin {"load", "dispose"}
    BY <1>2, <1>3 DEF IInv, Claimed
  <1>5. Mild
    BY <1>2, StopMild
  <1>6. \A d \in Client : Careful(d)
    BY <1>4, StillCareful
  <1>7. QED
    BY <1>2, <1>5, <1>6, MildSound

LEMMA JobEndsSound ==
    ASSUME Rough, IInv, Sound, (\E kind \in Kind : JobClaim(kind)) \/ JobRefuse \/ JobStepFail \/ JobKillFail
    PROVE  Sound'
  <1>1. UNCHANGED <<row, saved, pending, copies, Owed, vm, client>>
    BY DEF JobClaim, JobRefuse, JobStepFail, JobKillFail, registry, map, daemon, history, Owed
  <1>2. job.ph # "await" /\ job'.ph \notin {"undump", "mark", "await", "kill"}
    <2>1. CASE JobRefuse \/ JobStepFail \/ JobKillFail
      BY <2>1, JobDone DEF JobRefuse, JobStepFail, JobKillFail
    <2>2. ASSUME NEW kind \in Kind, JobClaim(kind)
          PROVE  job.ph = "none" /\ job'.ph \in {"promote", "evict"}
      BY <2>2 DEF JobClaim, NoJob
    <2>3. QED
      BY <2>1, <2>2
  <1>3. Mild
    BY <1>1 DEF Mild, Alive
  <1>4. \A d \in Client : Careful(d)
    BY <1>1, StillCareful
  <1>5. QED
    BY <1>1, <1>2, <1>3, <1>4, MildSound

LEMMA JobBootSound ==
    ASSUME Rough, IInv, Sound, JobBoot
    PROVE  Sound'
  <1>1. TypeOK /\ Placed
    BY DEF IInv
  <1>2. job.ph = "boot" /\ UNCHANGED <<row, saved, pending, copies, Owed, client>>
    BY DEF JobBoot, registry, map, history, Owed
  <1>3. PICK k \in Vm \cup {0} : k = job.vm
    BY <1>1, JobFields DEF TypeOK
  <1>4. PICK r \in resolve_sandbox(k, FALSE) :
            Boot(r, {}) /\ job' = [job EXCEPT !.vm = r.id, !.ph = "dump"]
    BY <1>3 DEF JobBoot
  <1>5. r.id \in Vm /\ r.prov \in Provenance /\ (r.prov # "Existing" => vm[r.id].st = "none")
    BY <1>1, ResolvedVm, Zenon
  <1>6. /\ job'.ph = "dump" /\ \A j \in Vm : j # r.id => vm'[j] = vm[j]
        /\ vm'[r.id].st = "running" /\ (r.prov = "Existing" => vm'[r.id].data = vm[r.id].data)
    BY <1>1, <1>4, <1>5, JobBootEffect
  <1>7. Mild
    BY <1>5, <1>6 DEF Mild, Alive
  <1>8. \A d \in Client : Careful(d)
    BY <1>2, StillCareful
  <1>9. QED
    BY <1>2, <1>6, <1>7, <1>8, MildSound

\* While the row is live and no bring-up is under way, the row's VM has the data.
LEMMA LiveSurvives ==
    ASSUME IInv', row' # NoRow, row'.tier = "Live",
           \A d \in Client : client'[d].ph \notin {"load", "dispose"}
    PROVE  Survives'
  <1>1. row'.id \in Vm
    BY DEF IInv, TypeOK, Row
  <1>2. Refuge(row.id)'
    BY DEF IInv, Kept, KeptBy, Refuge
  <1>3. QED
    BY <1>1, <1>2 DEF Survives

\* A job past its eviction has the clients out of the way.
LEMMA NobodyLoads ==
    ASSUME IInv, job.ph # "none",
           \A d \in Client : client'[d].ph = client[d].ph \/ (client[d].ph = "serving" /\ client'[d].ph = "broken")
    PROVE  \A d \in Client : client'[d].ph \notin {"load", "dispose"} /\ Careful(d)
  BY DEF IInv, Claimed, Careful

\* The live VM's data is copied, whatever of it is on record.
LEMMA CopySound ==
    ASSUME Rough, IInv, IInv', Sound, JobDump \/ JobImage \/ JobCompact
    PROVE  Sound'
  <1>1. /\ TypeOK /\ row # NoRow /\ row.id \in Vm
        /\ job.ph \in {"dump", "image", "compact"} /\ \A i \in Vm : vm[i].data # Absent
        /\ UNCHANGED <<row, client, vm, Owed>>
    BY CopyCommon DEF JobDump, JobImage, JobCompact
  <1>2. UNCHANGED <<saved, pending>>
    BY DEF JobDump, JobImage, JobCompact, registry
  <1>3. /\ job.vm = row.id /\ row.tier = "Live" /\ job.kind \notin Promotion
        /\ job.ph = "dump" => job.kind \in {"archive", "freeze"}
        /\ job.ph = "image" => job.kind \in {"archive", "image"}
        /\ job.ph = "compact" => job.kind = "compact"
    BY <1>1 DEF IInv, Stages, From, Promotion
  <1>4. PICK data : data = vm[row.id].data
    OBVIOUS
  <1>5. data # Absent /\ Owed \subseteq data /\ Alive(row.id)
    BY <1>1, <1>3, <1>4 DEF IInv, Kept, KeptBy
  <1>6. "mark" \in JobPhase /\ "undump" \in JobPhase
    BY DEF JobPhase
  <1>7. CASE JobDump
    <2>1. job'.ph = "mark" /\ job'.kind = job.kind /\ job'.vm = job.vm /\ job.ph = "dump"
      BY <1>1, <1>6, <1>7, JobTo DEF JobDump
    <2>2. /\ UNCHANGED <<imageFile, s3img>>
          /\ job.kind = "archive" => s3dump' = data /\ dumpFile' = Absent
          /\ job.kind = "freeze" => dumpFile' = data /\ s3dump' = s3dump
      BY <1>3, <1>4, <1>7 DEF JobDump
    <2>3. KeptBy(saved)'
      <3>1. dumpFile' \in {dumpFile, Absent} \/ Whole(dumpFile)'
        BY <1>1, <1>3, <1>5, <2>1, <2>2 DEF Whole
      <3>2. Holds("Archived") => Holds("Archived")'
        BY <1>1, <1>3, <1>5, <2>1, <2>2 DEF Whole, Holds
      <3>3. QED
        BY <1>1, <1>2, <2>2, <3>1, <3>2, SavedKept
    <2>4. Copied'
      <3>1. Alive(job.vm)' /\ vm'[job'.vm].data = data
        BY <1>1, <1>3, <1>4, <1>5, <2>1 DEF Alive
      <3>2. JobTier' = IF job.kind = "freeze" THEN "Frozen" ELSE "Archived"
        BY <1>3, <2>1 DEF JobTier
      <3>3. Covers(JobTier, vm[job.vm].data)'
        BY <1>3, <1>5, <2>1, <2>2, <3>1, <3>2 DEF Covers
      <3>4. QED
        BY <2>1, <3>1, <3>3 DEF Copied
    <2>5. Trail'
      BY <1>1, <1>2, <2>1 DEF Sound, Trail
    <2>6. Survives'
      <3>1. \A d \in Client : client'[d].ph \notin {"load", "dispose"}
        BY <1>1, NobodyLoads
      <3>2. QED
        BY <1>1, <1>3, <3>1, LiveSurvives
    <2>7. QED
      BY <2>3, <2>4, <2>5, <2>6 DEF Sound
  <1>8. CASE JobImage
    <2>1. job'.ph = "undump" /\ job'.kind = job.kind /\ job'.vm = job.vm /\ job.ph = "image"
      BY <1>1, <1>6, <1>8, JobTo DEF JobImage
    <2>2. UNCHANGED <<dumpFile, imageFile, s3dump>> /\ s3img' = data
      BY <1>3, <1>4, <1>8 DEF JobImage
    <2>3. KeptBy(saved)'
      <3>1. Holds("Archived") => Holds("Archived")'
        BY <1>1, <1>5, <2>2 DEF Whole, Holds
      <3>2. QED
        BY <1>1, <1>2, <2>2, <3>1, SavedKept
    <2>4. Copied'
      <3>1. Alive(job.vm)' /\ vm'[job'.vm].data = data
        BY <1>1, <1>3, <1>4, <1>5, <2>1 DEF Alive
      <3>2. QED
        BY <1>5, <2>1, <2>2, <3>1 DEF Copied
    <2>5. Trail'
      BY <1>1, <1>2, <2>1 DEF Sound, Trail
    <2>6. Survives'
      <3>1. \A d \in Client : client'[d].ph \notin {"load", "dispose"}
        BY <1>1, NobodyLoads
      <3>2. QED
        BY <1>1, <1>3, <3>1, LiveSurvives
    <2>7. QED
      BY <2>3, <2>4, <2>5, <2>6 DEF Sound
  <1>9. CASE JobCompact
    <2>1. job'.ph = "mark" /\ job'.kind = job.kind /\ job'.vm = job.vm /\ job.ph = "compact"
      BY <1>1, <1>6, <1>9, JobTo DEF JobCompact
    <2>2. UNCHANGED <<dumpFile, s3img, s3dump>> /\ imageFile' = data
      BY <1>3, <1>4, <1>9 DEF JobCompact
    <2>3. KeptBy(saved)'
      <3>1. Whole(imageFile)' /\ (Holds("Archived") => Holds("Archived")')
        BY <1>1, <1>5, <2>2 DEF Whole, Holds
      <3>2. QED
        BY <1>1, <1>2, <2>2, <3>1, SavedKept
    <2>4. Copied'
      <3>1. Alive(job.vm)' /\ vm'[job'.vm].data = data
        BY <1>1, <1>3, <1>4, <1>5, <2>1 DEF Alive
      <3>2. JobTier' = "Compacted"
        BY <1>3, <2>1 DEF JobTier
      <3>3. Covers(JobTier, vm[job.vm].data)'
        BY <1>5, <2>1, <2>2, <3>1, <3>2 DEF Covers
      <3>4. QED
        BY <2>1, <3>1, <3>3 DEF Copied
    <2>5. Trail'
      BY <1>1, <1>2, <2>1 DEF Sound, Trail
    <2>6. Survives'
      <3>1. \A d \in Client : client'[d].ph \notin {"load", "dispose"}
        BY <1>1, NobodyLoads
      <3>2. QED
        BY <1>1, <1>3, <3>1, LiveSurvives
    <2>7. QED
      BY <2>3, <2>4, <2>5, <2>6 DEF Sound
  <1>10. QED
    BY <1>7, <1>8, <1>9

\* A dump that fails may have replaced the file or the object, by a whole one.
LEMMA DumpFailSound ==
    ASSUME Rough, IInv, IInv', Sound, JobDumpFail
    PROVE  Sound'
  <1>1. TypeOK /\ Placed /\ job.ph = "dump" /\ UNCHANGED <<row, saved, pending, imageFile, s3img, Owed>>
    BY DEF IInv, JobDumpFail, registry, history, Owed
  <1>2. /\ job'.ph \in {"image", "none"}
        /\ \A d \in Client :
              client'[d].ph = client[d].ph \/ (client[d].ph = "serving" /\ client'[d].ph = "broken")
    <2>1. NoJob.ph = "none"
      BY DEF NoJob
    <2>2. QED
      BY <1>1, <2>1, JobFailEffect
  <1>3. row # NoRow /\ row.id \in Vm /\ row.tier = "Live" /\ job.vm = row.id /\ job.kind \in {"archive", "freeze"}
    BY <1>1 DEF Placed, IInv, Stages, From, Promotion, TypeOK, Row
  <1>4. Owed \subseteq vm[row.id].data /\ vm[row.id].data # Absent
    BY <1>1, <1>3, SpecialValues DEF IInv, Kept, KeptBy, TypeOK, VmState
  <1>5. dumpFile' \in {dumpFile, vm[row.id].data} /\ s3dump' \in {s3dump, vm[row.id].data}
    BY <1>3 DEF JobDumpFail
  <1>6. KeptBy(saved)'
    <2>1. dumpFile' \in {dumpFile, Absent} \/ Whole(dumpFile)'
      BY <1>1, <1>4, <1>5 DEF Whole
    <2>2. Holds("Archived") => Holds("Archived")'
      BY <1>1, <1>4, <1>5 DEF Holds, Whole
    <2>3. QED
      BY <1>1, <2>1, <2>2, SavedKept
  <1>7. Trail' /\ Copied'
    BY <1>1, <1>2 DEF Sound, Trail, Copied
  <1>8. Survives'
    <2>1. \A d \in Client : client'[d].ph \notin {"load", "dispose"}
      BY <1>1, <1>2, NobodyLoads
    <2>2. QED
      BY <1>1, <1>3, <2>1, LiveSurvives
  <1>9. QED
    BY <1>6, <1>7, <1>8 DEF Sound

\* Where rows and local files stay, so does the VM that has the data.
LEMMA SameSurvives ==
    ASSUME Sound, UNCHANGED <<row, saved, dumpFile, imageFile, Owed, vm, client>>
    PROVE  Survives'
  <1>1. Mild
    BY DEF Mild, Alive
  <1>2. \A d \in Client : Careful(d)
    BY StillCareful
  <1>3. (Stranded(row) \/ Stranded(saved))' => Stranded(row) \/ Stranded(saved)
    BY DEF Stranded, Missing
  <1>4. (Stranded(row) \/ Stranded(saved))' => \E w \in Vm : Refuge(w)'
    BY <1>1, <1>2, <1>3, RefugeKeeps DEF Sound, Survives
  <1>5. QED
    BY <1>4 DEF Sound, Survives

LEMMA UndumpSound ==
    ASSUME Rough, IInv, IInv', Sound, JobUndump
    PROVE  Sound'
  <1>1. /\ TypeOK /\ job.ph = "undump" /\ s3dump' = Absent
        /\ UNCHANGED <<row, client, vm, Owed, dumpFile, imageFile, s3img>>
    BY CopyCommon DEF JobUndump
  <1>2. UNCHANGED <<saved, pending>>
    BY DEF JobUndump, registry
  <1>3. Whole(s3img) /\ job.kind \in {"archive", "image", "promoteImage"}
    BY <1>1 DEF IInv, Stages
  <1>4. "mark" \in JobPhase
    BY DEF JobPhase
  <1>5. job'.ph = "mark" /\ job'.kind = job.kind /\ job'.vm = job.vm
    BY <1>1, <1>4, JobTo DEF JobUndump
  <1>6. KeptBy(saved)'
    <2>1. Holds("Archived")'
      BY <1>1, <1>3 DEF Holds, Whole
    <2>2. QED
      BY <1>1, <1>2, <2>1, SavedKept
  <1>7. Trail'
    BY <1>1, <1>2, <1>5 DEF Sound, Trail
  <1>8. Copied'
    <2>1. JobTier' = "Archived"
      BY <1>3, <1>5 DEF JobTier
    <2>2. job.kind \notin Promotion =>
              Alive(job.vm) /\ s3img # Absent /\ vm[job.vm].data \subseteq s3img
      BY <1>1 DEF Sound, Copied
    <2>3. job.kind \notin Promotion => Alive(job.vm)' /\ Covers(JobTier, vm[job.vm].data)'
      BY <1>1, <1>5, <2>1, <2>2 DEF Covers, Alive
    <2>4. QED
      BY <1>5, <2>3 DEF Copied
  <1>9. Survives'
    BY <1>1, <1>2, SameSurvives
  <1>10. QED
    BY <1>6, <1>7, <1>8, <1>9 DEF Sound

\* A row that is not live is the one in the file.
LEMMA Settled ==
    ASSUME Sound, job.ph # "await", row = NoRow \/ row.tier # "Live"
    PROVE  pending = <<>> /\ saved = row
  BY DEF Sound, Trail

LEMMA PromoteSound ==
    ASSUME Rough, IInv, IInv', Sound, JobPromote
    PROVE  Sound'
  <1>1. TypeOK /\ job.ph = "promote" /\ UNCHANGED <<row, client, vm, Owed, dumpFile, imageFile>>
    BY CopyCommon DEF JobPromote
  <1>2. UNCHANGED <<saved, pending>>
    BY DEF JobPromote, registry
  <1>3. job.kind \in Promotion /\ row.tier # "Live"
    BY <1>1 DEF IInv, Stages, From, Promotion
  <1>4. "mark" \in JobPhase /\ "undump" \in JobPhase
    BY DEF JobPhase
  <1>5. job'.ph \in {"mark", "undump"} /\ job'.kind = job.kind
    BY <1>1, <1>4, JobTo DEF JobPromote
  <1>6. saved = row
    BY <1>1, <1>3, Settled
  <1>7. KeptBy(saved)'
    BY <1>1, <1>2, <1>6 DEF IInv, Kept
  <1>8. Trail' /\ Copied'
    BY <1>1, <1>2, <1>3, <1>5 DEF Sound, Trail, Copied
  <1>9. Survives'
    BY <1>1, <1>2, SameSurvives
  <1>10. QED
    BY <1>7, <1>8, <1>9 DEF Sound

\* A job's last step: the row it leaves behind is in the file and leads to a copy.
LEMMA LastSound ==
    ASSUME Rough, IInv, IInv', Sound, JobKill \/ JobRm
    PROVE  Sound'
  <1>1. TypeOK /\ Placed /\ job.ph \in {"kill", "rm"} /\ UNCHANGED <<row, saved, pending>> /\ job'.ph = "none"
    BY JobDone DEF IInv, JobKill, JobRm, registry
  <1>2. row.tier = JobTier /\ row.tier # "Live" /\ (job.ph = "rm" => row.tier = "Archived")
    BY <1>1 DEF IInv, Stages, JobTier, Promotion
  <1>3. saved = row
    BY <1>1, <1>2, Settled
  <1>4. KeptBy(saved)'
    BY <1>1, <1>3 DEF IInv, Kept
  <1>5. Trail' /\ Copied'
    BY <1>1 DEF Sound, Trail, Copied
  <1>6. Survives'
    <2>1. ~Missing(row.tier)'
      <3>1. CASE JobKill
        <4>1. Holds(row.tier) /\ UNCHANGED <<dumpFile, imageFile>> /\ row.tier = JobTier
          BY <1>2, <3>1 DEF JobKill, copies, Sound, Copied
        <4>2. QED
          BY <1>1, <4>1 DEF Missing, Holds, Whole
      <3>2. CASE JobRm
        BY <1>1, <1>2, <3>2 DEF JobRm, Missing
      <3>3. QED
        BY <3>1, <3>2
    <2>2. ~Stranded(row)' /\ ~Stranded(saved)'
      BY <1>1, <1>3, <2>1 DEF Stranded
    <2>3. \A d \in Client : client'[d].ph # "dispose"
      <3>1. CASE JobKill
        BY <1>1, <3>1, JobKillEffect DEF IInv, Claimed
      <3>2. CASE JobRm
        BY <1>1, <3>2 DEF JobRm, map, IInv, Claimed
      <3>3. QED
        BY <3>1, <3>2
    <2>4. QED
      BY <2>2, <2>3 DEF Survives
  <1>7. QED
    BY <1>4, <1>5, <1>6 DEF Sound

\* A row in the file leads to the same where nothing but the row in memory changes.
LEMMA SameSaved ==
    ASSUME KeptBy(saved), UNCHANGED <<saved, copies, vm, Owed>>
    PROVE  KeptBy(saved)'
  BY DEF KeptBy, Holds, Missing, Whole, Alive, copies

LEMMA AwaitSound ==
    ASSUME Rough, IInv, Sound, JobAwait
    PROVE  Sound'
  <1>1. /\ TypeOK /\ job.ph = "await" /\ job.wait = 0
        /\ UNCHANGED <<row, saved, pending, client, vm, copies, Owed>>
    BY DEF IInv, JobAwait, registry, map, daemon, history, Owed
  <1>2. "rm" \in JobPhase /\ "kill" \in JobPhase
    BY DEF JobPhase
  <1>3. job'.ph \in {"rm", "kill"} /\ job'.kind = job.kind
    BY <1>1, <1>2, JobTo DEF JobAwait
  <1>4. pending = <<>> /\ saved = row
    BY <1>1 DEF Sound, Trail
  <1>5. Trail'
    BY <1>1, <1>3, <1>4 DEF Trail
  <1>6. Copied'
    <2>1. Holds(JobTier)'
      BY <1>1, <1>3 DEF Sound, Copied, Holds, Whole, JobTier, copies
    <2>2. QED
      BY <1>3, <2>1 DEF Copied
  <1>7. KeptBy(saved)' /\ Survives'
    BY <1>1, SameSaved, SameSurvives DEF Sound, copies
  <1>8. QED
    BY <1>5, <1>6, <1>7 DEF Sound

\* Sequences of at most two versions.
LEMMA ShortSeqs ==
    ASSUME NEW r \in Row, NEW s \in Row
    PROVE  /\ Append(<<r>>, s) = <<r, s>> /\ Len(<<r, s>>) = 2 /\ Len(<<r>>) = 1
           /\ SubSeq(<<r>>, 2, 1) = <<>> /\ SubSeq(<<r, s>>, 3, 2) = <<>>
           /\ SubSeq(<<r, s>>, 2, 2) = <<s>>
  <1>1. /\ <<r>> \in Seq(Row) /\ <<s>> \in Seq(Row) /\ <<r, s>> \in Seq(Row)
        /\ Append(<<r>>, s) \in Seq(Row)
    OBVIOUS
  <1>2. /\ Len(Append(<<r>>, s)) = 2 /\ Len(<<r, s>>) = 2 /\ Len(<<r>>) = 1 /\ Len(<<s>>) = 1
        /\ Append(<<r>>, s)[1] = r /\ Append(<<r>>, s)[2] = s
        /\ <<r, s>>[1] = r /\ <<r, s>>[2] = s /\ <<s>>[1] = s
    OBVIOUS
  <1>3. \A i \in 1..2 : i = 1 \/ i = 2
    OBVIOUS
  <1>4. Append(<<r>>, s) = <<r, s>>
    <2>1. \A i \in 1..Len(Append(<<r>>, s)) : Append(<<r>>, s)[i] = <<r, s>>[i]
      BY <1>2, <1>3
    <2>2. QED
      BY <1>1, <1>2, <2>1, SeqEqual
  <1>5. SubSeq(<<r>>, 2, 1) = <<>> /\ SubSeq(<<r, s>>, 3, 2) = <<>>
    BY <1>1
  <1>6. SubSeq(<<r, s>>, 2, 2) = <<s>>
    <2>1. SubSeq(<<r, s>>, 2, 2) \in Seq(Row) /\ Len(SubSeq(<<r, s>>, 2, 2)) = 1
          /\ SubSeq(<<r, s>>, 2, 2)[1] = s
      BY <1>1, <1>2
    <2>2. \A i \in 1..Len(SubSeq(<<r, s>>, 2, 2)) : SubSeq(<<r, s>>, 2, 2)[i] = <<s>>[i]
      BY <1>2, <2>1
    <2>3. QED
      BY <1>1, <1>2, <2>1, <2>2, SeqEqual
  <1>7. QED
    BY <1>2, <1>4, <1>5, <1>6

\* The row is marked: the version it had is still to be written, if it was live.
LEMMA MarkSound ==
    ASSUME Rough, IInv, IInv', Sound, JobMark
    PROVE  Sound'
  <1>1. TypeOK /\ Placed
    BY DEF IInv
  <1>2. /\ job.ph = "mark" /\ row # NoRow /\ row.id \in Vm
        /\ row' # NoRow /\ row'.id = row.id /\ row'.tier = JobTier
        /\ job'.ph = "await" /\ job'.kind = job.kind /\ job'.vm = job.vm
        /\ UNCHANGED <<client, vm, copies, Owed>>
    BY <1>1, MarkEffect DEF map, daemon, history, Owed
  <1>3. pending' = Append(pending, row') /\ job'.wait = Len(pending') /\ saved' = saved
    BY <1>1, <1>2 DEF JobMark, Stamp, TypeOK, JobState
  <1>4. /\ Holds(JobTier) /\ JobTier' = JobTier /\ row.tier = From(job.kind)
        /\ job.kind \notin Promotion => job.vm = row.id
    BY <1>2 DEF IInv, Stages, JobTier
  <1>5. Trail'
    <2>1. CASE pending = <<>>
      BY <1>2, <1>3, <2>1 DEF Trail
    <2>2. CASE pending = <<row>> /\ row.tier = "Live"
      <3>1. row = [id |-> row'.id, tier |-> "Live"]
        BY <1>1, <1>2, <2>2 DEF TypeOK, Row
      <3>2. pending' = <<row, row'>> /\ Len(pending') = 2
        <4>1. row \in Row /\ row' \in Row
          BY DEF IInv, TypeOK
        <4>2. QED
          BY <1>3, <2>2, <4>1, ShortSeqs
      <3>3. job'.kind \notin Promotion
        BY <1>2, <1>4, <2>2 DEF From, Promotion
      <3>4. QED
        BY <1>2, <1>3, <3>1, <3>2, <3>3 DEF Trail
    <2>3. QED
      BY <1>2, <2>1, <2>2 DEF Sound, Trail
  <1>6. Holds(JobTier)'
    BY <1>2, <1>4 DEF Holds, Whole, copies
  <1>7. Copied'
    <2>1. job.kind \notin Promotion => row.tier = "Live" /\ Alive(row.id) /\ Owed \subseteq vm[row.id].data
      BY <1>2, <1>4 DEF From, Promotion, IInv, Kept, KeptBy
    <2>2. job.kind \notin Promotion => Covers(JobTier, vm[job.vm].data)'
      BY <1>2, <1>4 DEF Sound, Copied, Covers, copies
    <2>3. job.kind \notin Promotion => Alive(job.vm)' /\ (Owed \subseteq vm[job.vm].data)'
      BY <1>2, <1>4, <2>1 DEF Alive
    <2>4. QED
      BY <1>2, <1>6, <2>2, <2>3 DEF Copied
  <1>8. Survives'
    <2>1. ~Missing(row.tier)'
      BY <1>2, <1>4, <1>6 DEF Missing, Holds, Whole
    <2>2. Mild
      BY <1>2 DEF Mild, Alive
    <2>3. \A d \in Client : Careful(d)
      BY <1>2, StillCareful
    <2>4. (Stranded(row) \/ Stranded(saved))' => Stranded(saved)
      BY <1>2, <1>3, <2>1 DEF Stranded, Missing, copies
    <2>5. (Stranded(row) \/ Stranded(saved))' => \E w \in Vm : Refuge(w)'
      BY <1>2, <2>2, <2>3, <2>4, RefugeKeeps DEF Sound, Survives
    <2>6. QED
      BY <1>2, <2>5 DEF Sound, Survives
  <1>9. KeptBy(saved)'
    BY <1>2, <1>3, SameSaved DEF Sound
  <1>10. QED
    BY <1>5, <1>7, <1>8, <1>9 DEF Sound

\* What the file may catch up with: the live row, the row a job waits for, or the live one before it.
LEMMA PersistShape ==
    ASSUME Rough, IInv, Sound, Persist
    PROVE  \/ /\ saved' = row /\ pending' = <<>> /\ row # NoRow /\ row.tier = "Live" /\ job.ph # "await"
              /\ Owed' = Owed \cup vm[row.id].data
           \/ saved' = row /\ pending' = <<>> /\ job.ph = "await" /\ Owed' = Owed
           \/ /\ saved' = [id |-> row.id, tier |-> "Live"] /\ pending' = <<row>> /\ job.ph = "await"
              /\ job'.wait = 1 /\ job.kind \notin Promotion /\ Owed' = Owed \cup vm[row.id].data
  <1>1. PICK i \in 1..Len(pending) :
            /\ saved' = pending[i] /\ pending' = SubSeq(pending, i + 1, Len(pending))
            /\ job' = [job EXCEPT !.wait = IF job.wait > i THEN job.wait - i ELSE 0]
            /\ safe' = safe \cup Held(saved', vm)
    BY DEF Persist
  <1>2. Owed = safe /\ Owed' = safe' /\ row \in Row /\ job \in JobState
    BY RoughBasics DEF IInv, TypeOK
  <1>3. CASE job.ph # "await"
    <2>1. pending = <<row>> /\ row # NoRow /\ row.tier = "Live"
      BY <1>1, <1>3 DEF Sound, Trail
    <2>2. i = 1 /\ pending[1] = row /\ Len(pending) = 1 /\ SubSeq(<<row>>, 2, 1) = <<>>
      BY <1>1, <1>2, <2>1, ShortSeqs
    <2>3. QED
      BY <1>1, <1>2, <1>3, <2>1, <2>2 DEF Held
  <1>4. CASE job.ph = "await"
    <2>1. row # NoRow /\ row.tier # "Live" /\ row.id \in Vm
      BY <1>2, <1>4 DEF IInv, Placed, Stages, JobTier, Row
    <2>2. CASE pending = <<>>
      BY <1>1, <2>2
    <2>3. CASE pending = <<row>>
      <3>1. i = 1 /\ pending[1] = row /\ Len(pending) = 1 /\ SubSeq(<<row>>, 2, 1) = <<>>
        BY <1>1, <1>2, <2>3, ShortSeqs
      <3>2. QED
        BY <1>1, <1>2, <1>4, <2>1, <2>3, <3>1 DEF Held
    <2>4. CASE pending = <<[id |-> row.id, tier |-> "Live"], row>> /\ job.wait = 2 /\ job.kind \notin Promotion
      <3>1. PICK r \in Row : r = [id |-> row.id, tier |-> "Live"]
        BY <2>1 DEF Row, Tier
      <3>2. r # NoRow /\ r.tier = "Live" /\ r.id = row.id
        BY <2>1, <3>1, SpecialValues DEF Tier
      <3>3. /\ pending = <<r, row>> /\ Len(pending) = 2 /\ pending[1] = r /\ pending[2] = row
            /\ SubSeq(pending, 2, 2) = <<row>> /\ SubSeq(pending, 3, 2) = <<>>
        BY <1>2, <2>4, <3>1, ShortSeqs
      <3>4. i = 1 \/ i = 2
        BY <1>1, <3>3
      <3>5. CASE i = 1
        <4>1. saved' = r /\ pending' = <<row>> /\ Owed' = Owed \cup vm[row.id].data
          BY <1>1, <1>2, <3>2, <3>3, <3>5 DEF Held
        <4>2. job'.wait = 1
          BY <1>1, <1>2, <2>4, <3>5 DEF JobState
        <4>3. QED
          BY <1>4, <2>4, <3>1, <4>1, <4>2
      <3>6. CASE i = 2
        BY <1>1, <1>2, <1>4, <2>1, <3>3, <3>6 DEF Held
      <3>7. QED
        BY <3>4, <3>5, <3>6
    <2>5. QED
      BY <1>4, <2>2, <2>3, <2>4 DEF Sound, Trail
  <1>5. QED
    BY <1>3, <1>4

LEMMA PersistSound ==
    ASSUME Rough, IInv, Sound, Persist
    PROVE  IInv' /\ Sound'
  <1>1. /\ TypeOK /\ job'.ph = job.ph /\ job'.kind = job.kind /\ job'.vm = job.vm
        /\ UNCHANGED <<row, client, vm, copies>>
    BY PersistEffect DEF IInv, map, daemon
  <1>2. UNCHANGED <<dumpFile, imageFile, s3dump, s3img>> /\ JobTier' = JobTier
    BY <1>1 DEF copies, JobTier
  <1>3. row # NoRow => row.id \in Vm /\ vm[row.id].data # Absent
    BY <1>1, SpecialValues DEF TypeOK, Row, VmState
  <1>4. Survives' \/ Stranded(row)' \/ Stranded(saved)'
    BY <1>1 DEF Sound, Survives
  <1>5. CASE /\ saved' = row /\ pending' = <<>> /\ row # NoRow /\ row.tier = "Live" /\ job.ph # "await"
             /\ Owed' = Owed \cup vm[row.id].data
    <2>1. Alive(row.id) /\ Owed \subseteq vm[row.id].data
      BY <1>5 DEF IInv, Kept, KeptBy
    <2>2. Owed' = vm[row.id].data
      BY <1>5, <2>1
    <2>3. Kept'
      BY <1>1, <1>5, <2>1, <2>2 DEF Kept, KeptBy, Alive
    <2>4. job.ph \in {"undump", "mark"} => job.kind \notin Promotion /\ job.vm = row.id
      BY <1>5 DEF IInv, Stages, From, Promotion
    <2>5. Stages'
      <3>1. job.ph = "undump" => Whole(s3img)'
        BY <1>2, <2>2, <2>4 DEF Sound, Copied, Whole
      <3>2. job.ph = "mark" => Covers(JobTier, vm[row.id].data)
        BY <2>4 DEF Sound, Copied
      <3>3. job.ph = "mark" => Holds(JobTier)'
        BY <1>2, <2>2, <3>2 DEF Covers, Holds, Whole
      <3>4. QED
        BY <1>1, <1>2, <3>1, <3>3 DEF IInv, Stages
    <2>6. Loading'
      BY <1>1, <1>5, <2>2 DEF IInv, Loading, Loads
    <2>7. IInv'
      BY <2>3, <2>5, <2>6, PersistKeeps
    <2>8. KeptBy(saved)' /\ Trail'
      BY <1>1, <1>5, <2>3 DEF Kept, Trail
    <2>9. Copied'
      <3>1. job.ph # "kill"
        BY <1>5 DEF IInv, Stages, JobTier
      <3>2. QED
        BY <1>1, <1>2, <1>5, <3>1 DEF Sound, Copied, Covers, Alive
    <2>10. Survives'
      BY <1>1, <1>4, <1>5 DEF Stranded, Missing
    <2>11. QED
      BY <2>7, <2>8, <2>9, <2>10 DEF Sound
  <1>6. CASE saved' = row /\ pending' = <<>> /\ job.ph = "await" /\ Owed' = Owed
    <2>1. IInv'
      BY <1>6, PersistKeeps
    <2>2. KeptBy(saved)' /\ Trail'
      BY <1>1, <1>6, <2>1 DEF IInv, Kept, Trail
    <2>3. Copied'
      BY <1>1, <1>2, <1>6 DEF Sound, Copied, Covers, Alive, Holds, Whole
    <2>4. Survives'
      <3>1. Mild /\ \A d \in Client : Careful(d)
        BY <1>1, StillCareful DEF Mild, Alive
      <3>2. (Stranded(row) \/ Stranded(saved))' => Stranded(row)
        BY <1>1, <1>2, <1>6 DEF Stranded, Missing
      <3>3. (Stranded(row) \/ Stranded(saved))' => \E w \in Vm : Refuge(w)'
        BY <1>6, <3>1, <3>2, RefugeKeeps DEF Sound, Survives
      <3>4. QED
        BY <1>1, <3>3 DEF Sound, Survives
    <2>5. QED
      BY <2>1, <2>2, <2>3, <2>4 DEF Sound
  <1>7. CASE /\ saved' = [id |-> row.id, tier |-> "Live"] /\ pending' = <<row>> /\ job.ph = "await"
             /\ job'.wait = 1 /\ job.kind \notin Promotion /\ Owed' = Owed \cup vm[row.id].data
    <2>1. /\ row # NoRow /\ row.tier = JobTier /\ row.tier # "Live" /\ job.vm = row.id
      BY <1>7 DEF IInv, Placed, Stages, JobTier
    <2>2. Alive(row.id) /\ Owed \subseteq vm[row.id].data /\ Covers(JobTier, vm[row.id].data)
      BY <1>7, <2>1 DEF Sound, Copied
    <2>3. Owed' = vm[row.id].data
      BY <1>7, <2>2
    <2>4. Holds(JobTier)'
      BY <1>2, <2>2, <2>3 DEF Covers, Holds, Whole
    <2>5. Kept' /\ Stages'
      BY <1>1, <1>2, <1>7, <2>1, <2>4 DEF Kept, KeptBy, Stages
    <2>6. \A d \in Client : client[d].ph \notin {"load", "dispose"}
      BY <1>7 DEF IInv, Claimed
    <2>7. Loading'
      BY <1>1, <2>6 DEF Loading, Loads
    <2>8. IInv'
      BY <2>5, <2>7, PersistKeeps
    <2>9. PICK r \in Row : r = [id |-> row.id, tier |-> "Live"] /\ r # NoRow /\ r.tier = "Live" /\ r.id = row.id
      <3>1. [id |-> row.id, tier |-> "Live"] \in [id : Vm, tier : Tier]
        BY <1>3, <2>1 DEF Tier
      <3>2. [id |-> row.id, tier |-> "Live"] \in Row /\ [id |-> row.id, tier |-> "Live"] # NoRow
        BY <3>1, SpecialValues DEF Row
      <3>3. QED
        BY <3>2
    <2>10. KeptBy(saved)'
      <3>1. saved' = r
        BY <1>7, <2>9
      <3>2. saved' # NoRow /\ saved'.tier = "Live" /\ saved'.id = row.id
        BY <2>9, <3>1
      <3>3. QED
        BY <1>1, <2>2, <2>3, <3>2 DEF KeptBy, Alive
    <2>11. Trail'
      BY <1>1, <1>7 DEF Trail
    <2>12. Copied'
      BY <1>1, <1>2, <1>7, <2>1, <2>2, <2>3, <2>4 DEF Copied, Covers, Alive
    <2>13. Survives'
      BY <1>1, <1>2, <1>4, <1>7, <2>1, <2>4, <2>9 DEF Stranded, Missing, Holds, Whole
    <2>14. QED
      BY <2>8, <2>10, <2>11, <2>12, <2>13 DEF Sound
  <1>8. QED
    BY <1>5, <1>6, <1>7, PersistShape

\* After a restart the row is the one in the file, and nobody remembers anything else.
LEMMA CrashSound ==
    ASSUME Rough, IInv, Sound, Crash
    PROVE  IInv' /\ Sound'
  <1>1. TypeOK /\ Placed
    BY DEF IInv
  <1>2. TypeOK' /\ Placed'
    BY <1>1, CrashTypes
  <1>3. /\ row' = saved /\ pending' = <<>> /\ saved' = saved /\ cur' = 0 /\ reaped' = 0
        /\ job' = NoJob /\ UNCHANGED <<vm, copies, Owed>> /\ Spend("crash")
        /\ entry' = [k \in Cell |-> 0] /\ client' = [c \in Client |-> Idle]
    BY DEF Crash, history, Owed
  <1>4. (\A k \in Cell : entry'[k] = 0) /\ \A c \in Client : client'[c].ph = "idle"
    BY <1>3, IdleFields
  <1>5. job'.ph = "none" /\ Stages'
    BY <1>3, JobDone
  <1>6. KeptBy(saved)'
    BY <1>3, SameSaved DEF Sound
  <1>7. Kept'
    BY <1>3, <1>6 DEF Kept
  <1>8. Fewer /\ faults["overlap"] = 0
    <2>1. "crash" \in Fault /\ "crash" # "overlap" /\ ~Calm
      BY RoughBasics DEF Fault
    <2>2. QED
      BY <1>1, <1>3, <2>1, SpendFewer DEF IInv, Quiet
  <1>9. IInv'
    <2>1. Quiet'
      BY <1>4, <1>8, QuietKeeps DEF IInv
    <2>2. Tracked' /\ Claimed' /\ Reading' /\ Loading'
      BY <1>4, <1>5 DEF Tracked, OnCell, Early, Claimed, Reading, Loading, Loads
    <2>3. Together'
      BY <1>8 DEF Together, Fewer
    <2>4. QED
      BY <1>2, <1>5, <1>7, <2>1, <2>2, <2>3 DEF IInv
  <1>10. Trail' /\ Copied'
    BY <1>3, <1>5 DEF Trail, Copied
  <1>11. Survives'
    <2>1. Mild /\ \A d \in Client : Careful(d)
      BY <1>3, <1>4, StillCareful DEF Mild, Alive
    <2>2. (Stranded(row) \/ Stranded(saved))' => Stranded(saved)
      BY <1>3 DEF Stranded, Missing, copies
    <2>3. (Stranded(row) \/ Stranded(saved))' => \E w \in Vm : Refuge(w)'
      BY <1>3, <2>1, <2>2, RefugeKeeps DEF Sound, Survives
    <2>4. QED
      BY <1>4, <2>3 DEF Survives
  <1>12. QED
    BY <1>6, <1>9, <1>10, <1>11 DEF Sound

\* A commit is owed once its VM is the recorded one.
LEMMA CommitSound ==
    ASSUME Rough, IInv, Sound, NEW c \in Client, CommitTx(c)
    PROVE  IInv' /\ Sound'
  <1>1. TypeOK /\ Placed
    BY DEF IInv
  <1>2. /\ client[c].ph = "serving" /\ safe' = safe \cup Held(saved, vm')
        /\ UNCHANGED <<row, saved, pending, cur, entry, client, job, copies>>
    BY <1>1, CommitEffect DEF registry, map, CommitTx
  <1>3. client[c].cell = cur /\ cur \in Cell /\ entry[cur] # 0 /\ entry[cur] \in Vm
    BY <1>2, OnItsCell DEF Early, IInv, Tracked, OnCell
  <1>4. row = [id |-> entry[cur], tier |-> "Live"] /\ row.tier = "Live"
    BY <1>3 DEF IInv, Tracked
  <1>5. row # NoRow
    BY <1>3, <1>4, SpecialValues DEF Tier
  <1>6. job.ph \in {"none", "evict"}
    BY <1>3 DEF IInv, Claimed
  <1>7. saved = row \/ saved = NoRow \/ saved.tier # "Live"
    BY <1>6 DEF Sound, Trail
  <1>8. Owed' = IF saved = row THEN Owed \cup vm'[row.id].data ELSE Owed
    BY <1>4, <1>5, <1>7, <1>2, RoughBasics DEF Held
  <1>9. IInv'
    BY <1>8, CommitKeeps
  <1>10. KeptBy(saved)'
    <2>1. CASE saved = row
      BY <1>2, <1>9, <2>1 DEF IInv, Kept
    <2>2. CASE saved # row
      <3>1. Owed' = Owed /\ UNCHANGED <<dumpFile, imageFile, s3dump, s3img>>
        BY <1>2, <1>8, <2>2 DEF copies
      <3>2. Holds("Archived") => Holds("Archived")'
        BY <3>1 DEF Holds, Whole
      <3>3. QED
        BY <1>1, <1>2, <1>7, <2>2, <3>1, <3>2, FileKept DEF Sound
    <2>3. QED
      BY <2>1, <2>2
  <1>11. Trail' /\ Copied'
    BY <1>2, <1>6 DEF Sound, Trail, Copied
  <1>12. Survives'
    <2>1. \A d \in Client : client'[d].ph \notin {"load", "dispose"}
      BY <1>2, <1>3 DEF IInv, Tracked, OnCell, Early
    <2>2. QED
      BY <1>2, <1>4, <1>5, <1>9, <2>1, LiveSurvives
  <1>13. QED
    BY <1>9, <1>10, <1>11, <1>12 DEF Sound

\* A schema that is brought up: the row is live again, the file has still the one before.
LEMMA LoadSound ==
    ASSUME Rough, IInv, IInv', Sound, NEW c \in Client, Load(c)
    PROVE  Sound'
  <1>1. /\ TypeOK /\ client[c].ph = "load" /\ Running(client[c].vm) /\ Move(c, "unlink")
        /\ Put(client[c].vm) /\ UNCHANGED <<job, copies, Owed>>
    BY DEF IInv, Load, history, Owed
  <1>2. job.ph = "none" /\ Loads(c)
    BY <1>1, OnItsCell DEF Early, IInv, Loading
  <1>3. PICK i \in Vm : i = client[c].vm
    <2>1. client[c].vm \in Vm \cup {0}
      BY <1>1, ClientFields DEF TypeOK
    <2>2. QED
      BY <1>1, <2>1 DEF Running
  <1>4. row' = [id |-> i, tier |-> "Live"] /\ row'.tier = "Live" /\ row' # NoRow
    <2>1. row' = [id |-> i, tier |-> "Live"]
      BY <1>1, <1>3, PutTypes
    <2>2. [id |-> i, tier |-> "Live"] # NoRow
      BY SpecialValues DEF Tier
    <2>3. QED
      BY <2>1, <2>2
  <1>5. saved' = saved
    BY <1>1 DEF Put, Stamp, registry
  <1>6. row # NoRow /\ row.tier = "Live" => row' = row /\ UNCHANGED <<row, saved, pending>>
    <2>1. row # NoRow /\ row.tier = "Live" => row = [id |-> i, tier |-> "Live"]
      BY <1>1, <1>2, <1>3 DEF Loads, TypeOK, Row
    <2>2. QED
      BY <1>1, <1>3, <2>1 DEF Put, registry
  <1>7. saved # NoRow /\ saved.tier = "Live" => saved = row
    BY <1>2 DEF Sound, Trail
  <1>8. KeptBy(saved)'
    <2>1. CASE saved # NoRow /\ saved.tier = "Live"
      BY <1>5, <1>6, <1>7, <2>1 DEF IInv, Kept
    <2>2. CASE saved = NoRow \/ saved.tier # "Live"
      <3>1. UNCHANGED <<dumpFile, imageFile, s3dump, s3img>>
        BY <1>1 DEF copies
      <3>2. Holds("Archived") => Holds("Archived")'
        BY <1>1, <3>1 DEF Holds, Whole
      <3>3. QED
        BY <1>1, <1>5, <2>2, <3>1, <3>2, FileKept DEF Sound
    <2>3. QED
      BY <2>1, <2>2
  <1>9. Trail'
    <2>1. CASE row # NoRow /\ row.tier = "Live"
      BY <1>1, <1>2, <1>6, <2>1 DEF Sound, Trail
    <2>2. CASE row = NoRow \/ row.tier # "Live"
      <3>1. pending = <<>> /\ saved = row
        BY <1>2, <2>2, Settled
      <3>2. row # [id |-> i, tier |-> "Live"]
        BY <1>4, <2>2
      <3>3. pending' = Append(pending, row')
        BY <1>1, <1>3, <1>4, <3>2 DEF Put, Stamp
      <3>4. pending' = <<row'>>
        BY <3>1, <3>3
      <3>5. QED
        BY <1>1, <1>2, <1>4, <1>5, <2>2, <3>1, <3>4 DEF Trail
    <2>3. QED
      BY <2>1, <2>2
  <1>10. Copied'
    BY <1>1, <1>2 DEF Copied
  <1>11. Survives'
    <2>1. "unlink" \in Phase
      BY DEF Phase
    <2>2. client'[c].ph = "unlink" /\ \A d \in Client : d # c => client'[d] = client[d]
      BY <1>1, <2>1, MoveEffect
    <2>3. \A d \in Client : client'[d].ph \notin {"load", "dispose"}
      BY <1>1, <2>2 DEF IInv, Tracked
    <2>4. QED
      BY <1>4, <2>3, LiveSurvives
  <1>12. QED
    BY <1>8, <1>9, <1>10, <1>11 DEF Sound

\* The file a schema was thawed from goes, though the row in the registry file may lead there.
LEMMA UnlinkSound ==
    ASSUME Rough, IInv, IInv', Sound, NEW c \in Client, Unlink(c)
    PROVE  Sound'
  <1>1. TypeOK /\ Placed
    BY DEF IInv
  <1>2. /\ client[c].ph = "unlink" /\ client'[c].ph = "admit"
        /\ \A d \in Client : d # c => client'[d] = client[d]
        /\ dumpFile' \in {dumpFile, Absent} /\ imageFile' \in {imageFile, Absent}
        /\ UNCHANGED <<row, saved, pending, job, s3dump, s3img, Owed>>
    BY <1>1, UnlinkEffect DEF registry, history, Owed
  <1>3. client[c].cell = cur /\ cur \in Cell /\ job.ph = "none" /\ entry[cur] # 0
    BY <1>2, OnItsCell DEF Early, IInv, Tracked, OnCell
  <1>4. row = [id |-> entry[cur], tier |-> "Live"] /\ row.tier = "Live"
    BY <1>3 DEF IInv, Tracked
  <1>5. row # NoRow
    BY <1>1, <1>3, <1>4, SpecialValues DEF TypeOK, Tier
  <1>6. KeptBy(saved)'
    <2>1. Holds("Archived") => Holds("Archived")'
      BY <1>2 DEF Holds, Whole
    <2>2. QED
      BY <1>2, <1>3, <2>1, SavedKept
  <1>7. Trail' /\ Copied'
    BY <1>2, <1>3 DEF Sound, Trail, Copied
  <1>8. Survives'
    <2>1. \A d \in Client : client'[d].ph \notin {"load", "dispose"}
      BY <1>2, <1>3 DEF IInv, Tracked, OnCell, Early
    <2>2. QED
      BY <1>2, <1>4, <1>5, <2>1, LiveSurvives
  <1>9. QED
    BY <1>6, <1>7, <1>8 DEF Sound

\* A VM that is disposed of is a new one: not the one that has the data.
LEMMA DisposeSound ==
    ASSUME Rough, IInv, IInv', Sound, NEW c \in Client, Dispose(c)
    PROVE  Sound'
  <1>1. /\ TypeOK /\ client[c].ph = "dispose" /\ client[c].prov # "Existing" /\ (row = NoRow \/ row.tier # "Live")
        /\ UNCHANGED <<row, saved, pending, job, copies, Owed>>
    BY DEF IInv, Loading, Loads, Sound, Survives, Dispose, registry, history, Owed
  <1>2. job.ph = "none"
    BY <1>1, OnItsCell DEF Early
  <1>3. saved = row
    BY <1>1, <1>2, Settled
  <1>4. KeptBy(saved)'
    BY <1>1, <1>3 DEF IInv, Kept
  <1>5. Trail' /\ Copied'
    BY <1>1, <1>2 DEF Sound, Trail, Copied
  <1>6. PICK cl : cl = [client EXCEPT ![c].ph = "cleanup"]
    OBVIOUS
  <1>7. cl \in [Client -> ClientState] /\ cl[c].ph = "cleanup" /\ \A d \in Client : d # c => cl[d] = client[d]
    <2>1. client[c] \in ClientState /\ "cleanup" \in Phase
      BY <1>1 DEF TypeOK, Phase
    <2>2. [client[c] EXCEPT !.ph = "cleanup"] \in ClientState
      BY <2>1, ClientFields
    <2>3. QED
      BY <1>1, <1>6, <2>1, <2>2 DEF TypeOK, ClientState
  <1>8. PICK i \in Vm \cup {0} : i = client[c].vm
    BY <1>1, ClientFields DEF TypeOK
  <1>9. client' = Broken(cl, i) /\ \A j \in Vm : j # i => vm'[j] = vm[j]
    BY <1>1, <1>6, <1>8, KillEffect DEF Dispose
  <1>10. \A d \in Client :
             /\ client'[d].vm = cl[d].vm /\ client'[d].prov = cl[d].prov
             /\ client'[d].ph = cl[d].ph \/ client'[d].ph = "broken"
    BY <1>7, <1>9, BrokenEffect
  <1>11. \A d \in Client : client'[d].ph \in {"load", "dispose"} =>
             client'[d].ph = client[d].ph /\ client'[d].vm = client[d].vm /\ client'[d].prov = client[d].prov
    BY <1>7, <1>10
  <1>12. ASSUME NEW w \in Vm, Refuge(w) PROVE Refuge(w)'
    <2>1. w # i
      BY <1>1, <1>8, <1>12 DEF Refuge
    <2>2. vm'[w] = vm[w]
      BY <1>9, <2>1
    <2>3. QED
      BY <1>1, <1>11, <1>12, <2>2 DEF Refuge, Alive
  <1>13. Survives'
    <2>1. (Stranded(row) \/ Stranded(saved))' => Stranded(row) \/ Stranded(saved)
      BY <1>1 DEF Stranded, Missing, copies
    <2>2. (Stranded(row) \/ Stranded(saved))' => \E w \in Vm : Refuge(w)'
      BY <1>12, <2>1 DEF Sound, Survives
    <2>3. \A d \in Client : client'[d].ph = "dispose" => client'[d].prov # "Existing"
      BY <1>11 DEF Sound, Survives
    <2>4. QED
      BY <2>2, <2>3 DEF Survives
  <1>14. QED
    BY <1>4, <1>5, <1>13 DEF Sound

\* A step spends at most one fault.
LEMMA FaultsFall ==
    ASSUME TypeOK, [Next]_vars
    PROVE  \A f \in Fault : faults[f] \in Nat /\ faults'[f] \in Nat /\ faults'[f] <= faults[f]
  <1>1. faults' = faults \/ \E f \in Fault : Spend(f)
    <2>1. ASSUME NEW c \in Client, Checkout(c) \/ Check(c) \/ ClientStep(c) \/ BreakerHold(c)
              \/ PickRestoreError(c) \/ ReattachError(c) \/ DisposeFail(c) \/ CommitTx(c) \/ EndSession(c)
          PROVE  faults' = faults \/ Spend("boot") \/ Spend("rm") \/ Spend("head") \/ Spend("reattach")
                     \/ Spend("kill")
      <3>1. CASE ClientStep(c)
        BY <3>1 DEF ClientStep, BringupStep, Lookup, Admit, AdmitTimeout, Probe, Evict, ReadRecord,
               PickRestore, Resolve, Materialize, ResolveFail, Load, BringupFail, Dispose, Cleanup, Join, Unlink
      <3>2. CASE Checkout(c) \/ Check(c) \/ BreakerHold(c) \/ PickRestoreError(c) \/ ReattachError(c)
                 \/ DisposeFail(c) \/ CommitTx(c) \/ EndSession(c)
        BY <3>2 DEF Checkout, Check, BreakerHold, PickRestoreError, ReattachError, DisposeFail, CommitTx,
               EndSession
      <3>3. QED
        BY <2>1, <3>1, <3>2
    <2>2. CASE JobStep
      <3>1. faults' = faults \/ Spend("jobBoot") \/ Spend("dump") \/ Spend("undump") \/ Spend("rm")
        BY <2>2 DEF JobStep, JobEvict, JobRefuse, JobBoot, JobBootFail, JobDump, JobDumpFail, JobImage,
               JobUndump, JobCompact, JobPromote, JobStepFail, JobMark, JobAwait, JobKill, JobRm
      <3>2. QED
        BY <3>1 DEF Fault
    <2>3. CASE ReapEvict \/ ReapStop \/ (\E kind \in Kind : JobClaim(kind)) \/ JobReattachError
               \/ JobAwaitFail \/ JobKillFail \/ Persist \/ Crash
      <3>1. faults' = faults \/ Spend("reap") \/ Spend("reattach") \/ Spend("write") \/ Spend("kill")
                \/ Spend("crash")
        BY <2>3 DEF ReapEvict, ReapStop, JobClaim, JobReattachError, JobAwaitFail, JobKillFail, Persist, Crash
      <3>2. QED
        BY <3>1 DEF Fault
    <2>4. CASE UNCHANGED vars
      BY <2>4 DEF vars
    <2>5. {"boot", "rm", "head", "reattach", "kill"} \subseteq Fault
      BY DEF Fault
    <2>6. QED
      BY <2>1, <2>2, <2>3, <2>4, <2>5 DEF Next
  <1>2. CASE faults' = faults
    BY <1>2 DEF TypeOK
  <1>3. ASSUME NEW f \in Fault, Spend(f)
        PROVE  \A g \in Fault : faults[g] \in Nat /\ faults'[g] \in Nat /\ faults'[g] <= faults[g]
    BY <1>3, SpendEffect DEF Spend, TypeOK
  <1>4. QED
    BY <1>1, <1>2, <1>3

\* A lapse is not forgotten, and spending one of its faults is a lapse.
LEMMA LapseStays ==
    ASSUME TypeOK, Bounded, [Next]_vars
    PROVE  /\ Bounded' /\ (Lapsed => Lapsed')
           /\ \A f \in Lapses : Spend(f) => Lapsed'
  <1>1. \A f \in Lapses : f \in Fault
    BY DEF Lapses, Fault
  <1>2. \A f \in Lapses : faults[f] \in Nat /\ faults'[f] \in Nat /\ faults'[f] <= faults[f]
    BY <1>1, FaultsFall
  <1>3. \A f \in Lapses, b \in Budgets : b[f] \in Nat
    BY <1>1, LifeAssumption
  <1>4. Bounded'
    BY <1>2, <1>3 DEF Bounded
  <1>5. Lapsed => Lapsed'
    BY <1>2, <1>3 DEF Lapsed, Spent
  <1>6. ASSUME NEW f \in Lapses, Spend(f) PROVE Lapsed'
    <2>1. faults'[f] = faults[f] - 1 /\ faults[f] > 0
      BY <1>1, <1>6 DEF Spend, TypeOK
    <2>2. \A b \in Budgets : faults'[f] < b[f]
      BY <1>2, <1>3, <2>1 DEF Bounded
    <2>3. QED
      BY <2>2 DEF Lapsed, Spent
  <1>7. QED
    BY <1>4, <1>5, <1>6

\* The steps that are not steady and that are lapses.
LEMMA LapseSteps ==
    ASSUME TypeOK, Bounded, [Next]_vars,
           JobReattachError \/ JobAwaitFail \/ \E c \in Client : PickRestoreError(c) \/ ReattachError(c)
    PROVE  Lapsed'
  <1>1. \E f \in Lapses : Spend(f)
    BY DEF JobReattachError, JobAwaitFail, PickRestoreError, ReattachError, Lapses
  <1>2. QED
    BY <1>1, LapseStays

LEMMA SteadySound ==
    ASSUME Rough, IInv, Sound, Steady, ~JobAwaitFail
    PROVE  Sound'
  <1>1. IInv'
    BY SteadyKeeps
  <1>2. CASE UNCHANGED vars
    <2>1. UNCHANGED <<row, saved, pending, copies, Owed, vm, job, client>>
      BY <1>2 DEF vars, registry, map, daemon, history, Owed
    <2>2. Mild /\ \A d \in Client : Careful(d)
      BY <2>1, StillCareful DEF Mild, Alive
    <2>3. QED
      BY <2>1, <2>2, MildSound
  <1>3. ASSUME NEW c \in Client, SteadyStep(c)
        PROVE  Sound'
    <2>1. CASE Checkout(c) \/ Check(c) \/ Lookup(c) \/ Admit(c) \/ AdmitTimeout(c) \/ Probe(c) \/ Evict(c)
               \/ BreakerHold(c) \/ EndSession(c) \/ ReadRecord(c) \/ PickRestore(c)
      BY <2>1, CheckoutSound
    <2>2. CASE Resolve(c) \/ Materialize(c)
      BY <2>2, ResolveSound
    <2>3. CASE ResolveFail(c) \/ BringupFail(c) \/ DisposeFail(c) \/ Join(c)
      BY <2>3, FailSound
    <2>4. CASE Load(c) \/ Dispose(c) \/ Cleanup(c) \/ Unlink(c)
      BY <1>1, <2>4, LoadSound, DisposeSound, StopsSound, UnlinkSound
    <2>5. QED
      BY <1>3, <2>1, <2>2, <2>3, <2>4 DEF SteadyStep, ClientStep, BringupStep
  <1>4. CASE JobStep
    BY <1>1, <1>4, JobStopsSound, JobEndsSound, JobBootSound, CopySound, DumpFailSound, UndumpSound,
       PromoteSound, LastSound, AwaitSound, MarkSound DEF JobStep
  <1>5. CASE ReapEvict \/ ReapStop \/ (\E kind \in Kind : JobClaim(kind)) \/ JobKillFail
    BY <1>5, StopsSound, JobEndsSound
  <1>6. QED
    BY <1>2, <1>3, <1>4, <1>5 DEF Steady

LEMMA RoughInductive ==
    ASSUME Rough, IInv, Sound, Bounded, [Next]_vars
    PROVE  Lapsed' \/ (IInv' /\ Sound')
  <1>1. TypeOK
    BY DEF IInv
  <1>2. CASE JobReattachError \/ JobAwaitFail \/ \E c \in Client : PickRestoreError(c) \/ ReattachError(c)
    BY <1>1, <1>2, LapseSteps
  <1>3. CASE Steady /\ ~JobAwaitFail
    BY <1>3, SteadyKeeps, SteadySound
  <1>4. CASE Persist \/ Crash \/ \E c \in Client : CommitTx(c)
    BY <1>4, PersistSound, CrashSound, CommitSound
  <1>5. QED
    BY <1>2, <1>3, <1>4, NextSteps

\* A single copy has all that is owed.
LEMMA CopyFound ==
    ASSUME Rough, IInv, Sound
    PROVE  NothingDurableLost
  <1>1. Owed = safe /\ 1 \in Vm
    BY RoughBasics
  <1>2. SUFFICES \E copy \in {vm[i].data : i \in Vm} \cup {dumpFile, imageFile, s3dump, s3img} :
                     copy # Absent /\ Owed \subseteq copy
    BY <1>1 DEF NothingDurableLost
  <1>3. \A i \in Vm : vm[i].data \in {vm[j].data : j \in Vm} /\ vm[i].data # Absent
    BY SpecialValues DEF IInv, TypeOK, VmState
  <1>4. CASE row = NoRow
    BY <1>1, <1>3, <1>4 DEF IInv, Kept, KeptBy
  <1>5. CASE row # NoRow /\ row.tier = "Live"
    <2>1. row.id \in Vm /\ Owed \subseteq vm[row.id].data
      BY <1>5 DEF IInv, TypeOK, Row, Kept, KeptBy
    <2>2. QED
      BY <1>3, <2>1
  <1>6. CASE row # NoRow /\ row.tier # "Live" /\ Holds(row.tier)
    <2>1. Whole(dumpFile) \/ Whole(imageFile) \/ Whole(s3dump) \/ Whole(s3img)
      BY <1>6 DEF Holds, Whole
    <2>2. QED
      BY <2>1 DEF Whole
  <1>7. CASE row # NoRow /\ Missing(row.tier)
    <2>1. PICK w \in Vm : Owed \subseteq vm[w].data
      BY <1>7 DEF Sound, Survives, Stranded, Refuge
    <2>2. QED
      BY <1>3, <2>1
  <1>8. QED
    BY <1>4, <1>5, <1>6, <1>7 DEF IInv, Kept, KeptBy

\* DurableIsKept: while the pooler dies and restarts, and bring-ups, dumps, kills, removals and
\* reaps fail or not, some single copy keeps every transaction whose VM was once on record in
\* the registry file, unless a registry write, a reattach or a HEAD failed; for any number of
\* clients, VMs, commits, restarts and pending versions.
THEOREM DurableIsKept == Rough /\ Spec => []NothingDurableLost
  <1> SUFFICES ASSUME Rough PROVE Spec => []NothingDurableLost
    OBVIOUS
  <1> DEFINE Inv == TypeOK /\ Placed /\ Bounded /\ (Lapsed \/ (IInv /\ Sound))
  <1>1. Init => Inv
    <2> SUFFICES ASSUME Init PROVE Inv
      OBVIOUS
    <2>1. IInv
      BY InitHolds DEF Rough
    <2>2. Bounded
      <3>1. faults \in Budgets /\ Lapses \subseteq Fault
        BY DEF Init, Lapses, Fault
      <3>2. \A f \in Lapses, b \in Budgets : faults[f] = b[f] /\ b[f] \in Nat
        BY <3>1, LifeAssumption DEF Rough, Lapses
      <3>3. QED
        BY <3>2 DEF Bounded
    <2>3. row = NoRow /\ saved = NoRow /\ pending = <<>> /\ job.ph = "none" /\ Owed = {}
      BY RoughBasics DEF Init, NoJob
    <2>4. \A c \in Client : client[c].ph = "idle"
      BY IdleFields DEF Init
    <2>5. Sound
      BY <2>3, <2>4 DEF Sound, KeptBy, Trail, Copied, Survives, Stranded
    <2>6. QED
      BY <2>1, <2>2, <2>5 DEF IInv
  <1>2. Inv /\ [Next]_vars => Inv'
    <2> SUFFICES ASSUME Inv, [Next]_vars PROVE Inv'
      OBVIOUS
    <2>1. TypeOK' /\ Placed' /\ Bounded'
      BY KeptTypes, LapseStays
    <2>2. CASE Lapsed
      BY <2>1, <2>2, LapseStays
    <2>3. CASE IInv /\ Sound
      BY <2>1, <2>3, RoughInductive
    <2>4. QED
      BY <2>2, <2>3
  <1>3. Inv => NothingDurableLost
    <2>1. Lapsed => NothingDurableLost
      BY DEF Lapsed, Lapses, NothingDurableLost
    <2>2. QED
      BY <2>1, CopyFound
  <1>4. QED
    BY <1>1, <1>2, <1>3, PTL DEF Spec

=============================================================================
