---------------------------- MODULE PartsProofs ----------------------------
(***************************************************************************)
(* What TLAPS proves about the components with small state spaces: the     *)
(* locks of the store (StoreLocks), bring-up (BootReady), the image tier   *)
(* (ImageMove), the dump server (DumpServer), dedicated databases          *)
(* (Dedicated) and alert rules (Alerts), for all values of their           *)
(* constants.  The properties are those of the composition, which MCParts  *)
(* checks on small sets; the components share no variable, so each proof   *)
(* is about one of them.                                                   *)
(***************************************************************************)
EXTENDS Components, FunctionTheorems, FiniteSetTheorems, SequenceTheorems, TLAPS

----------------------------------------------------------------------------
(* A behaviour of the composition is a behaviour of each component: the    *)
(* steps of the others leave its variables alone.                          *)

LEMMA LocksBehave == Spec => Locks!Spec
<1>1. Init => Locks!Init
  BY DEF Init
<1>2. [Next]_vars => [Locks!Next]_Locks!vars
  BY DEF Next, MovesLocks, MovesBoot, MovesImage, MovesDump, MovesCreds, MovesAlerts, vars,
         locks, Locks!vars
<1> QED BY <1>1, <1>2, PTL DEF Spec, Locks!Spec

LEMMA BootBehave == Spec => Boot!Spec
<1>1. Init => Boot!Init
  BY DEF Init
<1>2. [Next]_vars => [Boot!Next]_Boot!vars
  BY DEF Next, MovesLocks, MovesBoot, MovesImage, MovesDump, MovesCreds, MovesAlerts, vars,
         boots, Boot!vars, Boot!guest
<1> QED BY <1>1, <1>2, PTL DEF Spec, Boot!Spec

LEMMA ImageBehave == Spec => Image!Spec
<1>1. Init => Image!Init
  BY DEF Init
<1>2. [Next]_vars => [Image!Next]_Image!vars
  BY DEF Next, MovesLocks, MovesBoot, MovesImage, MovesDump, MovesCreds, MovesAlerts, vars,
         images, Image!vars, Image!remote, Image!bounds
<1> QED BY <1>1, <1>2, PTL DEF Spec, Image!Spec

LEMMA DumpBehave == Spec => Dump!Spec
<1>1. Init => Dump!Init
  BY DEF Init
<1>2. [Next]_vars => [Dump!Next]_Dump!vars
  BY DEF Next, MovesLocks, MovesBoot, MovesImage, MovesDump, MovesCreds, MovesAlerts, vars,
         dumps, Dump!vars, Dump!server, Dump!past
<1> QED BY <1>1, <1>2, PTL DEF Spec, Dump!Spec

LEMMA CredsBehave == Spec => Creds!Spec
<1>1. Init => Creds!Init
  BY DEF Init
<1>2. [Next]_vars => [Creds!Next]_Creds!vars
  BY DEF Next, MovesLocks, MovesBoot, MovesImage, MovesDump, MovesCreds, MovesAlerts, vars,
         creds, Creds!vars, Creds!disk
<1> QED BY <1>1, <1>2, PTL DEF Spec, Creds!Spec

LEMMA RulesBehave == Spec => Rules!Spec
<1>1. Init => Rules!Init
  BY DEF Init
<1>2. [Next]_vars => [Rules!Next]_Rules!vars
  BY DEF Next, MovesLocks, MovesBoot, MovesImage, MovesDump, MovesCreds, MovesAlerts, vars,
         alerts, Rules!vars, Rules!history
<1> QED BY <1>1, <1>2, PTL DEF Spec, Rules!Spec

----------------------------------------------------------------------------
(* The locks of the store.                                                 *)

\* Who holds which mutex is known from where he is.
Holders ==
    \A t \in Thread :
        /\ mapLock = t <=> pc[t] \in {"changed", "drop_cache", "scan"}
        /\ cacheLock = t <=> pc[t] \in {"drop_cache", "enter", "scan", "looked"}

\* Until put has dropped it, a set may be stale, stored or about to be; from then on it
\* is the bound ids.
FreshSet ==
    (\A t \in Thread : pc[t] # "changed")
        => /\ cache \in {NoSet, Locks!Bound}
           /\ \A t \in Thread : pc[t] \in {"scan", "looked"} => ret[t] = Locks!Bound

LocksInv == Locks!TypeOK /\ Holders /\ FreshSet

LEMMA BoundType == Locks!TypeOK => Locks!Bound \in SUBSET Sandbox
BY DEF Locks!TypeOK, Locks!Bound

LEMMA LocksInit == Locks!LocksAssumption /\ Locks!Init => LocksInv
<1> SUFFICES ASSUME Locks!LocksAssumption, Locks!Init PROVE LocksInv
  OBVIOUS
<1>1. Locks!TypeOK
  BY DEF Locks!Init, Locks!TypeOK, Locks!Step
<1>2. Holders
  BY DEF Locks!LocksAssumption, Locks!Init, Holders
<1>3. FreshSet
  BY DEF Locks!Init, FreshSet
<1> QED BY <1>1, <1>2, <1>3 DEF LocksInv

LEMMA LocksNext == Locks!LocksAssumption /\ LocksInv /\ [Locks!Next]_Locks!vars => LocksInv'
<1> SUFFICES ASSUME Locks!LocksAssumption, LocksInv, [Locks!Next]_Locks!vars
             PROVE  LocksInv'
  OBVIOUS
<1> USE DEF Locks!LocksAssumption
<1>0. Locks!TypeOK /\ Holders /\ FreshSet /\ Locks!Bound \in SUBSET Sandbox
  BY BoundType DEF LocksInv
<1>1. CASE UNCHANGED Locks!vars
  BY <1>0, <1>1 DEF Locks!vars, LocksInv, Locks!TypeOK, Holders, FreshSet, Locks!Bound
<1>2. ASSUME NEW t \in Thread, NEW s \in Schema, NEW id \in Sandbox, Locks!PutInsert(t, s, id)
      PROVE  LocksInv'
  <2>1. Locks!TypeOK'
    BY <1>0, <1>2 DEF Locks!PutInsert, Locks!Goto, Locks!TypeOK, Locks!Step
  <2>2. Holders'
    BY <1>0, <1>2 DEF Locks!PutInsert, Locks!Goto, Locks!TypeOK, Holders
  <2>3. pc'[t] = "changed"
    BY <1>0, <1>2 DEF Locks!PutInsert, Locks!Goto, Locks!TypeOK
  <2> QED BY <2>1, <2>2, <2>3 DEF LocksInv, FreshSet
<1>3. ASSUME NEW t \in Thread, Locks!PutDropCache(t)
      PROVE  LocksInv'
  <2>1. Locks!TypeOK'
    BY <1>0, <1>3 DEF Locks!PutDropCache, Locks!Goto, Locks!TypeOK, Locks!Step
  <2>2. Holders'
    BY <1>0, <1>3 DEF Locks!PutDropCache, Locks!Goto, Locks!TypeOK, Holders
  <2>3. \A u \in Thread : pc'[u] \notin {"scan", "looked"}
    BY <1>0, <1>3 DEF Locks!PutDropCache, Locks!Goto, Locks!TypeOK, Holders
  <2>4. cache' = NoSet
    BY <1>3 DEF Locks!PutDropCache
  <2> QED BY <2>1, <2>2, <2>3, <2>4 DEF LocksInv, FreshSet
<1>4. ASSUME NEW t \in Thread,
             Locks!PutUnlock(t) \/ Locks!BoundEnter(t) \/ Locks!BoundHit(t) \/ Locks!BoundUnlockMap(t)
      PROVE  LocksInv'
  <2>1. Locks!TypeOK'
    BY <1>0, <1>4 DEF Locks!PutUnlock, Locks!BoundEnter, Locks!BoundHit, Locks!BoundUnlockMap,
                      Locks!Goto, Locks!TypeOK, Locks!Step
  <2>2. Holders'
    BY <1>0, <1>4 DEF Locks!PutUnlock, Locks!BoundEnter, Locks!BoundHit, Locks!BoundUnlockMap,
                      Locks!Goto, Locks!TypeOK, Holders
  <2>3. /\ cache' = cache /\ Locks!Bound' = Locks!Bound
        /\ \A u \in Thread : (pc'[u] = "changed" <=> pc[u] = "changed")
        /\ \A u \in Thread : pc'[u] \in {"scan", "looked"} =>
                                 pc[u] \in {"scan", "looked"} /\ ret'[u] = ret[u]
    BY <1>0, <1>4 DEF Locks!PutUnlock, Locks!BoundEnter, Locks!BoundHit, Locks!BoundUnlockMap,
                      Locks!Goto, Locks!TypeOK, Locks!Bound
  <2>4. FreshSet'
    BY <1>0, <2>3 DEF FreshSet
  <2> QED BY <2>1, <2>2, <2>4 DEF LocksInv
<1>5. ASSUME NEW t \in Thread, Locks!BoundScan(t)
      PROVE  LocksInv'
  <2>1. Locks!TypeOK'
    BY <1>0, <1>5 DEF Locks!BoundScan, Locks!Goto, Locks!TypeOK, Locks!Step
  <2>2. Holders'
    BY <1>0, <1>5 DEF Locks!BoundScan, Locks!Goto, Locks!TypeOK, Holders
  <2>3. /\ cache' = cache /\ Locks!Bound' = Locks!Bound /\ ret'[t] = Locks!Bound
        /\ \A u \in Thread : u # t => pc'[u] = pc[u] /\ ret'[u] = ret[u]
        /\ pc[t] # "changed"
    BY <1>0, <1>5 DEF Locks!BoundScan, Locks!Goto, Locks!TypeOK, Locks!Bound
  <2>4. FreshSet'
    BY <1>0, <2>3 DEF FreshSet
  <2> QED BY <2>1, <2>2, <2>4 DEF LocksInv
<1>6. ASSUME NEW t \in Thread, Locks!BoundStore(t)
      PROVE  LocksInv'
  <2>1. Locks!TypeOK'
    BY <1>0, <1>6 DEF Locks!BoundStore, Locks!Goto, Locks!TypeOK, Locks!Step
  <2>2. Holders'
    BY <1>0, <1>6 DEF Locks!BoundStore, Locks!Goto, Locks!TypeOK, Holders
  <2>3. /\ cache' = ret[t] /\ Locks!Bound' = Locks!Bound /\ ret' = ret /\ pc[t] = "looked"
        /\ pc'[t] = "idle" /\ \A u \in Thread : u # t => pc'[u] = pc[u]
    BY <1>0, <1>6 DEF Locks!BoundStore, Locks!Goto, Locks!TypeOK, Locks!Bound
  <2>4. FreshSet'
    BY <1>0, <2>3 DEF FreshSet
  <2> QED BY <2>1, <2>2, <2>4 DEF LocksInv
<1> QED BY <1>1, <1>2, <1>3, <1>4, <1>5, <1>6 DEF Locks!Next

\* For any number of threads, schemas and sandboxes: whenever no thread is inside put, the
\* cached set, and one about to be cached, is the set of bound ids (Store::bound_ids, put).
THEOREM CacheIsFresh == Spec => []CacheFresh
<1>1. Locks!Init => LocksInv
  BY LocksFacts, LocksInit
<1>2. LocksInv /\ [Locks!Next]_Locks!vars => LocksInv'
  BY LocksFacts, LocksNext
<1>3. LocksInv => Locks!CacheFresh
  BY DEF LocksInv, FreshSet, Locks!CacheFresh
<1> QED BY <1>1, <1>2, <1>3, LocksBehave, PTL DEF Locks!Spec, CacheFresh

----------------------------------------------------------------------------
(* Bring-up.                                                               *)

Reaching == {"probe", "wait", "cycle", "launch", "load", "served"}

\* The address of a bring-up that has connected is that of the boot that runs.
Addressed == b.ph \in Reaching => b.target = boot

\* While a load is awaited, and unless it was launched beside an older one: the only job is
\* that of this attempt, and an exit code is that job's last word.
LastWord ==
    /\ b.ph \in {"load", "served"} /\ ~overtaken =>
           /\ jobs \subseteq {attempts}
           /\ exitCode # "none" => jobs = {}
           /\ exitCode = "zero" => loaded
    /\ b.ph = "served" /\ ~overtaken => exitCode = "zero"

\* A window of probes remembers every silence, and ends with the first answer; a wait has
\* not lasted for the whole of its time.
Evidence ==
    /\ b.ph = "probe" => heard \subseteq {"refused", "slow"} /\ ("slow" \in heard => b.stalled)
    /\ b.ph \in {"ready", "connect", "wait", "cycle"} => b.polls < ReadyPolls

BootInv == Boot!TypeOK /\ Addressed /\ LastWord /\ Evidence

LEMMA BootBounds ==
    Boot!BootReadyAssumption =>
        /\ ReadyPolls \in Nat \ {0} /\ WindowProbes \in Nat \ {0}
        /\ MaxAttempts \in Nat /\ MaxEvents \in Nat
BY DEF Boot!BootReadyAssumption

LEMMA BootInit == Boot!BootReadyAssumption /\ Boot!Init => BootInv
<1> SUFFICES ASSUME Boot!BootReadyAssumption, Boot!Init PROVE BootInv
  OBVIOUS
<1>1. Boot!NoBringup \in Boot!Bringup /\ Boot!NoBringup.ph = "idle"
  BY DEF Boot!NoBringup, Boot!Bringup
<1>2. attempts \in 0..MaxAttempts /\ events \in 0..MaxEvents
  BY BootBounds DEF Boot!Init
<1>3. Boot!TypeOK
  BY <1>1, <1>2 DEF Boot!Init, Boot!TypeOK
<1> QED BY <1>1, <1>3 DEF Boot!Init, BootInv, Addressed, LastWord, Evidence, Reaching

\* What probes meet.
LEMMA MeetsType == Boot!TypeOK => Boot!Meets \in {"slow", "refused", "answer", "ready"}
BY DEF Boot!TypeOK, Boot!Meets

LEMMA FailType ==
    ASSUME Boot!Fail
    PROVE  b' \in Boot!Bringup /\ b'.ph = "dispose"
BY DEF Boot!Fail, Boot!NoBringup, Boot!Bringup

\* A poll that only counts.
LEMMA PollType ==
    ASSUME b \in Boot!Bringup, NEW n \in Nat, NEW stalled \in BOOLEAN
    PROVE  /\ b.polls \in Nat /\ b.missing \in Nat
           /\ [b EXCEPT !.polls = b.polls + 1, !.missing = n] \in Boot!Bringup
           /\ [b EXCEPT !.polls = b.polls + 1, !.stalled = stalled] \in Boot!Bringup
<1>1. b.polls \in Nat /\ b.polls + 1 \in Nat /\ b.missing \in Nat
  BY DEF Boot!Bringup
<1> QED BY <1>1 DEF Boot!Bringup

\* An event within its bound.
LEMMA EventType ==
    ASSUME Boot!BootReadyAssumption, Boot!TypeOK, events < MaxEvents, events' = events + 1
    PROVE  events' \in 0..MaxEvents
BY BootBounds DEF Boot!TypeOK

\* A step that leaves the guest, the load and its accounts alone.
LEMMA BringupOnly ==
    ASSUME BootInv, b' \in Boot!Bringup, events' \in 0..MaxEvents,
           UNCHANGED <<vm, boot, pg, jobs, exitCode, loaded, overtaken, attempts>>,
           heard' \subseteq {"refused", "slow", "answer"},
           Addressed', Evidence',
           b'.ph \in {"load", "served"} => b.ph = "load",
           b'.ph = "served" => exitCode = "zero"
    PROVE  BootInv'
<1>1. Boot!TypeOK'
  BY DEF BootInv, Boot!TypeOK
<1>2. LastWord'
  BY DEF BootInv, LastWord
<1> QED BY <1>1, <1>2 DEF BootInv

\* The steps of the guest and the daemon.
LEMMA GuestKeeps ==
    ASSUME Boot!BootReadyAssumption, BootInv,
           \/ Boot!Booted \/ Boot!Recovers
           \/ \E to \in {"down", "starting", "slow", "deaf"} : Boot!Sickens(to)
           \/ Boot!VmLost("failed") \/ Boot!VmLost("unknown")
    PROVE  BootInv'
<1> USE DEF Boot!Booted, Boot!Recovers, Boot!Sickens, Boot!VmLost, Boot!Event
<1>0. Boot!TypeOK
      /\ UNCHANGED <<boot, exitCode, loaded, b, heard, overtaken, attempts>>
  BY DEF BootInv
<1>1. events' \in 0..MaxEvents
  BY <1>0, EventType DEF Boot!TypeOK
<1>2. jobs' \in {{}, jobs}
  OBVIOUS
<1>3. vm' \in {"stopped", "booting", "running", "failed", "unknown"}
      /\ pg' \in {"down", "starting", "slow", "up", "deaf"}
  BY <1>0 DEF Boot!TypeOK
<1>4. Boot!TypeOK'
  BY <1>0, <1>1, <1>2, <1>3 DEF Boot!TypeOK
<1>5. LastWord'
  BY <1>0, <1>2 DEF BootInv, LastWord
<1> QED BY <1>0, <1>4, <1>5 DEF BootInv, Addressed, Evidence

LEMMA JobEndKeeps ==
    ASSUME Boot!BootReadyAssumption, BootInv, NEW j \in jobs, NEW code \in {"zero", "other"},
           Boot!JobEnds(j, code)
    PROVE  BootInv'
<1>0. /\ Boot!TypeOK /\ UNCHANGED <<vm, boot, pg, b, heard, overtaken, attempts>>
      /\ jobs' = jobs \ {j} /\ exitCode' = code
  BY DEF BootInv, Boot!JobEnds
<1>1. events' \in 0..MaxEvents
  BY <1>0, EventType DEF Boot!TypeOK, Boot!JobEnds, Boot!Event
<1>2. /\ loaded' \in BOOLEAN
      /\ j = attempts => (loaded' <=> code = "zero")
  BY <1>0 DEF Boot!TypeOK, Boot!JobEnds
<1>3. Boot!TypeOK'
  BY <1>0, <1>1, <1>2 DEF Boot!TypeOK
<1>4. LastWord'
  <2>1. b.ph = "served" => jobs = {} \/ overtaken
    BY DEF BootInv, LastWord
  <2>2. ASSUME b.ph \in {"load", "served"}, ~overtaken
        PROVE  jobs' = {} /\ j = attempts
    BY <1>0, <2>2 DEF BootInv, LastWord
  <2> QED BY <1>0, <1>2, <2>1, <2>2 DEF BootInv, LastWord
<1> QED BY <1>0, <1>3, <1>4 DEF BootInv, Addressed, Evidence

\* A step that ends outside load and served keeps what is said of them.
LEMMA LastWordVoid ==
    ASSUME b'.ph \notin {"load", "served"}
    PROVE  LastWord'
BY DEF LastWord

\* An early poll of the wait for the daemon.
LEMMA PollAgainKeeps ==
    ASSUME Boot!BootReadyAssumption, Boot!TypeOK, b.ph = "ready", NEW n \in Nat, Boot!PollAgain(n)
    PROVE  b' \in Boot!Bringup /\ b'.ph \in {"dispose", "ready"} /\ Evidence'
<1>1. CASE Boot!Fail
  BY <1>1, FailType DEF Evidence
<1>2. CASE ~(b.polls + 1 >= ReadyPolls) /\ b' = [b EXCEPT !.polls = @ + 1, !.missing = n]
  <2>1. b' \in Boot!Bringup /\ b'.ph = "ready" /\ b'.polls = b.polls + 1 /\ b.polls \in Nat
    <3>1. b \in Boot!Bringup /\ FALSE \in BOOLEAN
      BY DEF Boot!TypeOK
    <3>2. b' \in Boot!Bringup /\ b.polls \in Nat
      BY <1>2, <3>1, PollType
    <3> QED BY <1>2, <3>1, <3>2 DEF Boot!Bringup
  <2> QED BY <1>2, <2>1, BootBounds DEF Evidence
<1> QED BY <1>1, <1>2 DEF Boot!PollAgain

LEMMA ReadyKeeps ==
    ASSUME Boot!BootReadyAssumption, BootInv,
           Boot!wait_ready_status \/ Boot!wait_ready_error \/ Boot!wait_ready_not_found
    PROVE  BootInv'
<1>0. Boot!TypeOK /\ b.ph = "ready"
      /\ UNCHANGED <<vm, boot, pg, jobs, exitCode, loaded, heard, overtaken, attempts>>
  BY DEF BootInv, Boot!wait_ready_status, Boot!wait_ready_error, Boot!wait_ready_not_found,
         Boot!guest
<1>1. events' \in 0..MaxEvents
  BY <1>0, EventType DEF Boot!TypeOK, Boot!wait_ready_status, Boot!wait_ready_error,
         Boot!wait_ready_not_found, Boot!Event
<1>2. b' \in Boot!Bringup /\ b'.ph \in {"dispose", "ready", "connect"} /\ Evidence'
  <2>1. CASE Boot!Fail
    BY <2>1, FailType DEF Evidence
  <2>2. CASE \E n \in Nat : Boot!PollAgain(n)
    BY <1>0, <2>2, PollAgainKeeps
  <2>3. CASE b' = [b EXCEPT !.ph = "connect", !.polls = 0, !.missing = 0]
    <3>1. b' \in Boot!Bringup /\ b'.ph = "connect" /\ b'.polls = 0
      BY <1>0, <2>3 DEF Boot!TypeOK, Boot!Bringup
    <3> QED BY <3>1, BootBounds DEF Evidence
  <2>4. 0 \in Nat /\ b.missing + 1 \in Nat
    BY <1>0 DEF Boot!TypeOK, Boot!Bringup
  <2>5. CASE Boot!wait_ready_status
    BY <2>1, <2>2, <2>3, <2>4, <2>5 DEF Boot!wait_ready_status
  <2>6. CASE Boot!wait_ready_error
    BY <2>2, <2>4, <2>6 DEF Boot!wait_ready_error
  <2>7. CASE Boot!wait_ready_not_found
    BY <2>1, <2>2, <2>4, <2>7 DEF Boot!wait_ready_not_found
  <2> QED BY <2>5, <2>6, <2>7
<1>3. Addressed'
  BY <1>2 DEF Addressed, Reaching
<1>4. heard' \subseteq {"refused", "slow", "answer"}
  BY <1>0 DEF Boot!TypeOK
<1> QED BY <1>0, <1>1, <1>2, <1>3, <1>4, BringupOnly

LEMMA BeginKeeps ==
    ASSUME Boot!BootReadyAssumption, BootInv, Boot!Begin
    PROVE  BootInv'
<1>0. Boot!TypeOK
  BY DEF BootInv
<1>1. /\ b' \in Boot!Bringup /\ b'.ph = "ready" /\ b'.polls = 0
  BY DEF Boot!Begin, Boot!NoBringup, Boot!Bringup
<1>2. /\ boot' \in Nat /\ jobs' \in {{}, jobs} /\ pg' \in {"down", pg} /\ vm' \in {"booting", vm}
      /\ UNCHANGED <<exitCode, loaded>>
  BY <1>0 DEF Boot!Begin, Boot!Start, Boot!guest, Boot!TypeOK
<1>3. attempts' \in 0..MaxAttempts /\ heard' = {} /\ UNCHANGED <<overtaken, events>>
  BY <1>0, BootBounds DEF Boot!Begin, Boot!TypeOK
<1>4. Boot!TypeOK'
  BY <1>0, <1>1, <1>2, <1>3 DEF Boot!TypeOK
<1>5. Evidence'
  BY <1>1, BootBounds DEF Evidence
<1> QED BY <1>1, <1>4, <1>5, LastWordVoid DEF BootInv, Addressed, Reaching

\* What connect_pg, the probes and a failure to connect do to the bring-up.
LEMMA ConnectKeeps ==
    ASSUME Boot!BootReadyAssumption, BootInv, Boot!connect_pg \/ Boot!ConnectFails
    PROVE  BootInv'
<1>0. Boot!TypeOK
  BY DEF BootInv
<1>1. CASE Boot!ConnectFails
  <2>1. b' \in Boot!Bringup /\ b'.ph = "dispose"
    BY <1>1, FailType DEF Boot!ConnectFails
  <2>2. events' \in 0..MaxEvents
    BY <1>0, <1>1, EventType DEF Boot!ConnectFails, Boot!Event
  <2> QED BY <1>0, <1>1, <2>1, <2>2, BringupOnly
          DEF Boot!ConnectFails, Boot!guest, Addressed, Reaching, Evidence, Boot!TypeOK
<1>2. CASE Boot!connect_pg
  <2>1. b' \in Boot!Bringup /\ b'.ph \in {"wait", "probe"} /\ b'.target = boot /\ b'.polls = b.polls
    BY <1>0, <1>2 DEF Boot!connect_pg, Boot!TypeOK, Boot!Bringup
  <2>2. b.ph = "connect" /\ heard' = {} /\ boot' = boot /\ events' \in 0..MaxEvents
    BY <1>0, <1>2 DEF Boot!connect_pg, Boot!guest, Boot!TypeOK
  <2>3. Evidence' /\ Addressed'
    BY <2>1, <2>2 DEF BootInv, Evidence, Addressed
  <2> QED BY <1>2, <2>1, <2>2, <2>3, BringupOnly DEF Boot!connect_pg, Boot!guest
<1> QED BY <1>1, <1>2

LEMMA HearsType ==
    ASSUME Boot!TypeOK, Boot!Hears
    PROVE  /\ heard' \subseteq {"refused", "slow", "answer"}
           /\ heard' = heard \cup ({Boot!Meets} \ {"ready"})
<1>1. Boot!Meets \in {"slow", "refused", "answer", "ready"}
  BY MeetsType
<1> QED BY <1>1 DEF Boot!Hears, Boot!TypeOK

\* One probe of the window.
LEMMA WindowStep ==
    ASSUME Boot!BootReadyAssumption, BootInv, Boot!probe_pg_window
    PROVE  /\ b' \in Boot!Bringup /\ b'.target = b.target
           /\ b'.ph \in {"launch", "wait", "probe", "cycle"}
           /\ b'.ph # "probe" => b'.polls = 0
           /\ b'.ph = "probe" => /\ Boot!Meets \in {"refused", "slow"}
                                 /\ (b'.stalled <=> (b.stalled \/ Boot!Meets = "slow"))
           /\ b'.ph = "cycle" => ~b.stalled /\ Boot!Meets = "refused"
<1>0. /\ b \in Boot!Bringup /\ b.ph = "probe"
      /\ Boot!Meets \in {"slow", "refused", "answer", "ready"}
  BY MeetsType DEF BootInv, Boot!TypeOK, Boot!probe_pg_window
<1>1. CASE Boot!Meets = "ready"
  BY <1>0, <1>1 DEF Boot!probe_pg_window, Boot!probe_pg, Boot!Bringup
<1>2. CASE Boot!Meets = "answer"
  BY <1>0, <1>2 DEF Boot!probe_pg_window, Boot!probe_pg, Boot!Bringup
<1>3. CASE Boot!Meets \in {"slow", "refused"}
  <2> DEFINE stalled == b.stalled \/ Boot!Meets = "slow"
  <2>0. stalled \in BOOLEAN
    BY <1>0 DEF Boot!Bringup
  <2>1. b' = IF b.polls + 1 < WindowProbes
             THEN [b EXCEPT !.polls = @ + 1, !.stalled = stalled]
             ELSE IF stalled
             THEN [b EXCEPT !.ph = "wait", !.polls = 0, !.verdict = "stalled"]
             ELSE [b EXCEPT !.ph = "cycle", !.polls = 0]
    BY <1>3 DEF Boot!probe_pg_window, Boot!probe_pg
  <2>2. CASE b' = [b EXCEPT !.polls = @ + 1, !.stalled = stalled]
    <3>1. /\ b' \in Boot!Bringup /\ b'.ph = "probe" /\ b'.target = b.target
          /\ b'.stalled = stalled
      <4>1. b' \in Boot!Bringup
        BY <1>0, <2>0, <2>2, PollType
      <4> QED BY <1>0, <2>2, <4>1 DEF Boot!Bringup
    <3> QED BY <1>3, <3>1
  <2>3. CASE b' = [b EXCEPT !.ph = "wait", !.polls = 0, !.verdict = "stalled"]
    BY <1>0, <2>3 DEF Boot!Bringup
  <2>4. CASE ~stalled /\ b' = [b EXCEPT !.ph = "cycle", !.polls = 0]
    BY <1>0, <1>3, <2>4 DEF Boot!Bringup
  <2> QED BY <2>1, <2>2, <2>3, <2>4
<1> QED BY <1>0, <1>1, <1>2, <1>3

LEMMA WindowKeeps ==
    ASSUME Boot!BootReadyAssumption, BootInv, Boot!probe_pg_window
    PROVE  BootInv'
<1>0. /\ Boot!TypeOK /\ b.ph = "probe" /\ Boot!Hears
      /\ UNCHANGED <<vm, boot, pg, jobs, exitCode, loaded, overtaken, attempts, events>>
  BY DEF BootInv, Boot!probe_pg_window, Boot!guest
<1>1. events' \in 0..MaxEvents
  BY <1>0 DEF Boot!TypeOK
<1>2. /\ heard' \subseteq {"refused", "slow", "answer"}
      /\ heard' = heard \cup ({Boot!Meets} \ {"ready"})
  BY <1>0, HearsType
<1>3. Addressed'
  BY <1>0, WindowStep DEF BootInv, Addressed, Reaching
<1>4. Evidence'
  BY <1>0, <1>2, WindowStep, BootBounds DEF BootInv, Evidence
<1> QED BY <1>0, <1>1, <1>2, <1>3, <1>4, WindowStep, BringupOnly

LEMMA WaitStep ==
    ASSUME Boot!BootReadyAssumption, BootInv, Boot!wait_pg_ready
    PROVE  /\ b' \in Boot!Bringup /\ b'.ph \in {"launch", "wait", "cycle", "dispose"}
           /\ b'.ph # "dispose" => b'.target = b.target
           /\ b'.ph \in {"wait", "cycle"} => b'.polls < ReadyPolls
           /\ b'.ph = "cycle" => b.polls + 1 = ReadyPolls
<1>0. b \in Boot!Bringup /\ b.ph = "wait" /\ b.polls < ReadyPolls
  BY DEF BootInv, Boot!TypeOK, Boot!wait_pg_ready, Evidence
<1>1. CASE b' = [b EXCEPT !.ph = "launch", !.polls = 0]
  BY <1>0, <1>1 DEF Boot!Bringup
<1>2. CASE b.polls + 1 < ReadyPolls /\ b' = [b EXCEPT !.polls = @ + 1]
  BY <1>0, <1>2 DEF Boot!Bringup
<1>3. CASE ~(b.polls + 1 < ReadyPolls) /\ b' = [b EXCEPT !.ph = "cycle", !.polls = 0]
  <2>1. /\ b' \in Boot!Bringup /\ b'.ph = "cycle" /\ b'.polls = 0 /\ b'.target = b.target
        /\ b.polls \in Nat
    BY <1>0, <1>3 DEF Boot!Bringup
  <2> QED BY <1>0, <1>3, <2>1, BootBounds
<1>4. CASE Boot!Fail
  BY <1>4, FailType
<1> QED BY <1>1, <1>2, <1>3, <1>4 DEF Boot!wait_pg_ready

LEMMA WaitKeeps ==
    ASSUME Boot!BootReadyAssumption, BootInv, Boot!wait_pg_ready
    PROVE  BootInv'
<1>0. /\ Boot!TypeOK /\ b.ph = "wait" /\ Boot!Hears
      /\ UNCHANGED <<vm, boot, pg, jobs, exitCode, loaded, overtaken, attempts, events>>
  BY DEF BootInv, Boot!wait_pg_ready, Boot!guest
<1>1. events' \in 0..MaxEvents
  BY <1>0 DEF Boot!TypeOK
<1>2. heard' \subseteq {"refused", "slow", "answer"}
  BY <1>0, HearsType
<1>3. Addressed'
  BY <1>0, WaitStep DEF BootInv, Addressed, Reaching
<1>4. Evidence'
  BY <1>0, WaitStep DEF Evidence
<1> QED BY <1>0, <1>1, <1>2, <1>3, <1>4, WaitStep, BringupOnly

LEMMA CycleKeeps ==
    ASSUME Boot!BootReadyAssumption, BootInv, Boot!power_cycle
    PROVE  BootInv'
<1>0. Boot!TypeOK /\ b.ph = "cycle"
  BY DEF BootInv, Boot!power_cycle
<1>1. b' \in Boot!Bringup /\ b'.ph = "ready" /\ b'.polls = b.polls
  BY <1>0 DEF Boot!power_cycle, Boot!TypeOK, Boot!Bringup
<1>2. /\ boot' \in Nat /\ jobs' = {} /\ pg' = "down" /\ vm' = "booting"
      /\ UNCHANGED <<exitCode, loaded, heard, overtaken, attempts, events>>
  BY <1>0 DEF Boot!power_cycle, Boot!TypeOK
<1>3. Boot!TypeOK'
  BY <1>0, <1>1, <1>2 DEF Boot!TypeOK
<1>4. Evidence'
  BY <1>0, <1>1 DEF BootInv, Evidence
<1> QED BY <1>1, <1>3, <1>4, LastWordVoid DEF BootInv, Addressed, Reaching

\* A bring-up that gives up; and one poll of a load that is awaited.
LEMMA GiveUpKeeps ==
    ASSUME Boot!BootReadyAssumption, BootInv, Boot!Fail, events' \in 0..MaxEvents,
           UNCHANGED <<vm, boot, pg, jobs, exitCode, loaded, heard, overtaken, attempts>>
    PROVE  BootInv'
<1>1. b' \in Boot!Bringup /\ b'.ph = "dispose"
  BY FailType
<1>2. heard' \subseteq {"refused", "slow", "answer"}
  BY DEF BootInv, Boot!TypeOK
<1>3. Addressed' /\ Evidence'
  BY <1>1 DEF Addressed, Reaching, Evidence
<1> QED BY <1>1, <1>2, <1>3, BringupOnly

LEMMA AwaitKeeps ==
    ASSUME Boot!BootReadyAssumption, BootInv, b.ph = "load", events' \in 0..MaxEvents,
           UNCHANGED <<vm, boot, pg, jobs, exitCode, loaded, heard, overtaken, attempts>>,
           b' \in Boot!Bringup, b'.target = b.target, b'.ph \in {"load", "served"},
           b'.ph = "served" => exitCode = "zero"
    PROVE  BootInv'
<1>1. heard' \subseteq {"refused", "slow", "answer"}
  BY DEF BootInv, Boot!TypeOK
<1>2. Addressed' /\ Evidence'
  BY DEF BootInv, Addressed, Reaching, Evidence
<1> QED BY <1>1, <1>2, BringupOnly

LEMMA FailuresKeep ==
    ASSUME Boot!BootReadyAssumption, BootInv, Boot!CycleFails \/ Boot!LaunchFails
    PROVE  BootInv'
<1>1. events' \in 0..MaxEvents
  BY EventType DEF BootInv, Boot!TypeOK, Boot!CycleFails, Boot!LaunchFails
<1> QED BY <1>1, GiveUpKeeps DEF Boot!CycleFails, Boot!LaunchFails, Boot!guest

LEMMA LaunchKeeps ==
    ASSUME Boot!BootReadyAssumption, BootInv, Boot!launch, attempts > 0
    PROVE  BootInv'
<1>0. Boot!TypeOK /\ b.ph = "launch"
  BY DEF BootInv, Boot!launch
<1>1. b' \in Boot!Bringup /\ b'.ph = "load" /\ b'.target = b.target
  BY <1>0 DEF Boot!launch, Boot!TypeOK, Boot!Bringup
<1>2. /\ jobs' = jobs \cup {attempts} /\ exitCode' = "none" /\ loaded' = FALSE
      /\ UNCHANGED <<vm, boot, pg, heard, attempts, events>>
      /\ overtaken' \in BOOLEAN /\ (~overtaken' => jobs = {})
  BY <1>0 DEF Boot!launch, Boot!TypeOK
<1>3. attempts \in 1..MaxAttempts
  BY <1>0, BootBounds DEF Boot!TypeOK
<1>4. Boot!TypeOK'
  BY <1>0, <1>1, <1>2, <1>3 DEF Boot!TypeOK
<1>5. LastWord'
  BY <1>1, <1>2 DEF LastWord
<1>6. Addressed' /\ Evidence'
  BY <1>0, <1>1, <1>2 DEF BootInv, Addressed, Reaching, Evidence
<1> QED BY <1>4, <1>5, <1>6 DEF BootInv

LEMMA LoadKeeps ==
    ASSUME Boot!BootReadyAssumption, BootInv, NEW noise \in BOOLEAN,
           Boot!Probe(noise) \/ Boot!ProbeFails
    PROVE  BootInv'
<1>0. /\ b \in Boot!Bringup /\ b.ph = "load"
      /\ UNCHANGED <<vm, boot, pg, jobs, exitCode, loaded, heard, overtaken, attempts>>
      /\ exitCode \in {"none", "zero", "other"}
  BY DEF BootInv, Boot!TypeOK, Boot!Probe, Boot!ProbeFails, Boot!guest
<1>1. events' \in 0..MaxEvents
  BY EventType DEF BootInv, Boot!TypeOK, Boot!Probe, Boot!ProbeFails
<1>2. CASE Boot!Fail
  BY <1>0, <1>1, <1>2, GiveUpKeeps
<1>3. CASE \E n \in Nat : b' = [b EXCEPT !.polls = @ + 1, !.missing = n]
  <2>1. b' \in Boot!Bringup /\ b'.target = b.target /\ b'.ph = "load"
    <3>1. b' \in Boot!Bringup
      BY <1>0, <1>3, PollType
    <3> QED BY <1>0, <1>3, <3>1 DEF Boot!Bringup
  <2> QED BY <1>0, <1>1, <2>1, AwaitKeeps
<1>4. CASE exitCode = "zero" /\ b' = [b EXCEPT !.ph = "served"]
  <2>1. b' \in Boot!Bringup /\ b'.target = b.target /\ b'.ph = "served"
    BY <1>0, <1>4 DEF Boot!Bringup
  <2> QED BY <1>0, <1>1, <1>4, <2>1, AwaitKeeps
<1>5. CASE Boot!Probe(noise)
  <2>1. CASE noise \/ exitCode = "none"
    <3>1. Boot!Fail \/ b' = [b EXCEPT !.polls = @ + 1, !.missing = 0]
      BY <1>5, <2>1 DEF Boot!Probe
    <3> QED BY <1>2, <1>3, <3>1
  <2>2. CASE ~noise /\ exitCode = "zero"
    BY <1>4, <1>5, <2>2 DEF Boot!Probe
  <2>3. CASE ~noise /\ exitCode = "other"
    BY <1>2, <1>5, <2>3 DEF Boot!Probe
  <2> QED BY <1>0, <2>1, <2>2, <2>3
<1>6. CASE Boot!ProbeFails
  <2>1. b.missing + 1 \in Nat
    BY <1>0 DEF Boot!Bringup
  <2> QED BY <1>2, <1>3, <1>6, <2>1 DEF Boot!ProbeFails
<1> QED BY <1>5, <1>6

LEMMA DisposeKeeps ==
    ASSUME Boot!BootReadyAssumption, BootInv, NEW stopped \in BOOLEAN, Boot!Dispose(stopped)
    PROVE  BootInv'
<1>0. Boot!TypeOK
  BY DEF BootInv
<1>1. b' \in Boot!Bringup /\ b'.ph = "idle"
  BY DEF Boot!Dispose, Boot!NoBringup, Boot!Bringup
<1>2. /\ jobs' \in {{}, jobs} /\ pg' \in {"down", pg} /\ vm' \in {"stopped", vm}
      /\ UNCHANGED <<boot, exitCode, loaded, heard, overtaken, attempts>>
  BY DEF Boot!Dispose
<1>3. events' \in 0..MaxEvents
  BY <1>0, EventType DEF Boot!Dispose, Boot!Event, Boot!TypeOK
<1>4. Boot!TypeOK'
  BY <1>0, <1>1, <1>2, <1>3 DEF Boot!TypeOK
<1> QED BY <1>1, <1>4, LastWordVoid DEF BootInv, Addressed, Reaching, Evidence

\* A bring-up that has begun has been counted.
Counted == attempts = 0 => b.ph = "idle"

LEMMA CountedKeeps ==
    ASSUME Boot!BootReadyAssumption, Boot!TypeOK, Counted, Boot!Next
    PROVE  Counted'
<1>1. CASE Boot!Begin
  BY <1>1 DEF Boot!Begin, Boot!TypeOK, Counted
<1>2. CASE ~Boot!Begin
  <2>1. b.ph # "idle" \/ b' = b
    BY <1>2 DEF Boot!Next, Boot!Booted, Boot!Recovers, Boot!Sickens, Boot!VmLost, Boot!JobEnds,
                Boot!wait_ready_status, Boot!wait_ready_error, Boot!wait_ready_not_found,
                Boot!connect_pg, Boot!ConnectFails, Boot!probe_pg_window, Boot!wait_pg_ready,
                Boot!power_cycle, Boot!CycleFails, Boot!launch, Boot!LaunchFails, Boot!Probe,
                Boot!ProbeFails, Boot!Dispose
  <2>2. attempts' = attempts
    BY <1>2 DEF Boot!Next, Boot!Booted, Boot!Recovers, Boot!Sickens, Boot!VmLost, Boot!JobEnds,
                Boot!wait_ready_status, Boot!wait_ready_error, Boot!wait_ready_not_found,
                Boot!connect_pg, Boot!ConnectFails, Boot!probe_pg_window, Boot!wait_pg_ready,
                Boot!power_cycle, Boot!CycleFails, Boot!launch, Boot!LaunchFails, Boot!Probe,
                Boot!ProbeFails, Boot!Dispose
  <2> QED BY <2>1, <2>2 DEF Counted
<1> QED BY <1>1, <1>2

LEMMA BootNext ==
    Boot!BootReadyAssumption /\ BootInv /\ Counted /\ [Boot!Next]_Boot!vars
        => BootInv' /\ Counted'
<1> SUFFICES ASSUME Boot!BootReadyAssumption, BootInv, Counted, [Boot!Next]_Boot!vars
             PROVE  BootInv' /\ Counted'
  OBVIOUS
<1>0. Boot!TypeOK
  BY DEF BootInv
<1>1. CASE UNCHANGED Boot!vars
  <2>1. UNCHANGED <<vm, boot, pg, jobs, exitCode, loaded, b, heard, overtaken, attempts, events>>
    BY <1>1 DEF Boot!vars, Boot!guest
  <2> QED BY <2>1 DEF BootInv, Boot!TypeOK, Addressed, LastWord, Evidence, Counted
<1>2. CASE Boot!Next
  <2>1. Counted'
    BY <1>0, <1>2, CountedKeeps
  <2>2. CASE \/ Boot!Booted \/ Boot!Recovers
             \/ \E to \in {"down", "starting", "slow", "deaf"} : Boot!Sickens(to)
             \/ Boot!VmLost("failed") \/ Boot!VmLost("unknown")
    BY <2>2, <2>1, GuestKeeps
  <2>3. CASE \E j \in jobs : Boot!JobEnds(j, "zero") \/ Boot!JobEnds(j, "other")
    BY <2>3, <2>1, JobEndKeeps
  <2>4. CASE Boot!launch
    <3>1. attempts > 0
      BY <1>0, <2>4 DEF Boot!launch, Boot!TypeOK, Counted
    <3> QED BY <2>4, <3>1, <2>1, LaunchKeeps
  <2>5. CASE Boot!Probe(TRUE) \/ Boot!Probe(FALSE) \/ Boot!ProbeFails
    BY <2>5, <2>1, LoadKeeps
  <2>6. CASE Boot!Dispose(TRUE) \/ Boot!Dispose(FALSE)
    BY <2>6, <2>1, DisposeKeeps
  <2>7. CASE \/ Boot!Begin \/ Boot!wait_ready_status \/ Boot!wait_ready_error
             \/ Boot!wait_ready_not_found \/ Boot!connect_pg \/ Boot!ConnectFails
             \/ Boot!probe_pg_window \/ Boot!wait_pg_ready \/ Boot!power_cycle
             \/ Boot!CycleFails \/ Boot!LaunchFails
    BY <2>7, <2>1, BeginKeeps, ReadyKeeps, ConnectKeeps, WindowKeeps, WaitKeeps, CycleKeeps,
       FailuresKeep
  <2> QED BY <1>2, <2>1, <2>2, <2>3, <2>4, <2>5, <2>6, <2>7 DEF Boot!Next
<1> QED BY <1>1, <1>2

LEMMA BootInvariant == Spec => [](BootInv /\ Counted)
<1>1. Boot!Init => BootInv /\ Counted
  BY BootFacts, BootInit DEF Boot!Init, Boot!NoBringup, Counted
<1>2. BootInv /\ Counted /\ [Boot!Next]_Boot!vars => (BootInv /\ Counted)'
  BY BootFacts, BootNext
<1> QED BY <1>1, <1>2, BootBehave, PTL DEF Boot!Spec

\* Whatever the timeouts, the number of attempts and the faults of the guest and the daemon:
\* what is served has been loaded to the end and is reached at the boot that runs, unless a
\* load was launched beside an older one (restore_from_s3, await_detached_job, power_cycle).
THEOREM ServedIsWhole == Spec => []ServedWhole
<1>1. BootInv => Boot!ServedWhole
  BY DEF BootInv, Boot!ServedWhole, Addressed, LastWord, Reaching
<1> QED BY <1>1, BootInvariant, PTL DEF ServedWhole

\* Whatever the timeouts: a VM is restarted only when every probe of the window was refused,
\* or when a whole ready_timeout of polls found it not ready (ready_pg, probe_pg_window).
THEOREM CycledOnEvidence == Spec => CycleOnEvidence
<1> DEFINE Proper == b.ph # "cycle" /\ b'.ph = "cycle" =>
                        heard' = {"refused"} \/ (b.ph = "wait" /\ b.polls + 1 = ReadyPolls)
<1>1. ASSUME BootInv, [Boot!Next]_Boot!vars
      PROVE  [Proper]_Boot!vars
  <2> SUFFICES ASSUME Boot!Next, b.ph # "cycle", b'.ph = "cycle"
               PROVE  heard' = {"refused"} \/ (b.ph = "wait" /\ b.polls + 1 = ReadyPolls)
    BY <1>1
  <2>0. Boot!TypeOK
    BY <1>1 DEF BootInv
  <2>1. CASE Boot!probe_pg_window
    <3>1. b.ph = "probe" /\ ~b.stalled /\ Boot!Meets = "refused"
      BY <1>1, <2>1, BootFacts, WindowStep DEF Boot!probe_pg_window
    <3>2. heard' = heard \cup {"refused"}
      BY <2>0, <2>1, <3>1, HearsType DEF Boot!probe_pg_window
    <3> QED BY <1>1, <3>1, <3>2 DEF BootInv, Evidence
  <2>2. CASE Boot!wait_pg_ready
    BY <1>1, <2>2, BootFacts, WaitStep DEF Boot!wait_pg_ready
  <2>3. CASE Boot!wait_ready_status \/ Boot!wait_ready_error \/ Boot!wait_ready_not_found
    <3>1. \/ Boot!Fail \/ \E n : Boot!PollAgain(n)
          \/ b' = [b EXCEPT !.ph = "connect", !.polls = 0, !.missing = 0]
      BY <2>3 DEF Boot!wait_ready_status, Boot!wait_ready_error, Boot!wait_ready_not_found
    <3> QED BY <2>0, <3>1, FailType DEF Boot!PollAgain, Boot!TypeOK, Boot!Bringup
  <2>4. CASE ~(\/ Boot!probe_pg_window \/ Boot!wait_pg_ready \/ Boot!wait_ready_status
               \/ Boot!wait_ready_error \/ Boot!wait_ready_not_found)
    <3>1. CASE b' = b
      BY <3>1
    <3>2. CASE Boot!Begin \/ Boot!connect_pg \/ Boot!ConnectFails
      BY <2>0, <3>2, FailType DEF Boot!Begin, Boot!connect_pg, Boot!ConnectFails,
              Boot!NoBringup, Boot!TypeOK, Boot!Bringup
    <3>3. CASE Boot!power_cycle \/ Boot!CycleFails
      BY <3>3 DEF Boot!power_cycle, Boot!CycleFails
    <3>4. CASE Boot!launch \/ Boot!LaunchFails
      BY <2>0, <3>4, FailType DEF Boot!launch, Boot!LaunchFails, Boot!TypeOK, Boot!Bringup
    <3>5. CASE Boot!ProbeFails
      BY <2>0, <3>5, FailType DEF Boot!ProbeFails, Boot!TypeOK, Boot!Bringup
    <3>6. ASSUME NEW noise \in BOOLEAN, Boot!Probe(noise) PROVE FALSE
      BY <2>0, <3>6, FailType DEF Boot!Probe, Boot!TypeOK, Boot!Bringup
    <3>7. ASSUME NEW stopped \in BOOLEAN, Boot!Dispose(stopped) PROVE FALSE
      BY <3>7 DEF Boot!Dispose, Boot!NoBringup
    <3> QED BY <2>4, <3>1, <3>2, <3>3, <3>4, <3>5, <3>6, <3>7
            DEF Boot!Next, Boot!Booted, Boot!Recovers, Boot!Sickens, Boot!VmLost, Boot!JobEnds
  <2> QED BY <2>1, <2>2, <2>3, <2>4
<1> QED BY <1>1, BootInvariant, BootBehave, PTL
        DEF Boot!Spec, CycleOnEvidence, Boot!CycleOnEvidence

----------------------------------------------------------------------------
(* The image tier.                                                         *)

\* A transfer and a restore exclude each other, and know the tier they began in.
Stages ==
    /\ writes >= 1
    /\ job.ph # "none" =>
          /\ res.ph = "none" /\ tier \in {"live", "compacted"}
          /\ tier = "compacted" => job.to = "s3" /\ job.ph # "stopped"
    /\ res.ph # "none" => tier \in {"archived", "compacted"}

Trusting == "dump" \notin lost /\ "scan" \notin lost
Sending == {"spooled", "upload", "part", "verify", "undump", "flip"}

\* What is being sent is the last write, and what was verified is what was sent.
Outbound ==
    /\ Trusting /\ job.ph \in Sending => job.data = writes
    /\ job.ph \in {"verify", "undump"} \/ (job.ph = "flip" /\ job.to = "s3") =>
          image.data = job.data /\ image.len = Parts
    /\ job.ph = "flip" /\ job.to = "s3" => dump = Image!Bad

\* What a restore works on is the last write, on the vehicle too once it is copied.
Inbound ==
    /\ Trusting /\ res.ph = "get" => tier = "archived" /\ dump = Image!Bad
    /\ Trusting /\ res.ph \notin {"none", "get"} => res.data = writes
    /\ Trusting /\ res.ph \in {"copied", "booted"} => res.vehicle = res.data

\* Besides the strays a transfer has at most one upload; scratch files are a restore's.
Uploaded == uploads = strays + (IF job.ph = "part" THEN 1 ELSE 0)

Scratched == "scratch" \notin lost /\ res.ph \in {"none", "booted"} => scratch = {}

ImageInv ==
    /\ Image!TypeOK /\ Stages /\ Outbound /\ Inbound /\ Uploaded /\ Scratched
    /\ Image!NewestKept

LEMMA ImageBounds ==
    Image!ImageMoveAssumption =>
        /\ Parts \in Nat \ {0} /\ MaxWrites \in Nat /\ MaxFaults \in Nat /\ MaxRestarts \in Nat
BY DEF Image!ImageMoveAssumption

LEMMA ImageTypes ==
    ASSUME Image!ImageMoveAssumption
    PROVE  /\ Image!Bad = 0 /\ 0 \in Image!Data /\ 1 \in Image!Data
           /\ Image!NoObject \in Image!Object
           /\ Image!NoJob \in Image!Transfer /\ Image!NoJob.ph = "none"
           /\ Image!NoRestore \in Image!Restore /\ Image!NoRestore.ph = "none"
<1>1. Image!Bad = 0 /\ 0 \in Image!Data /\ 1 \in Image!Data /\ 0 \in 0..Parts
  BY ImageBounds DEF Image!Bad, Image!Data
<1>2. Image!NoObject \in Image!Object
  BY <1>1 DEF Image!NoObject, Image!Object
<1> QED BY <1>1, <1>2 DEF Image!NoJob, Image!Transfer, Image!NoRestore, Image!Restore

LEMMA ImageInit == Image!ImageMoveAssumption /\ Image!Init => ImageInv
<1> SUFFICES ASSUME Image!ImageMoveAssumption, Image!Init PROVE ImageInv
  OBVIOUS
<1>1. Image!TypeOK
  <2>1. faults \in 0..MaxFaults /\ restarts \in 0..MaxRestarts
    BY ImageBounds DEF Image!Init
  <2>2. writes \in 0..(MaxWrites + 1) /\ uploads \in Nat /\ strays \in Nat
    BY ImageBounds DEF Image!Init
  <2> QED BY <2>1, <2>2, ImageTypes DEF Image!Init, Image!TypeOK
<1>2. Stages /\ Outbound /\ Inbound /\ Uploaded /\ Scratched
  BY ImageTypes DEF Image!Init, Stages, Outbound, Inbound, Uploaded, Scratched, Sending
<1>3. Image!NewestKept
  BY DEF Image!Init, Image!NewestKept
<1> QED BY <1>1, <1>2, <1>3 DEF ImageInv

\* The row is not archived while a transfer runs: neither its object nor the dump counts yet.
LEMMA OutKeeps ==
    ASSUME ImageInv, Image!TypeOK', job.ph # "none",
           UNCHANGED <<writes, tier, volume, local, res, scratch>>,
           lost \subseteq lost', "scratch" \in lost' => "scratch" \in lost,
           job'.ph # "none" => job'.to = job.to /\ job'.ph # "stopped",
           Outbound', Uploaded'
    PROVE  ImageInv'
<1>1. Stages'
  BY DEF ImageInv, Stages
<1>2. Inbound' /\ Scratched'
  BY DEF ImageInv, Stages, Inbound, Scratched
<1>3. Image!NewestKept'
  BY DEF ImageInv, Stages, Image!NewestKept
<1> QED BY <1>1, <1>2, <1>3 DEF ImageInv

\* A restore leaves every copy alone until the caller binds its VM.
LEMMA BackKeeps ==
    ASSUME ImageInv, Image!TypeOK', res.ph # "none",
           UNCHANGED <<writes, tier, volume, local, image, dump, uploads, job, strays>>,
           lost \subseteq lost', Inbound', Scratched'
    PROVE  ImageInv'
<1>1. Stages'
  BY DEF ImageInv, Stages
<1>2. Outbound' /\ Uploaded'
  BY DEF ImageInv, Outbound, Uploaded, Trusting
<1>3. Image!NewestKept'
  BY DEF ImageInv, Image!NewestKept
<1> QED BY <1>1, <1>2, <1>3 DEF ImageInv

LEMMA FaultType ==
    ASSUME Image!ImageMoveAssumption, Image!TypeOK,
           Image!Fault \/ UNCHANGED <<faults, restarts>> \/ UNCHANGED Image!bounds
    PROVE  faults' \in 0..MaxFaults /\ restarts' \in 0..MaxRestarts
BY ImageBounds DEF Image!TypeOK, Image!Fault, Image!bounds

LEMMA NatPlusZero == \A n \in Nat : n + 0 = n
OBVIOUS

\* A transfer that ends without its flip.
LEMMA AbandonKeeps ==
    ASSUME Image!ImageMoveAssumption, ImageInv, job.ph # "none", job' = Image!NoJob,
           UNCHANGED <<writes, tier, volume, open, local, res, scratch, leftover>>,
           lost \subseteq lost', "scratch" \in lost' => "scratch" \in lost,
           lost' \subseteq {"scratch", "dump", "scan"},
           image' \in Image!Object, dump' \in Image!Data, uploads' \in Nat,
           region' \in BOOLEAN, faults' \in 0..MaxFaults, restarts' \in 0..MaxRestarts,
           strays' \in Nat, uploads' = strays'
    PROVE  ImageInv'
<1>1. job' \in Image!Transfer /\ job'.ph = "none"
  BY ImageTypes
<1>2. Image!TypeOK'
  BY <1>1 DEF ImageInv, Image!TypeOK
<1>3. Outbound'
  BY <1>1 DEF Outbound, Sending
<1>4. Uploaded'
  <2>1. (IF job'.ph = "part" THEN 1 ELSE 0) = 0
    BY <1>1
  <2>2. strays' + 0 = strays'
    BY NatPlusZero
  <2> QED BY <2>1, <2>2 DEF Uploaded
<1> QED BY <1>1, <1>2, <1>3, <1>4, OutKeeps

LEMMA StampedType ==
    ASSUME Image!ImageMoveAssumption, Image!TypeOK, NEW n \in 0..Parts
    PROVE  /\ Image!Stamped(n) \in Image!Object
           /\ Image!Stamped(n).data = job.data /\ Image!Stamped(n).len = n
<1>1. job.data \in Image!Data /\ image.stamp \in {0, 1} /\ 1 - image.stamp \in {0, 1}
  BY DEF Image!TypeOK, Image!Transfer, Image!Object
<1> QED BY <1>1 DEF Image!Stamped, Image!Object

LEMMA FailedOutKeeps ==
    ASSUME Image!ImageMoveAssumption, ImageInv,
           \/ Image!AnswerLost \/ Image!InitiateLost \/ Image!PartFails
           \/ Image!DeleteFails \/ Image!StepFails
    PROVE  ImageInv'
<1>0. Image!TypeOK /\ Uploaded
  BY DEF ImageInv
<1>1. faults' \in 0..MaxFaults /\ restarts' \in 0..MaxRestarts
  BY <1>0, FaultType
     DEF Image!AnswerLost, Image!InitiateLost, Image!PartFails, Image!DeleteFails, Image!StepFails
<1>2. CASE Image!AnswerLost
  <2>1. image' \in Image!Object
    BY <1>0, <1>2, StampedType, ImageBounds DEF Image!AnswerLost
  <2>2. uploads' \in Nat /\ strays' \in Nat /\ uploads' = strays'
    BY <1>0, <1>2 DEF Image!AnswerLost, Image!JobFails, Image!TypeOK, Uploaded
  <2>3. dump' \in Image!Data /\ region' \in BOOLEAN /\ lost' = lost
        /\ lost' \subseteq {"scratch", "dump", "scan"}
    BY <1>0, <1>2 DEF Image!AnswerLost, Image!JobFails, Image!TypeOK
  <2> QED BY <1>1, <1>2, <2>1, <2>2, <2>3, AbandonKeeps DEF Image!AnswerLost, Image!JobFails
<1>3. CASE Image!PartFails \/ Image!InitiateLost
  <2>1. uploads' \in Nat /\ strays' \in Nat /\ uploads' = strays'
    BY <1>0, <1>3
       DEF Image!PartFails, Image!InitiateLost, Image!abort_multipart, Image!TypeOK, Uploaded
  <2>2. /\ dump' \in Image!Data /\ region' \in BOOLEAN /\ image' \in Image!Object
        /\ lost' = lost /\ lost' \subseteq {"scratch", "dump", "scan"}
    BY <1>0, <1>3 DEF Image!PartFails, Image!InitiateLost, Image!TypeOK
  <2> QED BY <1>1, <1>3, <2>1, <2>2, AbandonKeeps DEF Image!PartFails, Image!InitiateLost
<1>4. CASE Image!DeleteFails \/ Image!StepFails
  <2>1. uploads' \in Nat /\ strays' \in Nat /\ uploads' = strays'
    BY <1>0, <1>4 DEF Image!DeleteFails, Image!StepFails, Image!JobFails, Image!TypeOK, Uploaded,
           Image!remote
  <2>2. /\ dump' \in Image!Data /\ region' \in BOOLEAN /\ image' \in Image!Object /\ lost' = lost
        /\ lost' \subseteq {"scratch", "dump", "scan"}
    BY <1>0, <1>4, ImageTypes
       DEF Image!DeleteFails, Image!StepFails, Image!TypeOK, Image!JobFails, Image!remote
  <2> QED BY <1>1, <1>4, <2>1, <2>2, AbandonKeeps
          DEF Image!DeleteFails, Image!StepFails, Image!JobFails
<1> QED BY <1>2, <1>3, <1>4

LEMMA BeginOutKeeps ==
    ASSUME Image!ImageMoveAssumption, ImageInv,
           (\E to \in {"s3", "local"} : Image!BeginOut(to)) \/ Image!BeginPromote
    PROVE  ImageInv'
<1>0. Image!TypeOK /\ Stages /\ Image!Bad = 0
  BY ImageTypes DEF ImageInv
<1>1. /\ job.ph = "none" /\ res.ph = "none" /\ tier \in {"live", "compacted"}
      /\ UNCHANGED <<writes, tier, volume, local, image, dump, uploads, region, res, scratch,
                     leftover, lost, strays, faults, restarts>>
  BY DEF Image!BeginOut, Image!BeginPromote, Image!Idle, Image!remote, Image!bounds
<1>2. /\ job' \in Image!Transfer /\ job'.ph \in {"stopped", "spooled"}
      /\ job'.ph = "stopped" => tier = "live"
      /\ tier = "compacted" => job'.to = "s3"
      /\ job'.ph = "spooled" => tier = "compacted" /\ job'.data = local
  BY <1>0, ImageTypes
     DEF Image!BeginOut, Image!BeginPromote, Image!NoJob, Image!Transfer, Image!TypeOK
<1>3. Image!TypeOK'
  BY <1>0, <1>1, <1>2 DEF Image!TypeOK, Image!BeginOut, Image!BeginPromote
<1>4. Stages' /\ Inbound' /\ Scratched' /\ Uploaded'
  BY <1>1, <1>2 DEF ImageInv, Stages, Inbound, Scratched, Uploaded
<1>5. Image!NewestKept'
  BY <1>1 DEF ImageInv, Image!NewestKept
<1>6. Outbound'
  BY <1>1, <1>2 DEF ImageInv, Outbound, Trusting, Sending, Image!NewestKept
<1> QED BY <1>3, <1>4, <1>5, <1>6 DEF ImageInv

\* One step of a transfer: what it may change, and what must hold of the outcome.
LEMMA SendKeeps ==
    ASSUME Image!ImageMoveAssumption, ImageInv, job.ph # "none", job' \in Image!Transfer,
           job'.ph \in Sending, job'.to = job.to,
           Trusting => job'.data = writes,
           UNCHANGED <<writes, tier, volume, open, local, res, scratch, leftover, lost, strays,
                       faults, restarts>>,
           image' \in Image!Object, dump' \in Image!Data, uploads' \in Nat, region' \in BOOLEAN,
           job'.ph \in {"verify", "undump"} \/ (job'.ph = "flip" /\ job.to = "s3") =>
               image'.data = job'.data /\ image'.len = Parts,
           job'.ph = "flip" /\ job.to = "s3" => dump' = Image!Bad,
           Uploaded'
    PROVE  ImageInv'
<1>1. Image!TypeOK'
  BY DEF ImageInv, Image!TypeOK
<1>2. Outbound'
  BY DEF Outbound, Trusting
<1> QED BY <1>1, <1>2, OutKeeps DEF Sending

\* A scan that misses the holder of a disk is told, and nothing is promised after it.
LEMMA SpoolKeeps ==
    ASSUME Image!ImageMoveAssumption, ImageInv, NEW how \in {"whole", "cut", "blind"},
           Image!Spool(how)
    PROVE  ImageInv'
<1>0. /\ Image!TypeOK /\ job.ph = "stopped" /\ tier = "live"
      /\ open = "no" \/ "scan" \in lost'
      /\ lost' = lost \/ lost' = lost \cup {"scan"}
  BY DEF ImageInv, Stages, Image!Spool, Image!wait_disk_released, Image!Missed
<1>1. /\ UNCHANGED <<writes, tier, volume, open, local, image, dump, uploads, region, res,
                     scratch, leftover, strays>>
      /\ faults' \in 0..MaxFaults /\ restarts' \in 0..MaxRestarts
  BY <1>0, FaultType DEF Image!Spool, Image!remote
<1>2. /\ image' \in Image!Object /\ dump' \in Image!Data /\ uploads' \in Nat
      /\ region' \in BOOLEAN /\ strays' \in Nat
      /\ lost' \subseteq {"scratch", "dump", "scan"} /\ lost \subseteq lost'
      /\ "scratch" \in lost' => "scratch" \in lost
  BY <1>0, <1>1 DEF Image!TypeOK
<1>3. CASE job' = Image!NoJob
  <2>1. uploads' = strays'
    BY <1>0, <1>1 DEF ImageInv, Uploaded, Image!TypeOK
  <2> QED BY <1>0, <1>1, <1>2, <1>3, <2>1, AbandonKeeps
<1>4. ASSUME NEW kept \in Image!Data, open = "no" => kept = volume,
             job' = [job EXCEPT !.ph = IF job.to = "s3" THEN "spooled" ELSE "flip",
                                !.data = kept]
      PROVE  ImageInv'
  <2>1. /\ job' \in Image!Transfer /\ job'.to = job.to /\ job'.data = kept
        /\ job'.ph = IF job.to = "s3" THEN "spooled" ELSE "flip"
    BY <1>0, <1>4 DEF Image!TypeOK, Image!Transfer
  <2>2. Trusting' => job'.data = writes
    BY <1>0, <1>2, <1>4, <2>1 DEF ImageInv, Image!NewestKept, Trusting
  <2>3. Outbound' /\ Uploaded'
    BY <1>0, <1>1, <2>1, <2>2 DEF ImageInv, Outbound, Uploaded
  <2>4. Image!TypeOK'
    BY <1>0, <1>1, <1>2, <2>1 DEF Image!TypeOK
  <2> QED BY <1>0, <1>1, <1>2, <2>1, <2>3, <2>4, OutKeeps
<1>5. PICK kept \in IF how = "cut" THEN {Image!Bad} ELSE Image!Beside(volume) :
          job' = IF Image!verified(kept)
                 THEN [job EXCEPT !.ph = IF job.to = "s3" THEN "spooled" ELSE "flip",
                                  !.data = kept]
                 ELSE Image!NoJob
  BY DEF Image!Spool
<1>6. Image!verified(kept) => kept \in Image!Data /\ (open = "no" => kept = volume)
  <2>1. Image!Torn \in Image!Data /\ volume \in Image!Data
    BY <1>0, ImageBounds DEF Image!Torn, Image!Data, Image!TypeOK
  <2> QED BY <1>5, <2>1 DEF Image!verified, Image!Beside
<1> QED BY <1>3, <1>4, <1>5, <1>6

LEMMA UploadKeeps ==
    ASSUME Image!ImageMoveAssumption, ImageInv,
           \/ Image!Baseline \/ Image!put_object \/ Image!initiate_multipart
           \/ Image!upload_part \/ Image!complete_multipart
    PROVE  ImageInv'
<1>0. Image!TypeOK /\ Uploaded /\ job \in Image!Transfer
  BY DEF ImageInv, Image!TypeOK
<1>1. /\ job.ph \in {"spooled", "upload", "part"}
      /\ UNCHANGED <<writes, tier, volume, open, local, dump, res, scratch, leftover, lost,
                     strays, faults, restarts>>
  BY DEF Image!Baseline, Image!put_object, Image!initiate_multipart, Image!upload_part,
         Image!complete_multipart, Image!remote, Image!bounds
<1>2. Trusting => job.data = writes
  BY <1>1 DEF ImageInv, Outbound, Sending
<1>3. dump' \in Image!Data /\ region' \in BOOLEAN
  BY <1>0, <1>1 DEF Image!TypeOK, Image!Baseline, Image!put_object, Image!initiate_multipart,
         Image!upload_part, Image!complete_multipart, Image!head_object
<1>4. CASE Image!Baseline
  <2>1. /\ job' \in Image!Transfer /\ job'.ph = "upload" /\ job'.to = job.to
        /\ job'.data = job.data
    BY <1>0, <1>4 DEF Image!Baseline, Image!TypeOK, Image!Transfer
  <2>2. image' \in Image!Object /\ uploads' \in Nat /\ Uploaded'
    BY <1>0, <1>1, <1>4, <2>1 DEF Image!Baseline, Image!TypeOK, Image!remote, Uploaded
  <2> QED BY <1>1, <1>2, <1>3, <2>1, <2>2, SendKeeps DEF Sending
<1>5. CASE Image!put_object
  <2>1. /\ job' \in Image!Transfer /\ job'.ph = "verify" /\ job'.to = job.to
        /\ job'.data = job.data
    BY <1>0, <1>5 DEF Image!put_object, Image!Goes, Image!Transfer
  <2>2. image' \in Image!Object /\ image'.data = job.data /\ image'.len = Parts
    BY <1>0, <1>5, StampedType, ImageBounds DEF Image!put_object
  <2>3. uploads' \in Nat /\ Uploaded'
    BY <1>0, <1>1, <1>5, <2>1 DEF Image!put_object, Image!TypeOK, Uploaded
  <2> QED BY <1>1, <1>2, <1>3, <2>1, <2>2, <2>3, SendKeeps DEF Sending
<1>6. CASE Image!initiate_multipart
  <2>1. /\ job' \in Image!Transfer /\ job'.ph = "part" /\ job'.to = job.to
        /\ job'.data = job.data
    BY <1>0, <1>6 DEF Image!initiate_multipart, Image!Goes, Image!Transfer
  <2>2. image' \in Image!Object /\ uploads' \in Nat /\ Uploaded'
    BY <1>0, <1>1, <1>6, <2>1 DEF Image!initiate_multipart, Image!TypeOK, Uploaded
  <2> QED BY <1>1, <1>2, <1>3, <2>1, <2>2, SendKeeps DEF Sending
<1>7. CASE Image!upload_part
  <2>1. job.n + 1 \in 0..Parts
    BY <1>0, <1>7, ImageBounds DEF Image!upload_part, Image!Transfer
  <2>2. /\ job' \in Image!Transfer /\ job'.ph = "part" /\ job'.to = job.to
        /\ job'.data = job.data
    BY <1>0, <1>7, <2>1 DEF Image!upload_part, Image!Transfer
  <2>3. image' \in Image!Object /\ uploads' \in Nat /\ Uploaded'
    BY <1>0, <1>1, <1>7, <2>2 DEF Image!upload_part, Image!TypeOK, Uploaded, Image!remote
  <2> QED BY <1>1, <1>2, <1>3, <2>2, <2>3, SendKeeps DEF Sending
<1>8. CASE Image!complete_multipart
  <2>1. /\ job' \in Image!Transfer /\ job'.ph = "verify" /\ job'.to = job.to
        /\ job'.data = job.data
    BY <1>0, <1>8 DEF Image!complete_multipart, Image!Goes, Image!Transfer
  <2>2. image' \in Image!Object /\ image'.data = job.data /\ image'.len = Parts
    BY <1>0, <1>8, StampedType, ImageBounds DEF Image!complete_multipart
  <2>3. uploads' \in Nat /\ Uploaded'
    BY <1>0, <1>1, <1>8, <2>1 DEF Image!complete_multipart, Image!TypeOK, Uploaded
  <2> QED BY <1>1, <1>2, <1>3, <2>1, <2>2, <2>3, SendKeeps DEF Sending
<1> QED BY <1>4, <1>5, <1>6, <1>7, <1>8

LEMMA VerifyKeeps ==
    ASSUME Image!ImageMoveAssumption, ImageInv, Image!Verify \/ Image!delete_object
    PROVE  ImageInv'
<1>0. Image!TypeOK /\ Uploaded /\ Outbound /\ job \in Image!Transfer
  BY DEF ImageInv, Image!TypeOK
<1>1. /\ job.ph \in {"verify", "undump"}
      /\ UNCHANGED <<writes, tier, volume, open, local, image, uploads, res, scratch, leftover,
                     lost, strays, faults, restarts>>
  BY DEF Image!Verify, Image!delete_object, Image!remote, Image!bounds
<1>2. /\ image' \in Image!Object /\ dump' \in Image!Data /\ uploads' \in Nat
      /\ region' \in BOOLEAN /\ faults' \in 0..MaxFaults /\ restarts' \in 0..MaxRestarts
      /\ lost' \subseteq {"scratch", "dump", "scan"}
  BY <1>0, <1>1, ImageTypes
     DEF Image!TypeOK, Image!Verify, Image!delete_object, Image!head_object, Image!remote
<1>3. strays' \in Nat /\ uploads' = strays'
  BY <1>0, <1>1 DEF Uploaded, Image!TypeOK
<1>4. CASE job' = Image!NoJob
  BY <1>1, <1>2, <1>3, <1>4, AbandonKeeps
<1>5. CASE \/ job.ph = "verify" /\ Image!Goes("undump")
           \/ Image!delete_object
  <2>1. /\ job' \in Image!Transfer /\ job'.ph \in {"undump", "flip"} /\ job'.to = job.to
        /\ job'.data = job.data
        /\ job'.ph = "flip" => dump' = Image!Bad
    BY <1>0, <1>5 DEF Image!delete_object, Image!Goes, Image!Transfer
  <2>2. Uploaded'
    BY <1>1, <1>3, <2>1 DEF Uploaded
  <2>3. Trusting => job.data = writes
    BY <1>0, <1>1 DEF Outbound, Sending
  <2>4. image'.data = job'.data /\ image'.len = Parts
    BY <1>0, <1>1, <2>1 DEF Outbound
  <2> QED BY <1>1, <1>2, <2>1, <2>2, <2>3, <2>4, SendKeeps DEF Sending
<1> QED BY <1>4, <1>5 DEF Image!Verify

\* The flip puts the row where the verified copy is.
LEMMA FlipKeeps ==
    ASSUME Image!ImageMoveAssumption, ImageInv, Image!Flip
    PROVE  ImageInv'
<1>0. /\ Image!TypeOK /\ job \in Image!Transfer /\ job.ph = "flip" /\ res.ph = "none"
      /\ job'.ph = "none" /\ job' \in Image!Transfer
      /\ UNCHANGED <<writes, open, image, dump, uploads, region, res, scratch, leftover, lost,
                     strays, faults, restarts>>
  BY ImageTypes DEF ImageInv, Image!TypeOK, Stages, Image!Flip, Image!remote, Image!bounds
<1>1. tier' \in {"archived", "compacted"} /\ local' \in Image!Data /\ volume' \in Image!Data
  BY <1>0, ImageTypes DEF Image!Flip, Image!Transfer
<1>2. Image!TypeOK'
  BY <1>0, <1>1 DEF Image!TypeOK
<1>3. Stages' /\ Outbound' /\ Inbound' /\ Uploaded' /\ Scratched'
  BY <1>0 DEF ImageInv, Stages, Outbound, Inbound, Uploaded, Scratched, Sending
<1>4. Image!NewestKept'
  <2>1. Trusting => job.data = writes
    BY <1>0 DEF ImageInv, Outbound, Sending
  <2>2. CASE job.to = "s3"
    BY <1>0, <2>1, <2>2 DEF ImageInv, Outbound, Image!NewestKept, Image!Flip, Trusting
  <2>3. CASE job.to # "s3"
    BY <1>0, <2>1, <2>3 DEF Image!NewestKept, Image!Flip, Trusting
  <2> QED BY <2>2, <2>3
<1> QED BY <1>2, <1>3, <1>4 DEF ImageInv

LEMMA BeginBackKeeps ==
    ASSUME Image!ImageMoveAssumption, ImageInv,
           Image!BeginRestore \/ Image!Misread \/ Image!BeginThaw
    PROVE  ImageInv'
<1>0. /\ Image!TypeOK /\ job.ph = "none" /\ res.ph = "none" /\ tier \in {"archived", "compacted"}
      /\ UNCHANGED <<writes, tier, volume, open, local, image, dump, uploads, job, scratch,
                     leftover, strays>>
      /\ lost' \in {lost, lost \cup {"dump"}}
  BY DEF ImageInv, Image!BeginRestore, Image!Misread, Image!BeginThaw, Image!Idle, Image!remote
<1>1. faults' \in 0..MaxFaults /\ restarts' \in 0..MaxRestarts
  BY <1>0, FaultType DEF Image!BeginRestore, Image!Misread, Image!BeginThaw, Image!bounds
<1>2. /\ res' \in Image!Restore /\ res'.ph \in {"get", "unpack"}
      /\ res'.ph = "get" => tier = "archived" /\ (dump = Image!Bad \/ "dump" \in lost')
      /\ res'.ph = "unpack" => tier = "compacted" /\ res'.data = local
  BY <1>0, ImageTypes DEF Image!BeginRestore, Image!Misread, Image!BeginThaw, Image!NoRestore,
         Image!Restore, Image!TypeOK
<1>3. region' \in BOOLEAN /\ lost' \subseteq {"scratch", "dump", "scan"}
  BY <1>0 DEF Image!TypeOK, Image!BeginRestore, Image!Misread, Image!BeginThaw,
         Image!head_object
<1>4. Image!TypeOK'
  BY <1>0, <1>1, <1>2, <1>3 DEF Image!TypeOK
<1>5. Stages' /\ Outbound' /\ Uploaded' /\ Scratched'
  BY <1>0, <1>2 DEF ImageInv, Stages, Outbound, Uploaded, Scratched, Sending
<1>6. Image!NewestKept'
  BY <1>0 DEF ImageInv, Image!NewestKept
<1>7. Inbound'
  BY <1>0, <1>2 DEF ImageInv, Image!NewestKept, Inbound, Trusting
<1> QED BY <1>4, <1>5, <1>6, <1>7 DEF ImageInv

LEMMA RestoreStepKeeps ==
    ASSUME Image!ImageMoveAssumption, ImageInv,
           \/ Image!download \/ Image!Unpack
           \/ \E p \in {"spare", "created"} : Image!claim_restore_vehicle(p)
           \/ Image!StopVehicle \/ Image!Boot
    PROVE  ImageInv'
<1>0. /\ Image!TypeOK /\ res \in Image!Restore /\ res.ph # "none" /\ Inbound
      /\ UNCHANGED <<writes, tier, volume, local, image, dump, uploads, region, job, leftover,
                     lost, strays, faults, restarts>>
  BY DEF ImageInv, Image!TypeOK, Image!download, Image!Unpack, Image!claim_restore_vehicle,
         Image!StopVehicle, Image!Boot, Image!remote, Image!bounds
<1>1. open' \in {"no", "vm", "dying"} /\ scratch' \subseteq {"zst", "raw"}
  BY <1>0 DEF Image!TypeOK, Image!download, Image!Unpack, Image!claim_restore_vehicle,
         Image!StopVehicle, Image!Boot, Image!Swept
<1>2. CASE Image!download
  <2>1. res' \in Image!Restore /\ res'.ph = "unpack" /\ res'.data = image.data
    BY <1>0, <1>2 DEF Image!download, Image!Restore, Image!TypeOK, Image!Object
  <2>2. Trusting => image.data = writes
    BY <1>0, <1>2 DEF Image!download, Inbound, ImageInv, Image!NewestKept, Trusting
  <2>3. Image!TypeOK'
    BY <1>0, <1>1, <2>1 DEF Image!TypeOK
  <2>4. Inbound' /\ Scratched'
    BY <1>0, <2>1, <2>2 DEF Inbound, Scratched, Trusting
  <2> QED BY <1>0, <2>3, <2>4, BackKeeps
<1>3. CASE \/ Image!Unpack \/ Image!StopVehicle
           \/ \E p \in {"spare", "created"} : Image!claim_restore_vehicle(p)
  <2>1. /\ res' \in Image!Restore /\ res'.ph \in {"vehicle", "claimed", "stopped"}
        /\ res'.data = res.data
    <3>1. CASE Image!Unpack \/ Image!StopVehicle
      BY <1>0, <3>1 DEF Image!Unpack, Image!StopVehicle, Image!ResGoes, Image!Restore
    <3>2. ASSUME NEW p \in {"spare", "created"}, Image!claim_restore_vehicle(p)
          PROVE  res' \in Image!Restore /\ res'.ph = "claimed" /\ res'.data = res.data
      <4>1. res' = [res EXCEPT !.ph = "claimed", !.vehicle = Image!Bad, !.provenance = p]
        BY <3>2 DEF Image!claim_restore_vehicle
      <4> QED BY <1>0, <4>1, ImageTypes DEF Image!Restore
    <3> QED BY <1>3, <3>1, <3>2
  <2>2. res.ph \notin {"none", "get"}
    BY <1>3 DEF Image!Unpack, Image!StopVehicle, Image!claim_restore_vehicle
  <2>3. Image!TypeOK'
    BY <1>0, <1>1, <2>1 DEF Image!TypeOK
  <2>4. Inbound' /\ Scratched'
    BY <1>0, <2>1, <2>2 DEF Inbound, Scratched, Trusting
  <2> QED BY <1>0, <2>3, <2>4, BackKeeps
<1>4. CASE Image!Boot
  <2>1. res' \in Image!Restore /\ res'.ph = "booted" /\ res'.data = res.data
        /\ res'.vehicle = res.vehicle
    BY <1>0, <1>4 DEF Image!Boot, Image!ResGoes, Image!Restore
  <2>2. Image!TypeOK'
    BY <1>0, <1>1, <2>1 DEF Image!TypeOK
  <2>3. Inbound' /\ Scratched'
    BY <1>0, <1>4, <2>1 DEF Image!Boot, Image!Swept, Inbound, Scratched, Trusting
  <2> QED BY <1>0, <2>2, <2>3, BackKeeps
<1> QED BY <1>2, <1>3, <1>4

LEMMA CopyKeeps ==
    ASSUME Image!ImageMoveAssumption, ImageInv, NEW blind \in BOOLEAN, Image!Copy(blind)
    PROVE  ImageInv'
<1>0. /\ Image!TypeOK /\ res \in Image!Restore /\ res.ph = "stopped" /\ Inbound
      /\ UNCHANGED <<writes, tier, volume, open, local, image, dump, uploads, region, job,
                     scratch, leftover, strays>>
      /\ open = "no" \/ "scan" \in lost'
      /\ lost' = lost \/ lost' = lost \cup {"scan"}
  BY DEF ImageInv, Image!TypeOK, Image!Copy, Image!remote, Image!wait_disk_released, Image!Missed
<1>1. /\ faults' \in 0..MaxFaults /\ restarts' \in 0..MaxRestarts
      /\ lost' \subseteq {"scratch", "dump", "scan"} /\ lost \subseteq lost'
      /\ Trusting' => Trusting /\ open = "no"
  BY <1>0, FaultType DEF Image!Copy, Image!TypeOK, Trusting
<1>2. Image!Torn \in Image!Data /\ res.data \in Image!Data
  BY <1>0, ImageBounds DEF Image!Torn, Image!Data, Image!Restore
<1>3. PICK kept \in Image!Beside(res.data) :
          res' = [res EXCEPT !.ph = "copied", !.vehicle = kept]
  BY DEF Image!Copy
<1>4. kept \in Image!Data /\ (open = "no" => kept = res.data)
  BY <1>2, <1>3 DEF Image!Beside
<1>5. /\ res' \in Image!Restore /\ res'.ph = "copied" /\ res'.data = res.data
      /\ res'.vehicle = kept
  BY <1>0, <1>3, <1>4 DEF Image!Restore
<1>6. Image!TypeOK'
  BY <1>0, <1>1, <1>5 DEF Image!TypeOK
<1>7. Inbound' /\ Scratched'
  BY <1>0, <1>1, <1>4, <1>5 DEF Inbound, Scratched
<1> QED BY <1>0, <1>1, <1>6, <1>7, BackKeeps

LEMMA RestoreFailsKeeps ==
    ASSUME Image!ImageMoveAssumption, ImageInv, Image!RestoreFails
    PROVE  ImageInv'
<1>0. /\ Image!TypeOK /\ res.ph # "none" /\ scratch' = {}
      /\ UNCHANGED <<writes, tier, volume, local, image, dump, uploads, region, job, lost,
                     strays>>
      /\ res' \in Image!Restore /\ res'.ph = "none"
  BY ImageTypes DEF ImageInv, Image!RestoreFails, Image!Swept, Image!remote
<1>1. faults' \in 0..MaxFaults /\ restarts' \in 0..MaxRestarts
  BY <1>0, FaultType DEF Image!RestoreFails
<1>2. open' \in {"no", "vm", "dying"} /\ leftover' \in BOOLEAN
  BY <1>0 DEF Image!TypeOK, Image!RestoreFails
<1>3. Image!TypeOK'
  BY <1>0, <1>1, <1>2 DEF Image!TypeOK
<1>4. Inbound' /\ Scratched'
  BY <1>0 DEF Inbound, Scratched
<1> QED BY <1>0, <1>3, <1>4, BackKeeps

\* The schema is live again, on the vehicle's disk.
LEMMA ThawedKeeps ==
    ASSUME Image!ImageMoveAssumption, ImageInv, Image!Thawed
    PROVE  ImageInv'
<1>0. /\ Image!TypeOK /\ res \in Image!Restore /\ res.ph = "booted" /\ job.ph = "none"
      /\ res' \in Image!Restore /\ res'.ph = "none" /\ tier' = "live" /\ volume' = res.vehicle
      /\ local' = 0
      /\ UNCHANGED <<writes, open, image, dump, uploads, region, job, scratch, leftover, lost,
                     strays, faults, restarts>>
  BY ImageTypes DEF ImageInv, Stages, Image!TypeOK, Image!Thawed, Image!remote, Image!bounds
<1>1. local' \in Image!Data /\ volume' \in Image!Data
  BY <1>0, ImageTypes DEF Image!Restore
<1>2. Image!TypeOK'
  BY <1>0, <1>1 DEF Image!TypeOK
<1>3. Stages' /\ Outbound' /\ Inbound' /\ Uploaded' /\ Scratched'
  BY <1>0 DEF ImageInv, Stages, Outbound, Inbound, Uploaded, Scratched, Sending
<1>4. Trusting => volume' = writes
  BY <1>0 DEF ImageInv, Inbound
<1>5. Image!NewestKept'
  BY <1>0, <1>4 DEF Image!NewestKept, Trusting
<1> QED BY <1>2, <1>3, <1>5 DEF ImageInv

\* The steps that leave the transfers, the restores and the copies alone.
LEMMA QuietKeeps ==
    ASSUME Image!ImageMoveAssumption, ImageInv,
           Image!Exit \/ Image!Reaped \/ Image!gc_restore_scratch \/ UNCHANGED Image!vars
    PROVE  ImageInv'
<1>0. /\ Image!TypeOK
      /\ UNCHANGED <<writes, tier, volume, local, image, dump, uploads, region, job, res, strays,
                     faults, restarts>>
      /\ lost' \in {lost, lost \ {"scratch"}}
      /\ scratch' \in {{}, scratch} /\ ("scratch" \in lost => "scratch" \in lost' \/ scratch' = {})
  BY DEF ImageInv, Image!Exit, Image!Reaped, Image!gc_restore_scratch, Image!Swept, Image!vars,
         Image!remote, Image!bounds
<1>1. open' \in {"no", "vm", "dying"} /\ leftover' \in BOOLEAN
  BY <1>0 DEF Image!TypeOK, Image!Exit, Image!Reaped, Image!gc_restore_scratch, Image!vars
<1>2. Image!TypeOK'
  BY <1>0, <1>1 DEF Image!TypeOK
<1>3. \A w \in {"dump", "scan"} : w \in lost' <=> w \in lost
  BY <1>0
<1>4. Stages' /\ Outbound' /\ Inbound'
  BY <1>0, <1>3 DEF ImageInv, Stages, Outbound, Inbound, Trusting
<1>5. Uploaded' /\ Scratched'
  BY <1>0 DEF ImageInv, Uploaded, Scratched
<1>6. Image!NewestKept'
  BY <1>0, <1>3 DEF ImageInv, Image!NewestKept
<1> QED BY <1>2, <1>4, <1>5, <1>6 DEF ImageInv

LEMMA IdleKeeps ==
    ASSUME Image!ImageMoveAssumption, ImageInv,
           Image!Write \/ Image!DumpArchive \/ Image!DumpRestore
    PROVE  ImageInv'
<1>0. /\ Image!TypeOK /\ job.ph = "none" /\ res.ph = "none" /\ writes >= 1 /\ Image!Bad = 0
      /\ UNCHANGED <<local, image, uploads, region, job, res, scratch, leftover, lost, strays,
                     faults, restarts>>
  BY ImageTypes DEF ImageInv, Stages, Image!Write, Image!DumpArchive, Image!DumpRestore,
         Image!Idle, Image!remote, Image!bounds
<1>1. writes' \in 0..(MaxWrites + 1) /\ writes' \in Image!Data /\ writes' >= 1
  BY <1>0, ImageBounds DEF Image!TypeOK, Image!Write, Image!DumpArchive, Image!DumpRestore,
         Image!Data
<1>2. /\ volume' \in Image!Data /\ dump' \in Image!Data
      /\ open' \in {"no", "vm", "dying"} /\ tier' \in {"live", "archived"}
  BY <1>0, <1>1, ImageTypes
     DEF Image!TypeOK, Image!Write, Image!DumpArchive, Image!DumpRestore, Image!remote
<1>3. Image!TypeOK'
  BY <1>0, <1>1, <1>2 DEF Image!TypeOK
<1>4. Stages' /\ Outbound' /\ Inbound' /\ Uploaded' /\ Scratched'
  BY <1>0, <1>1 DEF ImageInv, Stages, Outbound, Inbound, Uploaded, Scratched, Sending
<1>5. Image!NewestKept'
  <2>1. CASE Image!Write
    BY <1>0, <2>1 DEF Image!NewestKept, Image!Write
  <2>2. CASE Image!DumpArchive
    BY <1>0, <2>2 DEF ImageInv, Image!NewestKept, Image!DumpArchive
  <2>3. CASE Image!DumpRestore
    BY <1>0, <2>3 DEF ImageInv, Image!NewestKept, Image!DumpRestore
  <2> QED BY <2>1, <2>2, <2>3
<1> QED BY <1>3, <1>4, <1>5 DEF ImageInv

\* A restart forgets transfers and restores, and what they left is told.
LEMMA RestartKeeps ==
    ASSUME Image!ImageMoveAssumption, ImageInv, Image!Restart
    PROVE  ImageInv'
<1>0. /\ Image!TypeOK /\ region' = FALSE
      /\ UNCHANGED <<writes, tier, volume, open, local, image, dump, uploads, scratch, faults>>
      /\ job' \in Image!Transfer /\ job'.ph = "none"
      /\ res' \in Image!Restore /\ res'.ph = "none"
  BY ImageTypes DEF ImageInv, Image!Restart, Image!remote
<1>1. restarts' \in 0..MaxRestarts
  BY <1>0, ImageBounds DEF Image!TypeOK, Image!Restart
<1>2. /\ lost' \subseteq {"scratch", "dump", "scan"}
      /\ \A w \in {"dump", "scan"} : w \in lost' <=> w \in lost
      /\ strays' \in Nat /\ uploads' = strays'
      /\ "scratch" \notin lost' => scratch = {}
  BY <1>0 DEF Image!TypeOK, Image!Restart, ImageInv, Uploaded
<1>3. leftover' \in BOOLEAN
  BY <1>0 DEF Image!TypeOK, Image!Restart
<1>4. Image!TypeOK'
  BY <1>0, <1>1, <1>2, <1>3 DEF Image!TypeOK
<1>5. Stages' /\ Outbound' /\ Inbound' /\ Uploaded' /\ Scratched'
  BY <1>0, <1>2 DEF ImageInv, Stages, Outbound, Inbound, Uploaded, Scratched, Sending
<1>6. Image!NewestKept'
  BY <1>0, <1>2 DEF ImageInv, Image!NewestKept
<1> QED BY <1>4, <1>5, <1>6 DEF ImageInv

LEMMA ImageNext ==
    Image!ImageMoveAssumption /\ ImageInv /\ [Image!Next]_Image!vars => ImageInv'
<1> SUFFICES ASSUME Image!ImageMoveAssumption, ImageInv, [Image!Next]_Image!vars
             PROVE  ImageInv'
  OBVIOUS
<1>1. CASE Image!Out
  BY <1>1, BeginOutKeeps, SpoolKeeps, UploadKeeps, FailedOutKeeps, VerifyKeeps, FlipKeeps
     DEF Image!Out
<1>2. CASE Image!Back
  BY <1>2, BeginBackKeeps, RestoreStepKeeps, CopyKeeps, RestoreFailsKeeps, ThawedKeeps, QuietKeeps
     DEF Image!Back
<1>3. CASE Image!World
  BY <1>3, IdleKeeps, QuietKeeps, RestartKeeps DEF Image!World
<1> QED BY <1>1, <1>2, <1>3, QuietKeeps DEF Image!Next

LEMMA ImageInvariant == Spec => []ImageInv
<1>1. Image!Init => ImageInv
  BY ImageFacts, ImageInit
<1>2. ImageInv /\ [Image!Next]_Image!vars => ImageInv'
  BY ImageFacts, ImageNext
<1> QED BY <1>1, <1>2, ImageBehave, PTL DEF Image!Spec

\* For any number of parts, writes, faults and restarts: unless a dump was missed, or a scan
\* did not see who held a disk, the last write is whole where the row says it is, and is
\* what a restore picks (archive_via_spool, promote_compact, wait_disk_released,
\* materialize_from_image).
THEOREM NewestIsKept == Spec => []NewestKept
<1>1. ImageInv => Image!NewestKept
  BY DEF ImageInv
<1> QED BY <1>1, ImageInvariant, PTL DEF NewestKept

\* For any number of parts, faults and restarts: S3 keeps parts of the upload under way and
\* of as many more as could not be aborted, and a scratch file belongs to a restore under
\* way but for a restart (upload_file, initiate_multipart, abort_multipart,
\* materialize_from_image, gc_restore_scratch).
THEOREM IsCleanedUp == Spec => []CleanedUp
<1>1. ImageInv => Image!CleanedUp
  BY DEF ImageInv, Uploaded, Scratched, Image!CleanedUp
<1> QED BY <1>1, ImageInvariant, PTL DEF CleanedUp

----------------------------------------------------------------------------
(* The dump server.                                                        *)

\* No job is alive in the guest; the whole dump of this attempt is at the schema's name, and
\* its upload is over.
Quiet == \A u \in Dump!Token : ~Dump!Alive(u)
Delivered ==
    /\ Quiet /\ put[attempt.t].ph # "open"
    /\ dest # 0 /\ file[dest] = Dump!Whole(attempt.t)

\* An upload has the inode it opened, a commit follows a whole upload that is over, and a
\* token that was not issued yet has neither a job nor an upload.
Handlers ==
    /\ \A t \in Dump!Token : put[t].ph # "none" => put[t].inode # 0
    /\ \A t \in Dump!Token : shell[t] = "commit" => put[t].ph = "closed" /\ put[t].next = Pieces + 1
    /\ \A t \in Dump!Token : t > attempt.t => shell[t] = "none" /\ put[t].ph = "none"
    /\ attempt.ph # "idle" => attempt.t # 0

\* As long as no older attempt lived or wrote beside a newer, only this attempt's job lives,
\* its inode holds what it has sent, and no other inode is at the temporary name.
Alone == ~outlived => \A t \in Dump!Token : Dump!Alive(t) => t = attempt.t

Streams ==
    ~outlived =>
        \A t \in Dump!Token :
            shell[t] \in {"dump", "commit"} /\ put[t].ph # "none" =>
                /\ file[put[t].inode] = {t} \X (1..(put[t].next - 1))
                /\ tmp \in {0, put[t].inode}

\* The guest's own upload, unless a full disk cut its file.
Sent == Quiet /\ (obj = Dump!Whole(attempt.t) \/ attempt.t \in torn)

\* What the pooler takes for the end of the dump is the end, and nothing comes after it.
Landing ==
    ~outlived =>
        /\ attempt.ph = "wait" /\ Dump!Landed =>
              IF attempt.route = "direct" THEN Sent ELSE Delivered
        /\ attempt.ph \in {"frozen", "upload"} => Delivered
        /\ attempt.ph = "archived" => Sent

DumpInv == Dump!TypeOK /\ Handlers /\ Alone /\ Streams /\ Landing

LEMMA DumpBounds ==
    Dump!DumpAssumption =>
        /\ MaxJobs \in Nat /\ Pieces \in Nat \ {0} /\ Dump!Token \subseteq Nat \ {0}
        /\ 0 \notin Dump!Token /\ MinPieces \in Nat \ {0}
BY DEF Dump!DumpAssumption, Dump!Token

LEMMA DumpTypes ==
    ASSUME Dump!DumpAssumption
    PROVE  /\ Dump!NoGrant \in Dump!Grant /\ Dump!NoGrant.completed = 0
           /\ Dump!NoPut \in Dump!Put /\ Dump!NoPut.ph = "none"
           /\ Dump!NoJob \in Dump!Attempt /\ Dump!NoJob.ph = "idle" /\ Dump!NoJob.t = 0
<1>1. 0 \in 0..Pieces /\ 1 \in 1..(Pieces + 1)
  BY DumpBounds
<1> QED BY <1>1 DEF Dump!NoGrant, Dump!Grant, Dump!NoPut, Dump!Put, Dump!NoJob, Dump!Attempt

LEMMA DumpInit == Dump!DumpAssumption /\ Dump!Init => DumpInv
<1> SUFFICES ASSUME Dump!DumpAssumption, Dump!Init PROVE DumpInv
  OBVIOUS
<1>1. Dump!TypeOK
  BY DumpTypes DEF Dump!Init, Dump!TypeOK
<1>2. \A t \in Dump!Token : put[t].ph = "none" /\ shell[t] = "none"
  BY DumpTypes DEF Dump!Init
<1>3. Handlers /\ Alone /\ Streams /\ Landing
  BY <1>2, DumpTypes DEF Dump!Init, Handlers, Alone, Streams, Landing, Dump!Alive
<1> QED BY <1>1, <1>3 DEF DumpInv

\* What the pooler trusts depends on the copies, and on nobody writing them.
LEMMA LandingStays ==
    ASSUME Dump!DumpAssumption, DumpInv, UNCHANGED <<attempt, obj, dest, torn>>,
           outlived => outlived',
           ~outlived' => (Delivered => file'[dest] = file[dest]),
           \A u \in Dump!Token : Dump!Alive(u)' => Dump!Alive(u),
           attempt.t \in Dump!Token =>
               /\ grant'[attempt.t].completed \in {0, grant[attempt.t].completed}
               /\ put'[attempt.t].ph = "open" => put[attempt.t].ph = "open" \/ ~Quiet
    PROVE  Landing'
<1> SUFFICES ASSUME ~outlived, ~outlived' PROVE Landing'
  BY DEF Landing
<1>1. attempt.ph # "idle" => attempt.t \in Dump!Token
  BY DEF DumpInv, Handlers, Dump!TypeOK, Dump!Attempt
<1>2. Quiet => Quiet'
  BY DEF Quiet
<1>3. attempt.ph # "idle" /\ Delivered => Delivered'
  BY <1>1, <1>2 DEF Delivered, Dump!Whole
<1>4. attempt.ph = "wait" /\ Dump!Landed' => Dump!Landed
  BY <1>1, DumpBounds DEF Dump!Landed
<1>5. Sent => Sent'
  BY <1>2 DEF Sent, Dump!Whole
<1> QED BY <1>3, <1>4, <1>5 DEF DumpInv, Landing

\* Steps that write no dump: requests that fail, and tokens that expire.
LEMMA CalmKeeps ==
    ASSUME Dump!DumpAssumption, DumpInv, Dump!TypeOK',
           UNCHANGED <<file, dest, obj, attempt, outlived, torn>>, tmp' \in {0, tmp},
           \A u \in Dump!Token :
               /\ put'[u].inode = put[u].inode /\ put'[u].next = put[u].next
               /\ put'[u].ph = put[u].ph \/ (put[u].ph = "open" /\ put'[u].ph = "closed")
               /\ shell'[u] # shell[u] => /\ shell[u] \in {"dump", "commit", "abort"}
                                          /\ shell'[u] \in {"commit", "abort", "exit"}
               /\ shell'[u] = "commit" /\ shell[u] # "commit" =>
                     shell[u] = "dump" /\ put'[u].ph = "closed" /\ put[u].next = Pieces + 1
               /\ grant'[u].completed \in {0, grant[u].completed}
    PROVE  DumpInv'
<1>1. Handlers'
  BY DEF DumpInv, Handlers
<1>2. \A u \in Dump!Token : Dump!Alive(u)' => Dump!Alive(u)
  BY DEF Dump!Alive
<1>3. Alone'
  BY <1>2 DEF DumpInv, Alone
<1>4. Streams'
  BY DEF DumpInv, Streams
<1>5. Landing'
  BY <1>2, LandingStays
<1> QED BY <1>1, <1>3, <1>4, <1>5 DEF DumpInv

\* A function changed at one token.
LEMMA GrantSet ==
    ASSUME grant \in [Dump!Token -> Dump!Grant], NEW t \in Dump!Token, NEW g \in Dump!Grant,
           grant' = [grant EXCEPT ![t] = g]
    PROVE  /\ grant' \in [Dump!Token -> Dump!Grant] /\ grant'[t] = g
           /\ \A u \in Dump!Token : u # t => grant'[u] = grant[u]
OBVIOUS

LEMMA PutSet ==
    ASSUME put \in [Dump!Token -> Dump!Put], NEW t \in Dump!Token, NEW p \in Dump!Put,
           put' = [put EXCEPT ![t] = p]
    PROVE  /\ put' \in [Dump!Token -> Dump!Put] /\ put'[t] = p
           /\ \A u \in Dump!Token : u # t => put'[u] = put[u]
OBVIOUS

LEMMA ShellSet ==
    ASSUME Dump!TypeOK, NEW t \in Dump!Token,
           NEW x \in {"none", "dump", "commit", "abort", "direct", "exit", "dead"},
           shell' = [shell EXCEPT ![t] = x]
    PROVE  /\ shell' \in [Dump!Token -> {"none", "dump", "commit", "abort", "direct", "exit", "dead"}]
           /\ shell'[t] = x
           /\ \A u \in Dump!Token : u # t => shell'[u] = shell[u]
BY DEF Dump!TypeOK

\* A sweep forgets grants; it completes none.
LEMMA SweptType ==
    ASSUME Dump!DumpAssumption, Dump!TypeOK, NEW t, NEW live \in Dump!Grant, live.completed = 0,
           grant' = [u \in Dump!Token |->
                        IF u = t THEN live
                        ELSE IF u \in Dump!Swept THEN [Dump!NoGrant EXCEPT !.st = "swept"]
                        ELSE grant[u]]
    PROVE  /\ grant' \in [Dump!Token -> Dump!Grant]
           /\ \A u \in Dump!Token : grant'[u].completed \in {0, grant[u].completed}
           /\ t \in Dump!Token => grant'[t] = live
<1> DEFINE swept == [Dump!NoGrant EXCEPT !.st = "swept"]
<1>1. swept \in Dump!Grant /\ swept.completed = 0
  BY DumpTypes DEF Dump!NoGrant, Dump!Grant
<1> HIDE DEF swept
<1>2. grant' = [u \in Dump!Token |-> IF u = t THEN live
                                     ELSE IF u \in Dump!Swept THEN swept ELSE grant[u]]
  BY DEF swept
<1>3. \A u \in Dump!Token : grant[u] \in Dump!Grant
  BY DEF Dump!TypeOK
<1>4. \A u \in Dump!Token : grant'[u] \in {live, swept, grant[u]}
  BY <1>2
<1>5. grant' \in [Dump!Token -> Dump!Grant]
  BY <1>1, <1>2, <1>3
<1>6. \A u \in Dump!Token : grant'[u].completed \in {0, grant[u].completed}
  <2> TAKE u \in Dump!Token
  <2>1. CASE grant'[u] = grant[u]
    BY <2>1
  <2>2. CASE grant'[u] \in {live, swept}
    <3>1. grant'[u].completed = 0
      BY <1>1, <2>2
    <3> QED BY <3>1
  <2> QED BY <1>4, <2>1, <2>2
<1> QED BY <1>2, <1>5, <1>6

LEMMA ExpireKeeps ==
    ASSUME Dump!DumpAssumption, DumpInv,
           Dump!OtherIssue \/ (\E t \in Dump!Token : Dump!Expire(t)) \/ UNCHANGED Dump!vars
    PROVE  DumpInv'
<1>0. /\ Dump!TypeOK
      /\ UNCHANGED <<put, file, dest, shell, sentinel, obj, attempt, outlived, torn>>
      /\ tmp' \in {0, tmp}
  BY DEF DumpInv, Dump!OtherIssue, Dump!Expire, Dump!vars, Dump!server, Dump!past
<1>1. /\ grant' \in [Dump!Token -> Dump!Grant]
      /\ \A u \in Dump!Token : grant'[u].completed \in {0, grant[u].completed}
  <2>1. CASE Dump!OtherIssue
    <3>1. 0 \notin Dump!Token /\ Dump!NoGrant \in Dump!Grant /\ Dump!NoGrant.completed = 0
      BY DumpBounds, DumpTypes
    <3>2. grant' = [u \in Dump!Token |->
                       IF u = 0 THEN Dump!NoGrant
                       ELSE IF u \in Dump!Swept THEN [Dump!NoGrant EXCEPT !.st = "swept"]
                       ELSE grant[u]]
      BY <2>1, <3>1 DEF Dump!OtherIssue
    <3> QED BY <1>0, <3>1, <3>2, SweptType
  <2>2. ASSUME NEW t \in Dump!Token, Dump!Expire(t)
        PROVE  /\ grant' \in [Dump!Token -> Dump!Grant]
               /\ \A u \in Dump!Token : grant'[u].completed \in {0, grant[u].completed}
    <3> DEFINE g == [grant[t] EXCEPT !.st = "expired"]
    <3>1. g \in Dump!Grant /\ g.completed = grant[t].completed
      BY <1>0 DEF Dump!TypeOK, Dump!Grant
    <3>2. grant' = [grant EXCEPT ![t] = g]
      BY <2>2 DEF Dump!Expire
    <3> HIDE DEF g
    <3>3. grant' \in [Dump!Token -> Dump!Grant] /\ grant'[t] = g
          /\ \A u \in Dump!Token : u # t => grant'[u] = grant[u]
      BY <1>0, <3>1, <3>2, GrantSet DEF Dump!TypeOK
    <3> QED BY <3>1, <3>3
  <2>3. CASE UNCHANGED Dump!vars
    BY <1>0, <2>3 DEF Dump!TypeOK, Dump!vars, Dump!server
  <2> QED BY <2>1, <2>2, <2>3
<1>2. Dump!TypeOK'
  BY <1>0, <1>1 DEF Dump!TypeOK
<1> QED BY <1>0, <1>1, <1>2, CalmKeeps

\* The end of an upload, good or bad.
LEMMA UploadEndKeeps ==
    ASSUME Dump!DumpAssumption, DumpInv, NEW t \in Dump!Token, Dump!PutEnd(t) \/ Dump!PutError(t)
    PROVE  DumpInv'
<1> DEFINE p == [put[t] EXCEPT !.ph = "closed"]
<1> DEFINE x == IF shell[t] # "dump" THEN shell[t]
                ELSE IF Dump!PutEnd(t) /\ put[t].next > Pieces THEN "commit" ELSE "abort"
<1>0. /\ Dump!TypeOK /\ put[t].ph = "open"
      /\ UNCHANGED <<file, dest, sentinel, obj, attempt, outlived, torn>> /\ tmp' \in {0, tmp}
  BY DEF DumpInv, Dump!PutEnd, Dump!PutError, Dump!past
<1>1. /\ p \in Dump!Put /\ p.ph = "closed" /\ p.inode = put[t].inode /\ p.next = put[t].next
      /\ put[t].next \in 1..(Pieces + 1)
  BY <1>0 DEF Dump!TypeOK, Dump!Put
<1>2. put' = [put EXCEPT ![t] = p]
  BY DEF Dump!PutEnd, Dump!PutError
<1>3. /\ x \in {"none", "dump", "commit", "abort", "direct", "exit", "dead"}
      /\ x = shell[t] \/ (shell[t] = "dump" /\ x \in {"commit", "abort"})
      /\ x = "commit" /\ shell[t] # "commit" => put[t].next = Pieces + 1
  <2>1. shell[t] \in {"none", "dump", "commit", "abort", "direct", "exit", "dead"}
    BY <1>0 DEF Dump!TypeOK
  <2>2. put[t].next > Pieces => put[t].next = Pieces + 1
    BY <1>1, DumpBounds
  <2> QED BY <1>0, <2>1, <2>2
<1>4. shell' = [shell EXCEPT ![t] = x]
  BY DEF Dump!PutEnd, Dump!PutError, Dump!Answered
<1>5. /\ grant' \in [Dump!Token -> Dump!Grant]
      /\ \A u \in Dump!Token : grant'[u].completed \in {0, grant[u].completed}
  <2>1. CASE Dump!PutEnd(t)
    <3> DEFINE g == [grant[t] EXCEPT !.pending = IF grant[t].st = "swept" THEN 0
                                                 ELSE put[t].next - 1]
    <3>1. 0 \in 0..Pieces /\ put[t].next - 1 \in 0..Pieces
      BY <1>1, DumpBounds
    <3>2. g \in Dump!Grant /\ g.completed = grant[t].completed
      BY <1>0, <3>1 DEF Dump!TypeOK, Dump!Grant
    <3>3. grant' = [grant EXCEPT ![t] = g]
      BY <2>1 DEF Dump!PutEnd
    <3> HIDE DEF g
    <3>4. grant' \in [Dump!Token -> Dump!Grant] /\ grant'[t] = g
          /\ \A u \in Dump!Token : u # t => grant'[u] = grant[u]
      BY <1>0, <3>2, <3>3, GrantSet DEF Dump!TypeOK
    <3> QED BY <3>2, <3>4
  <2>2. CASE Dump!PutError(t)
    BY <1>0, <2>2 DEF Dump!PutError, Dump!TypeOK
  <2> QED BY <2>1, <2>2
<1> HIDE DEF p, x
<1>6. /\ put' \in [Dump!Token -> Dump!Put] /\ put'[t] = p
      /\ \A u \in Dump!Token : u # t => put'[u] = put[u]
  BY <1>0, <1>1, <1>2, PutSet DEF Dump!TypeOK
<1>7. /\ shell' \in [Dump!Token -> {"none", "dump", "commit", "abort", "direct", "exit", "dead"}]
      /\ shell'[t] = x /\ \A u \in Dump!Token : u # t => shell'[u] = shell[u]
  BY <1>0, <1>3, <1>4, ShellSet
<1>8. Dump!TypeOK'
  BY <1>0, <1>5, <1>6, <1>7 DEF Dump!TypeOK
<1> QED BY <1>0, <1>1, <1>3, <1>5, <1>6, <1>7, <1>8, CalmKeeps

\* Requests that publish nothing.
LEMMA RefusalKeeps ==
    ASSUME Dump!DumpAssumption, DumpInv, NEW t \in Dump!Token,
           \/ Dump!PutRefused(t) \/ Dump!CurlFails(t) \/ Dump!handle_abort(t)
           \/ Dump!handle_commit(t) /\ ~Dump!Committed(t)
    PROVE  DumpInv'
<1>0. /\ Dump!TypeOK /\ shell[t] \in {"dump", "abort", "commit"}
      /\ UNCHANGED <<put, file, dest, obj, attempt, outlived, torn>> /\ tmp' \in {0, tmp}
      /\ sentinel' \in {"failed", sentinel}
  BY DEF DumpInv, Dump!PutRefused, Dump!CurlFails, Dump!handle_abort, Dump!handle_commit,
         Dump!Exits, Dump!server, Dump!past
<1>1. PICK x \in {"abort", "exit"} : shell' = [shell EXCEPT ![t] = x]
  BY DEF Dump!PutRefused, Dump!CurlFails, Dump!handle_abort, Dump!handle_commit, Dump!Exits
<1>2. /\ shell' \in [Dump!Token -> {"none", "dump", "commit", "abort", "direct", "exit", "dead"}]
      /\ shell'[t] = x /\ \A u \in Dump!Token : u # t => shell'[u] = shell[u]
  BY <1>0, <1>1, ShellSet
<1>3. /\ grant' \in [Dump!Token -> Dump!Grant]
      /\ \A u \in Dump!Token : grant'[u].completed \in {0, grant[u].completed}
  <2>1. CASE grant' = grant
    BY <1>0, <2>1 DEF Dump!TypeOK
  <2>2. CASE grant' = [grant EXCEPT ![t].pending = 0]
    <3> DEFINE g == [grant[t] EXCEPT !.pending = 0]
    <3>1. 0 \in 0..Pieces
      BY DumpBounds
    <3>2. g \in Dump!Grant /\ g.completed = grant[t].completed
      BY <1>0, <3>1 DEF Dump!TypeOK, Dump!Grant
    <3>3. grant' = [grant EXCEPT ![t] = g]
      BY <2>2
    <3> HIDE DEF g
    <3>4. grant' \in [Dump!Token -> Dump!Grant] /\ grant'[t] = g
          /\ \A u \in Dump!Token : u # t => grant'[u] = grant[u]
      BY <1>0, <3>2, <3>3, GrantSet DEF Dump!TypeOK
    <3> QED BY <3>2, <3>4
  <2> QED BY <2>1, <2>2
          DEF Dump!PutRefused, Dump!CurlFails, Dump!handle_abort, Dump!handle_commit, Dump!server
<1>4. Dump!TypeOK'
  BY <1>0, <1>2, <1>3 DEF Dump!TypeOK
<1> QED BY <1>0, <1>2, <1>3, <1>4, CalmKeeps

\* An upload opens the temporary file, and writes to the inode it opened.
LEMMA PutOpenKeeps ==
    ASSUME Dump!DumpAssumption, DumpInv, NEW t \in Dump!Token, Dump!PutOpen(t)
    PROVE  DumpInv'
<1> DEFINE n == IF tmp = 0 THEN t ELSE tmp
<1> DEFINE p == [ph |-> "open", inode |-> n, next |-> 1]
<1>0. /\ Dump!TypeOK /\ shell[t] = "dump" /\ put[t].ph = "none" /\ tmp' = n
      /\ file' = [file EXCEPT ![n] = {}] /\ put' = [put EXCEPT ![t] = p]
      /\ UNCHANGED <<grant, dest, shell, sentinel, obj, attempt, outlived, torn>>
  BY DEF DumpInv, Dump!PutOpen, Dump!past
<1>1. n \in Dump!Token /\ n # 0
  BY <1>0, DumpBounds DEF Dump!TypeOK
<1>2. p \in Dump!Put
  <2>1. 1 \in 1..(Pieces + 1)
    BY DumpBounds
  <2> QED BY <1>1, <2>1 DEF Dump!Put
<1> HIDE DEF n
<1>3. /\ put' \in [Dump!Token -> Dump!Put] /\ put'[t] = p
      /\ \A u \in Dump!Token : u # t => put'[u] = put[u]
  BY <1>0, <1>2, PutSet DEF Dump!TypeOK
<1>4. file' \in [Dump!Token -> SUBSET Dump!Bytes] /\ file'[n] = {}
  BY <1>0, <1>1 DEF Dump!TypeOK
<1>5. Dump!TypeOK'
  BY <1>0, <1>1, <1>3, <1>4 DEF Dump!TypeOK
<1>6. Handlers'
  BY <1>0, <1>1, <1>3 DEF DumpInv, Handlers
<1>7. ~outlived => \A u \in Dump!Token : Dump!Alive(u) => u = t
  BY <1>0 DEF DumpInv, Alone, Dump!Alive
<1>8. Alone'
  BY <1>0 DEF DumpInv, Alone, Dump!Alive
<1>9. Streams'
  <2>1. {t} \X (1..(1 - 1)) = {}
    OBVIOUS
  <2>2. ASSUME ~outlived, NEW u \in Dump!Token, shell[u] \in {"dump", "commit"} PROVE u = t
    BY <1>7, <2>2 DEF Dump!Alive
  <2> QED BY <1>0, <1>3, <1>4, <2>1, <2>2 DEF Streams
<1>10. Landing'
  <2>1. ~Quiet
    BY <1>0 DEF Quiet, Dump!Alive
  <2>2. attempt.t \in Dump!Token => grant'[attempt.t].completed = grant[attempt.t].completed
    BY <1>0
  <2> QED BY <1>0, <2>1, <2>2, LandingStays DEF Dump!Alive, Delivered
<1> QED BY <1>5, <1>6, <1>8, <1>9, <1>10 DEF DumpInv

\* A write for this attempt goes on in its own inode; any other is told.
LEMMA PutWriteKeeps ==
    ASSUME Dump!DumpAssumption, DumpInv, NEW t \in Dump!Token, Dump!PutWrite(t)
    PROVE  DumpInv'
<1> DEFINE n == put[t].inode
<1> DEFINE p == [put[t] EXCEPT !.next = @ + 1]
<1>0. /\ Dump!TypeOK /\ put[t].ph = "open" /\ put[t].next <= Pieces
      /\ file' = [file EXCEPT ![n] = file[n] \cup {<<t, put[t].next>>}]
      /\ put' = [put EXCEPT ![t] = p]
      /\ UNCHANGED <<grant, tmp, dest, shell, sentinel, obj, attempt, torn>>
      /\ outlived' \in BOOLEAN /\ (~outlived' => ~outlived /\ t = attempt.t)
  BY DEF DumpInv, Dump!PutWrite, Dump!TypeOK
<1>1. n \in Dump!Token /\ put[t].next \in 1..Pieces
  BY <1>0, DumpBounds DEF Dump!TypeOK, Dump!Put, DumpInv, Handlers
<1>2. /\ p \in Dump!Put /\ p.next = put[t].next + 1 /\ p.inode = n /\ p.ph = "open"
  <2>1. put[t].next + 1 \in 1..(Pieces + 1)
    BY <1>1, DumpBounds
  <2> QED BY <1>0, <2>1 DEF Dump!TypeOK, Dump!Put
<1> HIDE DEF n, p
<1>3. /\ put' \in [Dump!Token -> Dump!Put] /\ put'[t] = p
      /\ \A u \in Dump!Token : u # t => put'[u] = put[u]
  BY <1>0, <1>2, PutSet DEF Dump!TypeOK
<1>4. /\ file' \in [Dump!Token -> SUBSET Dump!Bytes]
      /\ file'[n] = file[n] \cup {<<t, put[t].next>>}
  BY <1>0, <1>1 DEF Dump!TypeOK, Dump!Bytes
<1>5. Dump!TypeOK'
  BY <1>0, <1>3, <1>4 DEF Dump!TypeOK
<1>6. Handlers'
  BY <1>0, <1>1, <1>2, <1>3, DumpBounds DEF DumpInv, Handlers
<1>7. ~outlived' => \A u \in Dump!Token : Dump!Alive(u) => u = t
  BY <1>0 DEF DumpInv, Alone
<1>8. Alone'
  BY <1>0 DEF DumpInv, Alone, Dump!Alive
<1>9. Streams'
  <2> SUFFICES ASSUME ~outlived' PROVE Streams'
    BY DEF Streams
  <2>1. ASSUME NEW u \in Dump!Token, shell[u] \in {"dump", "commit"} PROVE u = t
    BY <1>7, <2>1 DEF Dump!Alive
  <2>2. CASE shell[t] \in {"dump", "commit"}
    <3>1. file[n] = {t} \X (1..(put[t].next - 1)) /\ tmp \in {0, n}
      BY <1>0, <2>2 DEF DumpInv, Streams, n
    <3>2. file'[n] = {t} \X (1..(p.next - 1))
      <4>1. 1..(p.next - 1) = (1..(put[t].next - 1)) \cup {put[t].next}
        BY <1>1, <1>2, DumpBounds
      <4> QED BY <1>4, <3>1, <4>1
    <3> QED BY <1>0, <1>2, <1>3, <2>1, <3>1, <3>2 DEF Streams
  <2>3. CASE shell[t] \notin {"dump", "commit"}
    BY <1>0, <2>1, <2>3 DEF Streams
  <2> QED BY <2>2, <2>3
<1>10. Landing'
  <2>1. ~outlived' => ~Delivered
    BY <1>0 DEF Delivered
  <2>2. attempt.t \in Dump!Token => grant'[attempt.t].completed = grant[attempt.t].completed
    BY <1>0
  <2>3. attempt.t \in Dump!Token => (put'[attempt.t].ph = "open" => put[attempt.t].ph = "open")
    BY <1>0, <1>3
  <2> QED BY <1>0, <2>1, <2>2, <2>3, LandingStays DEF Dump!Alive
<1> QED BY <1>5, <1>6, <1>8, <1>9, <1>10 DEF DumpInv

\* The commit publishes the whole dump, and is the last the guest does.
LEMMA CommitKeeps ==
    ASSUME Dump!DumpAssumption, DumpInv, NEW t \in Dump!Token, Dump!handle_commit(t),
           Dump!Committed(t)
    PROVE  DumpInv'
<1> DEFINE g == [grant[t] EXCEPT !.completed = grant[t].pending, !.pending = 0]
<1>0. /\ Dump!TypeOK /\ shell[t] = "commit" /\ tmp # 0 /\ dest' = tmp /\ tmp' = 0
      /\ grant' = [grant EXCEPT ![t] = g] /\ shell' = [shell EXCEPT ![t] = "exit"]
      /\ sentinel' = "ok" /\ UNCHANGED <<put, file, obj, attempt, outlived, torn>>
  BY DEF DumpInv, Dump!handle_commit, Dump!Committed, Dump!Exits, Dump!past
<1>1. g \in Dump!Grant
  <2>1. 0 \in 0..Pieces
    BY DumpBounds
  <2> QED BY <1>0, <2>1 DEF Dump!TypeOK, Dump!Grant
<1> HIDE DEF g
<1>2. /\ grant' \in [Dump!Token -> Dump!Grant]
      /\ \A u \in Dump!Token : u # t => grant'[u] = grant[u]
  BY <1>0, <1>1, GrantSet DEF Dump!TypeOK
<1>3. /\ shell' \in [Dump!Token -> {"none", "dump", "commit", "abort", "direct", "exit", "dead"}]
      /\ shell'[t] = "exit" /\ \A u \in Dump!Token : u # t => shell'[u] = shell[u]
  BY <1>0, ShellSet
<1>4. Dump!TypeOK'
  BY <1>0, <1>2, <1>3 DEF Dump!TypeOK
<1>5. Handlers'
  BY <1>0, <1>3 DEF DumpInv, Handlers
<1>6. Alone'
  BY <1>0, <1>3 DEF DumpInv, Alone, Dump!Alive
<1>7. ~outlived => t = attempt.t /\ Quiet'
  BY <1>0, <1>3 DEF DumpInv, Alone, Dump!Alive, Quiet
<1>8. Streams'
  BY <1>0, <1>7 DEF Streams, Quiet, Dump!Alive
<1>9. Landing'
  <2> SUFFICES ASSUME ~outlived PROVE Landing'
    BY <1>0 DEF Landing
  <2>1. file[tmp] = Dump!Whole(t) /\ put[t].ph = "closed"
    <3>1. put[t].ph = "closed" /\ put[t].next - 1 = Pieces
      BY <1>0, DumpBounds DEF DumpInv, Handlers
    <3> QED BY <1>0, <3>1 DEF DumpInv, Streams, Dump!Whole
  <2>2. Delivered'
    BY <1>0, <1>7, <2>1 DEF Delivered, Dump!Whole
  <2>3. ~Quiet
    BY <1>0 DEF Quiet, Dump!Alive
  <2>4. attempt.ph = "wait" /\ attempt.route = "direct" => ~Dump!Landed'
    BY <1>0, <2>3 DEF DumpInv, Landing, Sent, Dump!Landed
  <2> QED BY <1>0, <2>2, <2>3, <2>4 DEF DumpInv, Landing, Delivered, Sent
<1> QED BY <1>4, <1>5, <1>6, <1>8, <1>9 DEF DumpInv

\* The guest's own upload replaces the object, whole or told to be torn, or does not.
LEMMA DirectKeeps ==
    ASSUME Dump!DumpAssumption, DumpInv, NEW t \in Dump!Token, Dump!DirectUpload(t)
    PROVE  DumpInv'
<1>0. /\ Dump!TypeOK /\ shell[t] = "direct" /\ shell' = [shell EXCEPT ![t] = "exit"]
      /\ sentinel' \in {"ok", "failed"}
      /\ UNCHANGED <<grant, put, file, tmp, dest, attempt, outlived>>
  BY DEF DumpInv, Dump!DirectUpload, Dump!Exits, Dump!server
<1>2. /\ torn \subseteq torn' /\ torn' \subseteq Dump!Token /\ obj' \subseteq Dump!Bytes
      /\ obj' = obj \/ obj' = Dump!Whole(t) \/ t \in torn'
  <2>1. CASE UNCHANGED <<obj, torn>>
    BY <1>0, <2>1 DEF Dump!TypeOK
  <2>2. ASSUME NEW n \in 1..Pieces, obj' = {t} \X (1..n),
               torn' = IF n < Pieces THEN torn \cup {t} ELSE torn
        PROVE  /\ torn \subseteq torn' /\ torn' \subseteq Dump!Token /\ obj' \subseteq Dump!Bytes
               /\ obj' = obj \/ obj' = Dump!Whole(t) \/ t \in torn'
    <3>1. n < Pieces \/ n = Pieces
      BY DumpBounds
    <3>2. {t} \X (1..n) \subseteq Dump!Bytes
      BY DumpBounds DEF Dump!Bytes
    <3>3. torn' \subseteq Dump!Token /\ torn \subseteq torn'
      BY <1>0, <2>2 DEF Dump!TypeOK
    <3> QED BY <2>2, <3>1, <3>2, <3>3 DEF Dump!Whole
  <2> QED BY <2>1, <2>2 DEF Dump!DirectUpload
<1>1. /\ shell' \in [Dump!Token -> {"none", "dump", "commit", "abort", "direct", "exit", "dead"}]
      /\ shell'[t] = "exit" /\ \A u \in Dump!Token : u # t => shell'[u] = shell[u]
  BY <1>0, ShellSet
<1>3. Dump!TypeOK'
  BY <1>0, <1>1, <1>2 DEF Dump!TypeOK
<1>4. Handlers' /\ Alone' /\ Streams'
  BY <1>0, <1>1 DEF DumpInv, Handlers, Alone, Streams, Dump!Alive
<1>5. ~outlived => t = attempt.t /\ Quiet'
  BY <1>0, <1>1 DEF DumpInv, Alone, Dump!Alive, Quiet
<1>6. Landing'
  <2> SUFFICES ASSUME ~outlived PROVE Landing'
    BY <1>0 DEF Landing
  <2>1. ~Quiet
    BY <1>0 DEF Quiet, Dump!Alive
  <2>2. ~Delivered /\ (attempt.ph = "wait" => ~Dump!Landed) /\ attempt.ph \notin {"frozen", "upload", "archived"}
    BY <2>1 DEF DumpInv, Landing, Delivered, Sent
  <2>3. attempt.ph = "wait" /\ Dump!Landed' =>
            attempt.route = "direct" /\ (obj' = Dump!Whole(t) \/ t \in torn')
    BY <1>0, <1>2, <2>2 DEF Dump!Landed
  <2> QED BY <1>0, <1>5, <2>2, <2>3 DEF Landing, Sent, Dump!Whole
<1> QED BY <1>3, <1>4, <1>6 DEF DumpInv

\* A new attempt: its token is fresh, and it trusts nothing yet.
LEMMA LaunchDumpKeeps ==
    ASSUME Dump!DumpAssumption, DumpInv, NEW r \in Route, Dump!Launch(r)
    PROVE  DumpInv'
<1> DEFINE t == attempt.t + 1
<1> DEFINE x == IF r = "direct" THEN "direct" ELSE "dump"
<1>0. /\ Dump!TypeOK /\ attempt.ph = "idle" /\ attempt.t < MaxJobs /\ sentinel' = "none"
      /\ attempt' = [ph |-> "wait", t |-> t, route |-> r, base |-> obj]
      /\ shell' = [shell EXCEPT ![t] = x]
      /\ UNCHANGED <<put, file, dest, obj, torn>>
  BY DEF DumpInv, Dump!Launch
<1>1. t \in Dump!Token /\ attempt.t \in Nat /\ t # 0 /\ t > attempt.t
  BY <1>0, DumpBounds DEF Dump!TypeOK, Dump!Attempt, Dump!Token
<1>2. r \in {"freeze", "archive", "direct"} /\ x \in {"dump", "direct"}
  BY DEF Dump!DumpAssumption
<1>3. attempt' \in Dump!Attempt /\ attempt'.ph = "wait" /\ attempt'.t = t
      /\ attempt'.route = r /\ attempt'.base = obj
  BY <1>0, <1>1, <1>2 DEF Dump!TypeOK, Dump!Attempt
<1>4. shell[t] = "none" /\ put[t].ph = "none"
  BY <1>1 DEF DumpInv, Handlers
<1>5. /\ outlived' \in BOOLEAN /\ (~outlived' => ~outlived /\ Quiet)
  BY <1>0 DEF Dump!Launch, Quiet, Dump!TypeOK
<1> HIDE DEF t, x
<1>6. /\ shell' \in [Dump!Token -> {"none", "dump", "commit", "abort", "direct", "exit", "dead"}]
      /\ shell'[t] = x /\ \A u \in Dump!Token : u # t => shell'[u] = shell[u]
  BY <1>0, <1>1, <1>2, ShellSet
<1>7. /\ grant' \in [Dump!Token -> Dump!Grant] /\ tmp' \in {0, tmp}
      /\ r # "direct" => grant'[t].completed = 0
  <2>1. CASE r = "direct"
    BY <1>0, <2>1 DEF Dump!Launch, Dump!TypeOK
  <2>2. CASE r # "direct"
    <3> DEFINE live == [Dump!NoGrant EXCEPT !.st = "live"]
    <3>1. live \in Dump!Grant /\ live.completed = 0
      BY DumpTypes DEF Dump!NoGrant, Dump!Grant
    <3>2. /\ grant' = [u \in Dump!Token |->
                         IF u = t THEN live
                         ELSE IF u \in Dump!Swept THEN [Dump!NoGrant EXCEPT !.st = "swept"]
                         ELSE grant[u]]
          /\ tmp' \in {0, tmp}
      BY <2>2 DEF Dump!Launch, Dump!issue, t
    <3> HIDE DEF live
    <3> QED BY <1>0, <1>1, <3>1, <3>2, SweptType
  <2> QED BY <2>1, <2>2
<1>8. Dump!TypeOK'
  BY <1>0, <1>3, <1>5, <1>6, <1>7 DEF Dump!TypeOK
<1>9. Handlers'
  <2>1. \A u \in Dump!Token : u > t => u > attempt.t /\ u # t
    BY <1>1, DumpBounds DEF t
  <2> QED BY <1>0, <1>1, <1>2, <1>3, <1>4, <1>6, <2>1 DEF DumpInv, Handlers
<1>10. Alone' /\ Streams'
  BY <1>0, <1>2, <1>3, <1>4, <1>5, <1>6 DEF Alone, Streams, Quiet, Dump!Alive
<1>11. Landing'
  <2>1. ~Dump!Landed'
    BY <1>0, <1>3, <1>7, DumpBounds DEF Dump!Landed
  <2> QED BY <1>3, <2>1 DEF Landing
<1> QED BY <1>8, <1>9, <1>10, <1>11 DEF DumpInv

\* A stop, which may fail, revives nothing.
LEMMA StopType ==
    ASSUME Dump!TypeOK,
           Dump!StopVm \/ shell' = [t \in Dump!Token |-> IF Dump!Alive(t) THEN "dead" ELSE shell[t]]
    PROVE  /\ shell' \in [Dump!Token -> {"none", "dump", "commit", "abort", "direct", "exit", "dead"}]
           /\ \A u \in Dump!Token : shell'[u] = shell[u] \/ (Dump!Alive(u) /\ shell'[u] = "dead")
BY DEF Dump!TypeOK, Dump!StopVm

\* An attempt that has ended, one way or the other.
LEMMA AttemptEnds ==
    ASSUME Dump!DumpAssumption, DumpInv, attempt.ph # "idle",
           attempt' = [attempt EXCEPT !.ph = "idle"],
           Dump!StopVm \/ shell' = [t \in Dump!Token |-> IF Dump!Alive(t) THEN "dead" ELSE shell[t]],
           dest' \in {0, dest}, obj' \subseteq Dump!Bytes,
           UNCHANGED <<grant, put, file, tmp, sentinel, outlived, torn>>
    PROVE  DumpInv'
<1>0. Dump!TypeOK
  BY DEF DumpInv
<1>1. attempt' \in Dump!Attempt /\ attempt'.ph = "idle" /\ attempt'.t = attempt.t
  BY <1>0 DEF Dump!TypeOK, Dump!Attempt
<1>2. /\ shell' \in [Dump!Token -> {"none", "dump", "commit", "abort", "direct", "exit", "dead"}]
      /\ \A u \in Dump!Token : shell'[u] = shell[u] \/ (Dump!Alive(u) /\ shell'[u] = "dead")
  BY <1>0, StopType
<1>3. Dump!TypeOK'
  BY <1>0, <1>1, <1>2 DEF Dump!TypeOK
<1>4. Handlers'
  BY <1>1, <1>2 DEF DumpInv, Handlers, Dump!Alive
<1>5. Alone' /\ Streams'
  BY <1>1, <1>2 DEF DumpInv, Alone, Streams, Dump!Alive
<1>6. Landing'
  BY <1>1 DEF Landing
<1> QED BY <1>3, <1>4, <1>5, <1>6 DEF DumpInv

\* What was awaited has landed: nobody is left to write it.
LEMMA AwaitDumpKeeps ==
    ASSUME Dump!DumpAssumption, DumpInv, Dump!Await
    PROVE  DumpInv'
<1>0. /\ Dump!TypeOK /\ attempt.ph = "wait" /\ Dump!Landed
      /\ UNCHANGED <<grant, put, file, tmp, dest, shell, sentinel, obj, outlived, torn>>
  BY DEF DumpInv, Dump!Await, Dump!server, Dump!past
<1>1. /\ attempt' \in Dump!Attempt /\ attempt'.t = attempt.t
      /\ attempt'.ph = CASE attempt.route = "freeze" -> "frozen"
                         [] attempt.route = "archive" -> "upload"
                         [] attempt.route = "direct" -> "archived"
      /\ attempt.route \in {"freeze", "archive", "direct"}
  BY <1>0 DEF Dump!Await, Dump!TypeOK, Dump!Attempt
<1>2. Dump!TypeOK'
  BY <1>0, <1>1 DEF Dump!TypeOK
<1>3. Handlers' /\ Alone' /\ Streams'
  BY <1>0, <1>1 DEF DumpInv, Handlers, Alone, Streams, Dump!Alive
<1>4. Landing'
  <2>1. (Delivered => Delivered') /\ (Sent => Sent')
    BY <1>0, <1>1 DEF Quiet, Delivered, Sent, Dump!Alive, Dump!Whole
  <2> QED BY <1>0, <1>1, <2>1 DEF DumpInv, Landing
<1> QED BY <1>2, <1>3, <1>4 DEF DumpInv

LEMMA UploadDumpKeeps ==
    ASSUME Dump!DumpAssumption, DumpInv, Dump!Upload
    PROVE  DumpInv'
<1>0. /\ Dump!TypeOK /\ attempt.ph = "upload" /\ dest' = 0
      /\ UNCHANGED <<grant, put, file, tmp, sentinel, outlived, torn>>
  BY DEF DumpInv, Dump!Upload, Dump!past
<1>1. obj' \subseteq Dump!Bytes
  <2>1. dest # 0 => file[dest] \subseteq Dump!Bytes
    BY <1>0 DEF Dump!TypeOK
  <2> QED BY <1>0, <2>1 DEF Dump!Upload, Dump!TypeOK
<1>2. CASE dest # 0 /\ obj' = file[dest] /\ attempt' = [attempt EXCEPT !.ph = "archived"]
           /\ UNCHANGED shell
  <2>1. attempt' \in Dump!Attempt /\ attempt'.ph = "archived" /\ attempt'.t = attempt.t
    BY <1>0, <1>2 DEF Dump!TypeOK, Dump!Attempt
  <2>2. Dump!TypeOK'
    BY <1>0, <1>1, <1>2, <2>1 DEF Dump!TypeOK
  <2>3. Handlers' /\ Alone' /\ Streams'
    BY <1>0, <1>2, <2>1 DEF DumpInv, Handlers, Alone, Streams, Dump!Alive
  <2>4. Landing'
    BY <1>0, <1>2, <2>1 DEF DumpInv, Landing, Delivered, Sent, Quiet, Dump!Alive, Dump!Whole
  <2> QED BY <2>2, <2>3, <2>4 DEF DumpInv
<1>3. CASE attempt' = [attempt EXCEPT !.ph = "idle"] /\ Dump!StopVm
  BY <1>0, <1>1, <1>3, AttemptEnds
<1> QED BY <1>2, <1>3 DEF Dump!Upload

LEMMA DumpNext == Dump!DumpAssumption /\ DumpInv /\ [Dump!Next]_Dump!vars => DumpInv'
<1> SUFFICES ASSUME Dump!DumpAssumption, DumpInv, [Dump!Next]_Dump!vars
             PROVE  DumpInv'
  OBVIOUS
<1>1. CASE Dump!GiveUp \/ Dump!Thaw
  <2>1. obj' \subseteq Dump!Bytes
    BY <1>1 DEF DumpInv, Dump!TypeOK, Dump!GiveUp, Dump!Thaw
  <2> QED BY <1>1, <2>1, AttemptEnds DEF Dump!GiveUp, Dump!Thaw, Dump!server, Dump!past
<1>2. CASE (\E r \in Route : Dump!Launch(r)) \/ Dump!Await \/ Dump!Upload
  BY <1>2, LaunchDumpKeeps, AwaitDumpKeeps, UploadDumpKeeps
<1>3. ASSUME NEW t \in Dump!Token, Dump!Server(t) PROVE DumpInv'
  BY <1>3, ExpireKeeps, PutOpenKeeps, PutWriteKeeps, UploadEndKeeps, RefusalKeeps, CommitKeeps,
     DirectKeeps DEF Dump!Server
<1> QED BY <1>1, <1>2, <1>3, ExpireKeeps DEF Dump!Next, Dump!Pooler

LEMMA DumpInvariant == Spec => []DumpInv
<1>1. Dump!Init => DumpInv
  BY DumpFacts, DumpInit
<1>2. DumpInv /\ [Dump!Next]_Dump!vars => DumpInv'
  BY DumpFacts, DumpNext
<1> QED BY <1>1, <1>2, DumpBehave, PTL DEF Dump!Spec

\* For any number of attempts, pieces and late requests: what the pooler trusts when it goes
\* on to delete the VM is the whole dump of this attempt, unless an older attempt's job lived,
\* or its upload wrote, beside a newer one, or a full disk cut the file a guest sent to S3
\* itself (await_server_upload, handle_put, handle_commit, upload_dump_to_s3).
THEOREM TrustedIsWhole == Spec => []TrustedWhole
<1>1. DumpInv => Dump!TrustedWhole
  BY DEF DumpInv, Landing, Delivered, Sent, Dump!TrustedWhole
<1> QED BY <1>1, DumpInvariant, PTL DEF TrustedWhole

----------------------------------------------------------------------------
(* Dedicated databases.                                                    *)

\* The instance counts as FiniteSets does.
LEMMA CredFinite == ASSUME NEW S PROVE Creds!IsFiniteSet(S) <=> IsFiniteSet(S)
BY DEF Creds!IsFiniteSet, IsFiniteSet

LEMMA CredCount == ASSUME NEW S PROVE Creds!Cardinality(S) = Cardinality(S)
BY DEF Creds!Cardinality, Cardinality

\* The place of a name in its set.
Rank(S) == [x \in S |-> Cardinality({y \in S : y <= x})]

LEMMA RankOrder ==
    ASSUME NEW S \in SUBSET Nat, IsFiniteSet(S)
    PROVE  /\ Rank(S) \in [S -> 1..Cardinality(S)]
           /\ \A x, z \in S : x < z => Rank(S)[x] < Rank(S)[z]
<1> DEFINE Upto(x) == {y \in S : y <= x}
<1>1. \A x \in S : /\ IsFiniteSet(Upto(x)) /\ Cardinality(Upto(x)) \in Nat
                   /\ Cardinality(Upto(x)) <= Cardinality(S) /\ Cardinality(Upto(x)) # 0
  <2> TAKE x \in S
  <2>1. Upto(x) \in SUBSET S /\ x \in Upto(x)
    OBVIOUS
  <2>2. IsFiniteSet(Upto(x)) /\ Cardinality(Upto(x)) <= Cardinality(S)
    BY <2>1, FS_Subset
  <2>3. Cardinality(Upto(x)) \in Nat
    BY <2>2, FS_CardinalityType
  <2>4. Cardinality(Upto(x)) # 0
    BY <2>1, <2>2, FS_EmptySet
  <2> QED BY <2>2, <2>3, <2>4
<1>2. Cardinality(S) \in Nat
  BY FS_CardinalityType
<1>3. \A x \in S : Cardinality(Upto(x)) \in 1..Cardinality(S)
  BY <1>1, <1>2
<1>4. ASSUME NEW x \in S, NEW z \in S, x < z
      PROVE  Cardinality(Upto(x)) < Cardinality(Upto(z))
  <2>1. Upto(x) \in SUBSET Upto(z) /\ z \in Upto(z) /\ z \notin Upto(x)
    <3>1. \A y \in S : y <= x => y <= z
      BY <1>4
    <3>2. z <= z /\ ~(z <= x)
      BY <1>4
    <3> QED BY <3>1, <3>2
  <2>2. Cardinality(Upto(x)) <= Cardinality(Upto(z)) /\ Cardinality(Upto(x)) # Cardinality(Upto(z))
    BY <1>1, <2>1, FS_Subset
  <2> QED BY <1>1, <2>2
<1> QED BY <1>3, <1>4 DEF Rank

Increasing(s, n) == \A i, j \in 1..n : i < j => s[i] < s[j]

\* Every finite set of numbers can be sorted: the ranks are exactly the places.
LEMMA SortExists ==
    ASSUME NEW S \in SUBSET Nat, IsFiniteSet(S)
    PROVE  \E s \in [1..Cardinality(S) -> S] : Increasing(s, Cardinality(S))
<1> DEFINE n == Cardinality(S)
<1> DEFINE R == Rank(S)
<1>1. /\ n \in Nat /\ IsFiniteSet(1..n) /\ Cardinality(1..n) = n
  <2>1. n \in Nat
    BY FS_CardinalityType
  <2>2. IsFiniteSet(1..n) /\ Cardinality(1..n) = IF 1 > n THEN 0 ELSE n - 1 + 1
    BY <2>1, FS_Interval
  <2> QED BY <2>1, <2>2
<1>2. /\ R \in [S -> 1..n] /\ \A x, z \in S : x < z => R[x] < R[z]
  BY RankOrder
<1> HIDE DEF n, R
<1>3. R \in Injection(S, 1..n)
  <2>1. \A x, z \in S : R[x] = R[z] => x = z
    <3> TAKE x, z \in S
    <3>1. x < z \/ z < x \/ x = z
      OBVIOUS
    <3>2. R[x] \in Nat /\ R[z] \in Nat
      BY <1>1, <1>2
    <3> QED BY <1>2, <3>1, <3>2
  <2> QED BY <1>2, <2>1 DEF Injection, IsInjective
<1>4. R \in Surjection(S, 1..n)
  BY <1>1, <1>3, FS_Injection DEF n
<1>5. \A i \in 1..n : \E x \in S : R[x] = i
  BY <1>4 DEF Surjection
<1> DEFINE s == [i \in 1..n |-> CHOOSE x \in S : R[x] = i]
<1>6. s \in [1..n -> S] /\ \A i \in 1..n : R[s[i]] = i
  BY <1>5
<1> HIDE DEF s
<1>7. Increasing(s, n)
  <2> SUFFICES ASSUME NEW i \in 1..n, NEW j \in 1..n, i < j
               PROVE  s[i] < s[j]
    BY DEF Increasing
  <2>1. s[i] \in S /\ s[j] \in S /\ R[s[i]] = i /\ R[s[j]] = j /\ s[i] \in Nat /\ s[j] \in Nat
    BY <1>6
  <2>2. s[i] < s[j] \/ s[j] < s[i] \/ s[i] = s[j]
    BY <2>1
  <2> QED BY <1>1, <1>2, <2>1, <2>2
<1> QED BY <1>6, <1>7 DEF n

\* A sorted enumeration names every member once.
LEMMA SortOnto ==
    ASSUME NEW S \in SUBSET Nat, IsFiniteSet(S), NEW c \in [1..Cardinality(S) -> S],
           Increasing(c, Cardinality(S))
    PROVE  /\ \A i, j \in 1..Cardinality(S) : c[i] = c[j] => i = j
           /\ \A d \in S : \E i \in 1..Cardinality(S) : c[i] = d
<1> DEFINE n == Cardinality(S)
<1>1. /\ n \in Nat /\ IsFiniteSet(1..n) /\ Cardinality(1..n) = n
  <2>1. n \in Nat
    BY FS_CardinalityType
  <2>2. IsFiniteSet(1..n) /\ Cardinality(1..n) = IF 1 > n THEN 0 ELSE n - 1 + 1
    BY <2>1, FS_Interval
  <2> QED BY <2>1, <2>2
<1>2. c \in [1..n -> S] /\ \A i, j \in 1..n : i < j => c[i] < c[j]
  BY DEF Increasing
<1> HIDE DEF n
<1>3. \A i, j \in 1..n : c[i] = c[j] => i = j
  <2> TAKE i, j \in 1..n
  <2>1. i < j \/ j < i \/ i = j
    BY <1>1
  <2>2. c[i] \in Nat /\ c[j] \in Nat
    BY <1>2
  <2> QED BY <1>2, <2>1, <2>2
<1>4. c \in Injection(1..n, S)
  BY <1>2, <1>3 DEF Injection, IsInjective
<1>5. c \in Surjection(1..n, S)
  BY <1>1, <1>4, FS_Injection DEF n
<1> QED BY <1>3, <1>5 DEF Surjection, n

LEMMA SortedIs ==
    ASSUME NEW S \in SUBSET Nat, IsFiniteSet(S)
    PROVE  /\ Creds!Sorted(S) \in [1..Cardinality(S) -> S]
           /\ \A i, j \in 1..Cardinality(S) : Creds!Sorted(S)[i] = Creds!Sorted(S)[j] => i = j
           /\ \A d \in S : \E i \in 1..Cardinality(S) : Creds!Sorted(S)[i] = d
<1> DEFINE n == Cardinality(S)
<1> DEFINE c == Creds!Sorted(S)
<1>1. c = CHOOSE s \in [1..n -> S] : Increasing(s, n)
  BY CredCount DEF Creds!Sorted, Increasing
<1>2. \E s \in [1..n -> S] : Increasing(s, n)
  BY SortExists
<1> HIDE DEF c
<1>3. c \in [1..n -> S] /\ Increasing(c, n)
  BY <1>1, <1>2
<1> QED BY <1>3, SortOnto DEF c

CredentialSets == [Name -> Creds!Credential \cup {Creds!NoRecord}]

LEMMA CredBounds ==
    Creds!DedicatedAssumption =>
        /\ IsFiniteSet(Name) /\ Name \in SUBSET Nat /\ 0 \notin Name /\ Creds!Blank = 0
        /\ Creds!NoRecord \notin Creds!Credential
<1> SUFFICES ASSUME Creds!DedicatedAssumption
             PROVE  /\ IsFiniteSet(Name) /\ Name \in SUBSET Nat /\ 0 \notin Name /\ Creds!Blank = 0
                    /\ Creds!NoRecord \notin Creds!Credential
  OBVIOUS
<1>1. IsFiniteSet(Name) /\ Name \in SUBSET Nat /\ 0 \notin Name /\ Creds!Blank = 0
  BY CredFinite DEF Creds!DedicatedAssumption, Creds!Blank
<1>2. Creds!NoRecord \notin Creds!Credential
  BY <1>1 DEF Creds!NoRecord, Creds!Credential
<1> QED BY <1>1, <1>2

\* What serialize writes, line by line.
LEMMA SerializeIs ==
    ASSUME Creds!DedicatedAssumption, NEW m \in CredentialSets
    PROVE  LET S == {d \in Name : m[d] # Creds!NoRecord}
               n == Cardinality(S)
           IN  /\ n \in Nat /\ Creds!serialize(m) \in [1..n -> Creds!Line]
               /\ Creds!serialize(m) \in Seq(Creds!Line) /\ Len(Creds!serialize(m)) = n
               /\ \A i \in 1..n : /\ Creds!serialize(m)[i].database \in S
                                  /\ LET d == Creds!serialize(m)[i].database
                                     IN m[d] = [role |-> Creds!serialize(m)[i].role,
                                                pass |-> Creds!serialize(m)[i].pass]
               /\ \A d \in S : \E i \in 1..n : Creds!serialize(m)[i].database = d
               /\ \A i, j \in 1..n : Creds!serialize(m)[i].database = Creds!serialize(m)[j].database => i = j
<1> DEFINE S == {d \in Name : m[d] # Creds!NoRecord}
<1> DEFINE n == Cardinality(S)
<1> DEFINE c == Creds!Sorted(S)
<1> DEFINE L == Creds!serialize(m)
<1>1. S \in SUBSET Nat /\ IsFiniteSet(S) /\ n \in Nat /\ S \subseteq Name
  <2>1. S \in SUBSET Name
    OBVIOUS
  <2> QED BY <2>1, CredBounds, FS_Subset, FS_CardinalityType
<1>2. /\ c \in [1..n -> S] /\ \A i, j \in 1..n : c[i] = c[j] => i = j
      /\ \A d \in S : \E i \in 1..n : c[i] = d
  BY <1>1, SortedIs
<1>3. L = [i \in 1..n |-> [database |-> c[i], role |-> m[c[i]].role, pass |-> m[c[i]].pass]]
  BY CredCount DEF Creds!serialize
<1>4. \A d \in S : m[d] \in Creds!Credential
  BY DEF CredentialSets
<1> HIDE DEF S, n, c, L
<1>5. L \in [1..n -> Creds!Line]
  <2>1. \A i \in 1..n : [database |-> c[i], role |-> m[c[i]].role, pass |-> m[c[i]].pass]
                            \in Creds!Line
    <3> TAKE i \in 1..n
    <3>1. c[i] \in Name /\ m[c[i]] \in Creds!Credential
      BY <1>1, <1>2, <1>4
    <3> QED BY <3>1 DEF Creds!Line, Creds!Credential
  <2> QED BY <1>3, <2>1
<1>6. L \in Seq(Creds!Line) /\ Len(L) = n
  BY <1>1, <1>5, SeqDef, LenProperties
<1>7. \A i \in 1..n : /\ L[i].database = c[i] /\ c[i] \in S
                      /\ m[c[i]] = [role |-> L[i].role, pass |-> L[i].pass]
  BY <1>2, <1>3, <1>4 DEF Creds!Credential
<1>8. \A i \in 1..n : /\ L[i].database \in S
                      /\ m[L[i].database] = [role |-> L[i].role, pass |-> L[i].pass]
  BY <1>7
<1>9. \A d \in S : \E i \in 1..n : L[i].database = d
  <2> TAKE d \in S
  <2>1. PICK i \in 1..n : c[i] = d
    BY <1>2
  <2>2. L[i].database = d
    BY <1>7, <2>1
  <2> QED BY <2>2
<1>10. \A i, j \in 1..n : L[i].database = L[j].database => i = j
  <2> TAKE i, j \in 1..n
  <2>1. L[i].database = c[i] /\ L[j].database = c[j]
    BY <1>7
  <2> QED BY <1>2, <2>1
<1> QED BY <1>1, <1>5, <1>6, <1>8, <1>9, <1>10 DEF S, n, L

\* What is written to the credential file is read back as it was: one line per database,
\* and the last line of a database is its only one (serialize, parse).
THEOREM RoundTrip ==
    ASSUME Creds!DedicatedAssumption, NEW m \in CredentialSets
    PROVE  Creds!parse(Creds!serialize(m)) = m
<1> DEFINE S == {d \in Name : m[d] # Creds!NoRecord}
<1> DEFINE n == Cardinality(S)
<1> DEFINE L == Creds!serialize(m)
<1> DEFINE At(d) == {i \in 1..Len(L) : L[i].database = d}
<1>1. /\ n \in Nat /\ Len(L) = n
      /\ \A i \in 1..n : /\ L[i].database \in S
                         /\ m[L[i].database] = [role |-> L[i].role, pass |-> L[i].pass]
      /\ \A d \in S : \E i \in 1..n : L[i].database = d
      /\ \A i, j \in 1..n : L[i].database = L[j].database => i = j
  BY SerializeIs
<1>2. Creds!parse(L) = [d \in Name |->
          IF At(d) = {} THEN Creds!NoRecord
          ELSE LET last == CHOOSE i \in At(d) : \A j \in At(d) : j <= i
               IN [role |-> L[last].role, pass |-> L[last].pass]]
  BY DEF Creds!parse
<1> HIDE DEF L, n
<1>3. ASSUME NEW d \in Name
      PROVE  Creds!parse(L)[d] = m[d]
  <2>1. CASE d \notin S
    <3>1. At(d) = {}
      <4> SUFFICES ASSUME NEW i \in 1..Len(L), L[i].database = d
                   PROVE  FALSE
        OBVIOUS
      <4> QED BY <1>1, <2>1
    <3> QED BY <1>2, <2>1, <3>1
  <2>2. CASE d \in S
    <3>1. PICK k \in 1..n : L[k].database = d
      BY <1>1, <2>2
    <3>2. At(d) = {k}
      <4>1. k \in 1..Len(L)
        BY <1>1
      <4>2. \A i \in 1..Len(L) : L[i].database = d => i = k
        BY <1>1, <3>1
      <4> QED BY <3>1, <4>1, <4>2
    <3>3. (CHOOSE i \in At(d) : \A j \in At(d) : j <= i) = k
      <4>1. k \in Nat
        BY <1>1
      <4> QED BY <3>2, <4>1
    <3>4. Creds!parse(L)[d] = [role |-> L[k].role, pass |-> L[k].pass]
      BY <1>2, <3>2, <3>3
    <3> QED BY <1>1, <3>1, <3>4
  <2> QED BY <2>1, <2>2
<1>4. Creds!parse(L) = [d \in Name |-> Creds!parse(L)[d]] /\ m = [d \in Name |-> m[d]]
  BY <1>2 DEF CredentialSets
<1> QED BY <1>3, <1>4 DEF L
\* The temporary file belongs to the request that writes it, and holds what that request
\* has written so far of the credential set as it stands.
Slot(h) ==
    /\ op[h].ph = "write" <=> op[h].fd # 0
    /\ op[h].ph # "idle" => op[h].database \in Name
    /\ op[h].ph = "checked" => op[h].kind = "create"
    /\ op[h].ph \in {"write", "rename"} => credTmp # 0
    /\ op[h].ph = "write" => op[h].fd = credTmp /\ data[credTmp] = << >>
    /\ op[h].ph = "rename" => data[credTmp] = op[h].snapshot
    /\ Creds!Writing(h) => /\ op[h].snapshot = Creds!serialize(mem)
                           /\ mem[op[h].database] = op[h].cred

OneWriter == \A g, h \in Handler : Creds!Writing(g) /\ Creds!Writing(h) => g = h

Creating(d) ==
    \E h \in Handler : Creds!Writing(h) /\ op[h].kind = "create" /\ op[h].database = d

\* A credential served is in the file, or about to be.
BackedUp ==
    \A d \in Name : mem[d] # Creds!NoRecord => Creds!Stored[d] = mem[d] \/ Creating(d)

\* No role logs in to two databases.
OneEach(m) ==
    \A d, e \in Name :
        m[d] # Creds!NoRecord /\ m[e] # Creds!NoRecord /\ m[d].role = m[e].role => d = e

Acked ==
    \A d \in Name :
        known[d].is # "unknown" => Creds!Stored[d] = known[d].cred /\ mem[d] = known[d].cred

\* A client named by a role was asked for the password of the database of that role.
Challenged ==
    /\ conn.ph \in {"started", "challenged", "proven"} => conn.database \in Name
    /\ conn.ph \in {"challenged", "proven"} /\ conn.seen # Creds!NoRecord
       /\ conn.seen.role = conn.user => conn.expected = conn.seen.pass

CredSafe ==
    /\ Creds!TypeOK /\ Creds!Stored \in CredentialSets
    /\ OneWriter /\ (\A h \in Handler : Slot(h)) /\ (cred # 0 => cred # credTmp)
    /\ BackedUp /\ OneEach(mem) /\ OneEach(Creds!Stored) /\ Acked /\ Challenged

\* Two writes that overlap leave what they leave: nothing is claimed from then on.
CredInv == overlapped \in BOOLEAN /\ (~overlapped => CredSafe)

Ledger == [ops : Nat, conns : Nat, faults : Nat, crashes : Nat]

LEMMA CredNothing == Creds!parse(<< >>) = [d \in Name |-> Creds!NoRecord]
<1>1. \A d : {i \in 1..Len(<< >>) : << >>[i].database = d} = {}
  BY EmptySeq
<1> QED BY <1>1 DEF Creds!parse

LEMMA NothingServed ==
    Creds!DedicatedAssumption =>
        /\ [d \in Name |-> Creds!NoRecord] \in CredentialSets
        /\ OneEach([d \in Name |-> Creds!NoRecord])
BY DEF CredentialSets, OneEach

LEMMA CredTypes ==
    Creds!DedicatedAssumption =>
        /\ Creds!NoOp \in Creds!Request /\ Creds!NoConn \in Creds!Connection
        /\ Creds!Unknown \in Creds!Answered
<1> SUFFICES ASSUME Creds!DedicatedAssumption
             PROVE  /\ Creds!NoOp \in Creds!Request /\ Creds!NoConn \in Creds!Connection
                    /\ Creds!Unknown \in Creds!Answered
  OBVIOUS
<1>1. << >> \in Seq(Creds!Line)
  BY EmptySeq
<1>2. Creds!NoOp \in Creds!Request
  BY <1>1 DEF Creds!NoOp, Creds!Request
<1>3. Creds!NoConn \in Creds!Connection
  BY DEF Creds!NoConn, Creds!Connection, Creds!Unset
<1>4. Creds!Unknown \in Creds!Answered
  BY DEF Creds!Unknown, Creds!Answered
<1> QED BY <1>2, <1>3, <1>4

LEMMA CredInit == Creds!DedicatedAssumption /\ Creds!Init => CredInv
<1> SUFFICES ASSUME Creds!DedicatedAssumption, Creds!Init
             PROVE  CredInv
  OBVIOUS
<1> USE DEF Creds!Init
<1>1. Creds!Stored = [d \in Name |-> Creds!NoRecord]
  BY CredNothing DEF Creds!Stored
<1>2. Creds!TypeOK
  <2>1. << >> \in Seq(Creds!Line)
    BY EmptySeq
  <2>2. left \in Ledger
    BY DEF Creds!DedicatedAssumption, Ledger
  <2> QED BY <2>1, <2>2, CredTypes, NothingServed DEF Creds!TypeOK, Ledger, CredentialSets
<1>3. OneWriter /\ \A h \in Handler : Slot(h)
  BY DEF OneWriter, Slot, Creds!Writing, Creds!NoOp
<1>4. OneEach(mem) /\ OneEach(Creds!Stored) /\ Creds!Stored \in CredentialSets
  BY <1>1, NothingServed
<1>5. BackedUp /\ Acked /\ Challenged
  BY <1>1 DEF BackedUp, Acked, Challenged, Creds!Unknown, Creds!NoConn
<1> QED BY <1>2, <1>3, <1>4, <1>5 DEF CredInv, CredSafe

LEMMA SpendType ==
    ASSUME left \in Ledger, NEW w \in {"ops", "conns", "faults", "crashes"}, Creds!Spend(w)
    PROVE  left' \in Ledger
<1>1. left[w] \in Nat /\ left[w] - 1 \in Nat
  BY DEF Creds!Spend, Ledger
<1> QED BY <1>1 DEF Creds!Spend, Ledger

\* Steps of a client.
LEMMA ConnKeeps ==
    ASSUME CredSafe, UNCHANGED <<mem, data, cred, credTmp, op, known, overlapped>>,
           registered' \subseteq Name, conn' \in Creds!Connection, left' \in Ledger, Challenged'
    PROVE  CredSafe'
<1>1. Creds!Stored' = Creds!Stored
  BY DEF Creds!Stored
<1>2. Creds!TypeOK'
  BY DEF CredSafe, Creds!TypeOK, Ledger
<1>3. OneWriter' /\ (\A h \in Handler : Slot(h)')
  BY DEF CredSafe, OneWriter, Slot, Creds!Writing
<1>4. BackedUp' /\ Acked'
  BY <1>1 DEF CredSafe, BackedUp, Acked, Creating, Creds!Writing
<1>5. OneEach(mem)' /\ OneEach(Creds!Stored)' /\ (Creds!Stored \in CredentialSets)'
  BY <1>1 DEF CredSafe, OneEach, CredentialSets
<1> QED BY <1>2, <1>3, <1>4, <1>5 DEF CredSafe

LEMMA ByRole ==
    ASSUME Creds!DedicatedAssumption, CredSafe, NEW r
    PROVE  /\ Creds!by_role(r) # Creds!Blank =>
                 /\ Creds!by_role(r) \in Name /\ mem[Creds!by_role(r)] # Creds!NoRecord
                 /\ mem[Creds!by_role(r)].role = r
           /\ \A d \in Name : mem[d] # Creds!NoRecord /\ mem[d].role = r => Creds!by_role(r) = d
<1>1. CASE \E d \in Name : mem[d] # Creds!NoRecord /\ mem[d].role = r
  <2>1. Creds!by_role(r) = CHOOSE d \in Name : mem[d] # Creds!NoRecord /\ mem[d].role = r
    BY <1>1 DEF Creds!by_role, Creds!is_dedicated
  <2>2. /\ Creds!by_role(r) \in Name /\ mem[Creds!by_role(r)] # Creds!NoRecord
        /\ mem[Creds!by_role(r)].role = r
    BY <1>1, <2>1
  <2>3. OneEach(mem)
    BY DEF CredSafe
  <2> QED BY <2>2, <2>3 DEF OneEach
<1>2. CASE ~\E d \in Name : mem[d] # Creds!NoRecord /\ mem[d].role = r
  <2>1. Creds!by_role(r) = Creds!Blank
    BY <1>2 DEF Creds!by_role, Creds!is_dedicated
  <2> QED BY <1>2, <2>1
<1> QED BY <1>1, <1>2

LEMMA ServedType ==
    ASSUME CredSafe, NEW d \in Name
    PROVE  /\ mem[d] \in Creds!Credential \cup {Creds!NoRecord}
           /\ mem[d] # Creds!NoRecord => mem[d].role \in Name /\ mem[d].pass \in Pass
BY DEF CredSafe, Creds!TypeOK, Creds!Credential

LEMMA ChallengeKeeps ==
    ASSUME Creds!DedicatedAssumption, CredSafe, NEW shared \in Shared, Creds!Challenge(shared)
    PROVE  CredSafe'
<1>1. conn \in Creds!Connection /\ left \in Ledger /\ registered \subseteq Name /\ conn.database \in Name
  BY DEF CredSafe, Creds!TypeOK, Creds!Challenge, Challenged, Ledger
<1> DEFINE e == Creds!challenge_password(conn.user, shared)
<1>2. e \in Pass \cup Shared \cup {Creds!Unset}
  BY ByRole, ServedType DEF Creds!challenge_password
<1>3. mem[conn.database] # Creds!NoRecord /\ mem[conn.database].role = conn.user
         => e = mem[conn.database].pass
  <2> SUFFICES ASSUME mem[conn.database] # Creds!NoRecord, mem[conn.database].role = conn.user
               PROVE  e = mem[conn.database].pass
    OBVIOUS
  <2>1. Creds!by_role(conn.user) = conn.database
    BY <1>1, ByRole
  <2>2. Creds!by_role(conn.user) # Creds!Blank
    BY <1>1, <2>1, CredBounds
  <2> QED BY <2>1, <2>2 DEF Creds!challenge_password
<1> HIDE DEF e
<1> DEFINE f == IF e = Creds!Unset THEN "proven" ELSE "challenged"
<1>0. f \in {"proven", "challenged"}
  OBVIOUS
<1>4. conn' = [conn EXCEPT !.ph = f, !.expected = e, !.seen = mem[conn.database]]
  BY DEF Creds!Challenge, e
<1> HIDE DEF f
<1>5. mem[conn.database] \in Creds!Credential \cup {Creds!NoRecord}
  BY <1>1, ServedType
<1>6. conn' \in Creds!Connection
  BY <1>0, <1>1, <1>2, <1>4, <1>5 DEF Creds!Connection
<1>7. Challenged'
  BY <1>0, <1>1, <1>3, <1>4 DEF Challenged, Creds!Connection
<1> QED BY <1>1, <1>6, <1>7, ConnKeeps DEF Creds!Challenge, Creds!disk

LEMMA ClientKeeps ==
    ASSUME Creds!DedicatedAssumption, CredSafe,
           \/ Creds!Accept \/ Creds!Open \/ Creds!Close
           \/ \E code \in {"ssl", "gss", "other"} : Creds!read_startup(code)
           \/ \E user, database \in Name \cup {Creds!Blank} :
                 Creds!parse_startup_message(user, database)
           \/ \E answer \in Pass \cup Shared : Creds!require_password(answer)
    PROVE  CredSafe'
<1>1. conn \in Creds!Connection /\ left \in Ledger /\ registered \subseteq Name /\ Challenged
  BY DEF CredSafe, Creds!TypeOK, Ledger
<1>2. Creds!NoConn \in Creds!Connection
  BY CredTypes
<1>3. CASE conn' = Creds!NoConn /\ UNCHANGED <<mem, data, cred, credTmp, op, known, overlapped>>
           /\ UNCHANGED <<registered, left>>
  <2>1. Challenged'
    BY <1>3 DEF Challenged, Creds!NoConn
  <2> QED BY <1>1, <1>2, <1>3, <2>1, ConnKeeps
<1>4. CASE Creds!Accept
  <2>1. left' \in Ledger
    BY <1>1, <1>4, SpendType DEF Creds!Accept
  <2>2. conn' \in Creds!Connection
    BY <1>2, <1>4 DEF Creds!Accept, Creds!Connection
  <2>3. Challenged'
    BY <1>4 DEF Creds!Accept, Challenged, Creds!NoConn
  <2> QED BY <1>1, <1>4, <2>1, <2>2, <2>3, ConnKeeps DEF Creds!Accept, Creds!disk
<1>5. CASE Creds!Close
  BY <1>3, <1>5 DEF Creds!Close, Creds!disk
<1>6. CASE Creds!Open
  <2>1. CASE Creds!authorize(conn.user, conn.database) /\ conn.database \in SchemaName
    <3>1. conn' = [conn EXCEPT !.ph = "open"] /\ registered' = registered \cup {conn.database}
      BY <1>6, <2>1 DEF Creds!Open
    <3>2. conn' \in Creds!Connection
      BY <1>1, <3>1 DEF Creds!Connection
    <3>3. Challenged'
      BY <1>1, <3>1 DEF Challenged, Creds!Connection
    <3>4. registered' \subseteq Name
      BY <1>1, <2>1, <3>1 DEF Creds!DedicatedAssumption
    <3> QED BY <1>1, <1>6, <3>2, <3>3, <3>4, ConnKeeps DEF Creds!Open, Creds!disk
  <2>2. CASE ~(Creds!authorize(conn.user, conn.database) /\ conn.database \in SchemaName)
    BY <1>3, <1>6, <2>2 DEF Creds!Open, Creds!disk
  <2> QED BY <2>1, <2>2
<1>7. ASSUME NEW code \in {"ssl", "gss", "other"}, Creds!read_startup(code)
      PROVE  CredSafe'
  <2>1. CASE code = "ssl" /\ Tls /\ ~conn.tls
    <3>1. conn' = [conn EXCEPT !.tls = TRUE] /\ conn.ph = "preamble"
      BY <1>7, <2>1 DEF Creds!read_startup
    <3>2. Tls = TRUE
      BY <2>1 DEF Creds!DedicatedAssumption
    <3>3. conn' \in Creds!Connection
      BY <1>1, <3>1, <3>2 DEF Creds!Connection
    <3>4. Challenged'
      BY <1>1, <3>1 DEF Challenged, Creds!Connection
    <3> QED BY <1>1, <1>7, <3>3, <3>4, ConnKeeps DEF Creds!read_startup, Creds!disk
  <2>2. CASE ~(code = "ssl" /\ Tls /\ ~conn.tls) /\ code \in {"ssl", "gss"}
    <3>1. conn' = conn
      BY <1>7, <2>2 DEF Creds!read_startup
    <3>2. Challenged'
      BY <1>1, <3>1 DEF Challenged
    <3> QED BY <1>1, <1>7, <3>1, <3>2, ConnKeeps DEF Creds!read_startup, Creds!disk
  <2>3. CASE ~(code = "ssl" /\ Tls /\ ~conn.tls) /\ code \notin {"ssl", "gss"}
    BY <1>3, <1>7, <2>3 DEF Creds!read_startup, Creds!disk
  <2> QED BY <2>1, <2>2, <2>3
<1>8. ASSUME NEW user \in Name \cup {Creds!Blank}, NEW database \in Name \cup {Creds!Blank},
             Creds!parse_startup_message(user, database)
      PROVE  CredSafe'
  <2> DEFINE d == IF database = Creds!Blank THEN user ELSE database
  <2>1. CASE d = Creds!Blank
    BY <1>3, <1>8, <2>1 DEF Creds!parse_startup_message, Creds!disk
  <2>2. CASE d # Creds!Blank
    <3>1. d \in Name
      BY <2>2
    <3>2. conn' = [conn EXCEPT !.ph = "started", !.user = user, !.database = d]
      BY <1>8, <2>2 DEF Creds!parse_startup_message
    <3> HIDE DEF d
    <3>3. conn' \in Creds!Connection
      BY <1>1, <3>1, <3>2 DEF Creds!Connection
    <3>4. Challenged'
      BY <1>1, <3>1, <3>2 DEF Challenged, Creds!Connection
    <3> QED BY <1>1, <1>8, <3>3, <3>4, ConnKeeps DEF Creds!parse_startup_message, Creds!disk
  <2> QED BY <2>1, <2>2
<1>9. ASSUME NEW answer \in Pass \cup Shared, Creds!require_password(answer)
      PROVE  CredSafe'
  <2>1. CASE answer = conn.expected
    <3>1. conn' = [conn EXCEPT !.ph = "proven"] /\ conn.ph = "challenged"
      BY <1>9, <2>1 DEF Creds!require_password
    <3>2. conn' \in Creds!Connection
      BY <1>1, <3>1 DEF Creds!Connection
    <3>3. Challenged'
      BY <1>1, <3>1 DEF Challenged, Creds!Connection
    <3> QED BY <1>1, <1>9, <3>2, <3>3, ConnKeeps DEF Creds!require_password, Creds!disk
  <2>2. CASE answer # conn.expected
    BY <1>3, <1>9, <2>2 DEF Creds!require_password, Creds!disk
  <2> QED BY <2>1, <2>2
<1> QED BY <1>4, <1>5, <1>6, <1>7, <1>8, <1>9

\* A handler that writes nothing is bound to nothing on disk or in memory.
LEMMA SlotRest ==
    ASSUME NEW h \in Handler, Slot(h), ~Creds!Writing(h), op'[h] = op[h]
    PROVE  Slot(h)' /\ ~Creds!Writing(h)'
BY DEF Slot, Creds!Writing

LEMMA SlotIdle ==
    ASSUME NEW h \in Handler, op'[h] = Creds!NoOp
    PROVE  Slot(h)' /\ ~Creds!Writing(h)'
BY DEF Slot, Creds!Writing, Creds!NoOp

LEMMA CredParts ==
    CredSafe => /\ op \in [Handler -> Creds!Request] /\ left \in Ledger /\ conn \in Creds!Connection
                /\ mem \in CredentialSets /\ known \in [Name -> Creds!Answered]
                /\ data \in [Creds!Inode -> Seq(Creds!Line)] /\ cred \in Creds!Inode \cup {0}
                /\ credTmp \in Creds!Inode \cup {0} /\ registered \subseteq Name
                /\ overlapped \in BOOLEAN
BY DEF CredSafe, Creds!TypeOK, Ledger, CredentialSets

\* Steps of one handler that leave the credential set and its file alone.
LEMMA HandlerKeeps ==
    ASSUME CredSafe, NEW h \in Handler, ~Creds!Writing(h), NEW o \in Creds!Request,
           op' = [op EXCEPT ![h] = o], Slot(h)', ~Creds!Writing(h)',
           UNCHANGED <<mem, data, cred, credTmp, known, conn, overlapped>>,
           registered' \subseteq Name, left' \in Ledger
    PROVE  CredSafe'
<1>1. Creds!Stored' = Creds!Stored
  BY DEF Creds!Stored
<1>2. op' \in [Handler -> Creds!Request] /\ op'[h] = o /\ \A g \in Handler \ {h} : op'[g] = op[g]
  BY CredParts
<1>3. Creds!TypeOK'
  BY <1>2 DEF CredSafe, Creds!TypeOK, Ledger
<1>4. \A g \in Handler : Creds!Writing(g)' => Creds!Writing(g) /\ g # h
  BY <1>2 DEF Creds!Writing
<1>5. OneWriter'
  BY <1>4 DEF CredSafe, OneWriter
<1>6. \A g \in Handler : Slot(g)'
  BY <1>2 DEF CredSafe, Slot, Creds!Writing
<1>7. BackedUp'
  <2>1. \A d \in Name : Creating(d) => Creating(d)'
    BY <1>2 DEF Creating, Creds!Writing
  <2> QED BY <1>1, <2>1 DEF CredSafe, BackedUp
<1>8. Acked' /\ Challenged'
  BY <1>1 DEF CredSafe, Acked, Challenged
<1>9. OneEach(mem)' /\ OneEach(Creds!Stored)' /\ (Creds!Stored \in CredentialSets)'
  BY <1>1 DEF CredSafe, OneEach, CredentialSets
<1> QED BY <1>3, <1>5, <1>6, <1>7, <1>8, <1>9 DEF CredSafe

LEMMA CreateKeeps ==
    ASSUME Creds!DedicatedAssumption, CredSafe, NEW h \in Handler, NEW d \in Name, NEW r \in Name,
           NEW p \in Pass, Creds!create_dedicated(h, d, r, p)
    PROVE  CredSafe'
<1> DEFINE o == [Creds!NoOp EXCEPT !.ph = "checked", !.database = d, !.cred = [role |-> r, pass |-> p]]
<1>1. o \in Creds!Request /\ o.ph = "checked" /\ o.fd = 0 /\ o.kind = "create" /\ o.database = d
  BY CredTypes DEF Creds!NoOp, Creds!Request, Creds!Credential
<1>2. op' = [op EXCEPT ![h] = o]
  BY DEF Creds!create_dedicated
<1> HIDE DEF o
<1>3. op'[h] = o
  BY <1>2, CredParts
<1>4. Slot(h)' /\ ~Creds!Writing(h)'
  BY <1>1, <1>3 DEF Slot, Creds!Writing
<1>5. ~Creds!Writing(h)
  BY DEF Creds!create_dedicated, Creds!Writing
<1>6. left' \in Ledger
  BY CredParts, SpendType DEF Creds!create_dedicated
<1> QED BY <1>1, <1>2, <1>4, <1>5, <1>6, CredParts, HandlerKeeps DEF Creds!create_dedicated, Creds!disk

LEMMA WarmKeeps ==
    ASSUME Creds!DedicatedAssumption, CredSafe, NEW h \in Handler, Creds!spawn_provision(h)
    PROVE  CredSafe'
<1>1. op' = [op EXCEPT ![h] = Creds!NoOp] /\ op'[h] = Creds!NoOp
  BY CredParts DEF Creds!spawn_provision
<1>2. Slot(h)' /\ ~Creds!Writing(h)'
  BY <1>1, SlotIdle
<1>3. ~Creds!Writing(h) /\ op[h].database \in Name
  BY DEF Creds!spawn_provision, Creds!Writing, CredSafe, Slot
<1>4. registered' \subseteq Name
  BY <1>3, CredParts DEF Creds!spawn_provision
<1> QED BY <1>1, <1>2, <1>3, <1>4, CredParts, CredTypes, HandlerKeeps
        DEF Creds!spawn_provision, Creds!disk

LEMMA RestartCredKeeps ==
    ASSUME Creds!DedicatedAssumption, CredSafe, NEW ok \in BOOLEAN, Creds!Restart(ok)
    PROVE  CredSafe'
<1> USE DEF Creds!Restart, Creds!disk
<1> DEFINE none == [d \in Name |-> Creds!NoRecord]
<1>1. Creds!Stored' = Creds!Stored /\ (mem' = Creds!Stored \/ mem' = none)
  BY CredNothing DEF Creds!Stored, Creds!load
<1>2. left' \in Ledger
  <2>1. left \in Ledger /\ left.crashes > 0 /\ (ok \/ left.faults > 0)
    BY CredParts
  <2>2. left.crashes - 1 \in Nat /\ (IF ok THEN left.faults ELSE left.faults - 1) \in Nat
    BY <2>1 DEF Ledger
  <2> QED BY <2>1, <2>2 DEF Ledger
<1>3. none \in CredentialSets /\ OneEach(none) /\ \A d \in Name : none[d] = Creds!NoRecord
  BY NothingServed
<1> HIDE DEF none
<1>4. known' \in [Name -> Creds!Answered]
  BY CredParts, CredTypes
<1>5. mem' \in CredentialSets
  BY <1>1, <1>3 DEF CredSafe
<1>6. Creds!TypeOK'
  BY <1>2, <1>4, <1>5, CredTypes DEF CredSafe, Creds!TypeOK, Ledger, CredentialSets
<1>7. \A h \in Handler : Slot(h)' /\ ~Creds!Writing(h)'
  BY SlotIdle
<1>8. BackedUp'
  BY <1>1, <1>3 DEF CredSafe, BackedUp
<1>9. Acked'
  <2>1. CASE ok
    BY <1>1, <2>1 DEF CredSafe, Acked, Creds!load
  <2>2. CASE ~ok
    BY <2>2 DEF Acked, Creds!Unknown
  <2> QED BY <2>1, <2>2
<1>10. Challenged'
  BY DEF Challenged, Creds!NoConn
<1>11. OneEach(mem)' /\ OneEach(Creds!Stored)' /\ (Creds!Stored \in CredentialSets)'
  BY <1>1, <1>3 DEF CredSafe, OneEach, CredentialSets
<1>12. OneWriter' /\ (cred # 0 => cred # credTmp)'
  BY <1>7 DEF OneWriter, CredSafe
<1> QED BY <1>6, <1>7, <1>8, <1>9, <1>10, <1>11, <1>12 DEF CredSafe

\* Steps after which the handler is the one writer: it changed the set, or moves its file on.
LEMMA WriterKeeps ==
    ASSUME Creds!DedicatedAssumption, CredSafe, NEW h \in Handler,
           NEW o \in Creds!Request, op' = [op EXCEPT ![h] = o], Slot(h)',
           \A g \in Handler \ {h} : ~Creds!Writing(g)
    PROVE  /\ op' \in [Handler -> Creds!Request]
           /\ \A g \in Handler \ {h} : ~Creds!Writing(g)'
           /\ OneWriter' /\ \A g \in Handler : Slot(g)'
<1>1. op' \in [Handler -> Creds!Request] /\ op'[h] = o /\ \A g \in Handler \ {h} : op'[g] = op[g]
  BY CredParts
<1>2. \A g \in Handler \ {h} : Slot(g)' /\ ~Creds!Writing(g)'
  <2> TAKE g \in Handler \ {h}
  <2>1. Slot(g) /\ ~Creds!Writing(g) /\ op'[g] = op[g]
    BY <1>1 DEF CredSafe
  <2> QED BY <2>1, SlotRest
<1> QED BY <1>1, <1>2 DEF OneWriter

LEMMA ChangeKeeps ==
    ASSUME Creds!DedicatedAssumption, CredSafe, NEW h \in Handler, ~Creds!Writing(h),
           NEW o \in Creds!Request, op' = [op EXCEPT ![h] = o],
           o.ph = "open", o.fd = 0, o.database \in Name,
           mem' = [mem EXCEPT ![o.database] = o.cred], o.snapshot = Creds!serialize(mem'),
           o.cred # Creds!NoRecord =>
               /\ o.kind = "create"
               /\ \A e \in Name : mem[e] # Creds!NoRecord => mem[e].role # o.cred.role,
           known' = [known EXCEPT ![o.database] = Creds!Unknown],
           Creds!Changed(h), ~overlapped', left' \in Ledger,
           UNCHANGED <<data, cred, credTmp, registered, conn>>
    PROVE  CredSafe'
<1>1. \A g \in Handler : ~Creds!Writing(g)
  BY DEF Creds!Changed
<1>2. op'[h] = o /\ mem' \in CredentialSets /\ mem'[o.database] = o.cred
      /\ \A e \in Name \ {o.database} : mem'[e] = mem[e]
  BY CredParts DEF CredentialSets, Creds!Request
<1>3. Slot(h)' /\ Creds!Writing(h)'
  BY <1>2 DEF Slot, Creds!Writing
<1>4. OneWriter' /\ (\A g \in Handler : Slot(g)') /\ op' \in [Handler -> Creds!Request]
  BY <1>1, <1>3, WriterKeeps
<1>5. Creds!Stored' = Creds!Stored
  BY DEF Creds!Stored
<1>6. known' \in [Name -> Creds!Answered] /\ known'[o.database] = Creds!Unknown
      /\ \A e \in Name \ {o.database} : known'[e] = known[e]
  BY CredParts, CredTypes
<1>7. Creds!TypeOK'
  <2>1. overlapped' \in BOOLEAN
    BY DEF Creds!Changed
  <2> QED BY <1>2, <1>4, <1>6, <2>1, CredParts DEF CredSafe, Creds!TypeOK, CredentialSets, Ledger
<1>8. BackedUp'
  <2> SUFFICES ASSUME NEW d \in Name, mem'[d] # Creds!NoRecord
               PROVE  Creds!Stored'[d] = mem'[d] \/ Creating(d)'
    BY DEF BackedUp
  <2>1. CASE d = o.database
    BY <1>2, <1>3, <2>1 DEF Creating
  <2>2. CASE d # o.database
    <3>1. mem'[d] = mem[d] /\ ~Creating(d)
      BY <1>1, <1>2, <2>2 DEF Creating
    <3> QED BY <1>5, <3>1 DEF CredSafe, BackedUp
  <2> QED BY <2>1, <2>2
<1>9. Acked'
  BY <1>2, <1>5, <1>6 DEF CredSafe, Acked, Creds!Unknown
<1>10. OneEach(mem)'
  <2>1. OneEach(mem)
    BY DEF CredSafe
  <2> SUFFICES ASSUME NEW d \in Name, NEW e \in Name, mem'[d] # Creds!NoRecord,
                      mem'[e] # Creds!NoRecord, mem'[d].role = mem'[e].role
               PROVE  d = e
    BY DEF OneEach
  <2> QED BY <1>2, <2>1 DEF OneEach
<1>11. OneEach(Creds!Stored)' /\ (Creds!Stored \in CredentialSets)' /\ Challenged'
       /\ (cred # 0 => cred # credTmp)'
  BY <1>5 DEF CredSafe, OneEach, CredentialSets, Challenged
<1> QED BY <1>4, <1>7, <1>8, <1>9, <1>10, <1>11 DEF CredSafe

LEMMA RemoveKeeps ==
    ASSUME Creds!DedicatedAssumption, CredSafe, NEW h \in Handler, NEW d \in Name,
           Creds!remove(h, d), ~overlapped'
    PROVE  CredSafe'
<1> DEFINE text == Creds!serialize(mem')
<1> DEFINE o == [Creds!NoOp EXCEPT !.ph = "open", !.kind = "remove", !.database = d,
                                   !.snapshot = text]
<1>1. mem' = [mem EXCEPT ![d] = Creds!NoRecord] /\ mem' \in CredentialSets
  BY CredParts DEF Creds!remove, CredentialSets
<1>2. text \in Seq(Creds!Line)
  BY <1>1, SerializeIs
<1>3. op' = [op EXCEPT ![h] = o]
  BY DEF Creds!remove
<1> HIDE DEF text
<1>4. o \in Creds!Request
  BY <1>2, CredTypes DEF Creds!Request
<1>5. o.ph = "open" /\ o.fd = 0 /\ o.database = d /\ o.cred = Creds!NoRecord /\ o.snapshot = text
  BY DEF Creds!NoOp
<1> HIDE DEF o
<1>6. ~Creds!Writing(h) /\ Creds!Changed(h) /\ known' = [known EXCEPT ![d] = Creds!Unknown]
  BY DEF Creds!remove, Creds!Writing
<1>7. left' \in Ledger
  BY CredParts, SpendType DEF Creds!remove
<1>8. UNCHANGED <<data, cred, credTmp, registered, conn>>
  BY DEF Creds!remove, Creds!disk
<1> QED BY <1>1, <1>3, <1>4, <1>5, <1>6, <1>7, <1>8, ChangeKeeps DEF text

LEMMA InsertKeeps ==
    ASSUME Creds!DedicatedAssumption, CredSafe, NEW h \in Handler, Creds!Insert(h), ~overlapped'
    PROVE  CredSafe'
<1> DEFINE d == op[h].database
<1>1. /\ op[h].ph = "checked" /\ d \in Name /\ op[h].kind = "create" /\ op[h].fd = 0
      /\ op[h] \in Creds!Request /\ ~Creds!Writing(h)
  BY CredParts DEF Creds!Insert, CredSafe, Slot, Creds!Writing
<1>2. CASE Creds!Refused(d, op[h].cred.role)
  <2>1. op' = [op EXCEPT ![h] = Creds!NoOp] /\ UNCHANGED <<mem, known, overlapped>>
    BY <1>2 DEF Creds!Insert
  <2>2. op'[h] = Creds!NoOp
    BY <2>1, CredParts
  <2>3. Slot(h)' /\ ~Creds!Writing(h)'
    BY <2>2, SlotIdle
  <2>4. UNCHANGED <<data, cred, credTmp, registered, conn, left>>
    BY DEF Creds!Insert, Creds!disk
  <2> QED BY <1>1, <2>1, <2>3, <2>4, CredParts, CredTypes, HandlerKeeps
<1>3. CASE ~Creds!Refused(d, op[h].cred.role)
  <2> DEFINE text == Creds!serialize(mem')
  <2> DEFINE o == [op[h] EXCEPT !.ph = "open", !.snapshot = text]
  <2>1. /\ mem' = [mem EXCEPT ![d] = op[h].cred] /\ op' = [op EXCEPT ![h] = o]
        /\ known' = [known EXCEPT ![d] = Creds!Unknown] /\ Creds!Changed(h)
    BY <1>3 DEF Creds!Insert
  <2>2. mem' \in CredentialSets
    BY <1>1, <2>1, CredParts DEF CredentialSets, Creds!Request
  <2>3. text \in Seq(Creds!Line)
    BY <2>2, SerializeIs
  <2> HIDE DEF text
  <2>4. o \in Creds!Request
    BY <1>1, <2>3 DEF Creds!Request
  <2>5. /\ o.ph = "open" /\ o.fd = 0 /\ o.database = d /\ o.cred = op[h].cred
        /\ o.snapshot = text /\ o.kind = "create"
    BY <1>1 DEF Creds!Request
  <2>6. \A e \in Name : mem[e] # Creds!NoRecord => mem[e].role # op[h].cred.role
    <3>1. Creds!by_role(op[h].cred.role) = Creds!Blank
      BY <1>3 DEF Creds!Refused
    <3> QED BY <3>1, ByRole, CredBounds
  <2> HIDE DEF o
  <2>7. UNCHANGED <<data, cred, credTmp, registered, conn, left>>
    BY DEF Creds!Insert, Creds!disk
  <2> QED BY <1>1, <2>1, <2>4, <2>5, <2>6, <2>7, CredParts, ChangeKeeps DEF text
<1> QED BY <1>2, <1>3

\* The one that writes.
LEMMA SoleWriter ==
    ASSUME CredSafe, NEW h \in Handler, Creds!Writing(h)
    PROVE  /\ \A g \in Handler \ {h} : ~Creds!Writing(g)
           /\ op[h] \in Creds!Request /\ Slot(h) /\ op[h].database \in Name
           /\ op[h].snapshot = Creds!serialize(mem) /\ mem[op[h].database] = op[h].cred
BY CredParts DEF CredSafe, OneWriter, Slot, Creds!Writing

\* Steps of the writer on its temporary file.
LEMMA TmpKeeps ==
    ASSUME Creds!DedicatedAssumption, CredSafe, NEW h \in Handler, Creds!Writing(h),
           NEW i \in Creds!Inode, i # cred, credTmp' = i,
           NEW text \in Seq(Creds!Line), data' = [data EXCEPT ![i] = text],
           NEW o \in Creds!Request, op' = [op EXCEPT ![h] = o], Slot(h)', Creds!Writing(h)',
           o.kind = op[h].kind, o.database = op[h].database,
           UNCHANGED <<mem, cred, known, registered, conn, overlapped, left>>
    PROVE  CredSafe'
<1>1. /\ OneWriter' /\ (\A g \in Handler : Slot(g)') /\ op' \in [Handler -> Creds!Request]
      /\ op'[h] = o
  BY SoleWriter, WriterKeeps, CredParts
<1>2. data' \in [Creds!Inode -> Seq(Creds!Line)] /\ \A j \in Creds!Inode \ {i} : data'[j] = data[j]
  BY CredParts
<1>3. Creds!Stored' = Creds!Stored
  BY <1>2, CredParts DEF Creds!Stored
<1>4. Creds!TypeOK'
  BY <1>1, <1>2 DEF CredSafe, Creds!TypeOK
<1>5. BackedUp'
  <2>1. \A d \in Name : Creating(d) => Creating(d)'
    BY <1>1, SoleWriter DEF Creating
  <2> QED BY <1>3, <2>1 DEF CredSafe, BackedUp
<1>6. Acked' /\ Challenged'
  BY <1>3 DEF CredSafe, Acked, Challenged
<1>7. OneEach(mem)' /\ OneEach(Creds!Stored)' /\ (Creds!Stored \in CredentialSets)'
  BY <1>3 DEF CredSafe, OneEach, CredentialSets
<1> QED BY <1>1, <1>4, <1>5, <1>6, <1>7 DEF CredSafe

LEMMA OpenKeeps ==
    ASSUME Creds!DedicatedAssumption, CredSafe, NEW h \in Handler, Creds!OpenTmp(h)
    PROVE  CredSafe'
<1> DEFINE i == IF credTmp # 0 THEN credTmp ELSE CHOOSE j \in Creds!Unused : TRUE
<1>1. op[h].ph = "open" /\ Creds!Writing(h)
  BY DEF Creds!OpenTmp, Creds!Writing
<1>2. i \in Creds!Inode /\ i # cred
  <2>1. CASE credTmp # 0
    BY <2>1, CredParts DEF CredSafe
  <2>2. CASE credTmp = 0
    <3>1. \A g \in Handler : op[g].fd = 0
      BY <1>1, SoleWriter DEF CredSafe, Slot, Creds!Writing
    <3>2. 1 \in Creds!Inode /\ 2 \in Creds!Inode /\ 0 \notin Creds!Inode
      <4>1. Cardinality(Handler) \in Nat
        BY CredFinite, FS_CardinalityType DEF Creds!DedicatedAssumption
      <4> QED BY <4>1, CredCount DEF Creds!Inode
    <3>3. 1 \in Creds!Unused \/ 2 \in Creds!Unused
      BY <2>2, <3>1, <3>2 DEF Creds!Unused
    <3>4. i \in Creds!Unused
      BY <2>2, <3>3
    <3> QED BY <3>4 DEF Creds!Unused
  <2> QED BY <2>1, <2>2
<1> DEFINE o == [op[h] EXCEPT !.ph = "write", !.fd = i]
<1>3. credTmp' = i /\ data' = [data EXCEPT ![i] = << >>] /\ op' = [op EXCEPT ![h] = o]
  BY DEF Creds!OpenTmp
<1> HIDE DEF i
<1>4. op[h] \in Creds!Request
  BY CredParts
<1>5. o \in Creds!Request
  BY <1>2, <1>4 DEF Creds!Request
<1>6. /\ o.ph = "write" /\ o.fd = i /\ o.kind = op[h].kind /\ o.database = op[h].database
      /\ o.snapshot = op[h].snapshot /\ o.cred = op[h].cred
  BY <1>4 DEF Creds!Request
<1> HIDE DEF o
<1>7. op'[h] = o /\ data'[i] = << >> /\ i # 0 /\ UNCHANGED mem
  <2>1. 0 \notin Creds!Inode
    BY DEF Creds!Inode
  <2> QED BY <1>2, <1>3, <2>1, CredParts DEF Creds!OpenTmp
<1>8. Slot(h)' /\ Creds!Writing(h)'
  BY <1>1, <1>3, <1>6, <1>7, SoleWriter DEF Slot, Creds!Writing
<1>9. << >> \in Seq(Creds!Line)
  BY EmptySeq
<1> QED BY <1>1, <1>2, <1>3, <1>5, <1>6, <1>8, <1>9, TmpKeeps DEF Creds!OpenTmp

LEMMA WriteKeeps ==
    ASSUME Creds!DedicatedAssumption, CredSafe, NEW h \in Handler, Creds!WriteTmp(h)
    PROVE  CredSafe'
<1> DEFINE text == op[h].snapshot
<1>1. /\ op[h].ph = "write" /\ Creds!Writing(h) /\ op[h] \in Creds!Request
      /\ op[h].fd = credTmp /\ credTmp # 0 /\ data[credTmp] = << >> /\ text \in Seq(Creds!Line)
      /\ text = Creds!serialize(mem) /\ mem[op[h].database] = op[h].cred /\ op[h].database \in Name
  <2>1. op[h].ph = "write" /\ Creds!Writing(h)
    BY DEF Creds!WriteTmp, Creds!Writing
  <2> QED BY <2>1, SoleWriter DEF Slot, Creds!Request
<1>2. Creds!Overlay(text, << >>) = text
  <2>1. SubSeq(<< >>, Len(text) + 1, Len(<< >>)) = << >>
    BY <1>1, LenProperties, EmptySeq
  <2> QED BY <1>1, <2>1, ConcatEmptySeq DEF Creds!Overlay
<1> DEFINE o == [op[h] EXCEPT !.ph = "rename", !.fd = 0]
<1>3. data' = [data EXCEPT ![credTmp] = text] /\ op' = [op EXCEPT ![h] = o] /\ credTmp' = credTmp
  BY <1>1, <1>2, CredParts DEF Creds!WriteTmp
<1>4. o \in Creds!Request
  BY <1>1 DEF Creds!Request
<1>5. /\ o.ph = "rename" /\ o.fd = 0 /\ o.kind = op[h].kind /\ o.database = op[h].database
      /\ o.snapshot = text /\ o.cred = op[h].cred
  BY <1>1 DEF Creds!Request
<1> HIDE DEF o
<1>6. credTmp \in Creds!Inode /\ credTmp # cred
  BY <1>1, CredParts DEF CredSafe
<1>7. op'[h] = o /\ data'[credTmp] = text /\ UNCHANGED mem
  BY <1>3, <1>6, CredParts DEF Creds!WriteTmp
<1> HIDE DEF text
<1>8. Slot(h)' /\ Creds!Writing(h)'
  BY <1>1, <1>3, <1>5, <1>7 DEF Slot, Creds!Writing
<1> QED BY <1>1, <1>3, <1>4, <1>5, <1>6, <1>8, TmpKeeps DEF Creds!WriteTmp

\* The file now holds the credential set.
LEMMA RenameKeeps ==
    ASSUME Creds!DedicatedAssumption, CredSafe, NEW h \in Handler, Creds!RenameTmp(h)
    PROVE  CredSafe'
<1> DEFINE d == op[h].database
<1>1. op[h].ph = "rename" /\ Creds!Writing(h) /\ credTmp # 0 /\ cred' = credTmp /\ credTmp' = 0
  BY DEF Creds!RenameTmp, Creds!Writing
<1>2. UNCHANGED <<mem, data, registered, conn, overlapped, left>>
  BY DEF Creds!RenameTmp
<1>3. op[h] \in Creds!Request /\ d \in Name /\ data[credTmp] = Creds!serialize(mem) /\ op[h].fd = 0
  BY <1>1, SoleWriter DEF Slot
<1>4. Creds!Stored' = mem
  <2>1. Creds!Stored' = Creds!parse(data[credTmp])
    BY <1>1, <1>2 DEF Creds!Stored
  <2> QED BY <1>3, <2>1, CredParts, RoundTrip
<1>5. PICK o \in Creds!Request :
          op' = [op EXCEPT ![h] = o] /\ o.ph \in {"idle", "warm"} /\ o.fd = 0
          /\ (o.ph = "warm" => o.database \in Name)
  <2>1. CASE op[h].kind = "create"
    <3> DEFINE w == [op[h] EXCEPT !.ph = "warm"]
    <3>1. op' = [op EXCEPT ![h] = w]
      BY <2>1 DEF Creds!RenameTmp
    <3>2. w \in Creds!Request /\ w.ph = "warm" /\ w.fd = 0 /\ w.database = d
      BY <1>3 DEF Creds!Request
    <3> QED BY <1>3, <3>1, <3>2
  <2>2. CASE op[h].kind # "create"
    BY <2>2, CredTypes DEF Creds!RenameTmp, Creds!Answer, Creds!NoOp
  <2> QED BY <2>1, <2>2
<1>6. PICK a \in Creds!Answered :
          known' = [known EXCEPT ![d] = a] /\ (a.is # "unknown" => a.cred = mem[d])
  <2> DEFINE Latest(what, c) == IF mem[d] = c THEN [is |-> what, cred |-> c] ELSE Creds!Unknown
  <2>1. \A what \in {"created", "gone"}, c \in Creds!Credential \cup {Creds!NoRecord} :
            /\ Latest(what, c) \in Creds!Answered
            /\ Latest(what, c).is # "unknown" => Latest(what, c).cred = mem[d]
    BY CredTypes DEF Creds!Answered, Creds!Unknown
  <2>2. op[h].cred \in Creds!Credential \cup {Creds!NoRecord}
    BY <1>3 DEF Creds!Request
  <2>3. CASE op[h].kind = "create"
    <3>1. known' = [known EXCEPT ![d] = Latest("created", op[h].cred)]
      BY <2>3 DEF Creds!RenameTmp
    <3> HIDE DEF Latest
    <3> QED BY <2>1, <2>2, <3>1
  <2>4. CASE op[h].kind # "create"
    <3>1. known' = [known EXCEPT ![d] = Latest("gone", Creds!NoRecord)]
      BY <2>4 DEF Creds!RenameTmp, Creds!Answer
    <3> HIDE DEF Latest
    <3> QED BY <2>1, <3>1
  <2> QED BY <2>3, <2>4
<1>7. op'[h] = o
  BY <1>5, CredParts
<1>8. Slot(h)' /\ ~Creds!Writing(h)'
  BY <1>5, <1>7 DEF Slot, Creds!Writing
<1>9. OneWriter' /\ (\A g \in Handler : Slot(g)') /\ op' \in [Handler -> Creds!Request]
  BY <1>1, <1>5, <1>8, SoleWriter, WriterKeeps
<1>10. known' \in [Name -> Creds!Answered] /\ known'[d] = a /\ \A e \in Name \ {d} : known'[e] = known[e]
  BY <1>3, <1>6, CredParts
<1>11. Creds!TypeOK'
  BY <1>1, <1>2, <1>9, <1>10 DEF CredSafe, Creds!TypeOK
<1>12. Acked'
  BY <1>2, <1>3, <1>4, <1>6, <1>10 DEF CredSafe, Acked
<1>13. BackedUp' /\ Challenged'
  BY <1>2, <1>4 DEF CredSafe, BackedUp, Challenged
<1>14. OneEach(mem)' /\ OneEach(Creds!Stored)' /\ (Creds!Stored \in CredentialSets)'
  BY <1>2, <1>4, CredParts DEF CredSafe, OneEach, CredentialSets
<1> QED BY <1>1, <1>9, <1>11, <1>12, <1>13, <1>14 DEF CredSafe

\* A create that failed is taken back before anyone relied on it.
LEMMA FailsKeeps ==
    ASSUME Creds!DedicatedAssumption, CredSafe, NEW h \in Handler, Creds!WriteFails(h)
    PROVE  CredSafe'
<1> DEFINE d == op[h].database
<1>1. Creds!Writing(h) /\ op[h] \in Creds!Request /\ d \in Name /\ op' = [op EXCEPT ![h] = Creds!NoOp]
      /\ known' = [known EXCEPT ![d] = Creds!Unknown]
      /\ mem' = IF op[h].kind = "create" THEN [mem EXCEPT ![d] = Creds!NoRecord] ELSE mem
  BY SoleWriter DEF Creds!WriteFails, Creds!Rollback, Creds!Answer
<1>2. UNCHANGED <<data, cred, credTmp, registered, conn, overlapped>> /\ left' \in Ledger
  BY CredParts, SpendType DEF Creds!WriteFails, Creds!disk
<1>3. op'[h] = Creds!NoOp
  BY <1>1, CredParts
<1>4. Slot(h)' /\ ~Creds!Writing(h)'
  BY <1>3, SlotIdle
<1>5. OneWriter' /\ (\A g \in Handler : Slot(g)') /\ op' \in [Handler -> Creds!Request]
  BY <1>1, <1>4, SoleWriter, WriterKeeps, CredTypes
<1>6. mem' \in CredentialSets /\ \A e \in Name : mem'[e] # Creds!NoRecord =>
          mem'[e] = mem[e] /\ (op[h].kind = "create" => e # d)
  BY <1>1, CredParts DEF CredentialSets
<1>7. Creds!Stored' = Creds!Stored
  BY <1>2 DEF Creds!Stored
<1>8. known' \in [Name -> Creds!Answered] /\ known'[d] = Creds!Unknown
      /\ \A e \in Name \ {d} : known'[e] = known[e] /\ mem'[e] = mem[e]
  BY <1>1, CredParts, CredTypes DEF CredentialSets
<1>9. Creds!TypeOK'
  BY <1>2, <1>5, <1>6, <1>8 DEF CredSafe, Creds!TypeOK, CredentialSets, Ledger
<1>10. BackedUp'
  <2> SUFFICES ASSUME NEW e \in Name, mem'[e] # Creds!NoRecord
               PROVE  Creds!Stored'[e] = mem'[e]
    BY DEF BackedUp
  <2>1. mem'[e] = mem[e] /\ ~Creating(e)
    BY <1>1, <1>6, SoleWriter DEF Creating
  <2> QED BY <1>7, <2>1 DEF CredSafe, BackedUp
<1>11. Acked'
  BY <1>7, <1>8 DEF CredSafe, Acked, Creds!Unknown
<1>12. OneEach(mem)'
  <2>1. OneEach(mem)
    BY DEF CredSafe
  <2> QED BY <1>6, <2>1 DEF OneEach
<1>13. OneEach(Creds!Stored)' /\ (Creds!Stored \in CredentialSets)' /\ Challenged'
       /\ (cred # 0 => cred # credTmp)'
  BY <1>2, <1>7 DEF CredSafe, OneEach, CredentialSets, Challenged
<1> QED BY <1>5, <1>9, <1>10, <1>11, <1>12, <1>13 DEF CredSafe

\* As long as no two writes overlap, no writer finds its temporary file gone.
LEMMA MissingNever ==
    ASSUME CredSafe, NEW h \in Handler, Creds!RenameMissing(h)
    PROVE  FALSE
BY DEF Creds!RenameMissing, CredSafe, Slot

LEMMA CredNext ==
    Creds!DedicatedAssumption /\ CredInv /\ [Creds!Next]_Creds!vars => CredInv'
<1> SUFFICES ASSUME Creds!DedicatedAssumption, CredInv, [Creds!Next]_Creds!vars
             PROVE  CredInv'
  OBVIOUS
<1>1. overlapped' \in BOOLEAN /\ (~overlapped' => ~overlapped)
  BY DEF CredInv, Creds!Next, Creds!vars, Creds!create_dedicated, Creds!remove, Creds!Insert,
         Creds!Changed, Creds!OpenTmp, Creds!WriteTmp, Creds!RenameTmp, Creds!RenameMissing,
         Creds!WriteFails, Creds!spawn_provision, Creds!Restart, Creds!Accept, Creds!Challenge,
         Creds!Open, Creds!Close, Creds!read_startup, Creds!parse_startup_message,
         Creds!require_password
<1> SUFFICES ASSUME ~overlapped'
             PROVE  CredSafe'
  BY <1>1 DEF CredInv
<1>2. CredSafe
  BY <1>1 DEF CredInv
<1>3. ASSUME NEW h \in Handler,
             \/ \E d, r \in Name, p \in Pass : Creds!create_dedicated(h, d, r, p)
             \/ \E d \in Name : Creds!remove(h, d)
             \/ Creds!Insert(h) \/ Creds!OpenTmp(h) \/ Creds!WriteTmp(h) \/ Creds!RenameTmp(h)
             \/ Creds!RenameMissing(h) \/ Creds!WriteFails(h) \/ Creds!spawn_provision(h)
      PROVE  CredSafe'
  BY <1>2, <1>3, CreateKeeps, RemoveKeeps, InsertKeeps, OpenKeeps, WriteKeeps, RenameKeeps,
     MissingNever, FailsKeeps, WarmKeeps
<1>4. CASE \E ok \in BOOLEAN : Creds!Restart(ok)
  BY <1>2, <1>4, RestartCredKeeps
<1>5. CASE \E shared \in Shared : Creds!Challenge(shared)
  BY <1>2, <1>5, ChallengeKeeps
<1>6. CASE \/ Creds!Accept \/ Creds!Open \/ Creds!Close
           \/ \E code \in {"ssl", "gss", "other"} : Creds!read_startup(code)
           \/ \E user, database \in Name \cup {Creds!Blank} :
                 Creds!parse_startup_message(user, database)
           \/ \E answer \in Pass \cup Shared : Creds!require_password(answer)
  BY <1>2, <1>6, ClientKeeps
<1>7. CASE UNCHANGED Creds!vars
  <2>1. UNCHANGED <<mem, data, cred, credTmp, op, registered, conn, known, overlapped, left>>
    BY <1>7 DEF Creds!vars, Creds!disk
  <2>2. Challenged'
    BY <1>2, <2>1 DEF CredSafe, Challenged
  <2> QED BY <1>2, <2>1, <2>2, ConnKeeps, CredParts
<1> QED BY <1>3, <1>4, <1>5, <1>6, <1>7 DEF Creds!Next

LEMMA CredInvariant == Spec => []CredInv
<1>1. Creds!Init => CredInv
  BY CredsFacts, CredInit
<1>2. CredInv /\ [Creds!Next]_Creds!vars => CredInv'
  BY CredsFacts, CredNext
<1> QED BY <1>1, <1>2, CredsBehave, PTL DEF Creds!Spec

\* What a caller was told survives faults and restarts, as long as no two writes
\* overlapped (Credentials::create and remove, write_atomic, load).
THEOREM AckedIsDurable == Spec => []AckedDurable
<1>1. CredInv => Creds!AckedDurable
  BY DEF CredInv, CredSafe, Acked, Creds!AckedDurable
<1> QED BY <1>1, CredInvariant, PTL DEF AckedDurable

\* Once no request is under way, every credential served is one a restart would find
\* again (the rollback in Credentials::create).
THEOREM NoneIsPhantom == Spec => []NoPhantom
<1>1. CredInv => Creds!NoPhantom
  BY DEF CredInv, CredSafe, BackedUp, Creating, Creds!NoPhantom, Creds!is_dedicated
<1> QED BY <1>1, CredInvariant, PTL DEF NoPhantom

\* As long as no two writes overlapped, whoever opens a dedicated database whose
\* credential did not change since the challenge has proved its password
\* (challenge_password, require_password, authorize).
THEOREM OwnerIsProved == Spec => ProvedOwner
<1> DEFINE Opens ==
        /\ conn.ph = "proven" /\ conn'.ph = "open" /\ ~overlapped
        /\ Creds!is_dedicated(conn.database) /\ conn.seen = mem[conn.database]
<1>1. ASSUME CredInv, [Creds!Next]_Creds!vars
      PROVE  [Opens => conn.expected = mem[conn.database].pass]_Creds!vars
  <2> SUFFICES ASSUME Creds!Next, Opens
               PROVE  conn.expected = mem[conn.database].pass
    BY <1>1
  <2>1. CredSafe /\ conn \in Creds!Connection
    BY <1>1, CredParts DEF CredInv
  <2>2. Creds!Open
    <3>1. conn' # conn /\ conn' # Creds!NoConn /\ conn.ph = "proven" /\ conn'.ph = "open"
      BY DEF Creds!NoConn
    <3>2. ~\E h \in Handler :
             \/ \E d, r \in Name, p \in Pass : Creds!create_dedicated(h, d, r, p)
             \/ \E d \in Name : Creds!remove(h, d)
             \/ Creds!Insert(h) \/ Creds!OpenTmp(h) \/ Creds!WriteTmp(h) \/ Creds!RenameTmp(h)
             \/ Creds!RenameMissing(h) \/ Creds!WriteFails(h) \/ Creds!spawn_provision(h)
      BY <3>1 DEF Creds!create_dedicated, Creds!remove, Creds!Insert, Creds!OpenTmp,
             Creds!WriteTmp, Creds!RenameTmp, Creds!RenameMissing, Creds!WriteFails,
             Creds!spawn_provision
    <3>3. /\ \A ok : ~Creds!Restart(ok)
          /\ \A shared : ~Creds!Challenge(shared)
          /\ ~Creds!Accept /\ ~Creds!Close
      BY <3>1 DEF Creds!Restart, Creds!Accept, Creds!Challenge, Creds!Close
    <3>4. /\ \A code : ~Creds!read_startup(code)
          /\ \A user, database : ~Creds!parse_startup_message(user, database)
          /\ \A answer : ~Creds!require_password(answer)
      BY <3>1 DEF Creds!read_startup, Creds!parse_startup_message, Creds!require_password
    <3> QED BY <3>2, <3>3, <3>4 DEF Creds!Next
  <2>3. Creds!authorize(conn.user, conn.database)
    BY <2>2 DEF Creds!Open, Creds!NoConn
  <2>4. mem[conn.database] # Creds!NoRecord /\ Creds!by_role(conn.user) = conn.database
        /\ Creds!by_role(conn.user) # Creds!Blank
    BY <2>3 DEF Creds!authorize, Creds!is_dedicated
  <2>5. mem[conn.database].role = conn.user
    BY <2>1, <2>4, CredsFacts, ByRole
  <2> QED BY <2>1, <2>4, <2>5 DEF CredSafe, Challenged
<1> QED BY <1>1, CredInvariant, CredsBehave, PTL
        DEF Creds!Spec, ProvedOwner, Creds!ProvedOwner

----------------------------------------------------------------------------
(* Alert rules.                                                            *)

LEMMA RulesFinite == ASSUME NEW S PROVE Rules!IsFiniteSet(S) <=> IsFiniteSet(S)
BY DEF Rules!IsFiniteSet, IsFiniteSet

LEMMA RulesCount == ASSUME NEW S PROVE Rules!Cardinality(S) = Cardinality(S)
BY DEF Rules!Cardinality, Cardinality

LEMMA RulesSorted ==
    ASSUME NEW S \in SUBSET Nat, IsFiniteSet(S)
    PROVE  /\ Rules!Sorted(S) \in [1..Cardinality(S) -> S]
           /\ \A i, j \in 1..Cardinality(S) : Rules!Sorted(S)[i] = Rules!Sorted(S)[j] => i = j
           /\ \A d \in S : \E i \in 1..Cardinality(S) : Rules!Sorted(S)[i] = d
<1> DEFINE n == Cardinality(S)
<1> DEFINE c == Rules!Sorted(S)
<1>1. c = CHOOSE s \in [1..n -> S] : Increasing(s, n)
  BY RulesCount DEF Rules!Sorted, Increasing
<1>2. \E s \in [1..n -> S] : Increasing(s, n)
  BY SortExists
<1> HIDE DEF c
<1>3. c \in [1..n -> S] /\ Increasing(c, n)
  BY <1>1, <1>2
<1> QED BY <1>3, SortOnto DEF c

RuleSets == [Id -> Rules!Rule \cup {Rules!NoRule}]

\* What is written never says that a rule fires.
Silent(rs) == \A i \in Id : rs[i].firing = FALSE

Queued(i) == \E n \in DOMAIN tick.queue : tick.queue[n].rule = i

\* A rule compared since it was last changed fires as its last reading says.
FiresAsSeen ==
    \A i \in Id :
        rules[i] # Rules!NoRule /\ ~rules[i].paused /\ i \notin unread
            => (rules[i].firing <=> seen[rules[i].metric] >= rules[i].threshold)

\* A pending webhook says whether its rule fires; without one, the last one did.
HeardAsFires ==
    \A i \in Id \ astray :
        /\ \A n \in DOMAIN tick.queue :
              tick.queue[n].rule = i => (tick.queue[n].state = "triggered" <=> rules[i].firing)
        /\ ~Queued(i) => (told[i] = "triggered" <=> rules[i].firing)

OneEdgeEach ==
    \A n, k \in DOMAIN tick.queue : tick.queue[n].rule = tick.queue[k].rule => n = k

AlertsInv ==
    /\ Rules!TypeOK
    /\ (tick.ph # "deliver" => tick.queue = << >>)
    /\ (\A i \in Id : rules[i].paused => rules[i].firing = FALSE)
    /\ Silent(filed) /\ (\A h \in Editor : request[h] # Rules!NoWrite => Silent(request[h]))
    /\ FiresAsSeen /\ HeardAsFires /\ OneEdgeEach

LEMMA RulesTypes ==
    Rules!AlertsAssumption =>
        /\ IsFiniteSet(Id) /\ Id \in SUBSET Nat /\ MaxLevel \in Nat /\ MaxEdits \in Nat
        /\ MaxLost \in Nat /\ MaxRestarts \in Nat /\ Rules!Asleep \in Rules!Tick
        /\ Rules!NoRule \in [metric : Rules!Metric, threshold : Rules!Level \cup {Rules!Unread},
                             paused : BOOLEAN, firing : BOOLEAN]
        /\ Rules!NoRule.paused = TRUE /\ Rules!NoRule.firing = FALSE
        /\ Rules!NoRule \notin Rules!Rule
<1> SUFFICES ASSUME Rules!AlertsAssumption
             PROVE  /\ IsFiniteSet(Id) /\ Id \in SUBSET Nat /\ MaxLevel \in Nat /\ MaxEdits \in Nat
                    /\ MaxLost \in Nat /\ MaxRestarts \in Nat /\ Rules!Asleep \in Rules!Tick
                    /\ Rules!NoRule \in [metric : Rules!Metric,
                                         threshold : Rules!Level \cup {Rules!Unread},
                                         paused : BOOLEAN, firing : BOOLEAN]
                    /\ Rules!NoRule.paused = TRUE /\ Rules!NoRule.firing = FALSE
                    /\ Rules!NoRule \notin Rules!Rule
  OBVIOUS
<1>1. /\ IsFiniteSet(Id) /\ Id \in SUBSET Nat /\ MaxLevel \in Nat /\ MaxEdits \in Nat
      /\ MaxLost \in Nat /\ MaxRestarts \in Nat
  BY RulesFinite DEF Rules!AlertsAssumption
<1>2. << >> \in Seq(Rules!Webhook)
  BY EmptySeq
<1>3. Rules!Asleep \in Rules!Tick
  BY <1>2 DEF Rules!Asleep, Rules!Tick
<1>4. /\ Rules!NoRule \in [metric : Rules!Metric, threshold : Rules!Level \cup {Rules!Unread},
                           paused : BOOLEAN, firing : BOOLEAN]
      /\ Rules!NoRule.paused = TRUE /\ Rules!NoRule.firing = FALSE
  BY DEF Rules!NoRule, Rules!Metric
<1>5. Rules!NoRule \notin Rules!Rule
  BY <1>1 DEF Rules!NoRule, Rules!Rule, Rules!Level, Rules!Unread
<1> QED BY <1>1, <1>3, <1>4, <1>5

LEMMA AlertsParts ==
    ASSUME AlertsInv
    PROVE  /\ rules \in RuleSets /\ filed \in RuleSets
           /\ request \in [Editor -> RuleSets \cup {Rules!NoWrite}]
           /\ tick \in Rules!Tick /\ fails \in Rules!Level
           /\ seen \in [Rules!Metric -> Rules!Level \cup {Rules!Unread}]
           /\ unread \subseteq Id /\ astray \subseteq Id /\ fresh \subseteq Id
           /\ told \in [Id -> {"nothing", "triggered", "resolved"}]
           /\ edits \in 0..MaxEdits /\ losses \in 0..MaxLost /\ reboots \in 0..MaxRestarts
BY DEF AlertsInv, Rules!TypeOK, RuleSets

LEMMA AlertsInit == Rules!AlertsAssumption /\ Rules!Init => AlertsInv
<1> SUFFICES ASSUME Rules!AlertsAssumption, Rules!Init
             PROVE  AlertsInv
  OBVIOUS
<1> USE DEF Rules!Init
<1>1. Rules!TypeOK
  BY RulesTypes DEF Rules!TypeOK, Rules!Level
<1>2. tick.queue = << >> /\ DOMAIN tick.queue = {}
  BY EmptySeq DEF Rules!Asleep
<1>3. \A i \in Id : rules[i] = Rules!NoRule /\ filed[i] = Rules!NoRule
  OBVIOUS
<1>4. FiresAsSeen
  BY <1>3 DEF FiresAsSeen
<1>5. HeardAsFires /\ OneEdgeEach
  BY <1>2, <1>3, RulesTypes DEF HeardAsFires, OneEdgeEach
<1>6. Silent(filed) /\ \A h \in Editor : request[h] = Rules!NoWrite
  BY <1>3, RulesTypes DEF Silent
<1> QED BY <1>1, <1>2, <1>3, <1>4, <1>5, <1>6, RulesTypes DEF AlertsInv

\* A threshold that is rounded stays one.
LEMMA RoundedLevel ==
    ASSUME Rules!AlertsAssumption, NEW t \in Rules!Level
    PROVE  Rules!num(t) \in Rules!Level
<1>1. MaxLevel \in Nat /\ MaxLevel % 3 = 0 /\ t \in 0..MaxLevel
  BY DEF Rules!AlertsAssumption, Rules!Level
<1>2. (t + 1) \div 3 \in Nat /\ ((t + 1) \div 3) * 3 <= MaxLevel
  BY <1>1
<1> QED BY <1>1, <1>2 DEF Rules!num, Rules!Level

LEMMA SilentCopy ==
    ASSUME Rules!AlertsAssumption, NEW rs \in RuleSets
    PROVE  Rules!serialize(rs) \in RuleSets /\ Silent(Rules!serialize(rs))
<1> DEFINE Written(r) == IF r = Rules!NoRule THEN Rules!NoRule
                         ELSE [r EXCEPT !.threshold = Rules!num(r.threshold), !.firing = FALSE]
<1>1. \A i \in Id : /\ Written(rs[i]) \in Rules!Rule \cup {Rules!NoRule}
                    /\ Written(rs[i]).firing = FALSE
  <2> TAKE i \in Id
  <2>1. CASE rs[i] # Rules!NoRule
    <3>1. rs[i] \in Rules!Rule /\ rs[i].threshold \in Rules!Level
      BY <2>1 DEF RuleSets, Rules!Rule
    <3>2. Rules!num(rs[i].threshold) \in Rules!Level
      BY <3>1, RoundedLevel
    <3> QED BY <2>1, <3>1, <3>2 DEF Rules!Rule
  <2>2. CASE rs[i] = Rules!NoRule
    BY <2>2, RulesTypes
  <2> QED BY <2>1, <2>2
<1>2. Rules!serialize(rs) = [i \in Id |-> Written(rs[i])]
  BY DEF Rules!serialize
<1> HIDE DEF Written
<1> QED BY <1>1, <1>2 DEF RuleSets, Silent

\* A change of one rule: what it leaves silent is compared anew, and an endpoint that
\* knew better counts as astray.
LEMMA EditKeeps ==
    ASSUME Rules!AlertsAssumption, AlertsInv, NEW h \in Editor, NEW i \in Id,
           NEW r \in Rules!Rule \cup {Rules!NoRule}, NEW forgets \in SUBSET {i},
           Rules!Edit(h, [rules EXCEPT ![i] = r], forgets), fresh' \subseteq Id,
           i \in forgets => r.firing = FALSE,
           i \notin forgets => r = rules[i]
    PROVE  AlertsInv'
<1> DEFINE changed == [rules EXCEPT ![i] = r]
<1>1. changed \in RuleSets /\ changed[i] = r /\ \A j \in Id \ {i} : changed[j] = rules[j]
  BY AlertsParts DEF RuleSets
<1>2. /\ rules' = changed /\ request' = [request EXCEPT ![h] = Rules!serialize(changed)]
      /\ unread' = unread \cup forgets /\ astray' = astray \cup (forgets \cap Rules!Alarmed)
      /\ edits < MaxEdits /\ edits' = edits + 1
      /\ UNCHANGED <<filed, tick, fails, seen, told, losses, reboots>>
  BY DEF Rules!Edit
<1> HIDE DEF changed
<1>3. Rules!serialize(changed) \in RuleSets /\ Silent(Rules!serialize(changed))
  BY <1>1, SilentCopy
<1>4. edits' \in 0..MaxEdits
  BY <1>2, AlertsParts, RulesTypes
<1>5. Rules!TypeOK'
  <2>1. request' \in [Editor -> RuleSets \cup {Rules!NoWrite}] /\ rules' \in RuleSets
    BY <1>1, <1>2, <1>3, AlertsParts
  <2>2. unread' \subseteq Id /\ astray' \subseteq Id
    BY <1>2, AlertsParts
  <2> QED BY <1>2, <1>4, <2>1, <2>2 DEF AlertsInv, Rules!TypeOK, RuleSets
<1>6. (tick.ph # "deliver" => tick.queue = << >>)' /\ Silent(filed)' /\ OneEdgeEach'
  BY <1>2 DEF AlertsInv, Silent, OneEdgeEach
<1>7. \A g \in Editor : request'[g] # Rules!NoWrite => Silent(request'[g])
  BY <1>2, <1>3, AlertsParts DEF AlertsInv
<1>8. \A j \in Id : rules'[j].paused => rules'[j].firing = FALSE
  BY <1>1, <1>2 DEF AlertsInv
<1>9. FiresAsSeen'
  BY <1>1, <1>2 DEF AlertsInv, FiresAsSeen
<1>10. HeardAsFires'
  <2> SUFFICES ASSUME NEW j \in Id \ astray'
               PROVE  /\ \A n \in DOMAIN tick.queue : tick.queue[n].rule = j =>
                            (tick.queue[n].state = "triggered" <=> rules'[j].firing)
                      /\ ~Queued(j) => (told[j] = "triggered" <=> rules'[j].firing)
    BY <1>2 DEF HeardAsFires, Queued
  <2>1. CASE j \in forgets
    <3>1. j \notin Rules!Alarmed /\ rules'[j].firing = FALSE
      BY <1>1, <1>2, <2>1
    <3>2. told[j] # "triggered" /\ ~Queued(j)
      BY <3>1 DEF Rules!Alarmed, Queued
    <3> QED BY <3>1, <3>2 DEF Queued
  <2>2. CASE j \notin forgets
    <3>1. rules'[j] = rules[j] /\ j \notin astray
      BY <1>1, <1>2, <2>2
    <3> QED BY <3>1 DEF AlertsInv, HeardAsFires
  <2> QED BY <2>1, <2>2
<1> QED BY <1>5, <1>6, <1>7, <1>8, <1>9, <1>10 DEF AlertsInv

LEMMA RequestKeeps ==
    ASSUME Rules!AlertsAssumption, AlertsInv, NEW h \in Editor, NEW i \in Id,
           NEW m \in Rules!Metric, NEW t \in Rules!Level, NEW p \in BOOLEAN,
           \/ Rules!add(h, m, t) \/ Rules!update(h, i, m, t) \/ Rules!set_paused(h, i, p)
           \/ Rules!remove(h, i)
    PROVE  AlertsInv'
<1>1. CASE Rules!add(h, m, t)
  <2> DEFINE r == [metric |-> m, threshold |-> t, paused |-> FALSE, firing |-> FALSE]
  <2>1. PICK j \in fresh : fresh' = fresh \ {j} /\ Rules!Edit(h, [rules EXCEPT ![j] = r], {j})
    BY <1>1 DEF Rules!add
  <2>2. r \in Rules!Rule /\ r.firing = FALSE
    BY DEF Rules!Rule
  <2>3. j \in Id /\ fresh' \subseteq Id
    BY <2>1, AlertsParts
  <2> HIDE DEF r
  <2> QED BY <2>1, <2>2, <2>3, EditKeeps
<1>2. CASE Rules!update(h, i, m, t)
  <2> DEFINE r == [rules[i] EXCEPT !.metric = m, !.threshold = t, !.firing = FALSE]
  <2>1. rules[i] \in Rules!Rule
    BY <1>2, AlertsParts DEF Rules!update, Rules!Live, RuleSets
  <2>2. r \in Rules!Rule /\ r.firing = FALSE
    BY <2>1 DEF Rules!Rule
  <2>3. Rules!Edit(h, [rules EXCEPT ![i] = r], {i}) /\ fresh' = fresh
    BY <1>2 DEF Rules!update
  <2> HIDE DEF r
  <2> QED BY <2>2, <2>3, AlertsParts, EditKeeps
<1>3. CASE Rules!remove(h, i)
  <2>1. Rules!Edit(h, [rules EXCEPT ![i] = Rules!NoRule], {i}) /\ fresh' = fresh
    BY <1>3 DEF Rules!remove
  <2> QED BY <2>1, AlertsParts, RulesTypes, EditKeeps
<1>4. CASE Rules!set_paused(h, i, p)
  <2> DEFINE r == [rules[i] EXCEPT !.paused = p, !.firing = rules[i].firing /\ ~p]
  <2> DEFINE forgets == {i} \ (IF p THEN {} ELSE {j \in Rules!Live : ~rules[j].paused})
  <2>1. rules[i] \in Rules!Rule /\ i \in Rules!Live
    BY <1>4, AlertsParts DEF Rules!set_paused, Rules!Live, RuleSets
  <2>2. r \in Rules!Rule
    BY <2>1 DEF Rules!Rule
  <2>3. Rules!Edit(h, [rules EXCEPT ![i] = r], forgets) /\ fresh' = fresh
    BY <1>4 DEF Rules!set_paused
  <2>4. i \in forgets => r.firing = FALSE
    <3>1. CASE p
      BY <2>1, <3>1 DEF Rules!Rule
    <3>2. CASE ~p /\ rules[i].paused
      <4>1. rules[i].firing = FALSE
        BY <2>1, <3>2 DEF AlertsInv
      <4> QED BY <2>1, <4>1 DEF Rules!Rule
    <3>3. CASE ~p /\ ~rules[i].paused
      BY <2>1, <3>3
    <3> QED BY <3>1, <3>2, <3>3
  <2>5. i \notin forgets => r = rules[i]
    <3> SUFFICES ASSUME i \notin forgets
                 PROVE  r = rules[i]
      OBVIOUS
    <3>1. p = FALSE /\ rules[i].paused = FALSE
      BY <2>1 DEF Rules!Rule
    <3>2. rules[i].firing \in BOOLEAN
      BY <2>1 DEF Rules!Rule
    <3>3. (rules[i].firing /\ ~p) = rules[i].firing
      BY <3>1, <3>2
    <3> QED BY <2>1, <3>1, <3>3 DEF Rules!Rule
  <2>6. forgets \in SUBSET {i}
    OBVIOUS
  <2> HIDE DEF r, forgets
  <2> QED BY <2>2, <2>3, <2>4, <2>5, <2>6, AlertsParts, EditKeeps
<1> QED BY <1>1, <1>2, <1>3, <1>4

\* Steps that leave the rules and what is known of them alone.
LEMMA AsideKeeps ==
    ASSUME AlertsInv, UNCHANGED <<rules, seen, unread, told, astray>>,
           tick' \in Rules!Tick, tick'.queue = tick.queue,
           tick'.ph # "deliver" => tick.queue = << >>,
           filed' \in RuleSets, Silent(filed'),
           request' \in [Editor -> RuleSets \cup {Rules!NoWrite}],
           \A h \in Editor : request'[h] # Rules!NoWrite => Silent(request'[h]),
           fresh' \subseteq Id, fails' \in Rules!Level,
           edits' \in 0..MaxEdits, losses' \in 0..MaxLost, reboots' \in 0..MaxRestarts
    PROVE  AlertsInv'
<1>1. Rules!TypeOK'
  BY DEF AlertsInv, Rules!TypeOK, RuleSets
<1>2. FiresAsSeen'
  BY DEF AlertsInv, FiresAsSeen
<1>3. HeardAsFires' /\ OneEdgeEach'
  BY DEF AlertsInv, HeardAsFires, OneEdgeEach, Queued
<1>4. Silent(filed)'
  BY DEF Silent
<1> QED BY <1>1, <1>2, <1>3, <1>4 DEF AlertsInv

LEMMA LossType ==
    ASSUME Rules!AlertsAssumption, AlertsInv,
           losses' = losses \/ (losses < MaxLost /\ losses' = losses + 1)
    PROVE  losses' \in 0..MaxLost
BY AlertsParts, RulesTypes

LEMMA FileKeeps ==
    ASSUME Rules!AlertsAssumption, AlertsInv, NEW h \in Editor, NEW ok \in BOOLEAN,
           Rules!write_atomic(h, ok)
    PROVE  AlertsInv'
<1>1. request[h] # Rules!NoWrite /\ request' = [request EXCEPT ![h] = Rules!NoWrite]
      /\ filed' = (IF ok THEN request[h] ELSE filed)
  BY DEF Rules!write_atomic
<1>2. request' \in [Editor -> RuleSets \cup {Rules!NoWrite}]
      /\ \A g \in Editor : request'[g] # Rules!NoWrite => Silent(request'[g])
  BY <1>1, AlertsParts DEF AlertsInv
<1>3. filed' \in RuleSets /\ Silent(filed')
  <2>1. request[h] \in RuleSets /\ Silent(request[h]) /\ filed \in RuleSets /\ Silent(filed)
    BY <1>1, AlertsParts DEF AlertsInv
  <2> QED BY <1>1, <2>1
<1>4. losses' \in 0..MaxLost
  <2>1. losses' = losses \/ (losses < MaxLost /\ losses' = losses + 1)
    BY DEF Rules!write_atomic
  <2> QED BY <2>1, LossType
<1>5. UNCHANGED <<rules, fresh, tick, fails, seen, unread, told, astray, edits, reboots>>
  BY DEF Rules!write_atomic, Rules!history
<1>6. tick' \in Rules!Tick /\ tick'.queue = tick.queue /\ (tick'.ph # "deliver" => tick.queue = << >>)
  BY <1>5, AlertsParts DEF AlertsInv
<1> QED BY <1>2, <1>3, <1>4, <1>5, <1>6, AlertsParts, AsideKeeps

LEMMA SampleKeeps ==
    ASSUME Rules!AlertsAssumption, AlertsInv, NEW host \in Rules!Level \cup {Rules!Unread},
           NEW healthy \in BOOLEAN, Rules!sample(host, healthy)
    PROVE  AlertsInv'
<1>1. fails' \in Rules!Level
  BY AlertsParts, RulesTypes DEF Rules!sample, Rules!Level
<1>2. tick' = [Rules!Asleep EXCEPT !.ph = "sampled", !.sample["host"] = host,
                                   !.sample["heyvmd-health"] = fails']
  BY DEF Rules!sample
<1>3. tick' \in Rules!Tick /\ tick'.queue = << >>
  BY <1>1, <1>2, RulesTypes DEF Rules!Asleep, Rules!Tick, Rules!Metric
<1>4. tick.queue = << >> /\ Silent(filed)
      /\ \A h \in Editor : request[h] # Rules!NoWrite => Silent(request[h])
  BY DEF Rules!sample, AlertsInv
<1>5. UNCHANGED <<rules, filed, request, fresh, seen, unread, told, astray, edits, losses, reboots>>
  BY DEF Rules!sample, Rules!history
<1> QED BY <1>1, <1>3, <1>4, <1>5, AlertsParts, AsideKeeps

LEMMA SleepKeeps ==
    ASSUME Rules!AlertsAssumption, AlertsInv, Rules!Sleep
    PROVE  AlertsInv'
<1>1. tick' = Rules!Asleep /\ tick.queue = << >> /\ Silent(filed)
      /\ \A h \in Editor : request[h] # Rules!NoWrite => Silent(request[h])
  BY DEF Rules!Sleep, AlertsInv
<1>2. tick' \in Rules!Tick /\ tick'.queue = << >>
  BY <1>1, RulesTypes DEF Rules!Asleep
<1>3. UNCHANGED <<rules, filed, request, fresh, fails, seen, unread, told, astray, edits, losses, reboots>>
  BY DEF Rules!Sleep, Rules!history
<1> QED BY <1>1, <1>2, <1>3, AlertsParts, AsideKeeps

\* A tick: the rules that cross are the edges, each one webhook.
LEMMA EvaluateKeeps ==
    ASSUME Rules!AlertsAssumption, AlertsInv, Rules!evaluate
    PROVE  AlertsInv'
<1> DEFINE Compared == {i \in Rules!Live : ~rules[i].paused
                                          /\ Rules!value(rules[i].metric) # Rules!Unread}
<1> DEFINE Over(i) == Rules!value(rules[i].metric) >= rules[i].threshold
<1> DEFINE Edges == {i \in Compared : Over(i) # rules[i].firing}
<1> DEFINE s == Rules!Sorted(Edges)
<1> DEFINE n == Cardinality(Edges)
<1> DEFINE q == [k \in 1..n |-> [rule |-> s[k], state |-> IF Over(s[k]) THEN "triggered"
                                                          ELSE "resolved"]]
<1>1. /\ tick.ph = "sampled"
      /\ rules' = [i \in Id |-> IF i \in Edges THEN [rules[i] EXCEPT !.firing = ~rules[i].firing]
                                ELSE rules[i]]
      /\ tick' = [tick EXCEPT !.ph = "deliver", !.queue = q]
  BY RulesCount DEF Rules!evaluate
<1>2. /\ seen' = [m \in Rules!Metric |-> IF tick.sample[m] = Rules!Unread THEN seen[m]
                                         ELSE tick.sample[m]]
      /\ unread' = unread \ {i \in Rules!Live : ~rules[i].paused
                                        /\ tick.sample[rules[i].metric] # Rules!Unread}
      /\ UNCHANGED <<filed, request, fresh, fails, told, astray, edits, losses, reboots>>
  BY DEF Rules!evaluate
<1>3. tick \in Rules!Tick /\ tick.queue = << >> /\ tick.sample \in [Rules!Metric -> Rules!Level \cup {Rules!Unread}]
  BY <1>1, AlertsParts DEF AlertsInv, Rules!Tick
<1>4. \A i \in Rules!Live : i \in Id /\ rules[i] \in Rules!Rule
  BY AlertsParts DEF Rules!Live, RuleSets
<1>5. Edges \in SUBSET Id /\ Edges \in SUBSET Nat /\ IsFiniteSet(Edges) /\ n \in Nat
  <2>1. Edges \in SUBSET Id
    BY <1>4
  <2> HIDE DEF Edges
  <2> QED BY <2>1, RulesTypes, FS_Subset, FS_CardinalityType
<1>6. /\ s \in [1..n -> Edges] /\ \A k, l \in 1..n : s[k] = s[l] => k = l
      /\ \A i \in Edges : \E k \in 1..n : s[k] = i
  <2> HIDE DEF Edges
  <2> QED BY <1>5, RulesSorted
\* What the comparison says of one rule.
<1>7. \A i \in Id : /\ rules'[i] \in Rules!Rule \cup {Rules!NoRule}
                    /\ i \in Edges => rules[i] \in Rules!Rule /\ rules'[i] \in Rules!Rule
                                      /\ (rules'[i].firing <=> Over(i))
                    /\ i \notin Edges => rules'[i] = rules[i]
                    /\ rules'[i] # Rules!NoRule <=> rules[i] # Rules!NoRule
                    /\ rules[i] # Rules!NoRule =>
                           /\ rules'[i].metric = rules[i].metric
                           /\ rules'[i].threshold = rules[i].threshold
                           /\ rules'[i].paused = rules[i].paused
  <2> TAKE i \in Id
  <2>1. CASE i \notin Edges
    BY <1>1, <2>1, AlertsParts DEF RuleSets
  <2>2. CASE i \in Edges
    <3>1. rules[i] \in Rules!Rule
      BY <1>4, <2>2
    <3>2. rules'[i] = [rules[i] EXCEPT !.firing = ~rules[i].firing]
      BY <1>1, <2>2
    <3>3. Over(i) # rules[i].firing /\ Over(i) \in BOOLEAN
      BY <2>2
    <3> HIDE DEF Over, Edges
    <3>4. rules'[i] \in Rules!Rule /\ rules'[i].firing = ~rules[i].firing
          /\ rules'[i].metric = rules[i].metric /\ rules'[i].threshold = rules[i].threshold
          /\ rules'[i].paused = rules[i].paused /\ rules[i].firing \in BOOLEAN
      BY <3>1, <3>2 DEF Rules!Rule
    <3>5. rules'[i].firing <=> Over(i)
      BY <3>3, <3>4
    <3> QED BY <2>2, <3>1, <3>4, <3>5, RulesTypes
  <2> QED BY <2>1, <2>2
<1>8. \A i \in Compared : rules'[i].firing <=> Over(i)
  <2> TAKE i \in Compared
  <2>1. CASE i \in Edges
    BY <1>4, <1>7, <2>1
  <2>2. CASE i \notin Edges
    BY <1>4, <1>7, <2>2
  <2> QED BY <2>1, <2>2
<1>9. \A k \in 1..n : q[k].rule = s[k] /\ s[k] \in Edges
                      /\ (q[k].state = "triggered" <=> Over(s[k]))
                      /\ q[k] \in Rules!Webhook
  <2> TAKE k \in 1..n
  <2>1. s[k] \in Edges /\ s[k] \in Id
    BY <1>5, <1>6
  <2> HIDE DEF Over, Edges, s
  <2> QED BY <2>1 DEF Rules!Webhook
<1> HIDE DEF q, s
<1>10. q \in Seq(Rules!Webhook) /\ DOMAIN q = 1..n
  <2>1. q \in [1..n -> Rules!Webhook]
    BY <1>9 DEF q
  <2> HIDE DEF Edges
  <2> QED BY <1>5, <2>1, SeqDef
<1> HIDE DEF Edges
<1>11. tick' \in Rules!Tick /\ tick'.queue = q /\ tick'.ph = "deliver"
  BY <1>1, <1>3, <1>10 DEF Rules!Tick
<1>12. rules' \in RuleSets
  BY <1>1, <1>7 DEF RuleSets
<1>13. seen' \in [Rules!Metric -> Rules!Level \cup {Rules!Unread}]
  BY <1>2, <1>3, AlertsParts
<1>14. Rules!TypeOK'
  BY <1>2, <1>11, <1>12, <1>13 DEF AlertsInv, Rules!TypeOK, RuleSets
<1>15. \A i \in Id : rules'[i].paused => rules'[i].firing = FALSE
  <2> SUFFICES ASSUME NEW i \in Id, rules'[i].paused
               PROVE  rules'[i].firing = FALSE
    OBVIOUS
  <2>1. i \notin Edges
    BY <1>4, <1>7, RulesTypes DEF Edges
  <2> QED BY <1>7, <2>1 DEF AlertsInv
<1>16. FiresAsSeen'
  <2> SUFFICES ASSUME NEW i \in Id, rules'[i] # Rules!NoRule, ~rules'[i].paused, i \notin unread'
               PROVE  rules'[i].firing <=> seen'[rules'[i].metric] >= rules'[i].threshold
    BY DEF FiresAsSeen
  <2>1. i \in Rules!Live /\ ~rules[i].paused /\ rules[i] \in Rules!Rule
        /\ rules'[i].metric = rules[i].metric /\ rules'[i].threshold = rules[i].threshold
    BY <1>4, <1>7 DEF Rules!Live
  <2>2. rules[i].metric \in Rules!Metric
    BY <2>1 DEF Rules!Rule
  <2>3. CASE tick.sample[rules[i].metric] # Rules!Unread
    <3>1. i \in Compared
      BY <2>1, <2>3 DEF Rules!value
    <3>2. seen'[rules[i].metric] = tick.sample[rules[i].metric]
      BY <1>2, <2>2, <2>3
    <3> QED BY <1>8, <2>1, <3>1, <3>2 DEF Rules!value
  <2>4. CASE tick.sample[rules[i].metric] = Rules!Unread
    <3>1. i \notin Edges /\ i \notin unread /\ seen'[rules[i].metric] = seen[rules[i].metric]
      BY <1>2, <2>1, <2>2, <2>4 DEF Edges, Rules!value
    <3>2. rules'[i] = rules[i]
      BY <1>7, <3>1
    <3> QED BY <2>1, <3>1, <3>2 DEF AlertsInv, FiresAsSeen, Rules!Live
  <2> QED BY <2>3, <2>4
<1>17. HeardAsFires'
  <2> SUFFICES ASSUME NEW i \in Id \ astray
               PROVE  /\ \A k \in 1..n : q[k].rule = i =>
                            (q[k].state = "triggered" <=> rules'[i].firing)
                      /\ ~(\E k \in 1..n : q[k].rule = i) =>
                            (told[i] = "triggered" <=> rules'[i].firing)
    BY <1>2, <1>10, <1>11 DEF HeardAsFires, Queued
  <2>1. \A k \in 1..n : q[k].rule = i => (q[k].state = "triggered" <=> rules'[i].firing)
    <3> SUFFICES ASSUME NEW k \in 1..n, q[k].rule = i
                 PROVE  q[k].state = "triggered" <=> rules'[i].firing
      OBVIOUS
    <3>1. s[k] = i /\ i \in Edges /\ (q[k].state = "triggered" <=> Over(i))
      BY <1>9
    <3> QED BY <1>7, <3>1
  <2>2. ASSUME ~(\E k \in 1..n : q[k].rule = i)
        PROVE  told[i] = "triggered" <=> rules'[i].firing
    <3>1. i \notin Edges
      BY <1>6, <1>9, <2>2
    <3>2. rules'[i] = rules[i]
      BY <1>7, <3>1
    <3>3. ~Queued(i)
      BY <1>3, EmptySeq DEF Queued
    <3> QED BY <3>2, <3>3 DEF AlertsInv, HeardAsFires
  <2> QED BY <2>1, <2>2
<1>18. OneEdgeEach'
  BY <1>6, <1>9, <1>10, <1>11 DEF OneEdgeEach
<1>19. Silent(filed)' /\ \A h \in Editor : request'[h] # Rules!NoWrite => Silent(request'[h])
  BY <1>2 DEF AlertsInv, Silent
<1> QED BY <1>11, <1>14, <1>15, <1>16, <1>17, <1>18, <1>19 DEF AlertsInv

LEMMA TailQueue ==
    ASSUME NEW q \in Seq(Rules!Webhook), q # << >>
    PROVE  /\ Tail(q) \in Seq(Rules!Webhook) /\ Head(q) = q[1] /\ q[1] \in Rules!Webhook
           /\ 1 \in DOMAIN q /\ DOMAIN Tail(q) = 1..(Len(q) - 1) /\ DOMAIN q = 1..Len(q)
           /\ \A n \in DOMAIN Tail(q) : n + 1 \in DOMAIN q /\ Tail(q)[n] = q[n + 1]
           /\ \A n \in DOMAIN q : n # 1 => n - 1 \in DOMAIN Tail(q) /\ Tail(q)[n - 1] = q[n]
<1>1. Len(q) \in Nat /\ Len(q) # 0 /\ DOMAIN q = 1..Len(q) /\ \A n \in 1..Len(q) : q[n] \in Rules!Webhook
  BY EmptySeq, LenProperties, ElementOfSeq
<1>2. Tail(q) \in Seq(Rules!Webhook) /\ Len(Tail(q)) = Len(q) - 1
      /\ \A n \in 1..Len(Tail(q)) : Tail(q)[n] = q[n + 1]
  BY <1>1, HeadTailProperties
<1>3. Head(q) = q[1] /\ DOMAIN Tail(q) = 1..(Len(q) - 1)
  BY <1>1, <1>2, LenProperties, HeadTailProperties
<1> QED BY <1>1, <1>2, <1>3

\* One webhook, delivered or lost.
LEMMA DeliverKeeps ==
    ASSUME Rules!AlertsAssumption, AlertsInv, NEW ok \in BOOLEAN, Rules!deliver(ok)
    PROVE  AlertsInv'
<1> DEFINE q == tick.queue
<1> DEFINE i == Head(q).rule
<1> DEFINE state == Head(q).state
<1>1. /\ tick.ph = "deliver" /\ q # << >> /\ tick' = [tick EXCEPT !.queue = Tail(q)]
      /\ UNCHANGED <<rules, filed, request, fresh, fails, seen, unread, edits, reboots>>
  BY DEF Rules!deliver
<1>2. /\ ok => /\ told' = [told EXCEPT ![i] = state] /\ losses' = losses
               /\ astray' = astray \ (IF (state = "triggered") = rules[i].firing THEN {i} ELSE {})
      /\ ~ok => /\ told' = told /\ astray' = astray \cup {i}
                /\ losses < MaxLost /\ losses' = losses + 1
  BY DEF Rules!deliver
<1>3. q \in Seq(Rules!Webhook) /\ tick \in Rules!Tick
  BY AlertsParts DEF Rules!Tick
<1>4. /\ Tail(q) \in Seq(Rules!Webhook) /\ Head(q) = q[1] /\ q[1] \in Rules!Webhook
      /\ 1 \in DOMAIN q /\ DOMAIN Tail(q) = 1..(Len(q) - 1) /\ DOMAIN q = 1..Len(q)
      /\ \A n \in DOMAIN Tail(q) : n + 1 \in DOMAIN q /\ Tail(q)[n] = q[n + 1]
      /\ \A n \in DOMAIN q : n # 1 => n - 1 \in DOMAIN Tail(q) /\ Tail(q)[n - 1] = q[n]
  BY <1>1, <1>3, TailQueue
<1>5. tick' \in Rules!Tick /\ tick'.queue = Tail(q) /\ tick'.ph = "deliver"
  BY <1>1, <1>3, <1>4 DEF Rules!Tick
<1>6. /\ i \in Id /\ state \in {"triggered", "resolved"} /\ q[1].rule = i /\ q[1].state = state
  BY <1>4 DEF Rules!Webhook
<1> HIDE DEF i, state
<1>7. told' \in [Id -> {"nothing", "triggered", "resolved"}] /\ astray' \subseteq Id
      /\ losses' \in 0..MaxLost
  BY <1>2, <1>6, AlertsParts, LossType
<1>8. Rules!TypeOK'
  BY <1>1, <1>5, <1>7 DEF AlertsInv, Rules!TypeOK
<1>9. \A n, k \in DOMAIN q : q[n].rule = q[k].rule => n = k
  BY DEF AlertsInv, OneEdgeEach
<1>10. \A n \in DOMAIN Tail(q) : n \in Nat /\ n + 1 # 1
  BY <1>4
<1>11. OneEdgeEach'
  <2> SUFFICES ASSUME NEW n \in DOMAIN Tail(q), NEW k \in DOMAIN Tail(q),
                      Tail(q)[n].rule = Tail(q)[k].rule
               PROVE  n = k
    BY <1>5 DEF OneEdgeEach
  <2>1. n + 1 = k + 1
    BY <1>4, <1>9
  <2> QED BY <1>10, <2>1
<1>12. \A n \in DOMAIN Tail(q) : Tail(q)[n].rule # i
  <2> SUFFICES ASSUME NEW n \in DOMAIN Tail(q), Tail(q)[n].rule = i
               PROVE  FALSE
    OBVIOUS
  <2>1. q[n + 1].rule = q[1].rule /\ n + 1 \in DOMAIN q
    BY <1>4, <1>6
  <2> QED BY <1>4, <1>9, <1>10, <2>1
<1>13. HeardAsFires'
  <2> SUFFICES ASSUME NEW j \in Id, j \notin astray'
               PROVE  /\ \A n \in DOMAIN Tail(q) : Tail(q)[n].rule = j =>
                            (Tail(q)[n].state = "triggered" <=> rules[j].firing)
                      /\ ~(\E n \in DOMAIN Tail(q) : Tail(q)[n].rule = j) =>
                            (told'[j] = "triggered" <=> rules[j].firing)
    BY <1>1, <1>5 DEF HeardAsFires, Queued
  <2>1. CASE j = i
    <3>1. ok /\ told'[i] = state
      BY <1>2, <1>6, <2>1, AlertsParts
    <3>2. CASE (state = "triggered") = rules[i].firing
      BY <1>12, <2>1, <3>1, <3>2
    <3>3. CASE (state = "triggered") # rules[i].firing
      <4>1. i \notin astray
        BY <1>2, <2>1, <3>1, <3>3
      <4>2. q[1].state = "triggered" <=> rules[i].firing
        BY <1>4, <1>6, <4>1 DEF AlertsInv, HeardAsFires
      <4> QED BY <1>6, <1>12, <2>1, <3>1, <4>2
    <3> QED BY <3>2, <3>3
  <2>2. CASE j # i
    <3>1. j \notin astray /\ told'[j] = told[j]
      BY <1>2, <1>6, <2>2, AlertsParts
    <3>2. /\ \A n \in DOMAIN q : q[n].rule = j => (q[n].state = "triggered" <=> rules[j].firing)
          /\ ~Queued(j) => (told[j] = "triggered" <=> rules[j].firing)
      BY <3>1 DEF AlertsInv, HeardAsFires
    <3>3. Queued(j) => \E n \in DOMAIN Tail(q) : Tail(q)[n].rule = j
      <4> SUFFICES ASSUME NEW n \in DOMAIN q, q[n].rule = j
                   PROVE  \E k \in DOMAIN Tail(q) : Tail(q)[k].rule = j
        BY DEF Queued
      <4>1. n # 1
        BY <1>6, <2>2
      <4> QED BY <1>4, <4>1
    <3> QED BY <1>4, <3>1, <3>2, <3>3
  <2> QED BY <2>1, <2>2
<1>14. FiresAsSeen'
  BY <1>1 DEF AlertsInv, FiresAsSeen
<1>15. /\ Silent(filed)' /\ \A h \in Editor : request'[h] # Rules!NoWrite => Silent(request'[h])
       /\ \A j \in Id : rules'[j].paused => rules'[j].firing = FALSE
  BY <1>1 DEF AlertsInv, Silent
<1> QED BY <1>5, <1>8, <1>11, <1>13, <1>14, <1>15 DEF AlertsInv

LEMMA RebootKeeps ==
    ASSUME Rules!AlertsAssumption, AlertsInv, Rules!Restart
    PROVE  AlertsInv'
<1>1. /\ rules' = filed /\ request' = [h \in Editor |-> Rules!NoWrite] /\ tick' = Rules!Asleep
      /\ fails' = 0 /\ seen' = [m \in Rules!Metric |-> Rules!Unread] /\ unread' = Id
      /\ astray' = astray \cup Rules!Alarmed
      /\ UNCHANGED <<filed, fresh, told, edits, losses>>
  BY DEF Rules!Restart
<1>2. reboots' \in 0..MaxRestarts
  BY AlertsParts, RulesTypes DEF Rules!Restart
<1>3. Rules!TypeOK'
  <2>1. fails' \in Rules!Level
    BY <1>1, RulesTypes DEF Rules!Level
  <2>2. astray' \subseteq Id
    BY <1>1, AlertsParts DEF Rules!Alarmed
  <2> QED BY <1>1, <1>2, <2>1, <2>2, RulesTypes DEF AlertsInv, Rules!TypeOK
<1>4. tick'.queue = << >> /\ DOMAIN tick'.queue = {}
  BY <1>1, EmptySeq DEF Rules!Asleep
<1>5. \A i \in Id : rules'[i].firing = FALSE
  BY <1>1 DEF AlertsInv, Silent
<1>6. FiresAsSeen'
  BY <1>1 DEF FiresAsSeen
<1>7. HeardAsFires'
  <2>1. \A i \in Id \ astray' : told'[i] # "triggered"
    BY <1>1 DEF Rules!Alarmed
  <2> QED BY <1>4, <1>5, <2>1 DEF HeardAsFires
<1>8. OneEdgeEach'
  BY <1>4 DEF OneEdgeEach
<1>9. Silent(filed)' /\ \A h \in Editor : request'[h] # Rules!NoWrite => Silent(request'[h])
  BY <1>1 DEF AlertsInv, Silent
<1> QED BY <1>3, <1>4, <1>5, <1>6, <1>7, <1>8, <1>9 DEF AlertsInv

LEMMA AlertsNext ==
    Rules!AlertsAssumption /\ AlertsInv /\ [Rules!Next]_Rules!vars => AlertsInv'
<1> SUFFICES ASSUME Rules!AlertsAssumption, AlertsInv, [Rules!Next]_Rules!vars
             PROVE  AlertsInv'
  OBVIOUS
<1>1. ASSUME NEW h \in Editor,
             \/ \E m \in Rules!Metric, t \in Rules!Level :
                   Rules!add(h, m, t) \/ \E i \in Id : Rules!update(h, i, m, t)
             \/ \E i \in Id, p \in BOOLEAN : Rules!set_paused(h, i, p)
             \/ \E i \in Id : Rules!remove(h, i)
             \/ \E ok \in BOOLEAN : Rules!write_atomic(h, ok)
      PROVE  AlertsInv'
  <2>1. "host" \in Rules!Metric /\ 0 \in Rules!Level /\ TRUE \in BOOLEAN
    BY RulesTypes DEF Rules!Metric, Rules!Level
  <2>2. ASSUME NEW m \in Rules!Metric, NEW t \in Rules!Level, Rules!add(h, m, t)
        PROVE  AlertsInv'
    <3>1. PICK i \in Id : TRUE
      BY <2>2, AlertsParts DEF Rules!add
    <3> QED BY <2>1, <2>2, <3>1, RequestKeeps
  <2>3. ASSUME NEW m \in Rules!Metric, NEW t \in Rules!Level, NEW i \in Id, Rules!update(h, i, m, t)
        PROVE  AlertsInv'
    BY <2>1, <2>3, RequestKeeps
  <2>4. ASSUME NEW i \in Id, NEW p \in BOOLEAN, Rules!set_paused(h, i, p)
        PROVE  AlertsInv'
    BY <2>1, <2>4, RequestKeeps
  <2>5. ASSUME NEW i \in Id, Rules!remove(h, i)
        PROVE  AlertsInv'
    BY <2>1, <2>5, RequestKeeps
  <2> QED BY <1>1, <2>2, <2>3, <2>4, <2>5, FileKeeps
<1>2. CASE \E host \in Rules!Level \cup {Rules!Unread}, healthy \in BOOLEAN :
              Rules!sample(host, healthy)
  BY <1>2, SampleKeeps
<1>3. CASE Rules!evaluate \/ Rules!Sleep \/ Rules!Restart
           \/ \E ok \in BOOLEAN : Rules!deliver(ok)
  BY <1>3, EvaluateKeeps, SleepKeeps, RebootKeeps, DeliverKeeps
<1>4. CASE UNCHANGED Rules!vars
  <2>1. UNCHANGED <<rules, filed, request, fresh, tick, fails, seen, unread, told, astray,
                    edits, losses, reboots>>
    BY <1>4 DEF Rules!vars, Rules!history
  <2>2. (tick'.ph # "deliver" => tick.queue = << >>) /\ Silent(filed')
        /\ \A h \in Editor : request'[h] # Rules!NoWrite => Silent(request'[h])
    BY <2>1 DEF AlertsInv
  <2> QED BY <2>1, <2>2, AlertsParts, AsideKeeps
<1> QED BY <1>1, <1>2, <1>3, <1>4 DEF Rules!Next

\* While the evaluator sleeps, the endpoint of an active rule heard last what the last
\* reading of its metric means, but for a rule changed since and a webhook lost or
\* overtaken by a change (evaluate, deliver, spawn_evaluator).
THEOREM EndpointsAreTold == Spec => []Told
<1>1. Rules!Init => AlertsInv
  BY RulesFacts, AlertsInit
<1>2. AlertsInv /\ [Rules!Next]_Rules!vars => AlertsInv'
  BY RulesFacts, AlertsNext
<1>3. AlertsInv => Rules!Told
  <2> SUFFICES ASSUME AlertsInv, tick.ph = "sleep", NEW i \in Rules!Live \ (unread \cup astray),
                      ~rules[i].paused
               PROVE  (told[i] = "triggered") = (seen[rules[i].metric] >= rules[i].threshold)
    BY DEF Rules!Told
  <2>1. i \in Id /\ rules[i] # Rules!NoRule
    BY DEF Rules!Live
  <2>2. ~Queued(i)
    BY EmptySeq DEF AlertsInv, Queued
  <2>3. told[i] = "triggered" <=> rules[i].firing
    BY <2>1, <2>2 DEF AlertsInv, HeardAsFires
  <2>4. rules[i].firing <=> seen[rules[i].metric] >= rules[i].threshold
    BY <2>1 DEF AlertsInv, FiresAsSeen
  <2>5. told[i] = "triggered" <=> seen[rules[i].metric] >= rules[i].threshold
    BY <2>3, <2>4
  <2> QED BY <2>5
<1> QED BY <1>1, <1>2, <1>3, RulesBehave, PTL DEF Rules!Spec, Told
============================================================================
