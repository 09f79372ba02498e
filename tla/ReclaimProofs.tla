--------------------------- MODULE ReclaimProofs ---------------------------
(***************************************************************************)
(* What TLAPS proves about boots and reclaim passes (Reclaim), for any     *)
(* number of boots, disks, slots, passes, lock errors and restarts.        *)
(*                                                                         *)
(* None of the three invariants is inductive.  Queue, Permits and Scripts  *)
(* say who holds or awaits what in which phase, Gate that the pass holding *)
(* the boot gate is the one single-flight pass, and Snapshots which disks  *)
(* a script may still meet open.                                           *)
(***************************************************************************)
EXTENDS Reclaim, SequenceTheorems, TLAPS

\* A boot that is under way has a disk.
Placed == \A b \in Boot : boot[b].ph # "idle" => boot[b].disk \in Disk

Distinct(q) == \A i, j \in DOMAIN q : q[i] = q[j] => i = j

\* Nobody waits twice, and everybody in the queue still waits.
Queue ==
    /\ Distinct(queue)
    /\ \A i \in DOMAIN queue : queue[i] \in Boot => boot[queue[i]].ph = "queued"
    /\ \A i \in DOMAIN queue : queue[i] \in Pass => pass[queue[i]].ph = "queued"

\* A boot has a permit from the grant to the end of its start, and the permit
\* is the read guard or the lock it really holds.
Permits ==
    /\ \A b \in Boot : boot[b].permit = "none" <=> boot[b].ph \in {"idle", "poll", "queued"}
    /\ readers = {b \in Boot : boot[b].permit = "gate"}
    /\ \A b \in Boot : boot[b].permit = "lock" => flock[boot[b].disk] = b
    /\ \A d \in Disk : flock[d] \in Boot => boot[flock[d]].permit = "lock" /\ boot[flock[d]].disk = d

\* A script at a disk holds its lock, if it takes locks, and holds no other; a
\* script that is not a stray belongs to the pass that runs.
Scripts ==
    \A p \in Pass :
        /\ script[p].ph \in {"check", "work"} =>
               script[p].disk \in Disk /\ (script[p].locks => flock[script[p].disk] = p)
        /\ \A d \in Disk :
               flock[d] = p => script[p].ph \in {"check", "work"} /\ script[p].disk = d
        /\ script[p].ph # "none" /\ ~script[p].stray => pass[p].ph = "run"
        /\ pass[p].ph \in {"none", "queued"} => script[p].ph = "none"

\* One pass at a time, and while it has the gate no boot does.
Gate ==
    /\ \A p \in Pass : pass[p].ph \in {"queued", "run"} => running
    /\ \A p, q \in Pass :
           pass[p].ph \in {"queued", "run"} /\ pass[q].ph \in {"queued", "run"} => p = q
    /\ writer # 0 => readers = {} /\ pass[writer].ph = "run"
    /\ \A p \in Pass : pass[p].ph = "run" => writer = p

\* A disk opened under the gate was open when the script of the pass that holds
\* the gate took its snapshot; a script works on no disk of its snapshot.
Snapshots ==
    /\ \A d \in open : under[d] \in {"lock", "gate", "late"}
    /\ \A p \in Pass :
        /\ script[p].ph \in {"loop", "check", "work"} /\ ~script[p].stray =>
               \A d \in open : under[d] = "gate" => d \in script[p].snap
        /\ script[p].ph = "work" => script[p].disk \notin script[p].snap

IInv == TypeOK /\ Placed /\ Queue /\ Permits /\ Scripts /\ Gate /\ Snapshots /\ NoBootOverTrim /\ StopIsForThisPass

-----------------------------------------------------------------------------
(* Types. *)

\* Taking somebody out of the queue keeps the others, in order.
LEMMA RemoveAtProperties ==
    ASSUME NEW S, NEW q \in Seq(S), NEW i \in 1..Len(q)
    PROVE  /\ RemoveAt(q, i) \in Seq(S)
           /\ Len(RemoveAt(q, i)) = Len(q) - 1
           /\ \A j \in 1..(Len(q) - 1) : RemoveAt(q, i)[j] = IF j < i THEN q[j] ELSE q[j + 1]
<1>. DEFINE u == SubSeq(q, 1, i - 1)
            v == SubSeq(q, i + 1, Len(q))
<1>1. Len(q) \in Nat /\ i \in Nat
  BY LenProperties
<1>2. u \in Seq(S) /\ Len(u) = i - 1 /\ \A j \in 1..(i - 1) : u[j] = q[j]
  <2>1. \A j \in 1..(i - 1) : q[j] \in S
    BY <1>1, ElementOfSeq
  <2>. QED
    BY <1>1, <2>1, SubSeqProperties
<1>3. v \in Seq(S) /\ Len(v) = Len(q) - i /\ \A j \in 1..(Len(q) - i) : v[j] = q[j + i]
  <2>1. \A j \in (i + 1)..Len(q) : q[j] \in S
    BY <1>1, ElementOfSeq
  <2>2. /\ v \in Seq(S)
        /\ Len(v) = IF i + 1 <= Len(q) THEN Len(q) - (i + 1) + 1 ELSE 0
        /\ \A j \in 1..(Len(q) - (i + 1) + 1) : v[j] = q[(i + 1) + j - 1]
    BY <1>1, <2>1, SubSeqProperties
  <2>. QED
    BY <1>1, <2>2
<1>4. RemoveAt(q, i) = u \o v
  BY DEF RemoveAt
<1>. HIDE DEF u, v
<1>5. /\ u \o v \in Seq(S) /\ Len(u \o v) = Len(u) + Len(v)
      /\ \A j \in 1..(Len(u) + Len(v)) : (u \o v)[j] = IF j <= Len(u) THEN u[j] ELSE v[j - Len(u)]
  BY <1>2, <1>3, ConcatProperties
<1>. QED
  BY <1>1, <1>2, <1>3, <1>4, <1>5

\* Pass numbers are positive, and nobody is both a boot and a pass.
LEMMA Parties ==
    /\ 0 \notin Pass /\ Boot \cap Pass = {} /\ Free \notin Boot /\ Free \notin Pass
BY ReclaimAssumption DEF Pass

\* What a step may put in place of a boot.
LEMMA BootTypes ==
    /\ \A ph \in {"idle", "poll", "queued", "slot", "start"}, d \in Disk,
          permit \in {"none", "lock", "gate"} :
              [ph |-> ph, disk |-> d, permit |-> permit] \in BootState
    /\ IdleBoot \in BootState /\ IdleBoot.ph = "idle"
BY DEF BootState, IdleBoot

\* The same for a pass.
LEMMA PassTypes ==
    /\ NoPass \in PassState /\ [NoPass EXCEPT !.ph = "done"] \in PassState
    /\ \A ph \in {"none", "queued", "run", "done"}, y \in BOOLEAN :
              [ph |-> ph, yielding |-> y] \in PassState
    /\ \A s \in PassState, y \in BOOLEAN :
        [s EXCEPT !.ph = "queued"] \in PassState /\ [s EXCEPT !.yielding = y] \in PassState
BY DEF PassState, NoPass

\* Init sets up well-typed state.
LEMMA TypeInit == Init => TypeOK /\ Placed
<1>. SUFFICES ASSUME Init PROVE TypeOK /\ Placed
  OBVIOUS
<1>1. perDisk \in BOOLEAN /\ marker \in BOOLEAN /\ stop \in BOOLEAN /\ notify \in BOOLEAN
      /\ running \in BOOLEAN
  BY Zenon DEF Init
<1>2. boot \in [Boot -> BootState] /\ Placed
  BY BootTypes DEF Init, Placed
<1>3. pass \in [Pass -> PassState]
  BY PassTypes DEF Init
<1>4. script \in [Pass -> ScriptState]
  BY DEF Init, ScriptState, NoScript
<1>5. queue \in Seq(Boot \cup Pass)
  BY EmptySeq DEF Init
<1>6. /\ readers \subseteq Boot /\ writer \in Pass \cup {0} /\ flock \in [Disk -> Boot \cup Pass \cup {Free}]
      /\ open \subseteq Disk /\ under \in [Disk -> {"none", "lock", "gate", "late"}] /\ faults \in Nat
      /\ unattended \subseteq Disk
  BY DEF Init
<1>. QED
  BY <1>1, <1>2, <1>3, <1>4, <1>5, <1>6 DEF TypeOK

\* No step of a boot leaves the types.  A boot that is granted the gate is one that
\* waits, so it has a disk.
LEMMA BootKeepsTypes ==
    ASSUME TypeOK, Placed, Queue, NEW b \in Boot, BootStep(b)
    PROVE  TypeOK' /\ Placed'
<1>. DEFINE Typed == boot' \in [Boot -> BootState] /\ Placed'
<1>0. /\ queue \in Seq(Boot \cup Pass) /\ Append(queue, b) \in Seq(Boot \cup Pass)
      /\ boot[b].permit \in {"none", "lock", "gate"} /\ faults \in Nat
      /\ boot[b].ph # "idle" => boot[b].disk \in Disk
  BY AppendProperties DEF TypeOK, BootState, Placed
<1>a. ASSUME NEW ph \in {"poll", "queued", "slot", "start"}, NEW d \in Disk,
             NEW permit \in {"none", "lock", "gate"}, At(b, ph, d, permit)
      PROVE  Typed
  BY <1>a, BootTypes DEF At, Placed, TypeOK
<1>b. ASSUME boot' = [boot EXCEPT ![b] = IdleBoot]
      PROVE  Typed
  BY <1>b, BootTypes DEF Placed, TypeOK
<1>c. ASSUME NEW d \in Disk, Gated(b, d), faults' \in Nat,
             UNCHANGED <<mode, stop, running, pass, script, open, under, unattended>>
      PROVE  TypeOK' /\ Placed'
  <2>1. Typed
    BY <1>a, <1>c DEF Gated
  <2>2. notify' \in BOOLEAN
    BY <1>c DEF Gated, TypeOK
  <2>3. readers' \subseteq Boot /\ queue' \in Seq(Boot \cup Pass) /\ writer' = writer /\ flock' = flock
    BY <1>0, <1>c DEF Gated, TypeOK
  <2>. QED
    BY <1>c, <2>1, <2>2, <2>3 DEF mode, TypeOK
<1>d. ASSUME NEW d \in Disk, Locked(b, d), UNCHANGED <<mode, stop, running, pass, script, open, under, unattended>>
      PROVE  TypeOK' /\ Placed'
  <2>1. Typed
    BY <1>a, <1>d DEF Locked
  <2>. QED
    BY <1>d, <2>1 DEF Locked, gate, mode, TypeOK
<1>1. ASSUME NEW d \in Disk, acquire(b, d) PROVE TypeOK' /\ Placed'
  <2>1. CASE Locked(b, d)
    BY <1>1, <1>d, <2>1 DEF acquire
  <2>2. CASE Gated(b, d) /\ faults' \in Nat
    BY <1>1, <1>c, <2>2 DEF acquire
  <2>3. CASE At(b, "poll", d, "none") /\ notify' = TRUE /\ UNCHANGED <<gate, flock, faults>>
    <3>1. Typed
      BY <1>a, <2>3
    <3>. QED
      BY <1>1, <2>3, <3>1 DEF acquire, gate, mode, TypeOK
  <2>4. LockUnusable(b, d) \/ UNCHANGED faults => faults' \in Nat
    BY <1>0 DEF LockUnusable
  <2>. QED
    BY <1>1, <2>1, <2>2, <2>3, <2>4 DEF acquire, LockUnusable
<1>2. ASSUME TryFlock(b) \/ FlockFails(b) PROVE TypeOK' /\ Placed'
  <2>. DEFINE d == boot[b].disk
  <2>0. d \in Disk
    BY <1>0, <1>2 DEF TryFlock, FlockFails
  <2>1. CASE TryFlock(b)
    <3>1. Locked(b, d) /\ UNCHANGED <<mode, stop, running, pass, script, open, under, unattended>>
      BY <2>1 DEF TryFlock
    <3>. HIDE DEF d
    <3>. QED
      BY <1>d, <2>0, <3>1
  <2>2. CASE FlockFails(b)
    <3>1. Gated(b, d) /\ faults' \in Nat /\ UNCHANGED <<mode, stop, running, pass, script, open, under, unattended>>
      BY <1>0, <2>2 DEF FlockFails, LockUnusable
    <3>. HIDE DEF d
    <3>. QED
      BY <1>c, <2>0, <3>1
  <2>. QED
    BY <1>2, <2>1, <2>2
<1>3. CASE GrantRead(b)
  <2>1. Tail(queue) \in Seq(Boot \cup Pass)
    BY <1>0, <1>3, HeadTailProperties DEF GrantRead
  <2>2. boot[b].ph = "queued"
    <3>1. 1 \in DOMAIN queue /\ queue[1] = b
      BY <1>0, <1>3, LenProperties, EmptySeq DEF GrantRead
    <3>. QED
      BY <3>1 DEF Queue
  <2>3. Typed
    <3>. DEFINE d == boot[b].disk
    <3>1. d \in Disk /\ At(b, "slot", d, "gate")
      BY <1>0, <1>3, <2>2 DEF GrantRead
    <3>. HIDE DEF d
    <3>. QED
      BY <1>a, <3>1
  <2>. QED
    BY <1>3, <2>1, <2>3 DEF GrantRead, mode, TypeOK
<1>4. CASE Abandon(b)
  <2>1. queue' \in Seq(Boot \cup Pass)
    BY <1>0, <1>4, LenProperties, RemoveAtProperties DEF Abandon
  <2>2. Typed
    BY <1>b, <1>4 DEF Abandon
  <2>. QED
    BY <1>4, <2>1, <2>2 DEF Abandon, mode, TypeOK
<1>5. CASE bringup_slot(b)
  <2>1. Typed
    <3>. DEFINE d == boot[b].disk
                pm == boot[b].permit
    <3>1. d \in Disk /\ pm \in {"none", "lock", "gate"} /\ At(b, "start", d, pm)
      BY <1>0, <1>5 DEF bringup_slot
    <3>. HIDE DEF d, pm
    <3>. QED
      BY <1>a, <3>1
  <2>. QED
    BY <1>5, <2>1 DEF bringup_slot, gate, mode, TypeOK
<1>e. ASSUME DropPermit(b)
      PROVE  Typed /\ readers' \subseteq Boot /\ flock' \in [Disk -> Boot \cup Pass \cup {Free}]
  BY <1>b, <1>e DEF DropPermit, TypeOK
<1>6. CASE Start(b)
  <2>1. open' \subseteq Disk /\ under' \in [Disk -> {"none", "lock", "gate", "late"}]
    BY <1>0, <1>6 DEF Start, TypeOK
  <2>. QED
    BY <1>6, <1>e, <2>1 DEF Start, mode, TypeOK
<1>7. CASE GiveUp(b)
  <2>1. unattended' \subseteq Disk
    BY <1>0, <1>7 DEF GiveUp, TypeOK
  <2>. QED
    BY <1>0, <1>7, <1>e, <2>1 DEF GiveUp, mode, TypeOK
<1>. QED
  BY <1>1, <1>2, <1>3, <1>4, <1>5, <1>6, <1>7 DEF BootStep

\* No step of a pass leaves the types.
LEMMA PassKeepsTypes ==
    ASSUME TypeOK, Placed, NEW p \in Pass, PassStep(p)
    PROVE  TypeOK' /\ Placed'
<1>. DEFINE waiting == boots_waiting # {}
<1>0. /\ queue \in Seq(Boot \cup Pass) /\ Append(queue, p) \in Seq(Boot \cup Pass)
      /\ pass[p] \in PassState /\ script[p] \in ScriptState /\ waiting \in BOOLEAN
  BY AppendProperties DEF TypeOK
<1>1. Placed'
  BY DEF PassStep, run_once, Launch, Preempt, Finish, LaunchFails, Timeout, Placed
<1>2. CASE run_once(p)
  <2>1. [pass[p] EXCEPT !.ph = "queued"] \in PassState
    BY <1>0, PassTypes
  <2>2. pass' \in [Pass -> PassState]
    BY <1>2, <2>1 DEF TypeOK, run_once
  <2>. QED
    BY <1>0, <1>1, <1>2, <2>2 DEF TypeOK, run_once, mode
<1>3. ASSUME NEW locks \in BOOLEAN, Launch(p, locks) PROVE TypeOK'
  <2>1. Tail(queue) \in Seq(Boot \cup Pass)
    BY <1>0, <1>3, HeadTailProperties DEF Launch
  <2>2. stop' \in BOOLEAN /\ pass' = [pass EXCEPT ![p] = [ph |-> "run", yielding |-> waiting]]
    BY <1>3 DEF Launch
  <2>. HIDE DEF waiting
  <2>3. pass' \in [Pass -> PassState]
    BY <1>0, <2>2, PassTypes DEF TypeOK
  <2>4. [NoScript EXCEPT !.ph = "start", !.locks = locks] \in ScriptState
    BY <1>3 DEF NoScript, ScriptState
  <2>5. script' \in [Pass -> ScriptState]
    BY <1>3, <2>4 DEF TypeOK, Launch
  <2>. QED
    BY <1>3, <2>1, <2>2, <2>3, <2>5 DEF TypeOK, Launch
<1>4. CASE Preempt(p)
  <2>1. /\ stop' \in BOOLEAN /\ notify' \in BOOLEAN
        /\ pass' = [pass EXCEPT ![p].yielding = waiting]
        /\ UNCHANGED <<mode, gate, flock, boot, running, script, open, under, unattended, faults>>
    BY <1>4 DEF Preempt
  <2>. HIDE DEF waiting
  <2>2. [pass[p] EXCEPT !.yielding = waiting] \in PassState
    BY <1>0, PassTypes
  <2>3. pass' \in [Pass -> PassState]
    BY <2>1, <2>2 DEF TypeOK
  <2>. QED
    BY <1>1, <2>1, <2>3 DEF TypeOK, gate, mode
<1>5. ASSUME Finish(p) \/ LaunchFails(p) \/ Timeout(p) PROVE TypeOK'
  <2>1. pass' \in [Pass -> PassState]
    BY <1>5, PassTypes DEF TypeOK, Finish, LaunchFails, Timeout, Return
  <2>2. NoScript \in ScriptState /\ [script[p] EXCEPT !.stray = TRUE] \in ScriptState
    BY <1>0 DEF ScriptState, NoScript
  <2>3. script' \in [Pass -> ScriptState]
    BY <1>5, <2>2 DEF TypeOK, Finish, LaunchFails, Timeout
  <2>. QED
    BY <1>5, <2>1, <2>3 DEF TypeOK, Finish, LaunchFails, Timeout, Return, mode
<1>. QED
  BY <1>1, <1>2, <1>3, <1>4, <1>5 DEF PassStep

\* No step of a script, no stop of a VM and no restart leaves the types.
LEMMA OtherKeepsTypes ==
    ASSUME TypeOK, Placed,
           \/ \E p \in Pass : ScriptStep(p)
           \/ \E d \in Disk : StopVm(d) \/ LateStart(d)
           \/ Restart \/ UNCHANGED vars
    PROVE  TypeOK' /\ Placed'
<1>1. ASSUME NEW p \in Pass, ScriptStep(p) PROVE TypeOK' /\ Placed'
  <2>. DEFINE s == script[p]
  <2>0. s \in ScriptState /\ open \in SUBSET Disk
    BY DEF TypeOK
  <2>1. Placed'
    BY <1>1 DEF ScriptStep, ScriptStart, ScriptNext, ScriptCheck, ScriptDone, ScriptExit, Placed
  <2>2. ASSUME NEW t \in ScriptState, Script(p, t) PROVE script' \in [Pass -> ScriptState]
    BY <2>2 DEF Script, TypeOK
  <2>3. ASSUME Unlock(p) PROVE flock' \in [Disk -> Boot \cup Pass \cup {Free}]
    BY <2>3 DEF Unlock, TypeOK
  <2>4. CASE ScriptStart(p)
    <3>1. [s EXCEPT !.ph = "loop", !.todo = Disk, !.snap = open] \in ScriptState
      BY <2>0 DEF ScriptState
    <3>2. script' \in [Pass -> ScriptState]
      BY <2>2, <2>4, <3>1 DEF ScriptStart
    <3>3. marker' \in BOOLEAN
      BY <2>4 DEF ScriptStart
    <3>. QED
      BY <2>1, <2>4, <3>2, <3>3 DEF TypeOK, ScriptStart, gate
  <2>5. ASSUME NEW d \in Disk, ScriptNext(p, d) PROVE TypeOK'
    <3>1. /\ [s EXCEPT !.todo = @ \ {d}] \in ScriptState
          /\ [s EXCEPT !.ph = "check", !.disk = d] \in ScriptState
      BY <2>0 DEF ScriptState
    <3>2. script' \in [Pass -> ScriptState]
      BY <2>2, <2>5, <3>1 DEF ScriptNext
    <3>. QED
      BY <2>5, <3>2 DEF TypeOK, ScriptNext, gate, mode
  <2>6. ASSUME ScriptCheck(p) \/ ScriptDone(p) PROVE TypeOK'
    <3>1. /\ [s EXCEPT !.ph = "work"] \in ScriptState
          /\ [s EXCEPT !.ph = "loop", !.todo = @ \ {s.disk}, !.disk = Free] \in ScriptState
      BY <2>0 DEF ScriptState
    <3>2. script' \in [Pass -> ScriptState]
      BY <2>2, <2>6, <3>1 DEF ScriptCheck, ScriptDone
    <3>3. flock' \in [Disk -> Boot \cup Pass \cup {Free}]
      BY <2>3, <2>6 DEF ScriptCheck, ScriptDone, TypeOK
    <3>. QED
      BY <2>6, <3>2, <3>3 DEF TypeOK, ScriptCheck, ScriptDone, gate, mode
  <2>7. CASE ScriptExit(p)
    <3>1. [NoScript EXCEPT !.ph = IF s.stray THEN "none" ELSE "exit"] \in ScriptState
      BY DEF ScriptState, NoScript
    <3>2. script' \in [Pass -> ScriptState]
      BY <2>2, <2>7, <3>1 DEF ScriptExit
    <3>3. flock' \in [Disk -> Boot \cup Pass \cup {Free}]
      BY <2>3, <2>7 DEF ScriptExit
    <3>4. UNCHANGED <<mode, stop, notify, gate, boot, running, pass, open, under, unattended, faults>>
      BY <2>7 DEF ScriptExit
    <3>. QED
      BY <2>1, <3>2, <3>3, <3>4 DEF TypeOK, gate, mode
  <2>. QED
    BY <1>1, <2>1, <2>4, <2>5, <2>6, <2>7 DEF ScriptStep
<1>2. ASSUME NEW d \in Disk, StopVm(d) \/ LateStart(d) PROVE TypeOK' /\ Placed'
  BY <1>2 DEF TypeOK, Placed, StopVm, LateStart, gate, mode
<1>3. CASE Restart
  <2>1. boot' \in [Boot -> BootState] /\ Placed'
    BY <1>3, BootTypes DEF Restart, Placed
  <2>2. pass' \in [Pass -> PassState]
    BY <1>3, PassTypes DEF Restart
  <2>3. \A p \in Pass : NoScript \in ScriptState /\ [script[p] EXCEPT !.stray = TRUE] \in ScriptState
    BY DEF TypeOK, ScriptState, NoScript
  <2>4. script' \in [Pass -> ScriptState]
    BY <1>3, <2>3 DEF Restart
  <2>5. flock' \in [Disk -> Boot \cup Pass \cup {Free}]
    BY <1>3 DEF TypeOK, Restart
  <2>6. queue' \in Seq(Boot \cup Pass) /\ faults' \in Nat /\ readers' \subseteq Boot /\ writer' = 0
    BY <1>3, EmptySeq DEF TypeOK, Restart
  <2>7. notify' \in BOOLEAN /\ running' \in BOOLEAN /\ perDisk' \in BOOLEAN
    BY <1>3 DEF TypeOK, Restart
  <2>8. unattended' \subseteq Disk
    BY <1>3 DEF TypeOK, Restart, Placed
  <2>. QED
    BY <1>3, <2>1, <2>2, <2>4, <2>5, <2>6, <2>7, <2>8 DEF TypeOK, Restart
<1>4. CASE UNCHANGED vars
  BY <1>4 DEF TypeOK, Placed, vars, gate, mode
<1>. QED
  BY <1>1, <1>2, <1>3, <1>4

-----------------------------------------------------------------------------
(* The queue of the gate. *)

\* A newcomer joins at the end, and is the only new one.
LEMMA JoinQueue ==
    ASSUME NEW S, NEW q \in Seq(S), Distinct(q), NEW x \in S, \A i \in DOMAIN q : q[i] # x
    PROVE  /\ Distinct(Append(q, x))
           /\ \A i \in DOMAIN Append(q, x) :
                  Append(q, x)[i] = x \/ \E j \in DOMAIN q : Append(q, x)[i] = q[j]
<1>. DEFINE r == Append(q, x)
<1>1. /\ DOMAIN q = 1..Len(q) /\ Len(q) \in Nat /\ r \in Seq(S) /\ Len(r) = Len(q) + 1
      /\ \A i \in 1..Len(q) : r[i] = q[i]
      /\ r[Len(q) + 1] = x
  BY LenProperties, AppendProperties
<1>2. DOMAIN r = 1..(Len(q) + 1)
  BY <1>1, LenProperties
<1>. HIDE DEF r
<1>. QED
  BY <1>1, <1>2 DEF Distinct, r

\* The first one is served and waits no longer; the others do.
LEMMA ServeQueue ==
    ASSUME NEW S, NEW q \in Seq(S), Distinct(q), q # <<>>
    PROVE  /\ 1 \in DOMAIN q /\ Head(q) = q[1]
           /\ Distinct(Tail(q))
           /\ \A i \in DOMAIN Tail(q) :
                  Tail(q)[i] # Head(q) /\ \E j \in DOMAIN q : Tail(q)[i] = q[j]
<1>. DEFINE r == Tail(q)
<1>1. /\ DOMAIN q = 1..Len(q) /\ Len(q) \in Nat \ {0} /\ r \in Seq(S) /\ Len(r) = Len(q) - 1
      /\ \A i \in 1..Len(r) : r[i] = q[i + 1]
  BY LenProperties, EmptySeq, HeadTailProperties
<1>2. DOMAIN r = 1..(Len(q) - 1)
  BY <1>1, LenProperties
<1>3. 1 \in DOMAIN q /\ Head(q) = q[1]
  BY <1>1
<1>. HIDE DEF r
<1>. QED
  BY <1>1, <1>2, <1>3 DEF Distinct, r

\* One gives up and waits no longer; the others do.
LEMMA LeaveQueue ==
    ASSUME NEW S, NEW q \in Seq(S), Distinct(q), NEW k \in DOMAIN q
    PROVE  /\ Distinct(RemoveAt(q, k))
           /\ \A i \in DOMAIN RemoveAt(q, k) :
                  RemoveAt(q, k)[i] # q[k] /\ \E j \in DOMAIN q : RemoveAt(q, k)[i] = q[j]
<1>. DEFINE r == RemoveAt(q, k)
<1>1. /\ DOMAIN q = 1..Len(q) /\ Len(q) \in Nat /\ r \in Seq(S) /\ Len(r) = Len(q) - 1
      /\ \A j \in 1..(Len(q) - 1) : r[j] = IF j < k THEN q[j] ELSE q[j + 1]
  BY LenProperties, RemoveAtProperties
<1>2. DOMAIN r = 1..(Len(q) - 1)
  BY <1>1, LenProperties
<1>. HIDE DEF r
<1>. DEFINE old(j) == IF j < k THEN j ELSE j + 1
<1>3. \A j \in DOMAIN r : old(j) \in DOMAIN q /\ r[j] = q[old(j)] /\ old(j) # k
  BY <1>1, <1>2
<1>4. \A i, j \in DOMAIN r : old(i) = old(j) => i = j
  BY <1>1, <1>2
<1>. HIDE DEF old
<1>. QED
  BY <1>3, <1>4 DEF Distinct, r

-----------------------------------------------------------------------------
(* Boots keep the invariant. *)

\* What a boot that moves to another phase leaves alone.
LEMMA Moved ==
    ASSUME TypeOK, NEW b \in Boot, NEW ph, NEW d, NEW permit, At(b, ph, d, permit)
    PROVE  /\ boot'[b].ph = ph /\ boot'[b].disk = d /\ boot'[b].permit = permit
           /\ \A x \in Boot \ {b} : boot'[x] = boot[x]
BY DEF At, TypeOK

\* The parts that speak of passes and scripts only.
LEMMA PassFrame ==
    ASSUME IInv, UNCHANGED <<stop, pass, script, open, under>>
    PROVE  Snapshots' /\ NoBootOverTrim' /\ StopIsForThisPass'
BY DEF IInv, Snapshots, NoBootOverTrim, StopIsForThisPass, Trimming

\* A boot that waits or sets out is in nobody's way: it holds nothing.
LEMMA HoldsNothing ==
    ASSUME IInv, NEW b \in Boot, boot[b].ph \in {"idle", "poll", "queued"}
    PROVE  /\ b \notin readers /\ boot[b].permit = "none" /\ \A d \in Disk : flock[d] # b
           /\ boot[b].ph # "queued" => \A i \in DOMAIN queue : queue[i] # b
BY DEF IInv, Permits, Queue

\* A boot takes its disk's lock.
LEMMA LockedKeeps ==
    ASSUME IInv, NEW b \in Boot, boot[b].ph \in {"idle", "poll"}, NEW d \in Disk, Locked(b, d),
           UNCHANGED <<mode, stop, running, pass, script, open, under>>, TypeOK' /\ Placed'
    PROVE  IInv'
<1>1. /\ boot'[b].ph = "slot" /\ boot'[b].disk = d /\ boot'[b].permit = "lock"
      /\ \A x \in Boot \ {b} : boot'[x] = boot[x]
  BY Moved DEF IInv, Locked
<1>2. /\ b \notin readers /\ boot[b].permit = "none" /\ \A e \in Disk : flock[e] # b
      /\ \A i \in DOMAIN queue : queue[i] # b
  BY HoldsNothing
<1>3. /\ UNCHANGED <<readers, writer, queue, stop, pass, script, running, open, under>>
      /\ flock[d] = Free /\ flock'[d] = b /\ \A e \in Disk \ {d} : flock'[e] = flock[e]
  BY DEF Locked, IInv, TypeOK, gate
<1>4. Queue'
  BY <1>1, <1>2, <1>3 DEF IInv, Queue
<1>5. Permits'
  BY <1>1, <1>2, <1>3, Parties DEF IInv, Permits, Placed
<1>6. Scripts'
  BY <1>3, Parties DEF IInv, Scripts
<1>7. Gate'
  BY <1>3 DEF IInv, Gate
<1>. QED
  BY <1>3, <1>4, <1>5, <1>6, <1>7, PassFrame DEF IInv

\* A boot takes the read side of the gate.
LEMMA GateReadKeeps ==
    ASSUME IInv, NEW b \in Boot, NEW d \in Disk, boot[b].ph \in {"idle", "poll", "queued"},
           At(b, "slot", d, "gate"), writer = 0, readers' = readers \cup {b},
           \A i \in DOMAIN queue' : queue'[i] # b /\ \E j \in DOMAIN queue : queue'[i] = queue[j],
           Distinct(queue'),
           UNCHANGED <<stop, writer, flock, running, pass, script, open, under>>, TypeOK' /\ Placed'
    PROVE  IInv'
<1>1. /\ boot'[b].ph = "slot" /\ boot'[b].disk = d /\ boot'[b].permit = "gate"
      /\ \A x \in Boot \ {b} : boot'[x] = boot[x]
  BY Moved DEF IInv
<1>2. b \notin readers /\ boot[b].permit = "none" /\ \A e \in Disk : flock[e] # b
  BY HoldsNothing
<1>3. Queue'
  BY <1>1, Parties DEF IInv, Queue
<1>4. Permits'
  BY <1>1, <1>2 DEF IInv, Permits
<1>5. Scripts' /\ Gate'
  BY DEF IInv, Scripts, Gate
<1>. QED
  BY <1>3, <1>4, <1>5, PassFrame DEF IInv

\* A boot polls a lock or waits in the queue.
LEMMA WaitKeeps ==
    ASSUME IInv, NEW b \in Boot, NEW d \in Disk, boot[b].ph \in {"idle", "poll"},
           \/ At(b, "poll", d, "none") /\ UNCHANGED queue
           \/ At(b, "queued", d, "none") /\ queue' = Append(queue, b),
           UNCHANGED <<stop, readers, writer, flock, running, pass, script, open, under>>,
           TypeOK' /\ Placed'
    PROVE  IInv'
<1>1. /\ boot'[b].ph \in {"poll", "queued"} /\ boot'[b].permit = "none"
      /\ \A x \in Boot \ {b} : boot'[x] = boot[x]
  BY Moved DEF IInv
<1>2. /\ b \notin readers /\ boot[b].permit = "none" /\ \A e \in Disk : flock[e] # b
      /\ \A i \in DOMAIN queue : queue[i] # b
  BY HoldsNothing
<1>3. Queue'
  <2>1. CASE queue' = queue
    BY <1>1, <1>2, <2>1 DEF IInv, Queue
  <2>2. CASE At(b, "queued", d, "none") /\ queue' = Append(queue, b)
    <3>1. boot'[b].ph = "queued"
      BY <2>2, Moved DEF IInv
    <3>2. queue \in Seq(Boot \cup Pass) /\ Distinct(queue)
      BY DEF IInv, TypeOK, Queue
    <3>3. /\ Distinct(queue')
          /\ \A i \in DOMAIN queue' : queue'[i] = b \/ \E j \in DOMAIN queue : queue'[i] = queue[j]
      BY <1>2, <2>2, <3>2, JoinQueue
    <3>. QED
      BY <1>1, <3>1, <3>3, Parties DEF IInv, Queue
  <2>. QED
    BY <2>1, <2>2
<1>4. Permits'
  BY <1>1, <1>2 DEF IInv, Permits
<1>5. Scripts' /\ Gate'
  BY DEF IInv, Scripts, Gate
<1>. QED
  BY <1>3, <1>4, <1>5, PassFrame DEF IInv

\* The end of a permit, whatever the daemon makes of the start.
LEMMA DropKeeps ==
    ASSUME IInv, NEW b \in Boot, boot[b].ph \in {"slot", "start"}, DropPermit(b),
           UNCHANGED <<writer, queue, stop, pass, script, running>>
    PROVE  Queue' /\ Permits' /\ Scripts' /\ Gate' /\ StopIsForThisPass'
<1>1. /\ boot'[b].ph = "idle" /\ boot'[b].permit = "none"
      /\ \A x \in Boot \ {b} : boot'[x] = boot[x]
  BY DEF IInv, TypeOK, DropPermit, IdleBoot
<1>2. /\ readers' = readers \ {b}
      /\ \A e \in Disk : flock'[e] = IF flock[e] = b THEN Free ELSE flock[e]
  BY DEF DropPermit, IInv, TypeOK
<1>3. Queue'
  BY <1>1 DEF IInv, Queue
<1>4. Permits'
  BY <1>1, <1>2, Parties DEF IInv, Permits, Placed
<1>5. Scripts'
  BY <1>2, Parties DEF IInv, Scripts
<1>6. Gate'
  BY <1>2 DEF IInv, Gate
<1>. QED
  BY <1>3, <1>4, <1>5, <1>6 DEF IInv, StopIsForThisPass

\* start() returns.  Under the disk's lock no script that takes locks is at the
\* disk; under the gate no pass runs, so that every script is a stray.
LEMMA StartKeeps ==
    ASSUME IInv, NEW b \in Boot, Start(b), TypeOK' /\ Placed'
    PROVE  IInv'
<1>. DEFINE d == boot[b].disk
<1>1. d \in Disk /\ boot[b].permit \in {"lock", "gate"}
  <2>1. boot[b].ph = "start" /\ boot[b] \in BootState
    BY DEF IInv, TypeOK, Start
  <2>2. boot[b].permit # "none" /\ d \in Disk
    BY <2>1 DEF IInv, Permits, Placed
  <2>. QED
    BY <2>1, <2>2 DEF BootState
<1>2. UNCHANGED <<writer, queue, stop, pass, script, running>>
  BY DEF Start
<1>3. Queue' /\ Permits' /\ Scripts' /\ Gate' /\ StopIsForThisPass'
  BY <1>2, DropKeeps DEF Start
<1>8. ASSUME NEW p \in Pass
      PROVE  /\ boot[b].permit = "gate" /\ script[p].ph # "none" => script[p].stray
             /\ boot[b].permit = "lock" /\ Trimming(p, d) => ~script[p].locks
  <2>1. boot[b].permit = "gate" => writer = 0
    BY DEF IInv, Permits, Gate
  <2>2. writer = 0 => pass[p].ph # "run"
    BY Parties DEF IInv, Gate
  <2>3. boot[b].permit = "lock" => flock[d] = b
    BY DEF IInv, Permits
  <2>. QED
    BY <2>1, <2>2, <2>3, Parties DEF IInv, Scripts, Trimming
<1>9. CASE UNCHANGED <<open, under>>
  BY <1>2, <1>3, <1>9, PassFrame DEF IInv
<1>10. CASE d \notin open /\ open' = open \cup {d} /\ under' = [under EXCEPT ![d] = boot[b].permit]
  <2>1. under'[d] = boot[b].permit /\ \A e \in open : under'[e] = under[e]
    BY <1>1, <1>10 DEF IInv, TypeOK
  <2>2. Snapshots'
    BY <1>1, <1>2, <1>8, <1>10, <2>1 DEF IInv, Snapshots
  <2>3. NoBootOverTrim'
    <3>. SUFFICES ASSUME NEW p \in Pass, NEW e \in Disk, Trimming(p, e), e \in open'
                  PROVE  \/ under'[e] = "lock" /\ ~script[p].locks
                         \/ under'[e] = "gate" /\ script[p].stray
                         \/ under'[e] = "late"
      BY <1>2 DEF NoBootOverTrim, Trimming
    <3>1. CASE e = d
      BY <1>1, <1>8, <2>1, <3>1 DEF Trimming
    <3>2. CASE e # d
      BY <1>10, <2>1, <3>2 DEF IInv, NoBootOverTrim
    <3>. QED
      BY <3>1, <3>2
  <2>. QED
    BY <1>3, <2>2, <2>3 DEF IInv
<1>. QED
  BY <1>9, <1>10 DEF Start

\* Every step of a boot.
LEMMA BootKeeps ==
    ASSUME IInv, NEW b \in Boot, BootStep(b)
    PROVE  IInv'
<1>0. TypeOK' /\ Placed'
  BY BootKeepsTypes DEF IInv
<1>1. ASSUME NEW d \in Disk, boot[b].ph \in {"idle", "poll"}, Gated(b, d),
             UNCHANGED <<mode, stop, running, pass, script, open, under>>
      PROVE  IInv'
  <2>1. CASE try_read /\ readers' = readers \cup {b} /\ At(b, "slot", d, "gate")
             /\ UNCHANGED <<writer, queue, notify>>
    <3>1. \A i \in DOMAIN queue : queue[i] # b
      BY <1>1, HoldsNothing
    <3>2. Distinct(queue) /\ writer = 0
      BY <2>1 DEF IInv, Queue, try_read
    <3>. QED
      BY <1>0, <1>1, <2>1, <3>1, <3>2, GateReadKeeps DEF Gated
  <2>2. CASE queue' = Append(queue, b) /\ At(b, "queued", d, "none") /\ UNCHANGED <<readers, writer>>
    BY <1>0, <1>1, <2>2, WaitKeeps DEF Gated
  <2>. QED
    BY <1>1, <2>1, <2>2 DEF Gated
<1>2. ASSUME NEW d \in Disk, acquire(b, d) PROVE IInv'
  <2>1. CASE Locked(b, d)
    BY <1>0, <1>2, <2>1, LockedKeeps DEF acquire
  <2>2. CASE Gated(b, d)
    BY <1>1, <1>2, <2>2 DEF acquire
  <2>3. CASE At(b, "poll", d, "none") /\ UNCHANGED <<gate, flock, faults>>
    BY <1>0, <1>2, <2>3, WaitKeeps DEF acquire, gate
  <2>. QED
    BY <1>2, <2>1, <2>2, <2>3 DEF acquire, LockUnusable
<1>3. ASSUME TryFlock(b) \/ FlockFails(b) PROVE IInv'
  <2>. DEFINE d == boot[b].disk
  <2>1. d \in Disk /\ boot[b].ph = "poll"
    BY <1>3 DEF TryFlock, FlockFails, IInv, Placed
  <2>2. Locked(b, d) \/ Gated(b, d)
    BY <1>3 DEF TryFlock, FlockFails, LockUnusable
  <2>3. UNCHANGED <<mode, stop, running, pass, script, open, under>>
    BY <1>3 DEF TryFlock, FlockFails
  <2>. HIDE DEF d
  <2>. QED
    BY <1>0, <1>1, <2>1, <2>2, <2>3, LockedKeeps
<1>4. CASE GrantRead(b)
  <2>. DEFINE d == boot[b].disk
  <2>1. queue \in Seq(Boot \cup Pass) /\ Distinct(queue) /\ queue # <<>>
    BY <1>4 DEF GrantRead, IInv, TypeOK, Queue
  <2>2. /\ 1 \in DOMAIN queue /\ queue[1] = b /\ Distinct(queue')
        /\ \A i \in DOMAIN queue' : queue'[i] # b /\ \E j \in DOMAIN queue : queue'[i] = queue[j]
    BY <1>4, <2>1, ServeQueue DEF GrantRead
  <2>3. boot[b].ph = "queued" /\ d \in Disk
    BY <2>2 DEF IInv, Queue, Placed
  <2>4. At(b, "slot", d, "gate")
    BY <1>4 DEF GrantRead
  <2>. HIDE DEF d
  <2>. QED
    BY <1>0, <1>4, <2>2, <2>3, <2>4, GateReadKeeps DEF GrantRead
<1>5. CASE Abandon(b)
  <2>1. /\ boot'[b].ph = "idle" /\ boot'[b].permit = "none" /\ \A x \in Boot \ {b} : boot'[x] = boot[x]
    BY <1>5 DEF Abandon, IdleBoot, IInv, TypeOK
  <2>2. b \notin readers /\ boot[b].permit = "none" /\ \A d \in Disk : flock[d] # b
    BY <1>5, HoldsNothing DEF Abandon
  <2>3. /\ Distinct(queue')
        /\ \A i \in DOMAIN queue' : queue'[i] # b /\ \E j \in DOMAIN queue : queue'[i] = queue[j]
    <3>1. CASE boot[b].ph = "poll" /\ UNCHANGED queue
      <4>1. \A i \in DOMAIN queue : queue[i] # b
        BY <3>1, HoldsNothing
      <4>. QED
        BY <3>1, <4>1 DEF IInv, Queue
    <3>2. ASSUME NEW k \in DOMAIN queue, queue[k] = b, queue' = RemoveAt(queue, k)
          PROVE  /\ Distinct(queue')
                 /\ \A i \in DOMAIN queue' : queue'[i] # b /\ \E j \in DOMAIN queue : queue'[i] = queue[j]
      <4>1. queue \in Seq(Boot \cup Pass) /\ Distinct(queue)
        BY DEF IInv, TypeOK, Queue
      <4>. QED
        BY <3>2, <4>1, LeaveQueue
    <3>. QED
      BY <1>5, <3>1, <3>2 DEF Abandon
  <2>4. Queue'
    BY <1>5, <2>1, <2>3, Parties DEF Abandon, IInv, Queue
  <2>5. Permits'
    BY <1>5, <2>1, <2>2 DEF Abandon, IInv, Permits
  <2>6. Scripts' /\ Gate'
    BY <1>5 DEF Abandon, IInv, Scripts, Gate
  <2>. QED
    BY <1>0, <1>5, <2>4, <2>5, <2>6, PassFrame DEF Abandon, IInv
<1>6. CASE bringup_slot(b)
  <2>1. /\ boot'[b].ph = "start" /\ boot'[b].disk = boot[b].disk /\ boot'[b].permit = boot[b].permit
        /\ \A x \in Boot \ {b} : boot'[x] = boot[x]
    BY <1>6, Moved DEF bringup_slot, IInv
  <2>2. UNCHANGED <<stop, readers, writer, queue, flock, running, pass, script, open, under>>
    BY <1>6 DEF bringup_slot, gate
  <2>3. boot[b].ph = "slot"
    BY <1>6 DEF bringup_slot
  <2>4. Queue'
    BY <2>1, <2>2, <2>3 DEF IInv, Queue
  <2>5. Permits'
    BY <2>1, <2>2, <2>3 DEF IInv, Permits
  <2>6. Scripts' /\ Gate'
    BY <2>2 DEF IInv, Scripts, Gate
  <2>. QED
    BY <1>0, <2>2, <2>4, <2>5, <2>6, PassFrame DEF IInv
<1>7. CASE Start(b)
  BY <1>0, <1>7, StartKeeps
<1>8. CASE GiveUp(b)
  BY <1>0, <1>8, DropKeeps, PassFrame DEF GiveUp, IInv
<1>. QED
  BY <1>2, <1>3, <1>4, <1>5, <1>6, <1>7, <1>8 DEF BootStep

-----------------------------------------------------------------------------
(* Passes and scripts keep the invariant. *)

\* A pass returns: the gate is given back, and its script is over or a stray that
\* nobody can stop any more.
LEMMA ReturnKeeps ==
    ASSUME IInv, NEW p \in Pass, pass[p].ph = "run", Return(p),
           \/ /\ script[p].ph \in {"start", "exit"}
              /\ script' = [script EXCEPT ![p] = NoScript]
           \/ script' = [script EXCEPT ![p].stray = TRUE],
           UNCHANGED <<readers, queue, flock, boot, open, under>>, TypeOK' /\ Placed'
    PROVE  IInv'
<1>1. /\ pass'[p].ph = "done" /\ \A q \in Pass \ {p} : pass'[q] = pass[q]
      /\ writer' = 0 /\ ~running' /\ ~stop'
  BY DEF Return, IInv, TypeOK
<1>2. /\ \A q \in Pass \ {p} : script'[q] = script[q]
      /\ \/ script'[p] = NoScript /\ script[p].ph \in {"start", "exit"}
         \/ script'[p] = [script[p] EXCEPT !.stray = TRUE]
  BY DEF IInv, TypeOK
<1>3. \A q \in Pass \ {p} : pass[q].ph \notin {"queued", "run"}
  BY DEF IInv, Gate
<1>4. script[p] \in ScriptState
  BY DEF IInv, TypeOK
<1>5. Queue'
  BY <1>1 DEF IInv, Queue
<1>6. Permits'
  BY DEF IInv, Permits
<1>7. Scripts'
  BY <1>1, <1>2, <1>4 DEF IInv, Scripts, NoScript, ScriptState
<1>8. Gate'
  BY <1>1, <1>3 DEF IInv, Gate
<1>9. Snapshots'
  BY <1>2, <1>4 DEF IInv, Snapshots, NoScript, ScriptState
<1>10. NoBootOverTrim'
  BY <1>2, <1>4 DEF IInv, NoBootOverTrim, Trimming, NoScript, ScriptState, Snapshots
<1>11. StopIsForThisPass'
  BY <1>1 DEF StopIsForThisPass
<1>. QED
  BY <1>5, <1>6, <1>7, <1>8, <1>9, <1>10, <1>11 DEF IInv

\* Every step of a pass.
LEMMA PassKeeps ==
    ASSUME IInv, NEW p \in Pass, PassStep(p)
    PROVE  IInv'
<1>. DEFINE waiting == boots_waiting # {}
<1>0. TypeOK' /\ Placed' /\ waiting \in BOOLEAN
  BY PassKeepsTypes DEF IInv
<1>1. CASE run_once(p)
  <2>1. /\ pass[p].ph = "none" /\ ~running /\ running' /\ pass'[p].ph = "queued"
        /\ pass'[p].yielding = pass[p].yielding
        /\ \A q \in Pass \ {p} : pass'[q] = pass[q]
        /\ UNCHANGED <<stop, readers, writer, flock, boot, script, open, under>>
    BY <1>1 DEF run_once, IInv, TypeOK, PassState
  <2>2. Queue'
    <3>1. queue \in Seq(Boot \cup Pass) /\ Distinct(queue) /\ \A i \in DOMAIN queue : queue[i] # p
      BY <2>1 DEF IInv, TypeOK, Queue
    <3>2. /\ Distinct(queue')
          /\ \A i \in DOMAIN queue' : queue'[i] = p \/ \E j \in DOMAIN queue : queue'[i] = queue[j]
      BY <1>1, <3>1, JoinQueue DEF run_once
    <3>. QED
      BY <2>1, <3>2, Parties DEF IInv, Queue
  <2>3. Permits'
    BY <2>1 DEF IInv, Permits
  <2>4. Scripts'
    BY <2>1 DEF IInv, Scripts
  <2>5. Gate'
    <3>1. \A q \in Pass : pass[q].ph \notin {"queued", "run"}
      BY <2>1 DEF IInv, Gate
    <3>2. writer = 0
      BY <3>1 DEF IInv, Gate, TypeOK
    <3>. QED
      BY <2>1, <3>1, <3>2 DEF Gate
  <2>6. Snapshots' /\ NoBootOverTrim' /\ StopIsForThisPass'
    BY <2>1 DEF IInv, Snapshots, NoBootOverTrim, Trimming, StopIsForThisPass
  <2>. QED
    BY <1>0, <2>2, <2>3, <2>4, <2>5, <2>6 DEF IInv
<1>2. ASSUME NEW locks \in BOOLEAN, Launch(p, locks) PROVE IInv'
  <2>1. /\ queue # <<>> /\ Head(queue) = p /\ writer = 0 /\ readers = {} /\ queue' = Tail(queue)
        /\ writer' = p /\ stop' = waiting
        /\ UNCHANGED <<readers, flock, boot, running, open, under>>
        /\ pass' = [pass EXCEPT ![p] = [ph |-> "run", yielding |-> waiting]]
    BY <1>2 DEF Launch
  <2>. HIDE DEF waiting
  <2>2. /\ pass'[p].ph = "run" /\ pass'[p].yielding = waiting
        /\ \A q \in Pass \ {p} : pass'[q] = pass[q]
    BY <2>1 DEF IInv, TypeOK
  <2>3. /\ script'[p].ph = "start" /\ \A q \in Pass \ {p} : script'[q] = script[q]
    BY <1>2 DEF Launch, NoScript, IInv, TypeOK
  <2>4. /\ 1 \in DOMAIN queue /\ queue[1] = p /\ Distinct(queue')
        /\ \A i \in DOMAIN queue' : queue'[i] # p /\ \E j \in DOMAIN queue : queue'[i] = queue[j]
    <3>1. queue \in Seq(Boot \cup Pass) /\ Distinct(queue)
      BY DEF IInv, TypeOK, Queue
    <3>. QED
      BY <2>1, <3>1, ServeQueue
  <2>5. /\ pass[p].ph = "queued" /\ script[p].ph = "none" /\ running
        /\ \A q \in Pass \ {p} : pass[q].ph \notin {"queued", "run"}
    BY <2>4 DEF IInv, Queue, Scripts, Gate
  <2>6. Queue'
    BY <2>1, <2>2, <2>4, Parties DEF IInv, Queue
  <2>7. Permits'
    BY <2>1 DEF IInv, Permits
  <2>8. Scripts'
    BY <2>1, <2>2, <2>3, <2>5 DEF IInv, Scripts
  <2>9. Gate'
    BY <2>1, <2>2, <2>5 DEF IInv, Gate
  <2>10. Snapshots'
    BY <2>1, <2>3 DEF IInv, Snapshots
  <2>11. NoBootOverTrim'
    BY <2>1, <2>3 DEF IInv, NoBootOverTrim, Trimming
  <2>12. StopIsForThisPass'
    BY <2>1, <2>2, <2>5 DEF StopIsForThisPass
  <2>. QED
    BY <1>0, <2>6, <2>7, <2>8, <2>9, <2>10, <2>11, <2>12 DEF IInv
<1>3. CASE Preempt(p)
  <2>1. /\ pass[p].ph = "run" /\ ~pass[p].yielding /\ stop' = (stop \/ waiting)
        /\ pass' = [pass EXCEPT ![p].yielding = waiting]
        /\ UNCHANGED <<readers, writer, queue, flock, boot, running, script, open, under>>
    BY <1>3 DEF Preempt, gate
  <2>. HIDE DEF waiting
  <2>2. /\ pass'[p].ph = "run" /\ pass'[p].yielding = waiting
        /\ \A q \in Pass \ {p} : pass'[q] = pass[q]
    BY <2>1 DEF IInv, TypeOK, PassState
  <2>3. ~stop /\ \A q \in Pass \ {p} : pass[q].ph # "run"
    BY <2>1 DEF IInv, StopIsForThisPass, Gate
  <2>4. Queue' /\ Permits' /\ Scripts' /\ Gate'
    BY <2>1, <2>2 DEF IInv, Queue, Permits, Scripts, Gate
  <2>5. Snapshots' /\ NoBootOverTrim'
    BY <2>1 DEF IInv, Snapshots, NoBootOverTrim, Trimming
  <2>6. StopIsForThisPass'
    BY <2>1, <2>2, <2>3 DEF StopIsForThisPass
  <2>. QED
    BY <1>0, <2>4, <2>5, <2>6 DEF IInv
<1>4. ASSUME Finish(p) \/ LaunchFails(p) \/ Timeout(p) PROVE IInv'
  BY <1>0, <1>4, ReturnKeeps DEF Finish, LaunchFails, Timeout
<1>. QED
  BY <1>1, <1>2, <1>3, <1>4 DEF PassStep

\* A step of a script, apart from its start, puts the script in another phase; it
\* frees what it held, and takes a lock only when it moves to a disk.
LEMMA ScriptKeeps ==
    ASSUME IInv, NEW p \in Pass, ScriptStep(p)
    PROVE  IInv'
<1>. DEFINE s == script[p]
<1>0. TypeOK' /\ Placed'
  BY OtherKeepsTypes DEF IInv
<1>1. /\ s \in ScriptState /\ s.snap \subseteq Disk /\ s.stray \in BOOLEAN
      /\ \A d \in Disk : flock[d] = p => s.ph \in {"check", "work"} /\ s.disk = d
      /\ s.ph # "none" /\ ~s.stray => pass[p].ph = "run"
      /\ pass[p].ph \in {"none", "queued"} => s.ph = "none"
  BY DEF IInv, TypeOK, ScriptState, Scripts
<1>2. UNCHANGED <<stop, readers, writer, queue, boot, running, pass, open, under>>
  BY DEF ScriptStep, ScriptStart, ScriptNext, ScriptCheck, ScriptDone, ScriptExit, gate
<1>3. Queue' /\ Gate' /\ StopIsForThisPass'
  BY <1>2 DEF IInv, Queue, Gate, StopIsForThisPass
<1>4. ASSUME NEW t, Script(p, t) PROVE script'[p] = t /\ \A q \in Pass \ {p} : script'[q] = script[q]
  BY <1>4 DEF Script, IInv, TypeOK
<1>5. CASE ScriptStart(p)
  <2>1. /\ s.ph = "start" /\ UNCHANGED flock
        /\ script'[p].ph = "loop" /\ script'[p].stray = s.stray /\ script'[p].snap = open
        /\ \A q \in Pass \ {p} : script'[q] = script[q]
    BY <1>1, <1>5 DEF ScriptStart, Script, ScriptState, IInv, TypeOK
  <2>2. Permits'
    BY <1>2, <2>1 DEF IInv, Permits
  <2>3. Scripts'
    BY <1>1, <1>2, <2>1 DEF IInv, Scripts
  <2>4. Snapshots'
    BY <1>2, <2>1 DEF IInv, Snapshots
  <2>5. NoBootOverTrim'
    BY <1>2, <2>1 DEF IInv, NoBootOverTrim, Trimming
  <2>. QED
    BY <1>0, <1>3, <2>2, <2>3, <2>4, <2>5 DEF IInv
<1>6. ASSUME NEW d \in Disk, ScriptNext(p, d) PROVE IInv'
  <2>1. /\ s.ph = "loop" /\ \A e \in Disk : flock[e] # p
    BY <1>1, <1>6 DEF ScriptNext
  <2>a. /\ \A q \in Pass \ {p} : script'[q] = script[q]
        /\ \/ script'[p] = [s EXCEPT !.todo = @ \ {d}] /\ UNCHANGED flock
           \/ /\ script'[p] = [s EXCEPT !.ph = "check", !.disk = d]
              /\ s.locks => flock[d] = Free
              /\ flock' = IF s.locks THEN [flock EXCEPT ![d] = p] ELSE flock
    BY <1>4, <1>6 DEF ScriptNext
  <2>2. /\ \A q \in Pass \ {p} : script'[q] = script[q]
        /\ script'[p].stray = s.stray /\ script'[p].snap = s.snap /\ script'[p].locks = s.locks
    BY <1>1, <2>a DEF ScriptState
  <2>3. \/ script'[p].ph = "loop" /\ UNCHANGED flock
        \/ /\ script'[p].ph = "check" /\ script'[p].disk = d
           /\ \/ ~s.locks /\ UNCHANGED flock
              \/ flock[d] = Free /\ flock'[d] = p /\ \A e \in Disk \ {d} : flock'[e] = flock[e]
    <3>1. flock \in [Disk -> Boot \cup Pass \cup {Free}]
      BY DEF IInv, TypeOK
    <3>2. CASE script'[p] = [s EXCEPT !.todo = @ \ {d}] /\ UNCHANGED flock
      BY <1>1, <2>1, <3>2 DEF ScriptState
    <3>3. CASE /\ script'[p] = [s EXCEPT !.ph = "check", !.disk = d]
               /\ s.locks => flock[d] = Free
               /\ flock' = IF s.locks THEN [flock EXCEPT ![d] = p] ELSE flock
      <4>1. script'[p].ph = "check" /\ script'[p].disk = d
        BY <1>1, <3>3 DEF ScriptState
      <4>2. CASE s.locks
        BY <3>1, <3>3, <4>1, <4>2
      <4>3. CASE ~s.locks
        BY <3>3, <4>1, <4>3
      <4>. QED
        BY <4>2, <4>3
    <3>. QED
      BY <2>a, <3>2, <3>3
  <2>4. Permits'
    BY <1>2, <2>3, Parties DEF IInv, Permits, Placed
  <2>5. Scripts'
    BY <1>1, <1>2, <2>1, <2>2, <2>3, Parties DEF IInv, Scripts
  <2>6. Snapshots'
    BY <1>2, <2>1, <2>2, <2>3 DEF IInv, Snapshots
  <2>7. NoBootOverTrim'
    BY <1>2, <2>2, <2>3 DEF IInv, NoBootOverTrim, Trimming
  <2>. QED
    BY <1>0, <1>3, <2>4, <2>5, <2>6, <2>7 DEF IInv
<1>7. CASE ScriptCheck(p) /\ ~disk_in_use(p)
  <2>1. /\ s.ph = "check" /\ UNCHANGED flock /\ script'[p].ph = "work" /\ script'[p].disk = s.disk
        /\ script'[p].stray = s.stray /\ script'[p].snap = s.snap /\ script'[p].locks = s.locks
        /\ \A q \in Pass \ {p} : script'[q] = script[q]
    BY <1>1, <1>7 DEF ScriptCheck, Script, ScriptState, IInv, TypeOK
  <2>2. s.disk \notin s.snap /\ (s.locks => s.disk \notin open)
    BY <1>7 DEF disk_in_use
  <2>3. Permits'
    BY <1>2, <2>1 DEF IInv, Permits
  <2>4. Scripts'
    BY <1>1, <1>2, <2>1 DEF IInv, Scripts
  <2>5. Snapshots'
    BY <1>2, <2>1, <2>2 DEF IInv, Snapshots
  <2>6. NoBootOverTrim'
    <3>. SUFFICES ASSUME NEW q \in Pass, NEW d \in Disk, Trimming(q, d)', d \in open
                  PROVE  \/ under[d] = "lock" /\ ~script'[q].locks
                         \/ under[d] = "gate" /\ script'[q].stray
                         \/ under[d] = "late"
      BY <1>2 DEF NoBootOverTrim
    <3>1. CASE q = p
      <4>1. d = s.disk
        BY <2>1, <3>1 DEF Trimming
      <4>2. ~s.stray => under[d] # "gate"
        BY <2>1, <2>2, <4>1 DEF IInv, Snapshots
      <4>3. under[d] \in {"lock", "gate", "late"}
        BY DEF IInv, Snapshots
      <4>. QED
        BY <1>1, <2>1, <2>2, <3>1, <4>1, <4>2, <4>3
    <3>2. CASE q # p
      BY <2>1, <3>2 DEF IInv, NoBootOverTrim, Trimming
    <3>. QED
      BY <3>1, <3>2
  <2>. QED
    BY <1>0, <1>3, <2>3, <2>4, <2>5, <2>6 DEF IInv
<1>8. CASE (ScriptCheck(p) /\ disk_in_use(p)) \/ ScriptDone(p) \/ ScriptExit(p)
  <2>1. /\ Unlock(p) /\ s.ph # "none"
        /\ \A q \in Pass \ {p} : script'[q] = script[q]
        /\ \/ /\ script'[p] = [s EXCEPT !.ph = "loop", !.todo = @ \ {s.disk}, !.disk = Free]
              /\ s.ph \in {"check", "work"}
           \/ script'[p] = [NoScript EXCEPT !.ph = IF s.stray THEN "none" ELSE "exit"]
    BY <1>4, <1>8 DEF ScriptCheck, ScriptDone, ScriptExit
  <2>2. \A e \in Disk : flock'[e] = IF flock[e] = p THEN Free ELSE flock[e]
    BY <2>1 DEF Unlock
  <2>3. /\ \A q \in Pass \ {p} : script'[q] = script[q]
        /\ \/ script'[p].ph = "loop" /\ s.ph \in {"check", "work"}
              /\ script'[p].stray = s.stray /\ script'[p].snap = s.snap
           \/ script'[p].ph = "none" 
           \/ script'[p].ph = "exit" /\ ~s.stray
    BY <1>1, <2>1 DEF ScriptState, NoScript
  <2>4. Permits'
    BY <1>2, <2>2, Parties DEF IInv, Permits, Placed
  <2>5. Scripts'
    BY <1>1, <1>2, <2>1, <2>2, <2>3, Parties DEF IInv, Scripts
  <2>6. Snapshots'
    BY <1>2, <2>3 DEF IInv, Snapshots
  <2>7. NoBootOverTrim'
    BY <1>2, <2>3 DEF IInv, NoBootOverTrim, Trimming
  <2>. QED
    BY <1>0, <1>3, <2>4, <2>5, <2>6, <2>7 DEF IInv
<1>. QED
  BY <1>5, <1>6, <1>7, <1>8 DEF ScriptStep, ScriptCheck

\* A VM that stops or that comes up late, and a restart of the pooler: what the
\* pooler held is gone, and every script still at work has become a stray.
LEMMA OtherKeeps ==
    ASSUME IInv, (\E d \in Disk : StopVm(d) \/ LateStart(d)) \/ Restart \/ UNCHANGED vars
    PROVE  IInv'
<1>0. TypeOK' /\ Placed'
  BY OtherKeepsTypes DEF IInv
<1>1. ASSUME NEW d \in Disk, StopVm(d) PROVE IInv'
  <2>1. /\ UNCHANGED <<stop, readers, writer, queue, flock, boot, running, pass, script>>
        /\ open' = open \ {d} /\ \A e \in Disk \ {d} : under'[e] = under[e]
    BY <1>1 DEF StopVm, gate, IInv, TypeOK
  <2>2. Queue' /\ Permits' /\ Scripts' /\ Gate' /\ StopIsForThisPass'
    BY <2>1 DEF IInv, Queue, Permits, Scripts, Gate, StopIsForThisPass
  <2>3. Snapshots'
    BY <2>1 DEF IInv, Snapshots, TypeOK
  <2>4. NoBootOverTrim'
    BY <2>1 DEF IInv, NoBootOverTrim, Trimming
  <2>. QED
    BY <1>0, <2>2, <2>3, <2>4 DEF IInv
<1>4. ASSUME NEW d \in Disk, LateStart(d) PROVE IInv'
  <2>1. /\ UNCHANGED <<stop, readers, writer, queue, flock, boot, running, pass, script>>
        /\ \/ d \notin open /\ open' = open \cup {d} /\ under' = [under EXCEPT ![d] = "late"]
           \/ UNCHANGED <<open, under>>
    BY <1>4 DEF LateStart, gate
  <2>2. \/ /\ open' = open \cup {d} /\ under'[d] = "late"
           /\ \A e \in Disk \ {d} : under'[e] = under[e]
        \/ UNCHANGED <<open, under>>
    BY <2>1 DEF IInv, TypeOK
  <2>3. Queue' /\ Permits' /\ Scripts' /\ Gate' /\ StopIsForThisPass'
    BY <2>1 DEF IInv, Queue, Permits, Scripts, Gate, StopIsForThisPass
  <2>4. Snapshots'
    BY <2>1, <2>2 DEF IInv, Snapshots, TypeOK
  <2>5. NoBootOverTrim'
    BY <2>1, <2>2 DEF IInv, NoBootOverTrim, Trimming
  <2>. QED
    BY <1>0, <2>3, <2>4, <2>5 DEF IInv
<1>2. CASE Restart
  <2>1. /\ readers' = {} /\ writer' = 0 /\ queue' = <<>> /\ UNCHANGED <<stop, open, under>>
        /\ \A d \in Disk : flock'[d] = IF flock[d] \in Boot THEN Free ELSE flock[d]
        /\ \A b \in Boot : boot'[b].ph = "idle" /\ boot'[b].permit = "none"
    BY <1>2 DEF Restart, IdleBoot
  <2>2. \A p \in Pass : pass'[p].ph \in {"none", "done"}
                        /\ (pass'[p].ph = "none" => pass[p].ph = "none")
    BY <1>2 DEF Restart, NoPass
  <2>3. ASSUME NEW p \in Pass
        PROVE  \/ script[p].ph \in {"none", "exit"} /\ script'[p].ph = "none"
               \/ /\ script'[p].ph = script[p].ph /\ script'[p].disk = script[p].disk
                  /\ script'[p].snap = script[p].snap /\ script'[p].locks = script[p].locks
                  /\ script'[p].stray
                  /\ script[p].ph # "none"
    <3>1. script[p] \in ScriptState
      BY DEF IInv, TypeOK
    <3>. QED
      BY <1>2, <3>1 DEF Restart, NoScript, ScriptState
  <2>4. Queue'
    BY <2>1 DEF Queue, Distinct
  <2>5. Permits'
    BY <2>1, Parties DEF Permits
  <2>6. Scripts'
    <3>. SUFFICES ASSUME NEW p \in Pass
                  PROVE  /\ script'[p].ph \in {"check", "work"} =>
                                script'[p].disk \in Disk /\ (script'[p].locks => flock'[script'[p].disk] = p)
                         /\ \A d \in Disk : flock'[d] = p =>
                                script'[p].ph \in {"check", "work"} /\ script'[p].disk = d
                         /\ script'[p].ph # "none" /\ ~script'[p].stray => pass'[p].ph = "run"
                         /\ pass'[p].ph \in {"none", "queued"} => script'[p].ph = "none"
      BY DEF Scripts
    <3>1. /\ script[p].ph \in {"check", "work"} =>
                 script[p].disk \in Disk /\ (script[p].locks => flock[script[p].disk] = p)
          /\ \A d \in Disk : flock[d] = p => script[p].ph \in {"check", "work"} /\ script[p].disk = d
          /\ pass[p].ph \in {"none", "queued"} => script[p].ph = "none"
      BY DEF IInv, Scripts
    <3>. QED
      BY <2>1, <2>2, <2>3, <3>1, Parties
  <2>7. Gate' /\ StopIsForThisPass'
    BY <2>1, <2>2 DEF Gate, StopIsForThisPass
  <2>8. Snapshots'
    BY <2>1, <2>3 DEF IInv, Snapshots
  <2>9. NoBootOverTrim'
    BY <2>1, <2>3 DEF IInv, NoBootOverTrim, Trimming
  <2>. QED
    BY <1>0, <2>4, <2>5, <2>6, <2>7, <2>8, <2>9 DEF IInv
<1>3. CASE UNCHANGED vars
  <2>1. UNCHANGED <<stop, readers, writer, queue, flock, boot, running, pass, script, open, under>>
    BY <1>3 DEF vars, gate
  <2>2. Queue' /\ Permits' /\ Scripts' /\ Gate'
    BY <2>1 DEF IInv, Queue, Permits, Scripts, Gate
  <2>. QED
    BY <1>0, <2>1, <2>2, PassFrame DEF IInv
<1>. QED
  BY <1>1, <1>2, <1>3, <1>4

-----------------------------------------------------------------------------
(* The theorems. *)

\* The inductive invariant: who holds what (the Drop-based guards of acquire,
\* disk_permit and run_once), and what a script can meet, at every moment.
THEOREM Invariant == Spec => []IInv
<1>1. Init => IInv
  <2>. SUFFICES ASSUME Init PROVE IInv
    OBVIOUS
  <2>1. TypeOK /\ Placed
    BY TypeInit
  <2>2. Queue /\ Permits
    BY Parties DEF Init, Queue, Distinct, Permits, IdleBoot
  <2>3. Scripts /\ Gate
    BY Parties DEF Init, Scripts, Gate, NoScript, NoPass
  <2>4. Snapshots /\ NoBootOverTrim /\ StopIsForThisPass
    BY DEF Init, Snapshots, NoBootOverTrim, Trimming, StopIsForThisPass, NoScript, NoPass
  <2>. QED
    BY <2>1, <2>2, <2>3, <2>4 DEF IInv
<1>2. IInv /\ [Next]_vars => IInv'
  BY BootKeeps, PassKeeps, ScriptKeeps, OtherKeeps DEF Next
<1>. QED
  BY <1>1, <1>2, PTL DEF Spec

\* Init sets up well-typed state and no step of reclaim.rs leaves it.
THEOREM TypeCorrect == Spec => []TypeOK
<1>1. IInv => TypeOK
  BY DEF IInv
<1>. QED
  BY <1>1, Invariant, PTL

\* No VM whose start() returned runs on a disk that a script repairs or trims, for
\* any number of boots and disks: not under its disk's lock while the script takes
\* locks, not under the gate while the script has not outlived its pass ("Safety is
\* layered"), however many starts are given up around it.
THEOREM BootSafe == Spec => []NoBootOverTrim
<1>1. IInv => NoBootOverTrim
  BY DEF IInv
<1>. QED
  BY <1>1, Invariant, PTL

\* The guards of the code are accounted for: everybody in the queue of the gate
\* waits, every read guard and lock file has a living holder, and the pass that
\* runs is alone.
THEOREM HoldersLive == Spec => []HoldersAreLive
<1>1. IInv => HoldersAreLive
  <2>. SUFFICES ASSUME IInv PROVE HoldersAreLive
    OBVIOUS
  <2>1. writer # 0 => running
    BY DEF IInv, Gate, TypeOK
  <2>. QED
    BY <2>1 DEF IInv, HoldersAreLive, Queue, Permits, Scripts, Gate
<1>. QED
  BY <1>1, Invariant, PTL

\* A stop file raised for one pass never cuts a later one short, whatever boots
\* come, give up or are served around it.
THEOREM StopForThisPass == Spec => []StopIsForThisPass
<1>1. IInv => StopIsForThisPass
  BY DEF IInv
<1>. QED
  BY <1>1, Invariant, PTL
============================================================================
