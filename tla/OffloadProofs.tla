--------------------------- MODULE OffloadProofs ---------------------------
(***************************************************************************)
(* What TLAPS proves about the scheduling of offloads (Offload), for any   *)
(* number of schemas, workers, faults, sweeps and connections and every    *)
(* set of configurations.                                                  *)
(*                                                                         *)
(* The pacer, the drain loop and the operator's sweep never ask each other *)
(* before they pick: what keeps them apart is the claim (OneRuns), what    *)
(* keeps each of them from a second boot is the kind a job was picked for  *)
(* (OneBoots), and what keeps a failed schema back is its window (Backed). *)
(***************************************************************************)
EXTENDS Offload, FiniteSetTheorems, TLAPS

JobState == [ph : {"none", "picked", "run", "won", "erred", "done", "failed", "skipped"},
             kind : OffloadKind, does : OffloadKind]
JobTable == [Dispatcher -> [Schema -> JobState]]

\* One job at most works on a schema, and the claim is there as long as it does.
OneRuns ==
    \A s \in Schema :
        /\ \A d, e \in Dispatcher : job[d][s].ph = "run" /\ job[e][s].ph = "run" => d = e
        /\ s \in archiving <=> \E d \in Dispatcher : job[d][s].ph = "run"

\* What a client is on, or is about to be on, is live and nobody's, unless a job overtook it.
Serves ==
    \A s \in Schema :
        /\ warm[s] # "none" => (s \notin archiving /\ tier[s] = "live") \/ s \in overtaken
        /\ client[s] = "past" => s \notin archiving \/ s \in overtaken

\* The operator's sweep has one job while it waits and none otherwise; a loop that waits
\* has not failed too often yet.
Walks ==
    /\ sweep.ph # "await" => \A s \in Schema : job["sweep"][s].ph = "none"
    /\ \A s, t \in Schema : job["sweep"][s].ph # "none" /\ job["sweep"][t].ph # "none" => s = t
    /\ sweep.ph = "await" => sweep.fails < MaxFails
    /\ drain.ph = "await" => drain.fails < MaxFails

\* The flag is set while the drain loop or the operator's sweep is under way, never both.
OneSweep ==
    /\ sweeping <=> drain.ph # "idle" \/ sweep.ph # "idle"
    /\ drain.ph = "idle" \/ sweep.ph = "idle"

\* A dispatcher has picked one job that boots, and what a job does boots only if it was
\* picked for that, or for a promotion.
OneBoots ==
    /\ \A d \in Dispatcher : \A s, t \in Schema :
          /\ job[d][s].ph # "none" /\ boots(job[d][s].kind)
          /\ job[d][t].ph # "none" /\ boots(job[d][t].kind)
          => s = t
    /\ \A d \in Dispatcher, s \in Schema :
          job[d][s].ph = "run" /\ boots(job[d][s].does) /\ job[d][s].kind # "promote"
              => boots(job[d][s].kind)

\* A failure that counts has a window, or is about to get one: its job is not accounted for.
Backed ==
    \A d \in {"pacer", "drain"}, s \in Schema : <<d, s>> \in failed =>
        \/ job[d][s].ph \in {"none", "done", "failed", "skipped"} /\ s \in held
        \/ job[d][s].ph = "erred" /\ job[d][s].does # "image"

IInv == TypeOK /\ OneRuns /\ Serves /\ Walks /\ OneSweep /\ OneBoots /\ Backed

----------------------------------------------------------------------------
LEMMA Bounds ==
    /\ MaxFails \in Nat \ {0} /\ Workers \in Nat \ {0} /\ MaxAge \in Nat
    /\ MaxConnects \in Nat /\ MaxFaults \in Nat /\ MaxSweeps \in Nat
BY OffloadAssumption

\* A change of one entry of the table of jobs, read pointwise.
LEMMA JobSet ==
    ASSUME NEW table \in JobTable, NEW d \in Dispatcher, NEW s \in Schema, NEW v \in JobState
    PROVE  /\ [table EXCEPT ![d][s] = v] \in JobTable
           /\ \A e \in Dispatcher, t \in Schema :
                 [table EXCEPT ![d][s] = v][e][t] = IF e = d /\ t = s THEN v ELSE table[e][t]
BY DEF JobTable

LEMMA JobType == TypeOK => job \in JobTable
BY DEF TypeOK, JobTable, JobState

\* A set of at most one element has a cardinality of at most one.
LEMMA AtMostOne ==
    ASSUME NEW S, \A x, y \in S : x = y
    PROVE  Cardinality(S) <= 1 /\ (S = {} => Cardinality(S) = 0) /\ (S # {} => Cardinality(S) = 1)
<1>1. CASE S = {}
  BY <1>1, FS_EmptySet
<1>2. CASE S # {}
  <2>1. PICK x \in S : TRUE
    BY <1>2
  <2>2. S = {x}
    BY <2>1
  <2>3. Cardinality({x}) = 1
    BY FS_Singleton
  <2> QED BY <1>2, <2>2, <2>3
<1> QED BY <1>1, <1>2

\* What Claims counts, OneRuns says without counting.
LEMMA ClaimsFollow == IInv => Claims
<1> SUFFICES ASSUME IInv, NEW s \in Schema
             PROVE  /\ Cardinality({d \in Dispatcher : job[d][s].ph = "run"})
                          = (IF s \in archiving THEN 1 ELSE 0)
                    /\ warm[s] = "busy" => (s \notin archiving /\ tier[s] = "live") \/ s \in overtaken
  BY DEF Claims
<1> DEFINE S == {d \in Dispatcher : job[d][s].ph = "run"}
<1>1. \A x, y \in S : x = y
  BY DEF IInv, OneRuns
<1>2. S # {} <=> s \in archiving
  BY DEF IInv, OneRuns
<1> HIDE DEF S
<1>3. Cardinality(S) = IF s \in archiving THEN 1 ELSE 0
  BY <1>1, <1>2, AtMostOne
<1> QED BY <1>3 DEF IInv, Serves, S

LEMMA OneBootFollows == IInv => OneBootEach
<1> SUFFICES ASSUME IInv, NEW d \in Dispatcher
             PROVE  Cardinality({s \in Schema : /\ job[d][s].ph = "run" /\ boots(job[d][s].does)
                                                /\ job[d][s].kind # "promote"}) <= 1
  BY DEF OneBootEach
<1> DEFINE S == {s \in Schema : /\ job[d][s].ph = "run" /\ boots(job[d][s].does)
                                /\ job[d][s].kind # "promote"}
<1>1. \A x, y \in S : x = y
  BY DEF IInv, OneBoots
<1> QED BY <1>1, AtMostOne

----------------------------------------------------------------------------
LEMMA InitInv == Init => IInv
<1> SUFFICES ASSUME Init PROVE IInv
  OBVIOUS
<1>1. \A d \in Dispatcher, s \in Schema : job[d][s] = NoJob
  BY DEF Init
<1>2. TypeOK
  <2>1. NoJob \in JobState
    BY DEF NoJob, JobState, OffloadKind
  <2>2. job \in JobTable
    BY <2>1 DEF Init, JobTable
  <2>3. /\ age \in [Schema -> 0..MaxAge] /\ tier \in [Schema -> Tier]
        /\ connects \in 0..MaxConnects /\ faults \in 0..MaxFaults /\ sweeps \in 0..MaxSweeps
    BY Bounds DEF Init, Tier
  <2>4. NoDrain.fails \in 0..MaxFails /\ NoSweep.fails \in 0..MaxFails
    BY Bounds DEF NoDrain, NoSweep
  <2> QED BY <2>2, <2>3, <2>4 DEF Init, TypeOK, JobTable, JobState, NoDrain, NoSweep
<1> QED BY <1>1, <1>2 DEF Init, IInv, OneRuns, Serves, Walks, OneSweep, OneBoots, Backed, NoJob, NoSweep,
                         NoDrain, Dispatcher

----------------------------------------------------------------------------
(* A job.                                                                  *)

\* What Set makes of an entry.
LEMMA SetJob ==
    ASSUME TypeOK, NEW d \in Dispatcher, NEW s \in Schema,
           NEW ph \in {"done", "failed", "skipped"}, Set(d, s, ph)
    PROVE  /\ job' \in JobTable
           /\ \A e \in Dispatcher, t \in Schema : e # d \/ t # s => job'[e][t] = job[e][t]
           /\ job'[d][s].ph \in {"none", ph}
           /\ job'[d][s].ph # "none" => job'[d][s].kind = job[d][s].kind /\ d # "pacer"
<1> DEFINE v == IF d = "pacer" THEN NoJob ELSE [job[d][s] EXCEPT !.ph = ph]
<1>1. job \in JobTable /\ job[d][s] \in JobState
  BY JobType DEF JobTable
<1>2. v \in JobState /\ v.ph \in {"none", ph} /\ (v.ph # "none" => v.kind = job[d][s].kind /\ d # "pacer")
  BY <1>1 DEF JobState, NoJob, OffloadKind
<1>3. job' = [job EXCEPT ![d][s] = v]
  BY <1>1 DEF Set, JobTable
<1> HIDE DEF v
<1>4. /\ [job EXCEPT ![d][s] = v] \in JobTable
      /\ \A e \in Dispatcher, t \in Schema :
            [job EXCEPT ![d][s] = v][e][t] = IF e = d /\ t = s THEN v ELSE job[e][t]
  BY <1>1, <1>2, JobSet
<1>5. job'[d][s] = v /\ \A e \in Dispatcher, t \in Schema : e # d \/ t # s => job'[e][t] = job[e][t]
  BY <1>3, <1>4
<1> QED BY <1>2, <1>3, <1>4, <1>5

\* What Erred makes of an entry, and the return of a job that succeeded.
LEMMA ErredJob ==
    ASSUME TypeOK, NEW d \in Dispatcher, NEW s \in Schema, NEW kind \in OffloadKind,
           Erred(d, s, kind)
    PROVE  /\ job' \in JobTable
           /\ \A e \in Dispatcher, t \in Schema : e # d \/ t # s => job'[e][t] = job[e][t]
           /\ job'[d][s].ph = "erred" /\ job'[d][s].kind = job[d][s].kind /\ job'[d][s].does = kind
<1> DEFINE v == [job[d][s] EXCEPT !.ph = "erred", !.does = kind]
<1>1. job \in JobTable /\ job[d][s] \in JobState
  BY JobType DEF JobTable
<1>2. v \in JobState /\ v.ph = "erred" /\ v.kind = job[d][s].kind /\ v.does = kind
  BY <1>1 DEF JobState
<1>3. job' = [job EXCEPT ![d][s] = v]
  BY <1>1 DEF Erred, JobTable
<1> HIDE DEF v
<1>4. /\ [job EXCEPT ![d][s] = v] \in JobTable
      /\ \A e \in Dispatcher, t \in Schema :
            [job EXCEPT ![d][s] = v][e][t] = IF e = d /\ t = s THEN v ELSE job[e][t]
  BY <1>1, <1>2, JobSet
<1> QED BY <1>2, <1>3, <1>4

LEMMA WonJob ==
    ASSUME TypeOK, NEW d \in Dispatcher, NEW s \in Schema, Done(d, s)
    PROVE  /\ job' \in JobTable
           /\ \A e \in Dispatcher, t \in Schema : e # d \/ t # s => job'[e][t] = job[e][t]
           /\ job'[d][s].ph = "won" /\ job'[d][s].kind = job[d][s].kind
<1> DEFINE v == [job[d][s] EXCEPT !.ph = "won"]
<1>1. job \in JobTable /\ job[d][s] \in JobState
  BY JobType DEF JobTable
<1>2. v \in JobState /\ v.ph = "won" /\ v.kind = job[d][s].kind
  BY <1>1 DEF JobState
<1>3. job' = [job EXCEPT ![d][s] = v]
  BY <1>1 DEF Done, JobTable
<1> HIDE DEF v
<1>4. /\ [job EXCEPT ![d][s] = v] \in JobTable
      /\ \A e \in Dispatcher, t \in Schema :
            [job EXCEPT ![d][s] = v][e][t] = IF e = d /\ t = s THEN v ELSE job[e][t]
  BY <1>1, <1>2, JobSet
<1> QED BY <1>2, <1>3, <1>4

\* A job that returns, is accounted for, or fails before its claim: nothing else runs, boots
\* or is held up.
LEMMA JobEnds ==
    ASSUME IInv, NEW d \in Dispatcher, NEW s \in Schema, job' \in JobTable,
           \A e \in Dispatcher, t \in Schema : e # d \/ t # s => job'[e][t] = job[e][t],
           job'[d][s].ph # "run", job[d][s].ph # "none",
           job'[d][s].ph # "none" => job'[d][s].kind = job[d][s].kind,
           archiving' = IF job[d][s].ph = "run" THEN archiving \ {s} ELSE archiving,
           UNCHANGED <<sweep, drain, sweeping>>
    PROVE  OneRuns' /\ Walks' /\ OneSweep' /\ OneBoots'
<1>1. OneRuns'
  BY DEF IInv, OneRuns
<1>2. Walks'
  BY DEF IInv, Walks, Dispatcher
<1>3. OneBoots'
  BY DEF IInv, OneBoots
<1>4. OneSweep'
  BY DEF IInv, OneSweep
<1> QED BY <1>1, <1>2, <1>3, <1>4

\* A failure leaves the schema without a claim and its job to be accounted for.
LEMMA ErredBacked ==
    ASSUME IInv, NEW d \in Dispatcher, NEW s \in Schema, NEW kind \in OffloadKind,
           job[d][s].ph \in {"picked", "run"}, Erred(d, s, kind), UNCHANGED held
    PROVE  Backed' /\ failed' \subseteq Dispatcher \X Schema
<1>1. /\ job' \in JobTable
      /\ \A e \in Dispatcher, t \in Schema : e # d \/ t # s => job'[e][t] = job[e][t]
      /\ job'[d][s].ph = "erred" /\ job'[d][s].kind = job[d][s].kind /\ job'[d][s].does = kind
  BY ErredJob DEF IInv
<1>2. failed' \subseteq Dispatcher \X Schema
  BY DEF Erred, IInv, TypeOK
<1>3. Backed'
  <2> SUFFICES ASSUME NEW e \in {"pacer", "drain"}, NEW t \in Schema, <<e, t>> \in failed'
               PROVE  \/ job'[e][t].ph \in {"none", "done", "failed", "skipped"} /\ t \in held'
                      \/ job'[e][t].ph = "erred" /\ job'[e][t].does # "image"
    BY DEF Backed
  <2>1. e \in Dispatcher
    BY DEF Dispatcher
  <2>2. CASE e = d /\ t = s
    <3>1. <<d, s>> \notin failed
      BY <2>2 DEF IInv, Backed
    <3> QED BY <1>1, <2>2, <3>1 DEF Erred
  <2>3. CASE ~(e = d /\ t = s)
    <3>1. <<e, t>> \in failed
      BY <2>3 DEF Erred
    <3> QED BY <1>1, <2>1, <2>3, <3>1 DEF IInv, Backed
  <2> QED BY <2>2, <2>3
<1> QED BY <1>2, <1>3

\* Start: the tier, the claim, the sessions.
LEMMA StartKeeps ==
    ASSUME IInv, NEW d \in Dispatcher, NEW s \in Schema, Start(d, s)
    PROVE  IInv'
<1> DEFINE kind == Kind(d, s)
<1>0. /\ TypeOK /\ job \in JobTable /\ job[d][s] \in JobState /\ job[d][s].ph = "picked"
      /\ kind \in OffloadKind
      /\ (boots(kind) /\ job[d][s].kind # "promote" => boots(job[d][s].kind))
  BY JobType DEF IInv, Start, Kind, JobTable, JobState, OffloadKind, boots
<1>1. UNCHANGED <<cfg, tier, age, loops, connects, faults>>
  BY DEF Start
<1>2. UNCHANGED <<cfg, tier, age, hold, sweeping, drain, sweep, sweeps, connects, faults>>
  BY <1>1 DEF loops
<1> HIDE DEF kind
<1>3. ASSUME Erred(d, s, kind), UNCHANGED <<archiving, held, warm, clients>>
      PROVE  IInv'
  <2>0. UNCHANGED <<client, overtaken>>
    BY <1>3 DEF clients
  <2>1. /\ job' \in JobTable
        /\ \A e \in Dispatcher, t \in Schema : e # d \/ t # s => job'[e][t] = job[e][t]
        /\ job'[d][s].ph = "erred" /\ job'[d][s].kind = job[d][s].kind
    BY <1>0, <1>3, ErredJob
  <2>2. OneRuns' /\ Walks' /\ OneSweep' /\ OneBoots'
    BY <1>0, <1>2, <1>3, <2>1, JobEnds
  <2>3. Backed' /\ failed' \subseteq Dispatcher \X Schema
    BY <1>0, <1>3, ErredBacked
  <2>4. TypeOK'
    BY <1>0, <1>2, <1>3, <2>0, <2>1, <2>3 DEF TypeOK, JobTable, JobState
  <2>5. Serves'
    BY <1>2, <1>3, <2>0 DEF IInv, Serves
  <2> QED BY <2>2, <2>3, <2>4, <2>5 DEF IInv
<1>4. ASSUME Set(d, s, "skipped"), UNCHANGED <<claims, warm, clients>>
      PROVE  IInv'
  <2>0. UNCHANGED <<client, overtaken, archiving, held, failed>>
    BY <1>4 DEF clients, claims
  <2>1. /\ job' \in JobTable
        /\ \A e \in Dispatcher, t \in Schema : e # d \/ t # s => job'[e][t] = job[e][t]
        /\ job'[d][s].ph \in {"none", "skipped"}
        /\ job'[d][s].ph # "none" => job'[d][s].kind = job[d][s].kind
    BY <1>0, <1>4, SetJob
  <2>2. OneRuns' /\ Walks' /\ OneSweep' /\ OneBoots'
    BY <1>0, <1>2, <2>0, <2>1, JobEnds
  <2>3. TypeOK'
    BY <1>0, <1>2, <1>4, <2>0, <2>1 DEF TypeOK, JobTable, JobState
  <2>4. Serves'
    BY <1>2, <1>4, <2>0 DEF IInv, Serves
  <2>5. Backed'
    BY <1>0, <2>0, <2>1 DEF IInv, Backed, Dispatcher
  <2> QED BY <2>2, <2>3, <2>4, <2>5 DEF IInv
<1>5. ASSUME ~WrongTier(s, kind), s \notin archiving, ~Refused(s, kind),
             archiving' = archiving \cup {s}, Overtake(s, kind),
             job' = [job EXCEPT ![d][s] = [@ EXCEPT !.ph = "run", !.does = kind]],
             UNCHANGED <<held, failed>>
      PROVE  IInv'
  <2> DEFINE v == [job[d][s] EXCEPT !.ph = "run", !.does = kind]
  <2>1. v \in JobState /\ v.ph = "run" /\ v.does = kind /\ v.kind = job[d][s].kind
    BY <1>0 DEF JobState
  <2>2. job' = [job EXCEPT ![d][s] = v]
    BY <1>0, <1>5 DEF JobTable
  <2> HIDE DEF v
  <2>3. /\ [job EXCEPT ![d][s] = v] \in JobTable
        /\ \A e \in Dispatcher, t \in Schema :
              [job EXCEPT ![d][s] = v][e][t] = IF e = d /\ t = s THEN v ELSE job[e][t]
    BY <1>0, <2>1, JobSet
  <2>4. job' \in JobTable /\ job'[d][s] = v
        /\ \A e \in Dispatcher, t \in Schema : e # d \/ t # s => job'[e][t] = job[e][t]
    BY <2>2, <2>3
  <2>5. /\ warm' \in [Schema -> {"none", "busy", "idle"}]
        /\ warm'[s] = IF kind = "promote" THEN warm[s] ELSE "none"
        /\ \A t \in Schema : t # s => warm'[t] = warm[t]
    BY <1>0, <1>5 DEF TypeOK, Overtake
  <2>6. /\ client' \in [Schema -> {"none", "waits", "past", "evicted", "stray"}]
        /\ client'[s] = "past" => client[s] = "past"
        /\ \A t \in Schema : t # s => client'[t] = client[t]
    <3>1. client' = client \/ client' = [client EXCEPT ![s] = "evicted"]
      BY <1>5 DEF Overtake
    <3> QED BY <1>0, <3>1 DEF TypeOK
  <2>7. /\ overtaken' \subseteq Schema /\ overtaken \subseteq overtaken'
        /\ client[s] = "past" => s \in overtaken'
    BY <1>0, <1>5 DEF TypeOK, Overtake
  <2>8. TypeOK'
    BY <1>0, <1>2, <1>5, <2>4, <2>5, <2>6, <2>7 DEF TypeOK, JobTable, JobState
  <2>9. OneRuns'
    BY <1>5, <2>1, <2>4 DEF IInv, OneRuns
  <2>10. Serves'
    <3>1. kind = "promote" => tier[s] # "live"
      BY <1>5 DEF WrongTier
    <3>2. ASSUME NEW t \in Schema, t # s
          PROVE  /\ warm'[t] # "none" => (t \notin archiving' /\ tier'[t] = "live") \/ t \in overtaken'
                 /\ client'[t] = "past" => t \notin archiving' \/ t \in overtaken'
      BY <1>2, <1>5, <2>5, <2>6, <2>7, <3>2 DEF IInv, Serves
    <3>3. warm'[s] # "none" => s \in overtaken'
      BY <1>5, <2>5, <2>7, <3>1 DEF IInv, Serves
    <3> QED BY <2>6, <2>7, <3>2, <3>3 DEF Serves
  <2>11. Walks'
    BY <1>0, <1>2, <2>1, <2>4 DEF IInv, Walks, Dispatcher
  <2>12. OneBoots'
    BY <1>0, <2>1, <2>4 DEF IInv, OneBoots
  <2>13. OneSweep'
    BY <1>2 DEF IInv, OneSweep
  <2>14. Backed'
    BY <1>0, <1>5, <2>4 DEF IInv, Backed, Dispatcher
  <2> QED BY <2>8, <2>9, <2>10, <2>11, <2>12, <2>13, <2>14 DEF IInv
<1>6. \/ Erred(d, s, kind) /\ UNCHANGED <<archiving, held, warm, clients>>
      \/ Set(d, s, "skipped") /\ UNCHANGED <<claims, warm, clients>>
      \/ /\ ~WrongTier(s, kind) /\ s \notin archiving /\ ~Refused(s, kind)
         /\ archiving' = archiving \cup {s} /\ Overtake(s, kind)
         /\ job' = [job EXCEPT ![d][s] = [@ EXCEPT !.ph = "run", !.does = kind]]
         /\ UNCHANGED <<held, failed>>
  BY DEF Start, kind
<1> QED BY <1>3, <1>4, <1>5, <1>6

\* Done, Fails and Panics: a job that works returns, and its claim goes with it.
LEMMA FinishKeeps ==
    ASSUME IInv, NEW d \in Dispatcher, NEW s \in Schema,
           Done(d, s) \/ Fails(d, s) \/ Panics(d, s)
    PROVE  IInv'
<1>0. /\ TypeOK /\ job \in JobTable /\ job[d][s] \in JobState /\ job[d][s].ph = "run"
      /\ archiving' = archiving \ {s}
      /\ UNCHANGED <<cfg, age, warm, client, overtaken, held, hold, sweeping, drain, sweep, sweeps,
                     connects>>
  BY JobType DEF IInv, Done, Fails, Panics, JobTable, loops, rows, clients
<1>1. job[d][s].does \in OffloadKind
  BY <1>0 DEF JobState
<1>2. /\ job' \in JobTable
      /\ \A e \in Dispatcher, t \in Schema : e # d \/ t # s => job'[e][t] = job[e][t]
      /\ job'[d][s].ph # "run" /\ (job'[d][s].ph # "none" => job'[d][s].kind = job[d][s].kind)
  <2>1. CASE Done(d, s)
    BY <1>0, <2>1, WonJob
  <2>2. CASE Fails(d, s)
    BY <1>0, <1>1, <2>2, ErredJob DEF Fails
  <2>3. CASE Panics(d, s)
    BY <1>0, <2>3, SetJob DEF Panics
  <2> QED BY <2>1, <2>2, <2>3
<1>3. OneRuns' /\ Walks' /\ OneSweep' /\ OneBoots'
  BY <1>0, <1>2, JobEnds
<1>4. tier' \in [Schema -> Tier] /\ \A t \in Schema : t # s => tier'[t] = tier[t]
  BY <1>0 DEF Done, Fails, Panics, TypeOK, Tier, rows
<1>5. /\ failed' \subseteq Dispatcher \X Schema /\ Backed' /\ faults' \in 0..MaxFaults
  <2>1. CASE Fails(d, s)
    <3>1. Backed' /\ failed' \subseteq Dispatcher \X Schema
      BY <1>0, <1>1, <2>1, ErredBacked DEF Fails
    <3> QED BY <1>0, <2>1, <3>1, Bounds DEF Fails, TypeOK
  <2>2. CASE Done(d, s) \/ Panics(d, s)
    <3>1. UNCHANGED failed /\ faults' \in 0..MaxFaults
      BY <1>0, <2>2, Bounds DEF Done, Panics, TypeOK
    <3>2. Backed'
      BY <1>0, <1>2, <3>1 DEF IInv, Backed, Dispatcher
    <3> QED BY <1>0, <3>1, <3>2 DEF TypeOK
  <2> QED BY <2>1, <2>2
<1>6. TypeOK'
  BY <1>0, <1>2, <1>4, <1>5 DEF TypeOK, JobTable, JobState
<1>7. Serves'
  <2>1. s \in archiving
    BY <1>0 DEF IInv, OneRuns
  <2> QED BY <1>0, <1>4, <2>1 DEF IInv, Serves
<1> QED BY <1>3, <1>5, <1>6, <1>7 DEF IInv

\* Account: the window of a failure, the clear of a success.
LEMMA AccountKeeps ==
    ASSUME IInv, NEW d \in Dispatcher, NEW s \in Schema, Account(d, s)
    PROVE  IInv'
<1>0. /\ TypeOK /\ job \in JobTable /\ job[d][s] \in JobState /\ job[d][s].ph \in {"erred", "won"}
      /\ UNCHANGED <<cfg, tier, age, warm, client, overtaken, archiving, hold, sweeping, drain, sweep,
                     sweeps, connects, faults>>
  BY JobType DEF IInv, Account, JobTable, loops, rows, clients
<1>1. PICK ph \in {"done", "failed", "skipped"} : Set(d, s, ph)
  BY DEF Account
<1>2. /\ job' \in JobTable
      /\ \A e \in Dispatcher, t \in Schema : e # d \/ t # s => job'[e][t] = job[e][t]
      /\ job'[d][s].ph \in {"none", ph}
      /\ job'[d][s].ph # "none" => job'[d][s].kind = job[d][s].kind
  BY <1>0, <1>1, SetJob
<1>3. OneRuns' /\ Walks' /\ OneSweep' /\ OneBoots'
  BY <1>0, <1>2, JobEnds
<1>4. held' \subseteq Schema /\ failed' \subseteq failed
  BY <1>0 DEF Account, TypeOK
<1>5. TypeOK'
  BY <1>0, <1>2, <1>4 DEF TypeOK, JobTable, JobState
<1>6. Backed'
  <2> SUFFICES ASSUME NEW e \in {"pacer", "drain"}, NEW t \in Schema, <<e, t>> \in failed'
               PROVE  \/ job'[e][t].ph \in {"none", "done", "failed", "skipped"} /\ t \in held'
                      \/ job'[e][t].ph = "erred" /\ job'[e][t].does # "image"
    BY DEF Backed
  <2>0. e \in Dispatcher /\ <<e, t>> \in failed
    BY <1>4 DEF Dispatcher
  <2>1. CASE e = d /\ t = s
    <3>1. job[d][s].ph = "erred" /\ job[d][s].does # "image"
      BY <1>0, <2>0, <2>1 DEF IInv, Backed
    <3>2. s \in held'
      BY <2>1, <3>1 DEF Account, Recorded
    <3> QED BY <1>2, <2>1, <3>2
  <2>2. CASE ~(e = d /\ t = s)
    <3>1. job'[e][t] = job[e][t]
      BY <1>2, <2>0, <2>2
    <3>2. CASE job[e][t].ph = "erred"
      BY <2>0, <3>1, <3>2 DEF IInv, Backed
    <3>3. CASE job[e][t].ph # "erred"
      <4>1. t \in held
        BY <2>0, <3>3 DEF IInv, Backed
      <4>2. t \in held'
        BY <3>3, <4>1 DEF Account
      <4> QED BY <2>0, <3>1, <3>3, <4>2 DEF IInv, Backed
    <3> QED BY <3>2, <3>3
  <2> QED BY <2>1, <2>2
<1>7. Serves'
  BY <1>0 DEF IInv, Serves
<1> QED BY <1>3, <1>5, <1>6, <1>7 DEF IInv

----------------------------------------------------------------------------
(* The dispatchers.                                                        *)

LEMMA TouchType ==
    ASSUME TypeOK, NEW S, Touch(S)
    PROVE  age' \in [Schema -> 0..MaxAge]
BY Bounds DEF Touch, TypeOK

\* What a pick is for; beside a job that boots, nothing that boots.
LEMMA KindPicked ==
    ASSUME NEW s \in Schema, NEW p, NEW noBoot \in BOOLEAN, KindOf(s, p, noBoot) # "none"
    PROVE  KindOf(s, p, noBoot) \in OffloadKind /\ (noBoot => ~boots(KindOf(s, p, noBoot)))
BY DEF KindOf, OffloadKind, boots

LEMMA PickedFrom ==
    ASSUME NEW d \in Dispatcher, NEW p, NEW s \in Picks(d, p)
    PROVE  /\ s \in Schema /\ job[d][s].ph = "none" /\ s \notin archiving /\ s \notin held
           /\ KindOf(s, p, no_boot(d)) # "none"
BY DEF Picks, Unclaimed, Jobs

\* A job is picked: it does not run yet, and is the only one of its dispatcher to boot.
LEMMA DispatchKeeps ==
    ASSUME IInv, NEW d \in {"pacer", "drain"}, NEW p, NEW s \in Schema, Dispatch(d, p, s),
           UNCHANGED <<cfg, tier, warm, clients, claims, loops, connects, faults>>
    PROVE  IInv'
<1> DEFINE kind == KindOf(s, p, no_boot(d))
           v == [ph |-> "picked", kind |-> kind, does |-> kind]
<1>0. TypeOK /\ job \in JobTable /\ d \in Dispatcher /\ s \in Picks(d, p)
  BY JobType DEF IInv, Dispatcher, Dispatch
<1>1. job[d][s].ph = "none" /\ s \notin archiving /\ s \notin held /\ kind # "none"
  BY <1>0, PickedFrom
<1>2. no_boot(d) \in BOOLEAN
  BY DEF no_boot
<1>3. kind \in OffloadKind /\ (no_boot(d) => ~boots(kind))
  BY <1>1, <1>2, KindPicked
<1> HIDE DEF kind
<1>4. v \in JobState /\ v.ph = "picked" /\ v.kind = kind
  BY <1>3 DEF JobState
<1>5. job' = [job EXCEPT ![d][s] = v] /\ Touch(Refresh(d, p))
  BY DEF Dispatch, kind
<1> HIDE DEF v
<1>6. /\ [job EXCEPT ![d][s] = v] \in JobTable
      /\ \A e \in Dispatcher, t \in Schema :
            [job EXCEPT ![d][s] = v][e][t] = IF e = d /\ t = s THEN v ELSE job[e][t]
  BY <1>0, <1>4, JobSet
<1>7. job' \in JobTable /\ job'[d][s] = v
      /\ \A e \in Dispatcher, t \in Schema : e # d \/ t # s => job'[e][t] = job[e][t]
  BY <1>0, <1>5, <1>6
<1>8. UNCHANGED <<cfg, tier, warm, client, overtaken, archiving, held, failed, hold, sweeping, drain,
                  sweep, sweeps, connects, faults>>
  BY DEF clients, claims, loops
<1>9. TypeOK'
  <2>1. age' \in [Schema -> 0..MaxAge]
    BY <1>0, <1>5, TouchType
  <2> QED BY <1>0, <1>7, <1>8, <2>1 DEF TypeOK, JobTable, JobState
<1>10. OneRuns'
  BY <1>1, <1>4, <1>7, <1>8 DEF IInv, OneRuns
<1>11. Walks'
  <2>1. \A t \in Schema : job'["sweep"][t] = job["sweep"][t]
    BY <1>7 DEF Dispatcher
  <2> QED BY <1>8, <2>1 DEF IInv, Walks
<1>12. OneBoots'
  <2>1. \A t \in Schema : job[d][t].ph # "none" /\ boots(job[d][t].kind) => ~boots(kind)
    BY <1>3 DEF no_boot, Jobs
  <2>2. job'[d][s].ph = "picked" /\ job'[d][s].kind = kind
    BY <1>4, <1>7
  <2>3. ASSUME NEW e \in Dispatcher, NEW t \in Schema, NEW u \in Schema,
               job'[e][t].ph # "none", boots(job'[e][t].kind),
               job'[e][u].ph # "none", boots(job'[e][u].kind)
        PROVE  t = u
    <3>1. CASE e # d
      BY <1>7, <2>3, <3>1 DEF IInv, OneBoots
    <3>2. CASE e = d /\ t # s /\ u # s
      BY <1>7, <2>3, <3>2 DEF IInv, OneBoots
    <3> QED BY <1>7, <2>1, <2>2, <2>3, <3>1, <3>2
  <2>4. \A e \in Dispatcher, t \in Schema :
           job'[e][t].ph = "run" /\ boots(job'[e][t].does) /\ job'[e][t].kind # "promote"
               => boots(job'[e][t].kind)
    BY <1>7, <2>2 DEF IInv, OneBoots
  <2> QED BY <2>3, <2>4 DEF OneBoots
<1>13. Serves' /\ OneSweep'
  BY <1>8 DEF IInv, Serves, OneSweep
<1>14. Backed'
  <2>1. <<d, s>> \notin failed
    BY <1>1 DEF IInv, Backed
  <2> QED BY <1>0, <1>7, <1>8, <2>1 DEF IInv, Backed, Dispatcher
<1> QED BY <1>9, <1>10, <1>11, <1>12, <1>13, <1>14 DEF IInv

\* An ended job leaves the table.
LEMMA ForgetJob ==
    ASSUME IInv, NEW d \in Dispatcher, NEW s \in Schema, Ended(d, s), Forget(d, s),
           UNCHANGED <<archiving, held, failed>>
    PROVE  /\ job' \in JobTable /\ job'[d][s].ph = "none"
           /\ \A e \in Dispatcher, t \in Schema : e # d \/ t # s => job'[e][t] = job[e][t]
           /\ OneRuns' /\ OneBoots' /\ Backed'
<1>0. job \in JobTable /\ NoJob \in JobState /\ NoJob.ph = "none" /\ job[d][s].ph # "run"
  BY JobType DEF IInv, NoJob, JobState, OffloadKind, Ended
<1>1. /\ [job EXCEPT ![d][s] = NoJob] \in JobTable
      /\ \A e \in Dispatcher, t \in Schema :
            [job EXCEPT ![d][s] = NoJob][e][t] = IF e = d /\ t = s THEN NoJob ELSE job[e][t]
  BY <1>0, JobSet
<1>2. /\ job' \in JobTable /\ job'[d][s].ph = "none"
      /\ \A e \in Dispatcher, t \in Schema : e # d \/ t # s => job'[e][t] = job[e][t]
  BY <1>0, <1>1 DEF Forget
<1>3. OneRuns'
  BY <1>0, <1>2 DEF IInv, OneRuns
<1>4. OneBoots'
  BY <1>2 DEF IInv, OneBoots
<1>5. Backed'
  BY <1>2 DEF IInv, Backed, Ended, Dispatcher
<1> QED BY <1>2, <1>3, <1>4, <1>5

\* Steps of the loops that leave jobs and claims alone.
LEMMA LoopKeeps ==
    ASSUME IInv, UNCHANGED <<cfg, tier, warm, clients, claims, job, connects, faults>>,
           age' \in [Schema -> 0..MaxAge], hold' \in BOOLEAN, sweeping' \in BOOLEAN,
           sweeps' \in 0..MaxSweeps,
           drain' \in [ph : {"idle", "fill", "await", "out"}, mode : {"pressure", "ttl"},
                       fails : 0..MaxFails],
           drain'.ph = "await" => drain'.fails < MaxFails,
           sweep' \in [ph : {"idle", "next", "await"}, promote : SUBSET Schema,
                       archive : SUBSET Schema, fails : 0..MaxFails],
           (sweep.ph # "await" /\ sweep'.ph # "await") \/ UNCHANGED sweep, OneSweep'
    PROVE  IInv'
<1>1. UNCHANGED <<archiving, held, failed, client, overtaken>>
  BY DEF claims, clients
<1>2. TypeOK'
  BY <1>1 DEF IInv, TypeOK
<1>3. Walks'
  BY DEF IInv, Walks
<1> QED BY <1>1, <1>2, <1>3 DEF IInv, OneRuns, Serves, OneBoots, Backed

LEMMA PacerKeeps ==
    ASSUME IInv, PacerNothing \/ HoldOver \/ \E s \in Schema : PacerDispatch(s)
    PROVE  IInv'
<1>1. CASE PacerNothing
  <2>1. age' \in [Schema -> 0..MaxAge]
    BY <1>1, TouchType DEF PacerNothing, IInv
  <2> QED BY <1>1, <2>1, LoopKeeps DEF PacerNothing, IInv, TypeOK, Walks, OneSweep
<1>2. CASE HoldOver
  BY <1>2, LoopKeeps DEF HoldOver, IInv, TypeOK, Walks, OneSweep, rows
<1>3. ASSUME NEW s \in Schema, PacerDispatch(s) PROVE IInv'
  BY <1>3, DispatchKeeps DEF PacerDispatch
<1> QED BY <1>1, <1>2, <1>3

LEMMA DrainKeeps ==
    ASSUME IInv, DrainBegin("pressure") \/ DrainBegin("ttl") \/ DrainStep
    PROVE  IInv'
<1>0. TypeOK
  BY DEF IInv
<1>1. ASSUME NEW mode \in {"pressure", "ttl"}, DrainBegin(mode) PROVE IInv'
  <2>1. sweeps' \in 0..MaxSweeps /\ sweeping' \in BOOLEAN
    BY <1>1, Bounds DEF DrainBegin, Swap, IInv, TypeOK
  <2>2. /\ drain' \in [ph : {"idle", "fill", "await", "out"}, mode : {"pressure", "ttl"},
                        fails : 0..MaxFails]
        /\ drain'.ph # "await"
    BY <1>1, Bounds DEF DrainBegin
  <2> QED BY <1>1, <2>1, <2>2, LoopKeeps DEF DrainBegin, Swap, IInv, TypeOK, OneSweep, rows
<1>2. CASE DrainStop \/ DrainRecheck
  <2>1. /\ drain' \in [ph : {"idle", "fill", "await", "out"}, mode : {"pressure", "ttl"},
                        fails : 0..MaxFails]
        /\ drain'.ph # "await"
    BY <1>2 DEF DrainStop, DrainRecheck, Drain, IInv, TypeOK
  <2> QED BY <1>2, <2>1, LoopKeeps DEF DrainStop, DrainRecheck, Drain, IInv, TypeOK, OneSweep, rows
<1>3. CASE DrainFilled
  <2>1. /\ drain' \in [ph : {"idle", "fill", "await", "out"}, mode : {"pressure", "ttl"},
                        fails : 0..MaxFails]
        /\ drain'.fails < MaxFails
    BY <1>3 DEF DrainFilled, Drain, IInv, TypeOK
  <2>2. age' \in [Schema -> 0..MaxAge]
    BY <1>0, <1>3, TouchType DEF DrainFilled, TypeOK
  <2> QED BY <1>3, <2>1, <2>2, LoopKeeps DEF DrainFilled, Drain, IInv, TypeOK, OneSweep
<1>4. CASE DrainFinish
  <2>1. /\ drain' \in [ph : {"idle", "fill", "await", "out"}, mode : {"pressure", "ttl"},
                        fails : 0..MaxFails]
        /\ drain'.ph # "await"
    BY <1>4, Bounds DEF DrainFinish, NoDrain
  <2> QED BY <1>4, <2>1, LoopKeeps DEF DrainFinish, NoDrain, IInv, TypeOK, OneSweep, rows
<1>5. ASSUME NEW s \in Schema, DrainPick(s) PROVE IInv'
  BY <1>5, DispatchKeeps DEF DrainPick
<1>6. ASSUME NEW s \in Schema, DrainJoin(s) \/ DrainOut(s) PROVE IInv'
  <2>1. "drain" \in Dispatcher /\ Ended("drain", s) /\ Forget("drain", s)
        /\ UNCHANGED <<cfg, tier, age, warm, client, overtaken, archiving, held, failed, hold,
                       sweeping, sweep, sweeps, connects, faults>>
    BY <1>6 DEF DrainJoin, DrainOut, Dispatcher, claims, clients, rows, loops
  <2>2. /\ job' \in JobTable /\ job'["drain"][s].ph = "none"
        /\ \A e \in Dispatcher, t \in Schema : e # "drain" \/ t # s => job'[e][t] = job[e][t]
        /\ OneRuns' /\ OneBoots' /\ Backed'
    BY <2>1, ForgetJob
  <2>3. /\ drain' \in [ph : {"idle", "fill", "await", "out"}, mode : {"pressure", "ttl"},
                        fails : 0..MaxFails]
        /\ drain'.ph # "await" /\ (drain.ph = "idle" <=> drain'.ph = "idle")
    <3>1. CASE DrainJoin(s)
      <4>1. drain.fails \in 0..MaxFails /\ drain.fails < MaxFails
        BY <1>0, <3>1 DEF DrainJoin, IInv, Walks, TypeOK
      <4>2. drain.fails + 1 \in 0..MaxFails /\ 0 \in 0..MaxFails
        BY <4>1, Bounds
      <4>3. job["drain"][s].ph \in {"done", "failed", "skipped"}
        BY <2>1 DEF Ended
      <4> QED BY <1>0, <3>1, <4>1, <4>2, <4>3 DEF DrainJoin, TypeOK
    <3>2. CASE DrainOut(s)
      BY <1>0, <3>2 DEF DrainOut, TypeOK, loops
    <3> QED BY <1>6, <3>1, <3>2
  <2>4. TypeOK'
    BY <1>0, <2>1, <2>2, <2>3 DEF TypeOK, JobTable, JobState
  <2>5. Walks'
    <3>1. \A t \in Schema : job'["sweep"][t] = job["sweep"][t]
      BY <2>2 DEF Dispatcher
    <3> QED BY <2>1, <2>3, <3>1 DEF IInv, Walks
  <2>6. OneSweep'
    BY <2>1, <2>3 DEF IInv, OneSweep
  <2> QED BY <2>1, <2>2, <2>4, <2>5, <2>6 DEF IInv, Serves
<1> QED BY <1>1, <1>2, <1>3, <1>4, <1>5, <1>6 DEF DrainStep

LEMMA SweepKeeps ==
    ASSUME IInv, SweepBegin \/ SweepStep
    PROVE  IInv'
<1>0. TypeOK /\ "sweep" \in Dispatcher
  BY DEF IInv, Dispatcher
<1>1. CASE SweepBegin
  <2>1. sweeps' \in 0..MaxSweeps /\ sweeping' \in BOOLEAN
    BY <1>1, Bounds DEF SweepBegin, Swap, IInv, TypeOK
  <2>2. age' \in [Schema -> 0..MaxAge]
    BY <1>0, <1>1, TouchType DEF SweepBegin
  <2>3. sweep' \in [ph : {"idle", "next", "await"}, promote : SUBSET Schema,
                    archive : SUBSET Schema, fails : 0..MaxFails]
        /\ sweep'.ph = "next"
    <3> DEFINE P == {s \in Schema : tier[s] \in {"frozen", "compacted"} /\ age[s] >= cfg.archive}
               A == {s \in Schema \ held : classify_candidate(s, cfg.archive, TRUE) = "archive"}
    <3>1. sweep' = [ph |-> "next", fails |-> 0, promote |-> P, archive |-> A]
      BY <1>1 DEF SweepBegin
    <3>2. P \in SUBSET Schema /\ A \in SUBSET Schema
      OBVIOUS
    <3>3. 0 \in 0..MaxFails
      BY Bounds
    <3> HIDE DEF P, A
    <3> QED BY <3>1, <3>2, <3>3
  <2>4. sweep.ph = "idle" /\ drain.ph = "idle" /\ OneSweep'
    BY <1>1, <2>3 DEF SweepBegin, Swap, IInv, OneSweep
  <2>5. UNCHANGED <<cfg, tier, warm, clients, claims, job, hold, drain, connects, faults>>
    BY <1>1 DEF SweepBegin
  <2>6. drain' \in [ph : {"idle", "fill", "await", "out"}, mode : {"pressure", "ttl"}, fails : 0..MaxFails]
        /\ drain'.ph = "idle" /\ hold' \in BOOLEAN
    BY <1>0, <2>4, <2>5 DEF TypeOK
  <2> QED BY <2>1, <2>2, <2>3, <2>4, <2>5, <2>6, LoopKeeps
<1>2. CASE SweepEnd
  <2>1. sweep' \in [ph : {"idle", "next", "await"}, promote : SUBSET Schema,
                    archive : SUBSET Schema, fails : 0..MaxFails]
        /\ sweep'.ph = "idle" /\ sweep.ph = "next"
    BY <1>2, Bounds DEF SweepEnd, NoSweep
  <2>2. OneSweep' /\ drain.ph = "idle"
    BY <1>2, <2>1 DEF SweepEnd, IInv, OneSweep
  <2> QED BY <1>2, <2>1, <2>2, LoopKeeps DEF SweepEnd, IInv, TypeOK, rows
<1>3. ASSUME NEW s \in Schema, SweepNext(s) PROVE IInv'
  <2> DEFINE kind == IF s \in sweep.promote THEN "promote" ELSE "archive"
             v == [ph |-> "picked", kind |-> kind, does |-> kind]
  <2>1. v \in JobState /\ v.ph = "picked" /\ job \in JobTable
    BY <1>0, JobType DEF JobState, OffloadKind
  <2>2. job' = [job EXCEPT !["sweep"][s] = v]
    BY <1>3 DEF SweepNext
  <2> HIDE DEF v
  <2>3. /\ [job EXCEPT !["sweep"][s] = v] \in JobTable
        /\ \A e \in Dispatcher, t \in Schema :
              [job EXCEPT !["sweep"][s] = v][e][t] = IF e = "sweep" /\ t = s THEN v ELSE job[e][t]
    BY <1>0, <2>1, JobSet
  <2>4. job' \in JobTable /\ job'["sweep"][s] = v
        /\ \A e \in Dispatcher, t \in Schema : e # "sweep" \/ t # s => job'[e][t] = job[e][t]
    BY <1>0, <2>2, <2>3
  <2>5. UNCHANGED <<cfg, tier, age, warm, client, overtaken, archiving, held, failed, hold,
                    sweeping, drain, sweeps, connects, faults>>
    BY <1>3 DEF SweepNext, claims, clients, rows
  <2>6. sweep' \in [ph : {"idle", "next", "await"}, promote : SUBSET Schema,
                    archive : SUBSET Schema, fails : 0..MaxFails]
        /\ sweep'.ph = "await" /\ sweep.ph = "next" /\ sweep'.fails < MaxFails
    BY <1>0, <1>3 DEF SweepNext, TypeOK
  <2>7. \A t \in Schema : job["sweep"][t].ph = "none"
    BY <2>6 DEF IInv, Walks
  <2>8. TypeOK'
    BY <1>0, <2>4, <2>5, <2>6 DEF TypeOK, JobTable, JobState
  <2>9. OneRuns'
    BY <2>1, <2>4, <2>5, <2>7 DEF IInv, OneRuns
  <2>10. Walks' /\ OneSweep'
    BY <1>0, <2>1, <2>4, <2>5, <2>6, <2>7 DEF IInv, Walks, OneSweep
  <2>11. OneBoots'
    BY <1>0, <2>1, <2>4, <2>7 DEF IInv, OneBoots
  <2>12. Backed'
    BY <2>4, <2>5 DEF IInv, Backed, Dispatcher
  <2> QED BY <2>5, <2>8, <2>9, <2>10, <2>11, <2>12 DEF IInv, Serves
<1>4. ASSUME NEW s \in Schema, SweepJoin(s) PROVE IInv'
  <2>1. /\ Ended("sweep", s) /\ Forget("sweep", s) /\ sweep.ph = "await"
        /\ UNCHANGED <<cfg, tier, age, warm, client, overtaken, archiving, held, failed, hold,
                       sweeping, drain, sweeps, connects, faults>>
    BY <1>4 DEF SweepJoin, claims, clients, rows
  <2>2. /\ job' \in JobTable /\ job'["sweep"][s].ph = "none"
        /\ \A e \in Dispatcher, t \in Schema : e # "sweep" \/ t # s => job'[e][t] = job[e][t]
        /\ OneRuns' /\ OneBoots' /\ Backed'
    BY <1>0, <2>1, ForgetJob
  <2>3. sweep' \in [ph : {"idle", "next", "await"}, promote : SUBSET Schema,
                    archive : SUBSET Schema, fails : 0..MaxFails]
        /\ sweep'.ph = "next"
    <3>1. sweep.fails \in 0..MaxFails /\ sweep.fails < MaxFails
      BY <1>0, <2>1 DEF IInv, Walks, TypeOK
    <3>2. sweep.fails + 1 \in 0..MaxFails /\ 0 \in 0..MaxFails
      BY <3>1, Bounds
    <3> QED BY <1>0, <1>4, <3>1, <3>2 DEF SweepJoin, TypeOK
  <2>4. TypeOK'
    BY <1>0, <2>1, <2>2, <2>3 DEF TypeOK, JobTable, JobState
  <2>5. \A t \in Schema : job'["sweep"][t].ph = "none"
    <3>1. \A t \in Schema : t # s => job["sweep"][t].ph = "none"
      BY <2>1 DEF IInv, Walks, Ended
    <3> QED BY <1>0, <2>2, <3>1
  <2>6. Walks' /\ OneSweep'
    BY <2>1, <2>3, <2>5 DEF IInv, Walks, OneSweep
  <2> QED BY <2>1, <2>2, <2>4, <2>6 DEF IInv, Serves
<1> QED BY <1>1, <1>2, <1>3, <1>4 DEF SweepStep

\* A panic ends the operator's sweep; its only job goes, and the claim and the flag with it.
LEMMA SweepPanicsKeeps ==
    ASSUME IInv, NEW s \in Schema, SweepPanics(s)
    PROVE  IInv'
<1>0. /\ TypeOK /\ "sweep" \in Dispatcher /\ job \in JobTable /\ job["sweep"][s].ph = "run"
      /\ archiving' = archiving \ {s} /\ sweep' = NoSweep /\ sweeping' = FALSE
      /\ UNCHANGED <<cfg, tier, age, warm, client, overtaken, held, failed, hold, drain, sweeps,
                     connects>>
  BY JobType DEF IInv, Dispatcher, SweepPanics, rows, clients
<1>1. NoJob \in JobState /\ NoJob.ph = "none"
  BY DEF NoJob, JobState, OffloadKind
<1>2. /\ [job EXCEPT !["sweep"][s] = NoJob] \in JobTable
      /\ \A e \in Dispatcher, t \in Schema :
            [job EXCEPT !["sweep"][s] = NoJob][e][t] = IF e = "sweep" /\ t = s THEN NoJob ELSE job[e][t]
  BY <1>0, <1>1, JobSet
<1>3. /\ job' \in JobTable /\ job'["sweep"][s].ph = "none"
      /\ \A e \in Dispatcher, t \in Schema : e # "sweep" \/ t # s => job'[e][t] = job[e][t]
  BY <1>0, <1>1, <1>2 DEF SweepPanics, Forget
<1>4. /\ sweep' \in [ph : {"idle", "next", "await"}, promote : SUBSET Schema,
                      archive : SUBSET Schema, fails : 0..MaxFails]
      /\ sweep'.ph = "idle" /\ faults' \in 0..MaxFaults
  BY <1>0, Bounds DEF NoSweep, SweepPanics, TypeOK
<1>5. TypeOK'
  BY <1>0, <1>3, <1>4 DEF TypeOK, JobTable, JobState
<1>6. OneRuns'
  BY <1>0, <1>3 DEF IInv, OneRuns
<1>7. sweep.ph = "await" /\ \A t \in Schema : job'["sweep"][t].ph = "none"
  BY <1>0, <1>3 DEF IInv, Walks
<1>8. Walks' /\ OneSweep'
  BY <1>0, <1>4, <1>7 DEF IInv, Walks, OneSweep
<1>9. OneBoots'
  BY <1>3 DEF IInv, OneBoots
<1>10. Backed' /\ Serves'
  BY <1>0, <1>3 DEF IInv, Backed, Serves, Dispatcher
<1> QED BY <1>5, <1>6, <1>8, <1>9, <1>10 DEF IInv

\* A checkout under way: what it finds unclaimed may be claimed before it counts.
LEMMA CheckoutKeeps ==
    ASSUME IInv, NEW s \in Schema, Checkout(s)
    PROVE  IInv'
<1>0. /\ TypeOK
      /\ UNCHANGED <<cfg, overtaken, archiving, held, failed, job, hold, sweeping, drain, sweep, sweeps,
                     faults>>
  BY DEF IInv, Checkout, Arrive, Pass, Serve, ServeStray, Leave, Disconnect, clients, claims, loops, rows
<1>1. age' \in [Schema -> 0..MaxAge] /\ connects' \in 0..MaxConnects
  BY <1>0, Bounds DEF TypeOK, Checkout, Arrive, Pass, Serve, ServeStray, Leave, Disconnect, rows
<1>2. warm' \in [Schema -> {"none", "busy", "idle"}] /\ tier' \in [Schema -> Tier]
  BY <1>0 DEF TypeOK, Checkout, Arrive, Pass, Serve, ServeStray, Leave, Disconnect, rows, Tier
<1>3. client' \in [Schema -> {"none", "waits", "past", "evicted", "stray"}]
  BY <1>0 DEF TypeOK, Checkout, Arrive, Pass, Serve, ServeStray, Leave, Disconnect, clients
<1>4. TypeOK'
  BY <1>0, <1>1, <1>2, <1>3 DEF TypeOK
<1>5. Serves'
  <2>1. CASE Arrive(s) \/ Pass(s) \/ Leave(s)
    BY <1>0, <2>1 DEF IInv, TypeOK, Serves, Arrive, Pass, Leave, rows
  <2>2. CASE Serve(s)
    BY <1>0, <2>2 DEF IInv, TypeOK, Serves, Serve
  <2>3. CASE ServeStray(s)
    <3>1. tier' = tier \/ tier' = [tier EXCEPT ![s] = "live"]
      BY <2>3 DEF ServeStray
    <3> QED BY <1>0, <2>3, <3>1 DEF IInv, TypeOK, Serves, ServeStray
  <2>4. CASE Disconnect(s)
    BY <1>0, <2>4 DEF IInv, TypeOK, Serves, Disconnect, clients
  <2> QED BY <2>1, <2>2, <2>3, <2>4 DEF Checkout
<1> QED BY <1>0, <1>4, <1>5 DEF IInv, OneRuns, Walks, OneSweep, OneBoots, Backed

\* Time, the reaper and the windows.
LEMMA WorldKeeps ==
    ASSUME IInv, NEW s \in Schema, World(s)
    PROVE  IInv'
<1>0. /\ TypeOK
      /\ UNCHANGED <<cfg, tier, client, archiving, job, hold, sweeping, drain, sweep, sweeps, connects,
                     faults>>
  BY DEF IInv, World, Cool, ReapIdle, WindowEnds, clients, claims, loops, rows
<1>1. age' \in [Schema -> 0..MaxAge]
  BY <1>0, Bounds DEF TypeOK, World, Cool, ReapIdle, WindowEnds, rows
<1>2. /\ warm' \in [Schema -> {"none", "busy", "idle"}] /\ overtaken' \subseteq Schema
      /\ held' \subseteq Schema /\ failed' \subseteq failed
  BY <1>0 DEF TypeOK, World, Cool, ReapIdle, WindowEnds, rows, claims, clients
<1>3. TypeOK'
  BY <1>0, <1>1, <1>2 DEF TypeOK
<1>4. Serves'
  BY <1>0 DEF IInv, TypeOK, Serves, World, Cool, ReapIdle, WindowEnds, rows, clients
<1>5. Backed'
  <2>1. CASE Cool(s) \/ ReapIdle(s)
    BY <1>0, <2>1 DEF IInv, Backed, Cool, ReapIdle, claims
  <2>2. CASE WindowEnds(s)
    <3> SUFFICES ASSUME NEW e \in {"pacer", "drain"}, NEW t \in Schema, <<e, t>> \in failed'
                 PROVE  \/ job[e][t].ph \in {"none", "done", "failed", "skipped"} /\ t \in held'
                        \/ job[e][t].ph = "erred" /\ job[e][t].does # "image"
      BY <1>0 DEF Backed
    <3>1. <<e, t>> \in failed /\ (t # s \/ job[e][s].ph = "erred")
      BY <2>2 DEF WindowEnds
    <3> QED BY <2>2, <3>1 DEF IInv, Backed, WindowEnds
  <2> QED BY <2>1, <2>2 DEF World
<1> QED BY <1>0, <1>3, <1>4, <1>5 DEF IInv, OneRuns, Walks, OneSweep, OneBoots

----------------------------------------------------------------------------
LEMMA NextInv == IInv /\ [Next]_vars => IInv'
<1> SUFFICES ASSUME IInv, [Next]_vars PROVE IInv'
  OBVIOUS
<1>1. CASE UNCHANGED vars
  BY <1>1 DEF vars, rows, clients, claims, loops, IInv, TypeOK, OneRuns, Serves, Walks, OneSweep,
              OneBoots, Backed
<1>2. ASSUME NEW d \in Dispatcher, NEW s \in Schema, JobStep(d, s) PROVE IInv'
  BY <1>2, StartKeeps, FinishKeeps, AccountKeeps DEF JobStep
<1> QED BY <1>1, <1>2, PacerKeeps, DrainKeeps, SweepKeeps, SweepPanicsKeeps, CheckoutKeeps, WorldKeeps
    DEF Next

\* The inductive invariant holds throughout (spawn_offloader, offload_drain_loop,
\* sweep_archive and the jobs they start).
THEOREM Invariant == Spec => []IInv
BY InitInv, NextInv, PTL DEF Spec

\* Types hold throughout.
THEOREM TypeCorrect == Spec => []TypeOK
<1>1. IInv => TypeOK
  BY DEF IInv
<1> QED BY <1>1, Invariant, PTL

\* A schema is claimed exactly while one job works on it, and never while a session counts,
\* whoever picks what beside whom, unless it was claimed while a checkout was past its look
\* at the claims (ArchivingGuard, archive_schema_inner, checkout).
THEOREM ClaimsHold == Spec => []Claims
BY Invariant, ClaimsFollow, PTL

\* Each dispatcher runs at most one job that was picked to boot a VM (OffloadKind::boots,
\* no_boot of OffloadPolicy).
THEOREM OneBootHolds == Spec => []OneBootEach
BY Invariant, OneBootFollows, PTL

\* Whatever is picked by the pacer or the drain loop has no window.
LEMMA PickedFree ==
    ASSUME IInv, Next, NEW e \in {"pacer", "drain"}, NEW t \in Schema,
           job[e][t].ph = "none", job'[e][t].ph = "picked"
    PROVE  t \notin held
<1>0. TypeOK /\ job \in JobTable /\ e \in Dispatcher
  BY JobType DEF IInv, Dispatcher
<1>1. ASSUME NEW d \in {"pacer", "drain"}, NEW p, NEW s \in Schema, Dispatch(d, p, s)
      PROVE  t \notin held
  <2> DEFINE v == [ph |-> "picked", kind |-> KindOf(s, p, no_boot(d)), does |-> KindOf(s, p, no_boot(d))]
  <2>1. d \in Dispatcher /\ s \in Picks(d, p) /\ job' = [job EXCEPT ![d][s] = v]
    BY <1>1 DEF Dispatch, Dispatcher
  <2>2. s \notin held
    BY <2>1, PickedFrom
  <2> HIDE DEF v
  <2>3. e # d \/ t # s => job'[e][t] = job[e][t]
    BY <1>0, <2>1 DEF JobTable
  <2> QED BY <2>2, <2>3
<1>2. ASSUME NEW d \in Dispatcher, NEW s \in Schema, JobStep(d, s) PROVE FALSE
  <2>1. ASSUME NEW ph \in {"done", "failed", "skipped"}, Set(d, s, ph) PROVE FALSE
    BY <1>0, <2>1, SetJob
  <2>2. ASSUME NEW kind, job' = [job EXCEPT ![d][s] = [@ EXCEPT !.ph = "run", !.does = kind]]
        PROVE FALSE
    <3>1. job[d][s] \in JobState
      BY <1>0 DEF JobTable
    <3>2. [job[d][s] EXCEPT !.ph = "run", !.does = kind].ph = "run"
      BY <3>1 DEF JobState
    <3> QED BY <1>0, <2>2, <3>2 DEF JobTable
  <2>3. ASSUME NEW kind \in OffloadKind, Erred(d, s, kind) PROVE FALSE
    BY <1>0, <2>3, ErredJob
  <2>4. CASE Start(d, s)
    <3>1. Kind(d, s) \in OffloadKind
      BY <1>0 DEF Kind, JobTable, JobState, OffloadKind
    <3> QED BY <2>1, <2>2, <2>3, <2>4, <3>1 DEF Start
  <2>5. CASE Done(d, s)
    BY <1>0, <2>5, WonJob
  <2>6. CASE Fails(d, s)
    <3>1. job[d][s].does \in OffloadKind
      BY <1>0 DEF JobTable, JobState
    <3> QED BY <2>3, <2>6, <3>1 DEF Fails
  <2> QED BY <1>2, <2>1, <2>4, <2>5, <2>6 DEF JobStep, Panics, Account
<1>3. ASSUME NEW d \in {"drain", "sweep"}, NEW s \in Schema, Forget(d, s) PROVE FALSE
  BY <1>0, <1>3 DEF Forget, JobTable, Dispatcher, NoJob
<1>4. ASSUME NEW s \in Schema, SweepNext(s) PROVE FALSE
  <2>1. job'[e] = job[e]
    BY <1>0, <1>4 DEF SweepNext, JobTable, Dispatcher
  <2> QED BY <2>1
<1>5. ASSUME UNCHANGED job PROVE FALSE
  BY <1>5
<1>6. \/ \E d \in Dispatcher, s \in Schema : JobStep(d, s)
      \/ \E d \in {"pacer", "drain"}, s \in Schema : \E p : Dispatch(d, p, s)
      \/ \E d \in {"drain", "sweep"}, s \in Schema : Forget(d, s)
      \/ \E s \in Schema : SweepNext(s)
      \/ UNCHANGED job
  BY DEF Next, World, Checkout, Arrive, Pass, Serve, ServeStray, Leave, Disconnect, Cool, ReapIdle, SweepPanics, WindowEnds, PacerDispatch, PacerNothing,
         HoldOver, DrainBegin, DrainStep, DrainStop, DrainFilled, DrainRecheck, DrainFinish, DrainPick,
         DrainJoin, DrainOut, SweepBegin, SweepStep, SweepEnd, SweepJoin
<1> QED BY <1>1, <1>2, <1>3, <1>4, <1>5, <1>6

\* Neither the pacer nor the drain loop picks again what its own job failed at, before a
\* window ends or another job succeeds, although the claim is released first and the window
\* recorded later (archive_schema, OffloadBackoff, pick_offload_job).
THEOREM RetryIsHeld == Spec => RetryHeld
<1>1. IInv /\ [Next]_vars =>
          [\A d \in {"pacer", "drain"}, s \in Schema :
              job[d][s].ph = "none" /\ job'[d][s].ph = "picked" => <<d, s>> \notin failed]_vars
  <2> SUFFICES ASSUME IInv, [Next]_vars, NEW d \in {"pacer", "drain"}, NEW s \in Schema,
                      job[d][s].ph = "none", job'[d][s].ph = "picked"
               PROVE  <<d, s>> \notin failed
    OBVIOUS
  <2>1. Next
    BY DEF vars, rows, clients, claims, loops
  <2> QED BY <2>1, PickedFree DEF IInv, Backed
<1> QED BY <1>1, Invariant, PTL DEF Spec, RetryHeld
============================================================================
