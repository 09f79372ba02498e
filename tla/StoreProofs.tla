---------------------------- MODULE StoreProofs ----------------------------
(***************************************************************************)
(* What TLAPS proves about the registry store (Store) for every set of     *)
(* schemas and sandbox ids and any number of calls, failures and crashes.  *)
(*                                                                         *)
(* Nothing but TypeOK is inductive as it stands.  Latest and Named say     *)
(* what the newest generation holds, Generations ties the file and the     *)
(* tasks to the generations stamped, Owed accounts for the newest one, and *)
(* Stable says since when the generations agree with memory on a schema's  *)
(* mapping; Acked is what makes a confirmed mapping durable.               *)
(***************************************************************************)
EXTENDS Store, SequenceTheorems, TLAPS

\* No row in memory has an empty id: parse would drop it.
Named == \A s \in Schema : map[s] # NoRow => map[s].id # Blank

\* The file is a stamped generation, and so is what each task will write;
\* the one task inside the critical section is newer than the file.
Generations ==
    /\ Len(stamped) = seq + 1
    /\ written <= seq
    /\ file = stamped[written + 1]
    /\ \A t \in tasks : 1 <= t.seq /\ t.seq <= seq /\ t.contents = stamped[t.seq + 1]
    /\ \A t \in writing : t.seq > written
    /\ \A t, u \in writing : t = u

\* With no bump outstanding, the newest generation reads back as the map, unless
\* it is one that was not read, or not written.
Latest == ~dirty /\ ~flushing /\ seq \notin lost => parse(stamped[seq + 1]) = map

\* The newest generation is in the file, or queued, or its write failed (its read,
\* for generation 0).
Owed == seq = written \/ (\E t \in tasks : t.seq = seq) \/ seq \in lost

\* As long as nothing failed, every generation since the last change of s's
\* mapping holds that mapping.
Stable ==
    \A s \in Schema :
        /\ bound[s] <= seq
        /\ fails = 0 => \A g \in bound[s]..seq :
               Mapping(parse(stamped[g + 1])[s]) = Mapping(map[s])

\* As long as nothing failed, a confirmed mapping is the schema's, and the
\* file has reached the generation that set it.
Acked ==
    fails = 0 =>
        \A s \in Schema :
            acked[s] # NoRow => acked[s] = Mapping(map[s]) /\ bound[s] <= written

IInv == Named /\ Generations /\ Latest /\ Owed /\ Stable /\ Acked

-----------------------------------------------------------------------------
(* The file format. *)

\* serialize and parse stay within their types.
LEMMA FormatTypes ==
    /\ \A m \in Rows : serialize(m) \in Contents
    /\ \A c \in Contents : parse(c) \in Rows
<1>1. ASSUME NEW m \in Rows PROVE serialize(m) \in Contents
  <2>1. ASSUME NEW s \in Schema, m[s] # NoRow
        PROVE  [id |-> m[s].id, last |-> m[s].last, state |-> as_str(m[s].tier)] \in Line
    <3>1. m[s] \in Rec
      BY <1>1, <2>1 DEF Rows
    <3>2. as_str(m[s].tier) \in Word
      BY <3>1 DEF Rec, Tier, as_str, Word
    <3>. QED
      BY <3>1, <3>2 DEF Rec, Line
  <2>. QED
    BY <2>1 DEF serialize, Contents
<1>2. ASSUME NEW c \in Contents PROVE parse(c) \in Rows
  <2>1. ASSUME NEW s \in Schema, c[s] # NoRow
        PROVE  [id |-> c[s].id, last |-> c[s].last, tier |-> parse_tier(c[s].state)] \in Rec
    <3>1. c[s] \in Line
      BY <1>2, <2>1 DEF Contents
    <3>2. parse_tier(c[s].state) \in Tier
      BY DEF Tier, parse_tier
    <3>. QED
      BY <3>1, <3>2 DEF Rec, Line
  <2>. QED
    BY <2>1 DEF parse, Rows
<1>. QED
  BY <1>1, <1>2

\* A restart reads back the rows that were written, provided none of them has
\* an empty id.
LEMMA RoundTrip ==
    ASSUME NEW m \in Rows,
           \A s \in Schema : m[s] # NoRow => m[s].id # Blank
    PROVE  parse(serialize(m)) = m
<1>1. ASSUME NEW s \in Schema PROVE parse(serialize(m))[s] = m[s]
  <2>1. CASE m[s] = NoRow
    BY <2>1 DEF parse, serialize
  <2>2. CASE m[s] # NoRow
    <3>1. m[s] \in Rec
      BY <2>2 DEF Rows
    <3>2. parse_tier(as_str(m[s].tier)) = m[s].tier
      BY <3>1 DEF Rec, Tier, as_str, parse_tier
    <3>3. serialize(m)[s] = [id |-> m[s].id, last |-> m[s].last, state |-> as_str(m[s].tier)]
      BY <2>2 DEF serialize
    <3>4. serialize(m) \in Contents
      BY FormatTypes
    <3>5. serialize(m)[s] # NoRow
      <4>1. m[s].id \in Id /\ m[s].last \in Nat /\ as_str(m[s].tier) \in Word
        BY <3>1 DEF Rec, Tier, as_str, Word
      <4>. QED
        BY <4>1, <3>3, NoRowAssumption DEF Line
    <3>6. parse(serialize(m))[s] = [id |-> m[s].id, last |-> m[s].last, tier |-> m[s].tier]
      BY <2>2, <3>2, <3>3, <3>5 DEF parse
    <3>. QED
      BY <3>1, <3>6 DEF Rec
  <2>. QED
    BY <2>1, <2>2
<1>2. parse(serialize(m)) \in Rows
  BY FormatTypes
<1>. QED
  BY <1>1, <1>2 DEF Rows

-----------------------------------------------------------------------------
(* Types. *)

\* A new generation, and the task that will write it, are well-typed.
LEMMA StampTypes ==
    ASSUME TypeOK, NEW m \in Rows, NEW w \in Schema \cup {Nobody}, stamp(m, w)
    PROVE  /\ seq' \in Nat
           /\ tasks' \subseteq Task /\ tasks \subseteq tasks'
           /\ stamped' \in Seq(Contents)
<1>1. serialize(m) \in Contents
  BY FormatTypes
<1>2. seq \in Nat /\ tasks \subseteq Task /\ stamped \in Seq(Contents)
  BY DEF TypeOK
<1>3. [seq |-> seq + 1, contents |-> serialize(m), waiter |-> w] \in Task
  BY <1>1, <1>2 DEF Task
<1>4. Append(stamped, serialize(m)) \in Seq(Contents)
  BY <1>1, <1>2, AppendProperties
<1>. QED
  BY <1>2, <1>3, <1>4 DEF stamp

\* The three rows a call can write are well-typed.
LEMMA RecTypes ==
    ASSUME TypeOK, NEW s \in Schema, NEW n \in Nat, NEW tier \in Tier
    PROVE  /\ \A id \in Id : [id |-> id, last |-> n, tier |-> tier] \in Rec
           /\ map[s] # NoRow => /\ [map[s] EXCEPT !.tier = tier] \in Rec
                                /\ [map[s] EXCEPT !.last = n] \in Rec
<1>1. \A id \in Id : [id |-> id, last |-> n, tier |-> tier] \in Rec
  BY DEF Rec
<1>2. ASSUME map[s] # NoRow
      PROVE  [map[s] EXCEPT !.tier = tier] \in Rec /\ [map[s] EXCEPT !.last = n] \in Rec
  <2>1. map[s] \in Rec
    BY <1>2 DEF TypeOK, Rows
  <2>. QED
    BY <2>1 DEF Rec
<1>. QED
  BY <1>1, <1>2

\* A schema that gets a row.
LEMMA RebindTypes ==
    ASSUME TypeOK, NEW s \in Schema, NEW rec \in Rec, Rebind(s, rec)
    PROVE  /\ [map EXCEPT ![s] = rec] \in Rows
           /\ map' = [map EXCEPT ![s] = rec]
           /\ bound' \in [Schema -> Nat]
           /\ acked' \in [Schema -> [id : Id, tier : Tier] \cup {NoRow}]
BY DEF TypeOK, Rows, Rebind

\* An activity bump.
LEMMA BumpTypes ==
    ASSUME TypeOK, NEW s \in Schema, map[s] # NoRow, now' \in Nat, Bump(s)
    PROVE  /\ map' \in Rows /\ dirty' \in BOOLEAN
           /\ map' = [map EXCEPT ![s] = [map[s] EXCEPT !.last = now']]
<1>1. [map[s] EXCEPT !.last = now'] \in Rec
  BY RecTypes, "Live" \in Tier DEF Tier
<1>2. map' = [map EXCEPT ![s] = [map[s] EXCEPT !.last = now']]
  BY DEF Bump
<1>. QED
  BY <1>1, <1>2 DEF TypeOK, Rows, Bump

\* What the end of a write task leaves behind.
LEMMA FinishTypes ==
    ASSUME TypeOK, NEW t \in tasks, Finish(t)
    PROVE  /\ tasks' \subseteq Task /\ writing' \subseteq tasks'
           /\ acked' \in [Schema -> [id : Id, tier : Tier] \cup {NoRow}]
<1>1. \A s \in Schema : Mapping(map[s]) \in [id : Id, tier : Tier] \cup {NoRow}
  <2>1. TAKE s \in Schema
  <2>2. CASE map[s] = NoRow
    BY <2>2 DEF Mapping
  <2>3. CASE map[s] # NoRow
    <3>1. map[s] \in Rec
      BY <2>3 DEF TypeOK, Rows
    <3>2. Mapping(map[s]) = [id |-> map[s].id, tier |-> map[s].tier]
      BY <2>3 DEF Mapping
    <3>. QED
      BY <3>1, <3>2 DEF Rec
  <2>. QED
    BY <2>2, <2>3
<1>2. t.waiter # Nobody => t.waiter \in Schema
  BY DEF TypeOK, Task
<1>3. acked' \in [Schema -> [id : Id, tier : Tier] \cup {NoRow}]
  <2>. DEFINE MapOf(s) == Mapping(map[s])
  <2>1. acked \in [Schema -> [id : Id, tier : Tier] \cup {NoRow}]
    BY DEF TypeOK
  <2>2. CASE acked' = acked
    BY <2>1, <2>2
  <2>3. CASE t.waiter # Nobody /\ acked' = [acked EXCEPT ![t.waiter] = MapOf(t.waiter)]
    <3>1. MapOf(t.waiter) \in [id : Id, tier : Tier] \cup {NoRow}
      BY <1>1, <1>2, <2>3
    <3>. HIDE DEF MapOf
    <3>. QED
      BY <1>2, <2>1, <2>3, <3>1
  <2>. QED
    BY <2>2, <2>3 DEF Finish
<1>. QED
  BY <1>3 DEF TypeOK, Finish

\* The calls that may bind a row: put, set_tier and adopt_archived.
LEMMA CallTypes ==
    ASSUME TypeOK,
           \/ \E s \in Schema, id \in Sandbox : put(s, id)
           \/ \E s \in Schema : touch(s)
           \/ \E s \in Schema, tier \in Tier \ {"Live"} : set_tier(s, tier)
           \/ \E s \in Schema : adopt_archived(s)
    PROVE  TypeOK'
<1>. USE DEF Call, callVars
<1>1. now \in Nat => now + 1 \in Nat
  OBVIOUS
<1>2. now \in Nat /\ "Live" \in Tier /\ "Archived" \in Tier /\ Sandbox \subseteq Id /\ Adopted \in Id
  BY DEF TypeOK, Tier, Id
<1>3. ASSUME NEW s \in Schema, NEW rec \in Rec, Rebind(s, rec),
             NEW w \in Schema \cup {Nobody}, stamp([map EXCEPT ![s] = rec], w),
             now' \in Nat, UNCHANGED <<callVars, flushing, dirty>>
      PROVE  TypeOK'
  <2>1. /\ [map EXCEPT ![s] = rec] \in Rows
        /\ map' = [map EXCEPT ![s] = rec]
        /\ bound' \in [Schema -> Nat]
        /\ acked' \in [Schema -> [id : Id, tier : Tier] \cup {NoRow}]
    BY <1>3, RebindTypes
  <2>2. /\ seq' \in Nat
        /\ tasks' \subseteq Task /\ tasks \subseteq tasks'
        /\ stamped' \in Seq(Contents)
    BY <1>3, <2>1, StampTypes
  <2>. QED
    BY <1>3, <2>1, <2>2 DEF TypeOK
<1>4. ASSUME NEW s \in Schema, map[s] # NoRow, now' \in Nat, Bump(s),
             UNCHANGED <<callVars, flushing>>
      PROVE  TypeOK'
  <2>1. map' \in Rows /\ dirty' \in BOOLEAN
    BY <1>4, BumpTypes
  <2>. QED
    BY <1>4, <2>1 DEF TypeOK, Bump
<1>5. ASSUME NEW s \in Schema, NEW id \in Sandbox, put(s, id) PROVE TypeOK'
  <2>. DEFINE rec == [id |-> id, last |-> now', tier |-> "Live"]
  <2>1. now' \in Nat
    BY <1>1, <1>2, <1>5 DEF put
  <2>2. rec \in Rec
    BY <1>2, <2>1, RecTypes
  <2>3. CASE map[s] # NoRow /\ Mapping(map[s]) = [id |-> id, tier |-> "Live"]
    BY <1>4, <1>5, <2>1, <2>3 DEF put
  <2>4. CASE ~(map[s] # NoRow /\ Mapping(map[s]) = [id |-> id, tier |-> "Live"])
    <3>1. Rebind(s, rec) /\ stamp([map EXCEPT ![s] = rec], Nobody) /\ UNCHANGED <<callVars, flushing, dirty>>
      BY <1>5, <2>4 DEF put
    <3>. HIDE DEF rec
    <3>. QED
      BY <1>3, <2>1, <2>2, <3>1
  <2>. QED
    BY <2>3, <2>4
<1>6. ASSUME NEW s \in Schema, touch(s) PROVE TypeOK'
  BY <1>1, <1>2, <1>4, <1>6 DEF touch
<1>7. ASSUME NEW s \in Schema, NEW tier \in Tier, set_tier(s, tier) PROVE TypeOK'
  <2>. DEFINE rec == [map[s] EXCEPT !.tier = tier]
  <2>1. rec \in Rec
    BY <1>2, <1>7, RecTypes DEF set_tier
  <2>2. Rebind(s, rec) /\ stamp([map EXCEPT ![s] = rec], s) /\ UNCHANGED <<callVars, flushing, dirty>> /\ now' \in Nat
    BY <1>1, <1>2, <1>7 DEF set_tier
  <2>. HIDE DEF rec
  <2>. QED
    BY <1>3, <2>1, <2>2
<1>8. ASSUME NEW s \in Schema, adopt_archived(s) PROVE TypeOK'
  <2>. DEFINE rec == IF map[s] = NoRow
                     THEN [id |-> Adopted, last |-> now', tier |-> "Archived"]
                     ELSE [map[s] EXCEPT !.tier = "Archived"]
  <2>1. now' \in Nat
    BY <1>1, <1>2, <1>8 DEF adopt_archived
  <2>2. [id |-> Adopted, last |-> now', tier |-> "Archived"] \in Rec
    BY <1>2, <2>1, RecTypes
  <2>3. map[s] # NoRow => [map[s] EXCEPT !.tier = "Archived"] \in Rec
    BY <1>2, RecTypes
  <2>4. rec \in Rec
    BY <2>2, <2>3
  <2>5. Rebind(s, rec) /\ stamp([map EXCEPT ![s] = rec], s) /\ UNCHANGED <<callVars, flushing, dirty>>
    BY <1>8 DEF adopt_archived
  <2>. HIDE DEF rec
  <2>. QED
    BY <1>3, <2>1, <2>4, <2>5
<1>. QED
  BY <1>5, <1>6, <1>7, <1>8

\* TypeCorrect: the store's state keeps its types through every interleaving
\* of calls, flushes, writes, failures and restarts (the whole of store.rs).
THEOREM TypeCorrect == Spec => []TypeOK
<1>1. Init => TypeOK
  <2>1. SUFFICES ASSUME Init PROVE TypeOK
    OBVIOUS
  <2>2. [s \in Schema |-> NoRow] \in Contents /\ [s \in Schema |-> NoRow] \in Rows
    BY DEF Contents, Rows
  <2>3. stamped \in Seq(Contents)
    BY <2>1, <2>2 DEF Init
  <2>. QED
    BY <2>1, <2>2, <2>3 DEF Init, TypeOK
<1>2. TypeOK /\ [Next]_vars => TypeOK'
  <2>. SUFFICES ASSUME TypeOK, [Next]_vars PROVE TypeOK'
    OBVIOUS
  <2>1. CASE FlushSwap
    BY <2>1 DEF TypeOK, FlushSwap, callVars
  <2>2. CASE FlushSnapshot
    <3>1. map \in Rows
      BY DEF TypeOK
    <3>2. stamp(map, Nobody)
      BY <2>2 DEF FlushSnapshot
    <3>3. seq' \in Nat /\ tasks' \subseteq Task /\ tasks \subseteq tasks' /\ stamped' \in Seq(Contents)
      BY <3>1, <3>2, StampTypes
    <3>. QED
      BY <2>2, <3>3 DEF TypeOK, FlushSnapshot, callVars
  <2>3. ASSUME NEW t \in tasks, WriteSkip(t) PROVE TypeOK'
    <3>1. Finish(t)
      BY <2>3 DEF WriteSkip
    <3>2. /\ tasks' \subseteq Task /\ writing' \subseteq tasks'
          /\ acked' \in [Schema -> [id : Id, tier : Tier] \cup {NoRow}]
      BY <3>1, FinishTypes
    <3>. QED
      BY <2>3, <3>2 DEF TypeOK, WriteSkip
  <2>4. ASSUME NEW t \in tasks, WriteBegin(t) PROVE TypeOK'
    BY <2>4 DEF TypeOK, WriteBegin
  <2>5. ASSUME NEW t \in tasks, WriteDone(t) PROVE TypeOK'
    <3>1. Finish(t) /\ t \in Task
      BY <2>5 DEF WriteDone, TypeOK
    <3>2. /\ tasks' \subseteq Task /\ writing' \subseteq tasks'
          /\ acked' \in [Schema -> [id : Id, tier : Tier] \cup {NoRow}]
      BY <3>1, FinishTypes
    <3>3. t.seq \in Nat /\ t.contents \in Contents
      BY <3>1 DEF Task
    <3>. QED
      BY <2>5, <3>2, <3>3 DEF TypeOK, WriteDone
  <2>6. ASSUME NEW t \in tasks, WriteFail(t) PROVE TypeOK'
    <3>1. Finish(t) /\ t \in Task
      BY <2>6 DEF WriteFail, TypeOK
    <3>2. /\ tasks' \subseteq Task /\ writing' \subseteq tasks'
          /\ acked' \in [Schema -> [id : Id, tier : Tier] \cup {NoRow}]
      BY <3>1, FinishTypes
    <3>3. t.seq \in Nat /\ fails + 1 \in Nat
      BY <3>1 DEF Task, TypeOK
    <3>. QED
      BY <2>6, <3>2, <3>3 DEF TypeOK, WriteFail
  <2>7. CASE Crash
    <3>1. file \in Contents /\ parse(file) \in Rows
      BY FormatTypes DEF TypeOK
    <3>2. <<file>> \in Seq(Contents)
      BY <3>1
    <3>3. /\ map' \in Rows /\ file' \in Contents /\ stamped' \in Seq(Contents)
          /\ dirty' \in BOOLEAN /\ flushing' \in BOOLEAN
          /\ tasks' \subseteq Task /\ writing' \subseteq tasks' /\ lost' \subseteq Nat
      BY <2>7, <3>1, <3>2, Zenon DEF Crash, load
    <3>4. seq' \in Nat /\ written' \in Nat /\ bound' \in [Schema -> Nat] /\ crashes' \in Nat
      BY <2>7 DEF TypeOK, Crash, load
    <3>5. now' \in Nat /\ fails' \in Nat
          /\ acked' \in [Schema -> [id : Id, tier : Tier] \cup {NoRow}]
      BY <2>7 DEF TypeOK, Crash
    <3>. QED
      BY <3>3, <3>4, <3>5 DEF TypeOK
  <2>8. CASE CrashUnread
    <3>1. <<file>> \in Seq(Contents)
      BY DEF TypeOK
    <3>2. /\ map' \in Rows /\ file' \in Contents /\ stamped' \in Seq(Contents)
          /\ seq' \in Nat /\ written' \in Nat /\ bound' \in [Schema -> Nat]
      BY <2>8, <3>1 DEF TypeOK, CrashUnread, load, Rows
    <3>3. dirty' \in BOOLEAN /\ flushing' \in BOOLEAN
      BY <2>8, Zenon DEF CrashUnread, load
    <3>4. /\ tasks' \subseteq Task /\ writing' \subseteq tasks' /\ lost' \subseteq Nat
          /\ crashes' \in Nat /\ fails' \in Nat /\ now' \in Nat
          /\ acked' \in [Schema -> [id : Id, tier : Tier] \cup {NoRow}]
      BY <2>8 DEF TypeOK, CrashUnread, load
    <3>. QED
      BY <3>2, <3>3, <3>4 DEF TypeOK
  <2>9. CASE UNCHANGED vars
    BY <2>9 DEF TypeOK, vars
  <2>. QED
    BY <2>1, <2>2, <2>3, <2>4, <2>5, <2>6, <2>7, <2>8, <2>9, CallTypes DEF Next
<1>. QED
  BY <1>1, <1>2, PTL DEF Spec

-----------------------------------------------------------------------------
(* The inductive invariant. *)

\* A row is never NoRow.
LEMMA RowIsNot == \A r \in Rec : r # NoRow
BY NoRowAssumption

\* Stamping adds one generation, keeps the older ones and owes its write.
LEMMA StampInv ==
    ASSUME TypeOK, Generations, NEW m \in Rows, NEW w \in Schema \cup {Nobody},
           stamp(m, w), UNCHANGED <<written, writing, file>>
    PROVE  /\ Generations' /\ Owed'
           /\ seq' = seq + 1 /\ seq \in Nat
           /\ stamped'[seq' + 1] = serialize(m)
           /\ \A g \in 0..seq : stamped'[g + 1] = stamped[g + 1]
<1>1. /\ seq \in Nat /\ written \in Nat /\ tasks \subseteq Task /\ writing \subseteq tasks
      /\ stamped \in Seq(Contents) /\ Len(stamped) = seq + 1 /\ written <= seq
  BY DEF TypeOK, Generations
<1>2. serialize(m) \in Contents
  BY FormatTypes
<1>3. /\ seq' = seq + 1
      /\ stamped' = Append(stamped, serialize(m))
      /\ tasks' = tasks \cup {[seq |-> seq + 1, contents |-> serialize(m), waiter |-> w]}
  BY DEF stamp
<1>4. /\ Len(stamped') = seq' + 1
      /\ stamped'[seq' + 1] = serialize(m)
      /\ \A i \in 1..(seq + 1) : stamped'[i] = stamped[i]
  BY <1>1, <1>2, <1>3, AppendProperties
<1>5. \A g \in 0..seq : stamped'[g + 1] = stamped[g + 1]
  BY <1>1, <1>4
<1>6. \A t \in tasks : t.seq \in Nat /\ 1 <= t.seq /\ t.seq <= seq /\ t.contents = stamped[t.seq + 1]
  BY <1>1 DEF Generations, Task
<1>7. \A t \in tasks' : 1 <= t.seq /\ t.seq <= seq' /\ t.contents = stamped'[t.seq + 1]
  <2>. TAKE t \in tasks'
  <2>1. CASE t \in tasks
    BY <1>1, <1>3, <1>5, <1>6, <2>1
  <2>2. CASE t = [seq |-> seq + 1, contents |-> serialize(m), waiter |-> w]
    BY <1>1, <1>3, <1>4, <2>2
  <2>. QED
    BY <1>3, <2>1, <2>2
<1>8. file' = stamped'[written' + 1] /\ written' <= seq'
  BY <1>1, <1>3, <1>5 DEF Generations
<1>9. Generations'
  BY <1>4, <1>7, <1>8 DEF Generations
<1>10. Owed'
  <2>. DEFINE task == [seq |-> seq + 1, contents |-> serialize(m), waiter |-> w]
  <2>1. task \in tasks' /\ task.seq = seq'
    BY <1>3
  <2>. QED
    BY <2>1 DEF Owed
<1>. QED
  BY <1>1, <1>3, <1>4, <1>5, <1>9, <1>10

\* A call that binds s to rec, whoever waits for it.
LEMMA RebindInv ==
    ASSUME TypeOK, IInv, NEW s \in Schema, NEW rec \in Rec, rec.id # Blank,
           NEW w \in Schema \cup {Nobody},
           Rebind(s, rec), stamp([map EXCEPT ![s] = rec], w),
           UNCHANGED <<callVars, flushing, dirty>>
    PROVE  IInv'
<1>. DEFINE m == [map EXCEPT ![s] = rec]
<1>1. m \in Rows /\ map' = m
  BY RebindTypes
<1>2. \A u \in Schema : m[u] = IF u = s THEN rec ELSE map[u]
  BY DEF TypeOK, Rows
<1>3. \A u \in Schema : m[u] # NoRow => m[u].id # Blank
  BY <1>2 DEF IInv, Named
<1>. HIDE DEF m
<1>4. parse(serialize(m)) = m
  BY <1>1, <1>3, RoundTrip
<1>5. /\ Generations' /\ Owed'
      /\ seq' = seq + 1 /\ seq \in Nat
      /\ stamped'[seq' + 1] = serialize(m)
      /\ \A g \in 0..seq : stamped'[g + 1] = stamped[g + 1]
  BY <1>1, StampInv DEF IInv, callVars, m
<1>6. Named'
  BY <1>1, <1>3 DEF Named
<1>7. Latest'
  BY <1>1, <1>4, <1>5 DEF Latest
<1>8. /\ bound' = [bound EXCEPT ![s] = seq + 1] /\ bound \in [Schema -> Nat]
      /\ acked' = [acked EXCEPT ![s] = NoRow]
      /\ acked \in [Schema -> [id : Id, tier : Tier] \cup {NoRow}]
  BY DEF Rebind, TypeOK
<1>9. Stable'
  <2>1. SUFFICES ASSUME NEW u \in Schema
                 PROVE  /\ bound'[u] <= seq'
                        /\ fails = 0 => \A g \in bound'[u]..seq' :
                              Mapping(parse(stamped'[g + 1])[u]) = Mapping(map'[u])
    BY DEF Stable, callVars
  <2>2. Mapping(parse(stamped'[seq' + 1])[u]) = Mapping(map'[u])
    BY <1>1, <1>4, <1>5
  <2>3. CASE u = s
    <3>1. bound'[u] = seq'
      BY <1>5, <1>8, <2>3
    <3>2. \A g \in seq'..seq' : g = seq'
      BY <1>5
    <3>. QED
      BY <1>5, <2>2, <3>1, <3>2
  <2>4. CASE u # s
    <3>1. bound'[u] = bound[u] /\ bound[u] \in Nat /\ map'[u] = map[u]
      BY <1>1, <1>2, <1>8, <2>4
    <3>2. /\ bound[u] <= seq
          /\ fails = 0 => \A g \in bound[u]..seq :
                             Mapping(parse(stamped[g + 1])[u]) = Mapping(map[u])
      BY DEF IInv, Stable
    <3>3. ASSUME fails = 0, NEW g \in bound[u]..seq'
          PROVE  Mapping(parse(stamped'[g + 1])[u]) = Mapping(map'[u])
      <4>1. g = seq' \/ (g \in bound[u]..seq /\ g \in 0..seq)
        BY <1>5, <3>1, <3>3
      <4>2. CASE g \in bound[u]..seq /\ g \in 0..seq
        BY <1>5, <3>1, <3>2, <3>3, <4>2
      <4>3. CASE g = seq'
        BY <2>2, <4>3
      <4>. QED
        BY <4>1, <4>2, <4>3
    <3>. QED
      BY <1>5, <3>1, <3>2, <3>3
  <2>. QED
    BY <2>3, <2>4
<1>10. Acked'
  <2>1. SUFFICES ASSUME fails' = 0, NEW u \in Schema, acked'[u] # NoRow
                 PROVE  acked'[u] = Mapping(map'[u]) /\ bound'[u] <= written'
    BY DEF Acked
  <2>2. u # s /\ acked'[u] = acked[u] /\ bound'[u] = bound[u]
    BY <1>8, <2>1
  <2>3. map'[u] = map[u] /\ fails = 0 /\ written' = written
    BY <1>1, <1>2, <2>1, <2>2 DEF callVars
  <2>. QED
    BY <2>1, <2>2, <2>3 DEF IInv, Acked
<1>. QED
  BY <1>5, <1>6, <1>7, <1>9, <1>10 DEF IInv

\* A bump of s's activity changes no mapping and leaves the write to the flush.
LEMMA BumpInv ==
    ASSUME TypeOK, IInv, NEW s \in Schema, map[s] # NoRow, now' \in Nat, Bump(s),
           UNCHANGED <<callVars, flushing>>
    PROVE  IInv'
<1>1. map[s] \in Rec /\ map' = [map EXCEPT ![s] = [map[s] EXCEPT !.last = now']]
  BY BumpTypes DEF TypeOK, Rows
<1>2. /\ [map[s] EXCEPT !.last = now'] \in Rec
      /\ [map[s] EXCEPT !.last = now'].id = map[s].id
      /\ [map[s] EXCEPT !.last = now'].tier = map[s].tier
  BY <1>1 DEF Rec
<1>3. \A u \in Schema : map'[u] = IF u = s THEN [map[s] EXCEPT !.last = now'] ELSE map[u]
  BY <1>1 DEF TypeOK, Rows
<1>4. map'[s] # NoRow /\ map'[s].id = map[s].id /\ map'[s].tier = map[s].tier
  BY <1>2, <1>3, RowIsNot
<1>5. \A u \in Schema : Mapping(map'[u]) = Mapping(map[u])
  BY <1>3, <1>4 DEF Mapping
<1>6. Named'
  BY <1>3, <1>4 DEF IInv, Named
<1>7. Generations' /\ Owed'
  BY DEF IInv, Generations, Owed, Bump, callVars
<1>8. Latest'
  BY DEF Latest, Bump
<1>9. Stable'
  BY <1>5 DEF IInv, Stable, Bump, callVars
<1>10. Acked'
  BY <1>5 DEF IInv, Acked, Bump, callVars
<1>. QED
  BY <1>6, <1>7, <1>8, <1>9, <1>10 DEF IInv

\* put, touch, set_tier and adopt_archived.
LEMMA CallInv ==
    ASSUME TypeOK, IInv,
           \/ \E s \in Schema, id \in Sandbox : put(s, id)
           \/ \E s \in Schema : touch(s)
           \/ \E s \in Schema, tier \in Tier \ {"Live"} : set_tier(s, tier)
           \/ \E s \in Schema : adopt_archived(s)
    PROVE  IInv'
<1>1. now + 1 \in Nat /\ "Live" \in Tier /\ "Archived" \in Tier
  BY DEF TypeOK, Tier
<1>2. /\ Adopted \in Id /\ Adopted # Blank
      /\ \A id \in Sandbox : id \in Id /\ id # Blank
  BY StoreAssumption DEF Id
<1>3. ASSUME NEW s \in Schema, NEW tier \in Tier, map[s] # NoRow
      PROVE  [map[s] EXCEPT !.tier = tier] \in Rec /\ [map[s] EXCEPT !.tier = tier].id # Blank
  <2>1. map[s] \in Rec /\ map[s].id # Blank
    BY <1>3 DEF TypeOK, Rows, IInv, Named
  <2>. QED
    BY <2>1 DEF Rec
<1>4. ASSUME NEW s \in Schema, NEW id \in Sandbox, put(s, id) PROVE IInv'
  <2>. DEFINE rec == [id |-> id, last |-> now', tier |-> "Live"]
  <2>1. now' \in Nat
    BY <1>1, <1>4 DEF put, Call
  <2>2. rec \in Rec /\ rec.id # Blank
    BY <1>1, <1>2, <2>1 DEF Rec
  <2>3. CASE map[s] # NoRow /\ Mapping(map[s]) = [id |-> id, tier |-> "Live"]
    BY <1>4, <2>1, <2>3, BumpInv DEF put
  <2>4. CASE ~(map[s] # NoRow /\ Mapping(map[s]) = [id |-> id, tier |-> "Live"])
    <3>1. /\ Rebind(s, rec) /\ stamp([map EXCEPT ![s] = rec], Nobody)
          /\ UNCHANGED <<callVars, flushing, dirty>>
      BY <1>4, <2>4 DEF put
    <3>. HIDE DEF rec
    <3>. QED
      BY <2>2, <3>1, RebindInv
  <2>. QED
    BY <2>3, <2>4
<1>5. ASSUME NEW s \in Schema, touch(s) PROVE IInv'
  BY <1>1, <1>5, BumpInv DEF touch, Call
<1>6. ASSUME NEW s \in Schema, NEW tier \in Tier, set_tier(s, tier) PROVE IInv'
  <2>. DEFINE rec == [map[s] EXCEPT !.tier = tier]
  <2>1. rec \in Rec /\ rec.id # Blank
    BY <1>3, <1>6 DEF set_tier
  <2>2. /\ Rebind(s, rec) /\ stamp([map EXCEPT ![s] = rec], s)
        /\ UNCHANGED <<callVars, flushing, dirty>>
    BY <1>6 DEF set_tier
  <2>. HIDE DEF rec
  <2>. QED
    BY <2>1, <2>2, RebindInv
<1>7. ASSUME NEW s \in Schema, adopt_archived(s) PROVE IInv'
  <2>. DEFINE rec == IF map[s] = NoRow
                     THEN [id |-> Adopted, last |-> now', tier |-> "Archived"]
                     ELSE [map[s] EXCEPT !.tier = "Archived"]
  <2>1. now' \in Nat
    BY <1>1, <1>7 DEF adopt_archived, Call
  <2>2. rec \in Rec /\ rec.id # Blank
    <3>1. CASE map[s] = NoRow
      <4>1. rec = [id |-> Adopted, last |-> now', tier |-> "Archived"]
        BY <3>1
      <4>. QED
        BY <1>1, <1>2, <2>1, <4>1 DEF Rec
    <3>2. CASE map[s] # NoRow
      <4>1. rec = [map[s] EXCEPT !.tier = "Archived"]
        BY <3>2
      <4>. QED
        BY <1>1, <1>3, <3>2, <4>1
    <3>. QED
      BY <3>1, <3>2
  <2>3. /\ Rebind(s, rec) /\ stamp([map EXCEPT ![s] = rec], s)
        /\ UNCHANGED <<callVars, flushing, dirty>>
    BY <1>7 DEF adopt_archived
  <2>. HIDE DEF rec
  <2>. QED
    BY <2>2, <2>3, RebindInv
<1>. QED
  BY <1>4, <1>5, <1>6, <1>7

\* The flush: swapping the flag first means a bump that lands in between sets
\* it again.
LEMMA FlushInv ==
    ASSUME TypeOK, IInv, FlushSwap \/ FlushSnapshot
    PROVE  IInv'
<1>1. CASE FlushSwap
  <2>1. UNCHANGED <<callVars, map, seq, tasks, stamped, bound, acked>> /\ flushing' = TRUE
    BY <1>1 DEF FlushSwap
  <2>2. Named' /\ Generations' /\ Owed'
    BY <2>1 DEF IInv, Named, Generations, Owed, callVars
  <2>3. Stable' /\ Acked'
    BY <2>1 DEF IInv, Stable, Acked, callVars
  <2>4. Latest'
    BY <2>1 DEF Latest
  <2>. QED
    BY <2>2, <2>3, <2>4 DEF IInv
<1>2. CASE FlushSnapshot
  <2>1. stamp(map, Nobody) /\ UNCHANGED <<callVars, map, dirty, now, bound, acked>>
    BY <1>2 DEF FlushSnapshot
  <2>2. map \in Rows /\ parse(serialize(map)) = map
    BY RoundTrip DEF TypeOK, IInv, Named
  <2>3. /\ Generations' /\ Owed'
        /\ seq' = seq + 1 /\ seq \in Nat
        /\ stamped'[seq' + 1] = serialize(map)
        /\ \A g \in 0..seq : stamped'[g + 1] = stamped[g + 1]
    BY <2>1, <2>2, StampInv DEF IInv, callVars
  <2>4. Named' /\ Acked'
    BY <2>1 DEF IInv, Named, Acked, callVars
  <2>5. Latest'
    BY <2>1, <2>2, <2>3 DEF Latest
  <2>6. Stable'
    <3>1. SUFFICES ASSUME NEW u \in Schema
                   PROVE  /\ bound'[u] <= seq'
                          /\ fails = 0 => \A g \in bound'[u]..seq' :
                                Mapping(parse(stamped'[g + 1])[u]) = Mapping(map'[u])
      BY <2>1 DEF Stable, callVars
    <3>2. /\ bound'[u] = bound[u] /\ bound[u] \in Nat /\ map' = map
          /\ bound[u] <= seq
          /\ fails = 0 => \A g \in bound[u]..seq :
                             Mapping(parse(stamped[g + 1])[u]) = Mapping(map[u])
      BY <2>1 DEF IInv, Stable, TypeOK
    <3>3. ASSUME fails = 0, NEW g \in bound[u]..seq'
          PROVE  Mapping(parse(stamped'[g + 1])[u]) = Mapping(map'[u])
      <4>1. g = seq' \/ (g \in bound[u]..seq /\ g \in 0..seq)
        BY <2>3, <3>2, <3>3
      <4>2. CASE g \in bound[u]..seq /\ g \in 0..seq
        BY <2>3, <3>2, <3>3, <4>2
      <4>3. CASE g = seq'
        BY <2>1, <2>2, <2>3, <4>3
      <4>. QED
        BY <4>1, <4>2, <4>3
    <3>. QED
      BY <2>3, <3>2, <3>3
  <2>. QED
    BY <2>3, <2>4, <2>5, <2>6 DEF IInv
<1>. QED
  BY <1>1, <1>2

\* A task that ends with the file at its generation or beyond.
LEMMA FinishAcked ==
    ASSUME TypeOK, IInv, NEW t \in tasks, Finish(t), UNCHANGED <<map, bound, fails>>,
           written' \in Nat, written <= written', t.seq <= written'
    PROVE  Acked'
<1>1. SUFFICES ASSUME fails' = 0, NEW u \in Schema, acked'[u] # NoRow
               PROVE  acked'[u] = Mapping(map'[u]) /\ bound'[u] <= written'
  BY DEF Acked
<1>2. /\ acked \in [Schema -> [id : Id, tier : Tier] \cup {NoRow}]
      /\ bound[u] \in Nat /\ written \in Nat /\ bound' = bound /\ map' = map
      /\ t.waiter # Nobody => t.waiter \in Schema
  BY DEF TypeOK, Task
<1>3. CASE acked'[u] = acked[u]
  BY <1>1, <1>2, <1>3 DEF IInv, Acked
<1>4. CASE /\ t.waiter # Nobody /\ bound[t.waiter] = t.seq
           /\ acked' = [acked EXCEPT ![t.waiter] = Mapping(map[t.waiter])]
  <2>1. CASE u = t.waiter
    <3>1. acked'[u] = Mapping(map[u])
      BY <1>2, <1>4, <2>1, Zenon
    <3>. QED
      BY <1>2, <1>4, <2>1, <3>1
  <2>2. CASE u # t.waiter
    <3>1. acked'[u] = acked[u]
      BY <1>2, <1>4, <2>2, Zenon
    <3>. QED
      BY <1>3, <3>1
  <2>. QED
    BY <2>1, <2>2
<1>. QED
  BY <1>3, <1>4 DEF Finish

\* write_latest, whichever way it goes.
LEMMA WriteInv ==
    ASSUME TypeOK, IInv, NEW t \in tasks,
           WriteSkip(t) \/ WriteBegin(t) \/ WriteDone(t) \/ WriteFail(t)
    PROVE  IInv'
<1>1. /\ t.seq \in Nat /\ 1 <= t.seq /\ t.seq <= seq /\ t.contents = stamped[t.seq + 1]
      /\ seq \in Nat /\ written \in Nat /\ written <= seq /\ writing \subseteq tasks
      /\ fails \in Nat
      /\ \A u \in tasks : u.seq \in Nat
  BY DEF TypeOK, Task, IInv, Generations
<1>2. UNCHANGED <<map, seq, dirty, flushing, stamped, bound>>
  BY DEF WriteSkip, WriteBegin, WriteDone, WriteFail
<1>3. Named' /\ Latest' /\ Stable'
  <2>1. lost \subseteq lost' /\ (fails' = 0 => fails = 0)
    BY <1>1 DEF WriteSkip, WriteBegin, WriteDone, WriteFail
  <2>. QED
    BY <1>2, <2>1 DEF IInv, Named, Latest, Stable
<1>4. CASE WriteSkip(t)
  <2>1. /\ t.seq <= written /\ tasks' = tasks \ {t} /\ writing' = writing \ {t}
        /\ UNCHANGED <<written, file, fails, lost>> /\ Finish(t)
    BY <1>4 DEF WriteSkip, Finish
  <2>2. Generations'
    BY <1>2, <2>1 DEF IInv, Generations
  <2>3. Owed'
    BY <1>1, <1>2, <2>1 DEF IInv, Owed
  <2>4. Acked'
    BY <1>1, <1>2, <2>1, FinishAcked
  <2>. QED
    BY <1>3, <2>2, <2>3, <2>4 DEF IInv
<1>5. CASE WriteBegin(t)
  <2>1. /\ t.seq > written /\ writing' = {t}
        /\ UNCHANGED <<tasks, written, file, fails, lost, acked>>
    BY <1>5 DEF WriteBegin
  <2>2. Generations' /\ Owed' /\ Acked'
    BY <1>2, <2>1 DEF IInv, Generations, Owed, Acked
  <2>. QED
    BY <1>3, <2>2 DEF IInv
<1>6. CASE WriteDone(t)
  <2>1. /\ t \in writing /\ file' = t.contents /\ written' = t.seq /\ lost' = lost
        /\ tasks' = tasks \ {t} /\ writing' = writing \ {t} /\ UNCHANGED fails /\ Finish(t)
    BY <1>6 DEF WriteDone, Finish
  <2>2. t.seq > written /\ writing' = {}
    BY <2>1 DEF IInv, Generations
  <2>3. Generations'
    BY <1>1, <1>2, <2>1, <2>2 DEF IInv, Generations
  <2>4. Owed'
    BY <1>1, <1>2, <2>1, <2>2 DEF IInv, Owed
  <2>5. Acked'
    BY <1>1, <1>2, <2>1, <2>2, FinishAcked
  <2>. QED
    BY <1>3, <2>3, <2>4, <2>5 DEF IInv
<1>7. CASE WriteFail(t)
  <2>1. /\ fails' = fails + 1 /\ lost' = lost \cup {t.seq} /\ UNCHANGED <<written, file>>
        /\ tasks' = tasks \ {t} /\ writing' = writing \ {t}
    BY <1>7 DEF WriteFail, Finish
  <2>2. Generations'
    BY <1>2, <2>1 DEF IInv, Generations
  <2>3. Owed'
    BY <1>1, <1>2, <2>1 DEF IInv, Owed
  <2>4. Acked'
    BY <1>1, <2>1 DEF Acked
  <2>. QED
    BY <1>3, <2>2, <2>3, <2>4 DEF IInv
<1>. QED
  BY <1>4, <1>5, <1>6, <1>7

\* A restart starts again from the file as its only generation, ...
LEMMA CrashReadInv ==
    ASSUME TypeOK, IInv, Crash
    PROVE  IInv'
<1>1. /\ map' = parse(file) /\ seq' = 0 /\ written' = 0 /\ tasks' = {} /\ writing' = {}
      /\ stamped' = <<file>> /\ bound' = [s \in Schema |-> 0]
      /\ UNCHANGED <<file, fails, acked>>
  BY DEF Crash, load
<1>2. stamped'[1] = file /\ Len(stamped') = 1
  BY <1>1
<1>3. Named'
  <2>1. ASSUME NEW s \in Schema, parse(file)[s] # NoRow PROVE parse(file)[s].id # Blank
    BY <2>1 DEF parse
  <2>. QED
    BY <1>1, <2>1 DEF Named
<1>4. Generations' /\ Latest' /\ Owed'
  BY <1>1, <1>2 DEF Generations, Latest, Owed
<1>5. Stable'
  <2>1. ASSUME NEW s \in Schema
        PROVE  /\ bound'[s] <= seq'
               /\ \A g \in bound'[s]..seq' : Mapping(parse(stamped'[g + 1])[s]) = Mapping(map'[s])
    <3>1. bound'[s] = 0 /\ seq' = 0 /\ \A g \in 0..0 : g + 1 = 1
      BY <1>1
    <3>. QED
      BY <1>1, <1>2, <3>1
  <2>. QED
    BY <2>1 DEF Stable
<1>6. Acked'
  <2>1. SUFFICES ASSUME fails' = 0, NEW u \in Schema, acked'[u] # NoRow
                 PROVE  acked'[u] = Mapping(map'[u]) /\ bound'[u] <= written'
    BY DEF Acked
  <2>2. acked[u] = Mapping(map[u]) /\ bound[u] <= written
    BY <1>1, <2>1 DEF IInv, Acked
  <2>3. written \in bound[u]..seq /\ file = stamped[written + 1]
    BY <2>2 DEF IInv, Generations, TypeOK
  <2>4. Mapping(parse(file)[u]) = Mapping(map[u])
    BY <1>1, <2>1, <2>3 DEF IInv, Stable
  <2>. QED
    BY <1>1, <2>2, <2>4
<1>. QED
  BY <1>3, <1>4, <1>5, <1>6 DEF IInv

\* ... and one that cannot read it counts that generation among the lost ones.
LEMMA CrashUnreadInv ==
    ASSUME TypeOK, IInv, CrashUnread
    PROVE  IInv'
<1>1. /\ map' = [s \in Schema |-> NoRow]
      /\ seq' = 0 /\ written' = 0 /\ tasks' = {} /\ writing' = {}
      /\ stamped' = <<file>> /\ bound' = [s \in Schema |-> 0]
      /\ file' = file /\ lost' = {0}
  BY DEF CrashUnread, load
<1>2. fails' # 0
  BY DEF CrashUnread, TypeOK
<1>3. stamped'[1] = file /\ Len(stamped') = 1
  BY <1>1
<1>4. Named' /\ Generations' /\ Latest' /\ Owed'
  BY <1>1, <1>3 DEF Named, Generations, Latest, Owed
<1>5. Stable' /\ Acked'
  BY <1>1, <1>2 DEF Stable, Acked
<1>. QED
  BY <1>4, <1>5 DEF IInv

\* Inductive: the invariant the theorems below are drawn from.
THEOREM Inductive == Spec => []IInv
<1>1. Init => IInv
  <2>1. SUFFICES ASSUME Init PROVE IInv
    OBVIOUS
  <2>. DEFINE none == [s \in Schema |-> NoRow]
  <2>2. /\ map = none /\ file = none /\ stamped = <<none>> /\ seq = 0 /\ written = 0
        /\ tasks = {} /\ writing = {} /\ bound = [s \in Schema |-> 0]
        /\ acked = [s \in Schema |-> NoRow]
    BY <2>1 DEF Init
  <2>3. parse(none) = none
    BY DEF parse
  <2>4. \A s \in Schema : map[s] = NoRow /\ acked[s] = NoRow /\ bound[s] = 0
    BY <2>2
  <2>. HIDE DEF none
  <2>5. Named /\ Acked
    BY <2>4 DEF Named, Acked
  <2>6. Generations /\ Latest /\ Owed
    BY <2>2, <2>3 DEF Generations, Latest, Owed
  <2>7. Stable
    BY <2>2, <2>3, <2>4 DEF Stable
  <2>. QED
    BY <2>5, <2>6, <2>7 DEF IInv
<1>2. TypeOK /\ IInv /\ [Next]_vars => IInv'
  <2>. SUFFICES ASSUME TypeOK, IInv, [Next]_vars PROVE IInv'
    OBVIOUS
  <2>1. CASE UNCHANGED vars
    BY <2>1 DEF vars, IInv, Named, Generations, Latest, Owed, Stable, Acked
  <2>. QED
    BY <2>1, CallInv, FlushInv, WriteInv, CrashReadInv, CrashUnreadInv DEF Next
<1>. QED
  BY <1>1, <1>2, TypeCorrect, PTL DEF Spec

\* SettledAlways: whatever order the blocking pool ran the writes in, a store
\* with nothing outstanding is read back exactly (flush_dirty, write_latest).
THEOREM SettledAlways == Spec => []Settled
<1>1. TypeOK /\ IInv => Settled
  BY DEF TypeOK, IInv, Generations, Latest, Owed, Settled
<1>. QED
  BY <1>1, TypeCorrect, Inductive, PTL

\* AckedUntilFailure: as long as no write has failed, a restart reads every
\* mapping that set_tier or adopt_archived confirmed, however many crashes and
\* other calls there are.  (A failed write breaks it: it is only logged.)
THEOREM AckedUntilFailure == Spec => []AckedBeforeFailure
<1>1. TypeOK /\ IInv => AckedBeforeFailure
  <2>1. SUFFICES ASSUME TypeOK, IInv, fails = 0, NEW s \in Schema, acked[s] # NoRow
                 PROVE  Mapping(parse(file)[s]) = acked[s]
    BY DEF AckedBeforeFailure, AckedDurable
  <2>2. acked[s] = Mapping(map[s]) /\ bound[s] <= written
    BY <2>1 DEF IInv, Acked
  <2>3. written \in bound[s]..seq /\ file = stamped[written + 1]
    BY <2>1, <2>2 DEF IInv, Generations, TypeOK
  <2>4. Mapping(parse(file)[s]) = Mapping(map[s])
    BY <2>1, <2>3 DEF IInv, Stable
  <2>. QED
    BY <2>2, <2>4
<1>. QED
  BY <1>1, TypeCorrect, Inductive, PTL

-----------------------------------------------------------------------------
(* The contract: the file and the generations after it are a DurableLog. *)

\* A suffix of a sequence, its length and its elements.
LEMMA Suffix ==
    ASSUME NEW S, NEW q \in Seq(S), NEW n \in 1..(Len(q) + 1)
    PROVE  /\ SubSeq(q, n, Len(q)) \in Seq(S)
           /\ Len(SubSeq(q, n, Len(q))) = Len(q) - n + 1
           /\ \A i \in 1..(Len(q) - n + 1) : SubSeq(q, n, Len(q))[i] = q[n + i - 1]
<1>1. Len(q) \in Nat /\ n \in Nat /\ \A i \in n..Len(q) : q[i] \in S
  OBVIOUS
<1>2. /\ SubSeq(q, n, Len(q)) \in Seq(S)
      /\ Len(SubSeq(q, n, Len(q))) = IF n <= Len(q) THEN Len(q) - n + 1 ELSE 0
      /\ \A i \in 1..(Len(q) - n + 1) : SubSeq(q, n, Len(q))[i] = q[n + i - 1]
  BY <1>1, SubSeqProperties
<1>. QED
  BY <1>1, <1>2

\* Appending to a sequence appends to each of its suffixes.
LEMMA SuffixOfAppend ==
    ASSUME NEW S, NEW q \in Seq(S), NEW e \in S, NEW n \in 1..(Len(q) + 1)
    PROVE  SubSeq(Append(q, e), n, Len(q) + 1) = Append(SubSeq(q, n, Len(q)), e)
<1>. DEFINE a == Append(q, e)
            l == SubSeq(a, n, Len(q) + 1)
            p == SubSeq(q, n, Len(q))
            r == Append(p, e)
<1>1. /\ a \in Seq(S) /\ Len(a) = Len(q) + 1 /\ a[Len(q) + 1] = e
      /\ \A i \in 1..Len(q) : a[i] = q[i]
      /\ Len(q) \in Nat
  BY AppendProperties
<1>2. n \in 1..(Len(a) + 1)
  BY <1>1
<1>3. /\ l \in Seq(S) /\ Len(l) = Len(q) - n + 2
      /\ \A i \in 1..(Len(q) - n + 2) : l[i] = a[n + i - 1]
  <2>. HIDE DEF a
  <2>1. /\ SubSeq(a, n, Len(a)) \in Seq(S)
        /\ Len(SubSeq(a, n, Len(a))) = Len(a) - n + 1
        /\ \A i \in 1..(Len(a) - n + 1) : SubSeq(a, n, Len(a))[i] = a[n + i - 1]
    BY <1>1, <1>2, Suffix
  <2>2. Len(a) - n + 1 = Len(q) - n + 2
    BY <1>1
  <2>. QED
    BY <1>1, <2>1, <2>2
<1>4. /\ p \in Seq(S) /\ Len(p) = Len(q) - n + 1
      /\ \A i \in 1..(Len(q) - n + 1) : p[i] = q[n + i - 1]
  BY Suffix
<1>. HIDE DEF p
<1>5. /\ r \in Seq(S) /\ Len(r) = Len(p) + 1 /\ r[Len(p) + 1] = e
      /\ \A i \in 1..Len(p) : r[i] = p[i]
  BY <1>4, AppendProperties
<1>. HIDE DEF a, l, r
<1>6. Len(l) = Len(r)
  BY <1>1, <1>3, <1>4, <1>5
<1>7. ASSUME NEW i \in 1..Len(l) PROVE l[i] = r[i]
  <2>1. Len(l) = Len(q) - n + 2
    BY <1>3
  <2>2. i \in 1..(Len(q) - n + 2)
    BY <2>1
  <2>3. l[i] = a[n + i - 1]
    BY <1>3, <2>2
  <2>4. CASE i = Len(q) - n + 2
    <3>1. n + i - 1 = Len(q) + 1 /\ i = Len(p) + 1
      BY <1>1, <1>4, <2>4
    <3>. QED
      BY <1>1, <1>5, <2>3, <3>1
  <2>5. CASE i # Len(q) - n + 2
    <3>1. i \in 1..(Len(q) - n + 1)
      BY <1>1, <2>2, <2>5
    <3>2. n + i - 1 \in 1..Len(q) /\ i \in 1..Len(p)
      BY <1>1, <1>4, <3>1
    <3>. QED
      BY <1>1, <1>4, <1>5, <2>3, <3>1, <3>2
  <2>. QED
    BY <2>4, <2>5
<1>8. l = r
  BY <1>3, <1>5, <1>6, <1>7, SeqEqual
<1>. QED
  BY <1>8 DEF a, l, p, r

\* A suffix of a suffix is a suffix.
LEMMA SuffixOfSuffix ==
    ASSUME NEW S, NEW q \in Seq(S), NEW n \in 1..(Len(q) + 1),
           NEW k \in 1..(Len(q) - n + 1)
    PROVE  SubSeq(SubSeq(q, n, Len(q)), k + 1, Len(SubSeq(q, n, Len(q))))
             = SubSeq(q, n + k, Len(q))
<1>. DEFINE p == SubSeq(q, n, Len(q))
            l == SubSeq(p, k + 1, Len(p))
            r == SubSeq(q, n + k, Len(q))
<1>1. /\ p \in Seq(S) /\ Len(p) = Len(q) - n + 1 /\ Len(q) \in Nat
      /\ \A i \in 1..(Len(q) - n + 1) : p[i] = q[n + i - 1]
  BY Suffix
<1>. HIDE DEF p
<1>2. k + 1 \in 1..(Len(p) + 1) /\ n + k \in 1..(Len(q) + 1)
  BY <1>1
<1>3. /\ l \in Seq(S) /\ Len(l) = Len(p) - (k + 1) + 1
      /\ \A i \in 1..(Len(p) - (k + 1) + 1) : l[i] = p[(k + 1) + i - 1]
  BY <1>1, <1>2, Suffix
<1>4. /\ r \in Seq(S) /\ Len(r) = Len(q) - (n + k) + 1
      /\ \A i \in 1..(Len(q) - (n + k) + 1) : r[i] = q[(n + k) + i - 1]
  BY <1>2, Suffix
<1>. HIDE DEF l, r
<1>5. Len(l) = Len(r)
  BY <1>1, <1>3, <1>4
<1>6. ASSUME NEW i \in 1..Len(l) PROVE l[i] = r[i]
  <2>1. k + i \in 1..(Len(q) - n + 1)
    BY <1>1, <1>3, <1>6
  <2>2. l[i] = p[k + i]
    BY <1>1, <1>3, <1>6
  <2>3. p[k + i] = q[n + (k + i) - 1]
    BY <1>1, <2>1
  <2>4. r[i] = q[n + (k + i) - 1]
    BY <1>1, <1>4, <1>5, <1>6
  <2>. QED
    BY <2>2, <2>3, <2>4
<1>7. l = r
  BY <1>3, <1>4, <1>5, <1>6, SeqEqual
<1>. QED
  BY <1>7 DEF l, p, r

\* The generations the file has not reached: the contract's pending.
Waiting == SubSeq(stamped, written + 2, Len(stamped))

\* A stamped generation is a version stamped in the contract.
LEMMA StampRefines ==
    ASSUME TypeOK, IInv, NEW m \in Rows, NEW w \in Schema \cup {Nobody}, stamp(m, w),
           UNCHANGED <<written, file>>
    PROVE  Contract!Next
<1>1. /\ stamped \in Seq(Contents) /\ serialize(m) \in Contents
      /\ Len(stamped) \in Nat /\ written + 2 \in 1..(Len(stamped) + 1)
  BY FormatTypes DEF TypeOK, IInv, Generations
<1>2. /\ stamped' = Append(stamped, serialize(m))
      /\ Len(stamped') = Len(stamped) + 1
  BY <1>1, AppendProperties DEF stamp
<1>3. Waiting' = Append(Waiting, serialize(m))
  BY <1>1, <1>2, SuffixOfAppend DEF Waiting
<1>4. Waiting \in Seq(Contents)
  BY <1>1, Suffix DEF Waiting
<1>5. Len(Waiting') = Len(Waiting) + 1 /\ Waiting'[Len(Waiting) + 1] = serialize(m)
  BY <1>1, <1>3, <1>4, AppendProperties
<1>6. Contract!Stamp
  BY <1>1, <1>3, <1>5 DEF Contract!Stamp, Waiting
<1>. QED
  BY <1>6 DEF Contract!Next

\* A write that reaches the file persists the version of its generation.
LEMMA WriteRefines ==
    ASSUME TypeOK, IInv, NEW t \in tasks, WriteDone(t)
    PROVE  Contract!Next
<1>1. /\ t \in writing /\ file' = t.contents /\ written' = t.seq /\ stamped' = stamped
  BY DEF WriteDone
<1>2. /\ t.seq \in Nat /\ t.seq <= seq /\ t.contents = stamped[t.seq + 1] /\ t.seq > written
      /\ stamped \in Seq(Contents) /\ Len(stamped) = seq + 1 /\ written \in Nat /\ seq \in Nat
  BY <1>1 DEF TypeOK, Task, IInv, Generations
<1>. DEFINE n == written + 2
            k == t.seq - written
<1>3. /\ n \in 1..(Len(stamped) + 1) /\ k \in 1..(Len(stamped) - n + 1)
      /\ n + k - 1 = t.seq + 1 /\ n + k = t.seq + 2
  BY <1>2
<1>4. /\ Len(Waiting) = Len(stamped) - n + 1
      /\ Waiting[k] = stamped[n + k - 1]
  <2>. HIDE DEF k
  <2>. QED
    BY <1>2, <1>3, Suffix DEF Waiting
<1>5. Waiting' = SubSeq(Waiting, k + 1, Len(Waiting))
  <2>1. SubSeq(Waiting, k + 1, Len(Waiting)) = SubSeq(stamped, n + k, Len(stamped))
    <3>. HIDE DEF k
    <3>. QED
      BY <1>2, <1>3, SuffixOfSuffix DEF Waiting
  <2>2. Waiting' = SubSeq(stamped, t.seq + 2, Len(stamped))
    BY <1>1 DEF Waiting
  <2>. QED
    BY <1>3, <2>1, <2>2
<1>6. k \in 1..Len(Waiting) /\ file' = Waiting[k]
  BY <1>1, <1>2, <1>3, <1>4
<1>7. Contract!Persist
  <2>. HIDE DEF k
  <2>. QED
    BY <1>5, <1>6 DEF Contract!Persist, Waiting
<1>. QED
  BY <1>7 DEF Contract!Next

\* ImplementsContract: to its users the store is a DurableLog: the file only
\* moves forward, to a version exactly as it was stamped, however the write
\* tasks are reordered, dropped or failed, and a restart forgets the rest.
THEOREM ImplementsContract == Spec => Implements
<1>1. Init => Contract!Init
  <2>1. SUFFICES ASSUME Init PROVE Contract!Init
    OBVIOUS
  <2>2. file \in Contents
    BY <2>1 DEF Init, Contents
  <2>3. Len(stamped) = 1 /\ written + 2 = 2
    BY <2>1 DEF Init
  <2>4. SubSeq(stamped, written + 2, Len(stamped)) = <<>>
    BY <2>3, SubSeqEmpty
  <2>. QED
    BY <2>2, <2>4 DEF Contract!Init
<1>2. TypeOK /\ IInv /\ [Next]_vars => [Contract!Next]_(Contract!vars)
  <2>. SUFFICES ASSUME TypeOK, IInv, [Next]_vars PROVE [Contract!Next]_(Contract!vars)
    OBVIOUS
  <2>1. ASSUME UNCHANGED <<file, written, stamped>> PROVE UNCHANGED Contract!vars
    BY <2>1 DEF Contract!vars
  <2>2. ASSUME NEW s \in Schema, NEW rec \in Rec, NEW w \in Schema \cup {Nobody},
               stamp([map EXCEPT ![s] = rec], w), UNCHANGED <<written, file>>
        PROVE  Contract!Next
    <3>1. [map EXCEPT ![s] = rec] \in Rows
      BY DEF TypeOK, Rows
    <3>. QED
      BY <2>2, <3>1, StampRefines
  <2>3. now + 1 \in Nat /\ "Live" \in Tier /\ "Archived" \in Tier
    BY DEF TypeOK, Tier
  <2>4. Adopted \in Id /\ Sandbox \subseteq Id
    BY DEF Id
  <2>5. ASSUME NEW s \in Schema, NEW id \in Sandbox, put(s, id)
        PROVE  Contract!Next \/ UNCHANGED Contract!vars
    <3>. DEFINE rec == [id |-> id, last |-> now', tier |-> "Live"]
    <3>1. rec \in Rec
      BY <2>3, <2>4, <2>5 DEF put, Call, Rec
    <3>2. \/ UNCHANGED <<file, written, stamped>>
          \/ stamp([map EXCEPT ![s] = rec], Nobody) /\ UNCHANGED <<written, file>>
      BY <2>5 DEF put, Bump, callVars
    <3>. HIDE DEF rec
    <3>. QED
      BY <2>1, <2>2, <3>1, <3>2
  <2>6. ASSUME NEW s \in Schema, touch(s) PROVE UNCHANGED Contract!vars
    BY <2>1, <2>6 DEF touch, Bump, callVars
  <2>7. ASSUME NEW s \in Schema, NEW tier \in Tier, set_tier(s, tier) PROVE Contract!Next
    <3>. DEFINE rec == [map[s] EXCEPT !.tier = tier]
    <3>1. map[s] \in Rec
      BY <2>7 DEF set_tier, TypeOK, Rows
    <3>2. rec \in Rec
      BY <3>1 DEF Rec
    <3>3. stamp([map EXCEPT ![s] = rec], s) /\ UNCHANGED <<written, file>>
      BY <2>7 DEF set_tier, callVars
    <3>. HIDE DEF rec
    <3>. QED
      BY <2>2, <3>2, <3>3
  <2>8. ASSUME NEW s \in Schema, adopt_archived(s) PROVE Contract!Next
    <3>. DEFINE rec == IF map[s] = NoRow
                       THEN [id |-> Adopted, last |-> now', tier |-> "Archived"]
                       ELSE [map[s] EXCEPT !.tier = "Archived"]
    <3>1. [id |-> Adopted, last |-> now', tier |-> "Archived"] \in Rec
      BY <2>3, <2>4, <2>8 DEF adopt_archived, Call, Rec
    <3>2. map[s] # NoRow => [map[s] EXCEPT !.tier = "Archived"] \in Rec
      BY <2>3, RecTypes
    <3>3. rec \in Rec
      BY <3>1, <3>2
    <3>4. stamp([map EXCEPT ![s] = rec], s) /\ UNCHANGED <<written, file>>
      BY <2>8 DEF adopt_archived, callVars
    <3>. HIDE DEF rec
    <3>. QED
      BY <2>2, <3>3, <3>4
  <2>9. CASE FlushSwap
    BY <2>1, <2>9 DEF FlushSwap, callVars
  <2>10. CASE FlushSnapshot
    <3>1. map \in Rows /\ stamp(map, Nobody) /\ UNCHANGED <<written, file>>
      BY <2>10 DEF FlushSnapshot, callVars, TypeOK
    <3>. QED
      BY <3>1, StampRefines
  <2>11. ASSUME NEW t \in tasks, WriteSkip(t) \/ WriteBegin(t) \/ WriteFail(t)
         PROVE  UNCHANGED Contract!vars
    BY <2>1, <2>11 DEF WriteSkip, WriteBegin, WriteFail
  <2>12. CASE Crash \/ CrashUnread
    <3>1. file' = file /\ stamped' = <<file>> /\ written' = 0
      BY <2>12 DEF Crash, CrashUnread, load
    <3>2. Len(stamped') = 1 /\ written' + 2 = 2
      BY <3>1
    <3>3. Waiting' = <<>>
      BY <3>2, SubSeqEmpty DEF Waiting
    <3>4. Contract!Restart
      BY <3>1, <3>3 DEF Contract!Restart, Waiting
    <3>. QED
      BY <3>4 DEF Contract!Next
  <2>13. CASE UNCHANGED vars
    BY <2>1, <2>13 DEF vars
  <2>. QED
    BY <2>5, <2>6, <2>7, <2>8, <2>9, <2>10, <2>11, <2>12, <2>13, WriteRefines DEF Next
<1>. QED
  BY <1>1, <1>2, TypeCorrect, Inductive, PTL DEF Spec, Implements, Contract!Spec
=============================================================================
