------------------------------- MODULE Alerts -------------------------------
(***************************************************************************)
(* Alert rules and their evaluator (src/src/dashboard/alerts.rs).          *)
(*                                                                         *)
(* The evaluator samples the host, flips the firing state of the rules     *)
(* under their lock, and then sends the webhooks one after the other,      *)
(* while requests change the rules and write the file after the lock is    *)
(* released.  Readings are levels, of which every third has one decimal    *)
(* only; the three host metrics are one.  A write of the file is one step: *)
(* Dedicated has its steps.                                                *)
(***************************************************************************)
EXTENDS Naturals, Sequences, FiniteSets

CONSTANTS
    Id,             \* rule ids, in the order of their creation
    MaxLevel,       \* bound: readings and thresholds told apart
    Handler,        \* requests served at once
    MAX_RULES,
    MaxEdits, MaxLost, MaxRestarts      \* bounds

Level == 0..MaxLevel
Unread == MaxLevel + 1                  \* a metric that could not be read this tick
Metric == {"host", "heyvmd-health"}

\* What the constants must satisfy; MCParts assumes it of its instance.
AlertsAssumption ==
    /\ IsFiniteSet(Id) /\ Id \subseteq Nat \ {0} /\ MAX_RULES \in Nat
    /\ {MaxLevel, MaxEdits, MaxLost, MaxRestarts} \subseteq Nat /\ MaxLevel % 3 = 0

VARIABLES
    rules,          \* AlertStore::rules
    saved,          \* the rules in the file
    op,             \* the snapshot each request is about to write
    fresh,          \* ids not given out yet
    tick,           \* the evaluator: asleep, with a sample, or sending
    fails,          \* heyvmd_fails
    seen,           \* history: the last reading of each metric that was evaluated
    unread,         \* history: rules changed since they were last compared with a reading
    told,           \* history: what the endpoint of each rule heard last
    astray,         \* history: rules whose last edge the endpoint did not hear of
    edits, losses, restarts

history == <<seen, unread, told, astray>>
vars == <<rules, saved, op, fresh, tick, fails, history, edits, losses, restarts>>

NoRule == [metric |-> "host", threshold |-> Unread, paused |-> TRUE, firing |-> FALSE]
Rule == [metric : Metric, threshold : Level, paused : BOOLEAN, firing : BOOLEAN]
NoWrite == [i \in {} |-> NoRule]
Webhook == [rule : Id, state : {"triggered", "resolved"}]
Tick == [ph : {"sleep", "sampled", "deliver"}, sample : [Metric -> Level \cup {Unread}],
         queue : Seq(Webhook)]
Asleep == [ph |-> "sleep", sample |-> [m \in Metric |-> Unread], queue |-> << >>]

TypeOK ==
    /\ rules \in [Id -> Rule \cup {NoRule}] /\ saved \in [Id -> Rule \cup {NoRule}]
    /\ op \in [Handler -> [Id -> Rule \cup {NoRule}] \cup {NoWrite}]
    /\ fresh \subseteq Id /\ tick \in Tick
    /\ fails \in Level /\ seen \in [Metric -> Level \cup {Unread}]
    /\ unread \subseteq Id /\ astray \subseteq Id
    /\ told \in [Id -> {"nothing", "triggered", "resolved"}]
    /\ edits \in 0..MaxEdits /\ losses \in 0..MaxLost /\ restarts \in 0..MaxRestarts

Init ==
    /\ rules = [i \in Id |-> NoRule] /\ saved = rules /\ op = [h \in Handler |-> NoWrite]
    /\ fresh = Id /\ tick = Asleep /\ fails = 0
    /\ seen = [m \in Metric |-> Unread] /\ unread = {} /\ told = [i \in Id |-> "nothing"]
    /\ astray = {} /\ edits = 0 /\ losses = 0 /\ restarts = 0

----------------------------------------------------------------------------
(* Requests.                                                               *)

Live == {i \in Id : rules[i] # NoRule}

\* The next number of one decimal.
num(level) == ((level + 1) \div 3) * 3

\* Thresholds are rounded, and the firing state is not written.
serialize(rs) ==
    [i \in Id |-> IF rs[i] = NoRule THEN NoRule
                  ELSE [rs[i] EXCEPT !.threshold = num(@), !.firing = FALSE]]

\* Endpoints that know of a firing rule, or are about to.
Alarmed == {i \in Id : \/ told[i] = "triggered"
                       \/ \E n \in DOMAIN tick.queue : tick.queue[n].rule = i}

\* A request changes the rules under the lock and keeps a snapshot to write.  What was
\* firing is forgotten, and its endpoint not told.
Edit(h, changed, forgets) ==
    /\ op[h] = NoWrite /\ edits < MaxEdits /\ edits' = edits + 1
    /\ rules' = changed /\ op' = [op EXCEPT ![h] = serialize(changed)]
    /\ unread' = unread \cup forgets /\ astray' = astray \cup (forgets \cap Alarmed)
    /\ UNCHANGED <<saved, tick, fails, seen, told, losses, restarts>>

\* validate has taken the metric, the threshold and the URL.
add(h, metric, threshold) ==
    /\ Cardinality(Live) < MAX_RULES
    /\ \E i \in fresh :
          /\ \A j \in fresh : i <= j
          /\ fresh' = fresh \ {i}
          /\ LET rule == [metric |-> metric, threshold |-> threshold, paused |-> FALSE,
                          firing |-> FALSE]
             IN Edit(h, [rules EXCEPT ![i] = rule], {i})

update(h, i, metric, threshold) ==
    /\ i \in Live
    /\ Edit(h, [rules EXCEPT ![i] = [@ EXCEPT !.metric = metric, !.threshold = threshold,
                                              !.firing = FALSE]], {i})
    /\ UNCHANGED fresh

\* A resumed rule starts over: pausing has cleared its state.
set_paused(h, i, paused) ==
    /\ i \in Live
    /\ Edit(h, [rules EXCEPT ![i] = [@ EXCEPT !.paused = paused,
                                              !.firing = rules[i].firing /\ ~paused]],
            {i} \ (IF paused THEN {} ELSE {j \in Live : ~rules[j].paused}))
    /\ UNCHANGED fresh

remove(h, i) ==
    /\ i \in Live /\ Edit(h, [rules EXCEPT ![i] = NoRule], {i})
    /\ UNCHANGED fresh

\* Whether or not the write succeeds, the change stays in memory.
write_atomic(h, ok) ==
    /\ op[h] # NoWrite /\ op' = [op EXCEPT ![h] = NoWrite]
    /\ saved' = IF ok THEN op[h] ELSE saved
    /\ IF ok THEN UNCHANGED losses ELSE losses < MaxLost /\ losses' = losses + 1
    /\ UNCHANGED <<rules, fresh, tick, fails, history, edits, restarts>>

----------------------------------------------------------------------------
(* The evaluator.                                                          *)

\* The host may be unreadable; the count of failed health checks is always there.
sample(host, healthy) ==
    /\ tick.ph = "sleep" /\ (healthy \/ fails < MaxLevel)
    /\ fails' = IF healthy THEN 0 ELSE fails + 1
    /\ tick' = [Asleep EXCEPT !.ph = "sampled", !.sample["host"] = host,
                              !.sample["heyvmd-health"] = fails']
    /\ UNCHANGED <<rules, saved, op, fresh, history, edits, losses, restarts>>

\* Mutant of value: a metric that could not be read counts as low.
ValueLow(m) == IF tick.sample[m] = Unread THEN 0 ELSE tick.sample[m]

value(m) == tick.sample[m]

\* Rules are kept in the order of their ids.
Sorted(ids) ==
    CHOOSE s \in [1..Cardinality(ids) -> ids] :
        \A n, k \in 1..Cardinality(ids) : n < k => s[n] < s[k]

\* Every active rule whose metric was read is compared; an edge is a webhook.
evaluate ==
    LET Compared == {i \in Live : ~rules[i].paused /\ value(rules[i].metric) # Unread}
        Over(i) == value(rules[i].metric) >= rules[i].threshold
        Edges == {i \in Compared : Over(i) # rules[i].firing}
    IN /\ tick.ph = "sampled"
       /\ rules' = [i \in Id |-> IF i \in Edges THEN [rules[i] EXCEPT !.firing = ~@]
                                 ELSE rules[i]]
       /\ tick' = [tick EXCEPT !.ph = "deliver",
                      !.queue = [n \in 1..Cardinality(Edges) |->
                         LET i == Sorted(Edges)[n]
                         IN [rule |-> i, state |-> IF Over(i) THEN "triggered"
                                                   ELSE "resolved"]]]
       /\ seen' = [m \in Metric |-> IF tick.sample[m] = Unread THEN seen[m]
                                    ELSE tick.sample[m]]
       /\ unread' = unread \ {i \in Live : ~rules[i].paused
                                           /\ tick.sample[rules[i].metric] # Unread}
       /\ UNCHANGED <<saved, op, fresh, fails, told, astray, edits, losses, restarts>>

\* One webhook; a failure is logged.
deliver(ok) ==
    /\ tick.ph = "deliver" /\ tick.queue # << >>
    /\ tick' = [tick EXCEPT !.queue = Tail(@)]
    /\ LET i == Head(tick.queue).rule
           state == Head(tick.queue).state
       IN IF ok
          THEN /\ told' = [told EXCEPT ![i] = state]
               /\ astray' = astray \ (IF (state = "triggered") = rules[i].firing
                                      THEN {i} ELSE {})
               /\ UNCHANGED losses
          ELSE /\ losses < MaxLost /\ losses' = losses + 1
               /\ astray' = astray \cup {i} /\ UNCHANGED told
    /\ UNCHANGED <<rules, saved, op, fresh, fails, seen, unread, edits, restarts>>

Sleep ==
    /\ tick.ph = "deliver" /\ tick.queue = << >> /\ tick' = Asleep
    /\ UNCHANGED <<rules, saved, op, fresh, fails, history, edits, losses, restarts>>

\* load: no rule is firing, and the counter starts anew.
Restart ==
    /\ restarts < MaxRestarts /\ restarts' = restarts + 1
    /\ rules' = saved /\ op' = [h \in Handler |-> NoWrite] /\ tick' = Asleep /\ fails' = 0
    /\ seen' = [m \in Metric |-> Unread] /\ unread' = Id /\ astray' = astray \cup Alarmed
    /\ UNCHANGED <<saved, fresh, told, edits, losses>>

Next ==
    \/ \E h \in Handler :
          \/ \E m \in Metric, t \in Level :
                add(h, m, t) \/ \E i \in Id : update(h, i, m, t)
          \/ \E i \in Id, p \in BOOLEAN : set_paused(h, i, p)
          \/ \E i \in Id : remove(h, i)
          \/ \E ok \in BOOLEAN : write_atomic(h, ok)
    \/ \E host \in Level \cup {Unread}, healthy \in BOOLEAN : sample(host, healthy)
    \/ evaluate \/ Sleep \/ Restart
    \/ \E ok \in BOOLEAN : deliver(ok)

Spec == Init /\ [][Next]_vars

----------------------------------------------------------------------------
\* While the evaluator sleeps, the endpoint of an active rule heard last what the last
\* reading of its metric means, however many ticks could not read it, and whatever was
\* edited, paused or restarted in between; but for a rule not evaluated since a change,
\* and for a webhook lost or overtaken by a change (evaluate, deliver, spawn_evaluator).
Told ==
    tick.ph = "sleep" =>
        \A i \in Live \ (unread \cup astray) :
            ~rules[i].paused =>
                (told[i] = "triggered") = (seen[rules[i].metric] >= rules[i].threshold)
=============================================================================
