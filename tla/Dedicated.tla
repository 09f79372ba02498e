----------------------------- MODULE Dedicated -----------------------------
(***************************************************************************)
(* Dedicated databases: the credential set and its file                    *)
(* (src/src/dedicated.rs), the requests that change it                     *)
(* (src/src/dashboard/dedicated.rs), and the front end that reads it       *)
(* between two waits for the client (src/src/main.rs, auth.rs,             *)
(* startup.rs, proxy.rs).                                                  *)
(*                                                                         *)
(* A change is made in memory and serialized under the lock; the file is   *)
(* written after the lock is released, through one temporary name.  Files  *)
(* are inodes: a writer keeps the one it opened.  A name is a number that  *)
(* sorts as the name does, a line of the file is a record, and all lines   *)
(* are taken to be of one length.                                          *)
(***************************************************************************)
EXTENDS Naturals, Sequences, FiniteSets

CONSTANTS
    Name,           \* names of databases and of roles, in their order
    Identifier,     \* those validate_identifier takes and Postgres does not reserve
    SchemaName,     \* those is_valid_schema takes
    Pass,           \* passwords of dedicated databases
    Shared,         \* values of PG_VM_POOL_PASSWORD, Unset among them or not
    Tls,            \* a certificate is configured
    Handler,        \* requests served at once
    MAX_RECORDS,
    Budgets         \* bounds: how many requests, connections, faults and restarts

NoRecord == [role |-> 0, pass |-> 0]
Blank == 0          \* an empty name
Unset == 0          \* no password

\* What the constants must satisfy; MCParts assumes it of its instance.
DedicatedAssumption ==
    /\ IsFiniteSet(Name) /\ IsFiniteSet(Handler)
    /\ Name \subseteq Nat \ {Blank} /\ Identifier \subseteq SchemaName /\ SchemaName \subseteq Name
    /\ Unset \notin Pass /\ Shared \cap Pass = {} /\ Tls \in BOOLEAN
    /\ MAX_RECORDS \in Nat \ {0}
    /\ Budgets \subseteq [ops : Nat, conns : Nat, faults : Nat, crashes : Nat]

VARIABLES
    mem,            \* Credentials::by_database
    data,           \* the contents of the inodes
    file, tmp,      \* the inodes the two names stand for; 0 is none
    op,             \* the request each handler serves
    rows,           \* schemas with a row in the registry
    conn,           \* a client's connection
    known,          \* history: what a caller was last told of a database
    overlapped,     \* history: a snapshot was taken while another was being written
    left            \* what is left of the budget

disk == <<data, file, tmp>>
vars == <<mem, disk, op, rows, conn, known, overlapped, left>>

Inode == 1..(Cardinality(Handler) + 2)
Credential == [role : Name, pass : Pass]
Line == [database : Name, role : Name, pass : Pass]
NoOp == [ph |-> "idle", kind |-> "create", database |-> Blank, cred |-> NoRecord,
         fd |-> 0, snapshot |-> << >>]
Unknown == [is |-> "unknown", cred |-> NoRecord]
NoConn == [ph |-> "none", tls |-> FALSE, user |-> Blank, database |-> Blank,
           expected |-> Unset, seen |-> NoRecord]

Request ==
    [ph : {"idle", "checked", "open", "write", "rename", "warm"}, kind : {"create", "remove"},
     database : Name \cup {Blank}, cred : Credential \cup {NoRecord}, fd : Inode \cup {0},
     snapshot : Seq(Line)]
Connection ==
    [ph : {"none", "preamble", "started", "challenged", "proven", "open"}, tls : {FALSE, Tls},
     user : Name \cup {Blank}, database : Name \cup {Blank},
     expected : Pass \cup Shared \cup {Unset}, seen : Credential \cup {NoRecord}]
Answered == [is : {"unknown", "gone", "created"}, cred : Credential \cup {NoRecord}]

TypeOK ==
    /\ mem \in [Name -> Credential \cup {NoRecord}]
    /\ data \in [Inode -> Seq(Line)] /\ {file, tmp} \subseteq Inode \cup {0}
    /\ op \in [Handler -> Request] /\ rows \subseteq Name /\ conn \in Connection
    /\ known \in [Name -> Answered] /\ overlapped \in BOOLEAN
    /\ left \in [ops : Nat, conns : Nat, faults : Nat, crashes : Nat]

Init ==
    /\ mem = [d \in Name |-> NoRecord]
    /\ data = [i \in Inode |-> << >>] /\ file = 0 /\ tmp = 0
    /\ op = [h \in Handler |-> NoOp]
    /\ rows = {} /\ conn = NoConn
    /\ known = [d \in Name |-> Unknown] /\ overlapped = FALSE
    /\ left \in Budgets

----------------------------------------------------------------------------
(* The credential set.                                                     *)

is_dedicated(d) == mem[d] # NoRecord

\* The database of a login role, or Blank.
by_role(r) == IF \E d \in Name : is_dedicated(d) /\ mem[d].role = r
              THEN CHOOSE d \in Name : is_dedicated(d) /\ mem[d].role = r
              ELSE Blank

\* The names in their order: the records are sorted before they are written.
Sorted(names) ==
    CHOOSE s \in [1..Cardinality(names) -> names] :
        \A i, j \in 1..Cardinality(names) : i < j => s[i] < s[j]

serialize(map) ==
    LET names == {d \in Name : map[d] # NoRecord}
    IN [i \in 1..Cardinality(names) |->
           LET d == Sorted(names)[i]
           IN [database |-> d, role |-> map[d].role, pass |-> map[d].pass]]

\* The last line of a database counts.
parse(lines) ==
    [d \in Name |->
        LET at == {i \in 1..Len(lines) : lines[i].database = d}
        IN IF at = {} THEN NoRecord
           ELSE LET last == CHOOSE i \in at : \A j \in at : j <= i
                IN [role |-> lines[last].role, pass |-> lines[last].pass]]

Stored == IF file = 0 THEN parse(<< >>) ELSE parse(data[file])

\* A file that cannot be read is taken for an empty one.
load(ok) == mem' = IF ok THEN Stored ELSE parse(<< >>)

Spend(what) == left[what] > 0 /\ left' = [left EXCEPT ![what] = @ - 1]

\* The answer to a request, and a handler free for the next.
Answer(h, d, what) ==
    /\ op' = [op EXCEPT ![h] = NoOp]
    /\ known' = [known EXCEPT ![d] = what]

----------------------------------------------------------------------------
(* Requests: provision, create_dedicated, Credentials::create and remove.  *)

\* create_dedicated refuses a name an ordinary schema owns, create one that is not an
\* identifier: nothing happens then.  A missing role is named as the database.
create_dedicated(h, d, r, p) ==
    /\ op[h].ph = "idle" /\ Spend("ops")
    /\ d \notin rows \/ is_dedicated(d)
    /\ {d, r} \subseteq Identifier
    /\ op' = [op EXCEPT ![h] = [NoOp EXCEPT !.ph = "checked", !.database = d,
                                            !.cred = [role |-> r, pass |-> p]]]
    /\ UNCHANGED <<mem, disk, rows, conn, known, overlapped>>

Refused(d, r) ==
    \/ is_dedicated(d)
    \/ Cardinality({e \in Name : is_dedicated(e)}) >= MAX_RECORDS
    \/ by_role(r) # Blank

Writing(h) == op[h].ph \in {"open", "write", "rename"}

Changed(h) ==
    overlapped' = (overlapped \/ \E g \in Handler \ {h} : Writing(g))

\* Mutant of Insert: the snapshot is taken before the insertion.
InsertStale(h) ==
    /\ op[h].ph = "checked"
    /\ LET d == op[h].database
       IN IF Refused(d, op[h].cred.role)
          THEN /\ op' = [op EXCEPT ![h] = NoOp]
               /\ UNCHANGED <<mem, known, overlapped>>
          ELSE /\ mem' = [mem EXCEPT ![d] = op[h].cred]
               /\ op' = [op EXCEPT ![h] = [@ EXCEPT !.ph = "open", !.snapshot = serialize(mem)]]
               /\ known' = [known EXCEPT ![d] = Unknown]
               /\ Changed(h)
    /\ UNCHANGED <<disk, rows, conn, left>>

\* Under the lock: the checks, the insertion, the snapshot.
Insert(h) ==
    /\ op[h].ph = "checked"
    /\ LET d == op[h].database
       IN IF Refused(d, op[h].cred.role)
          THEN /\ op' = [op EXCEPT ![h] = NoOp]
               /\ UNCHANGED <<mem, known, overlapped>>
          ELSE /\ mem' = [mem EXCEPT ![d] = op[h].cred]
               /\ op' = [op EXCEPT ![h] = [@ EXCEPT !.ph = "open", !.snapshot = serialize(mem')]]
               /\ known' = [known EXCEPT ![d] = Unknown]
               /\ Changed(h)
    /\ UNCHANGED <<disk, rows, conn, left>>

remove(h, d) ==
    /\ op[h].ph = "idle" /\ Spend("ops")
    /\ is_dedicated(d)
    /\ mem' = [mem EXCEPT ![d] = NoRecord]
    /\ op' = [op EXCEPT ![h] = [NoOp EXCEPT !.ph = "open", !.kind = "remove", !.database = d,
                                            !.snapshot = serialize(mem')]]
    /\ known' = [known EXCEPT ![d] = Unknown]
    /\ Changed(h)
    /\ UNCHANGED <<disk, rows, conn>>

\* write_atomic in three: open and truncate, write and sync, rename.  What stands in the
\* inode beyond the end of a shorter text stays.
Overlay(text, old) == text \o SubSeq(old, Len(text) + 1, Len(old))

Unused == Inode \ ({file, tmp} \cup {op[h].fd : h \in Handler})

OpenTmp(h) ==
    /\ op[h].ph = "open"
    /\ LET i == IF tmp # 0 THEN tmp ELSE CHOOSE i \in Unused : TRUE
       IN /\ tmp' = i /\ data' = [data EXCEPT ![i] = << >>]
          /\ op' = [op EXCEPT ![h] = [@ EXCEPT !.ph = "write", !.fd = i]]
    /\ UNCHANGED <<mem, file, rows, conn, known, overlapped, left>>

WriteTmp(h) ==
    /\ op[h].ph = "write"
    /\ data' = [data EXCEPT ![op[h].fd] = Overlay(op[h].snapshot, @)]
    /\ op' = [op EXCEPT ![h] = [@ EXCEPT !.ph = "rename", !.fd = 0]]
    /\ UNCHANGED <<mem, file, tmp, rows, conn, known, overlapped, left>>

\* The caller of create learns the password; the database is then brought up.  What an
\* answer says of a database that another request changed meanwhile is not held on to.
RenameTmp(h) ==
    /\ op[h].ph = "rename" /\ tmp # 0
    /\ file' = tmp /\ tmp' = 0
    /\ LET d == op[h].database
           Latest(what, cred) == IF mem[d] = cred THEN [is |-> what, cred |-> cred] ELSE Unknown
       IN IF op[h].kind = "create"
          THEN /\ op' = [op EXCEPT ![h] = [@ EXCEPT !.ph = "warm"]]
               /\ known' = [known EXCEPT ![d] = Latest("created", op[h].cred)]
          ELSE Answer(h, d, Latest("gone", NoRecord))
    /\ UNCHANGED <<mem, data, rows, conn, overlapped, left>>

\* Mutant of Rollback: the insertion stays.
RollbackNot(h) ==
    /\ Answer(h, op[h].database, Unknown)
    /\ UNCHANGED mem

\* A failed create takes its insertion back; a failed remove leaves memory as it is.
Rollback(h) ==
    /\ Answer(h, op[h].database, Unknown)
    /\ mem' = IF op[h].kind = "create" THEN [mem EXCEPT ![op[h].database] = NoRecord] ELSE mem

\* Another writer renamed the temporary file away.
RenameMissing(h) ==
    /\ op[h].ph = "rename" /\ tmp = 0 /\ Rollback(h)
    /\ UNCHANGED <<disk, rows, conn, overlapped, left>>

WriteFails(h) ==
    /\ Writing(h) /\ Spend("faults")
    /\ Rollback(h)
    /\ UNCHANGED <<disk, rows, conn, overlapped>>

\* Whether the bring-up succeeds or not, the credential stays.
spawn_provision(h) ==
    /\ op[h].ph = "warm" /\ op' = [op EXCEPT ![h] = NoOp]
    /\ rows' \in {rows, rows \cup {op[h].database}}
    /\ UNCHANGED <<mem, disk, conn, known, overlapped, left>>

\* A crash loses memory, requests and connections.  Once the file could not be read,
\* nothing told before is held on to: the next request writes it anew.
Restart(ok) ==
    /\ left.crashes > 0 /\ (ok \/ left.faults > 0)
    /\ left' = [left EXCEPT !.crashes = @ - 1, !.faults = IF ok THEN @ ELSE @ - 1]
    /\ load(ok) /\ op' = [h \in Handler |-> NoOp] /\ conn' = NoConn
    /\ known' = IF ok THEN known ELSE [d \in Name |-> Unknown]
    /\ UNCHANGED <<disk, rows, overlapped>>

----------------------------------------------------------------------------
(* A connection: handle_conn.                                              *)

Accept ==
    /\ conn.ph = "none" /\ Spend("conns")
    /\ conn' = [NoConn EXCEPT !.ph = "preamble"]
    /\ UNCHANGED <<mem, disk, op, rows, known, overlapped>>

\* A message before the startup packet: encryption is taken up once, if at all, and
\* otherwise declined; other codes end the connection.
read_startup(code) ==
    /\ conn.ph = "preamble"
    /\ conn' = IF code = "ssl" /\ Tls /\ ~conn.tls THEN [conn EXCEPT !.tls = TRUE]
               ELSE IF code \in {"ssl", "gss"} THEN conn ELSE NoConn
    /\ UNCHANGED <<mem, disk, op, rows, known, overlapped, left>>

\* A missing database is the user's; neither is an error.
parse_startup_message(user, database) ==
    /\ conn.ph = "preamble"
    /\ LET d == IF database = Blank THEN user ELSE database
       IN conn' = IF d = Blank THEN NoConn
                  ELSE [conn EXCEPT !.ph = "started", !.user = user, !.database = d]
    /\ UNCHANGED <<mem, disk, op, rows, known, overlapped, left>>

\* Mutant of challenge_password: everyone is asked for the shared one.
ChallengeShared(user, shared) == shared

challenge_password(user, shared) ==
    IF by_role(user) # Blank THEN mem[by_role(user)].pass ELSE shared

\* The password to ask for goes by the role alone; without one nobody is asked.
Challenge(shared) ==
    /\ conn.ph = "started"
    /\ LET p == challenge_password(conn.user, shared)
       IN conn' = [conn EXCEPT !.ph = IF p = Unset THEN "proven" ELSE "challenged",
                               !.expected = p, !.seen = mem[conn.database]]
    /\ UNCHANGED <<mem, disk, op, rows, known, overlapped, left>>

require_password(answer) ==
    /\ conn.ph = "challenged"
    /\ conn' = IF answer = conn.expected THEN [conn EXCEPT !.ph = "proven"] ELSE NoConn
    /\ UNCHANGED <<mem, disk, op, rows, known, overlapped, left>>

\* A dedicated role and its database go together; other clients open other databases.
authorize(role, d) ==
    IF by_role(role) # Blank THEN by_role(role) = d ELSE ~is_dedicated(d)

\* The rule, the name, the checkout that records a row; a refusal ends the connection.
Open ==
    /\ conn.ph = "proven"
    /\ IF authorize(conn.user, conn.database) /\ conn.database \in SchemaName
       THEN conn' = [conn EXCEPT !.ph = "open"] /\ rows' = rows \cup {conn.database}
       ELSE conn' = NoConn /\ UNCHANGED rows
    /\ UNCHANGED <<mem, disk, op, known, overlapped, left>>

\* splice: the end of the session, or of a connection that went silent (arm_keepalive).
Close ==
    /\ conn.ph # "none" /\ conn' = NoConn
    /\ UNCHANGED <<mem, disk, op, rows, known, overlapped, left>>

Next ==
    \/ \E h \in Handler :
          \/ \E d, r \in Name, p \in Pass : create_dedicated(h, d, r, p)
          \/ \E d \in Name : remove(h, d)
          \/ Insert(h) \/ OpenTmp(h) \/ WriteTmp(h) \/ RenameTmp(h) \/ RenameMissing(h)
          \/ WriteFails(h) \/ spawn_provision(h)
    \/ \E ok \in BOOLEAN : Restart(ok)
    \/ Accept \/ Open \/ Close
    \/ \E shared \in Shared : Challenge(shared)
    \/ \E code \in {"ssl", "gss", "other"} : read_startup(code)
    \/ \E user, database \in Name \cup {Blank} : parse_startup_message(user, database)
    \/ \E answer \in Pass \cup Shared : require_password(answer)

Spec == Init /\ [][Next]_vars

----------------------------------------------------------------------------
\* What a caller was told survives faults and restarts: a created credential is in the
\* file and served, a revoked one is in neither; as long as no two writes overlapped and a
\* restart could read the file (Credentials::create and remove, write_atomic, load).
AckedDurable ==
    ~overlapped =>
        \A d \in Name :
            known[d].is # "unknown" => Stored[d] = known[d].cred /\ mem[d] = known[d].cred

\* Once no request is under way, every credential served is one a restart would find
\* again (the rollback in Credentials::create).
NoPhantom ==
    ~overlapped /\ (\A h \in Handler : ~Writing(h)) =>
        \A d \in Name : is_dedicated(d) => Stored[d] = mem[d]

\* A session that opens a dedicated database whose credential did not change since the
\* client was challenged has proved that credential's password, not the shared one and not
\* that of another database, as long as no two writes overlapped: after those a restart may
\* find a role twice (challenge_password, require_password, authorize: three reads of the
\* set, with waits between them).
ProvedOwner ==
    [][/\ conn.ph = "proven" /\ conn'.ph = "open" /\ ~overlapped
       /\ is_dedicated(conn.database) /\ conn.seen = mem[conn.database]
       => conn.expected = mem[conn.database].pass]_vars

\* What create says of its write: a record it returned is never lost by a restart.
CreatedSurvives ==
    \A d \in Name : known[d].is = "created" => Stored[d] = known[d].cred
=============================================================================
