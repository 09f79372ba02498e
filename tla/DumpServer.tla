----------------------------- MODULE DumpServer -----------------------------
(***************************************************************************)
(* The dump of one schema, from the detached job in the guest to a copy    *)
(* the pooler trusts enough to delete the VM: the token-gated upload       *)
(* server (src/src/dumpsrv.rs), the guest's job script and the pooler's    *)
(* wait for it (src/src/vm.rs).                                            *)
(*                                                                         *)
(* Attempt t issues token t and dumps what the database holds then.  A     *)
(* dump is a sequence of pieces; the temporary file is one per schema, so  *)
(* attempts share it, and an upload handler keeps writing to the inode it  *)
(* opened whatever its name has become.                                    *)
(***************************************************************************)
EXTENDS Naturals, FiniteSets

CONSTANTS
    MaxJobs,        \* bound: attempts of the pooler
    Pieces,         \* pieces of a dump
    MinPieces,      \* MIN_ARCHIVE_BYTES, in pieces
    Route           \* ways a dump may take: "freeze", "archive", "direct"

\* What the constants must satisfy; MCParts assumes it of its instance.
DumpAssumption ==
    /\ MaxJobs \in Nat /\ Pieces \in Nat /\ MinPieces \in 1..Pieces
    /\ Route \subseteq {"freeze", "archive", "direct"}

Token == 1..MaxJobs
Bytes == Token \X (1..Pieces)

VARIABLES
    grant,      \* DumpServer::tokens
    put,        \* the upload handler of each token
    file,       \* the pieces in each inode; an inode is named by the token that made it
    tmp, dest,  \* the inodes at <schema>.dump.tmp and <schema>.dump, 0 if none
    guest,      \* the guest's job of each attempt
    sentinel,   \* the job's exit file in the guest: shared by all attempts
    obj,        \* the pieces of the object at the schema's key
    job,        \* the pooler's attempt
    outlived,   \* history: an older attempt was alive, or wrote, beside a newer one
    torn        \* history: attempts whose own file a full disk cut, unnoticed by pg_dump

server == <<grant, put, file, tmp, dest>>
past == <<outlived, torn>>
vars == <<server, guest, sentinel, obj, job, past>>

NoGrant == [st |-> "none", pending |-> 0, completed |-> 0]
NoPut == [ph |-> "none", inode |-> 0, next |-> 1]
NoJob == [ph |-> "idle", t |-> 0, route |-> "freeze", base |-> {}]
Whole(t) == {t} \X (1..Pieces)

Grant == [st : {"none", "live", "expired", "swept"}, pending : 0..Pieces, completed : 0..Pieces]
Put == [ph : {"none", "open", "closed"}, inode : Token \cup {0}, next : 1..(Pieces + 1)]
Attempt == [ph : {"idle", "wait", "upload", "frozen", "archived"}, t : Token \cup {0},
            route : {"freeze", "archive", "direct"}, base : SUBSET Bytes]

TypeOK ==
    /\ grant \in [Token -> Grant] /\ put \in [Token -> Put]
    /\ file \in [Token -> SUBSET Bytes] /\ tmp \in Token \cup {0} /\ dest \in Token \cup {0}
    /\ guest \in [Token -> {"none", "dump", "commit", "abort", "direct", "exit", "dead"}]
    /\ sentinel \in {"none", "ok", "failed"} /\ obj \subseteq Bytes
    /\ job \in Attempt /\ outlived \in BOOLEAN /\ torn \subseteq Token

Init ==
    /\ grant = [t \in Token |-> NoGrant] /\ put = [t \in Token |-> NoPut]
    /\ file = [t \in Token |-> {}] /\ tmp = 0 /\ dest = 0
    /\ guest = [t \in Token |-> "none"] /\ sentinel = "none"
    /\ obj = {} /\ job = NoJob /\ outlived = FALSE /\ torn = {}

----------------------------------------------------------------------------
(* The server.                                                             *)

authorize(t) == grant[t].st = "live"
Alive(t) == guest[t] \in {"dump", "commit", "abort", "direct"}

\* issue sweeps expired grants; one with bytes pending takes the schema's temporary
\* file along.
Swept == {t \in Token : grant[t].st = "expired"}

issue(t) ==
    /\ grant' = [u \in Token |-> IF u = t THEN [NoGrant EXCEPT !.st = "live"]
                                 ELSE IF u \in Swept THEN [NoGrant EXCEPT !.st = "swept"]
                                 ELSE grant[u]]
    /\ tmp' = IF \E u \in Swept : grant[u].pending > 0 THEN 0 ELSE tmp

\* A token issued for another schema, or to download, sweeps as well.
OtherIssue ==
    /\ Swept # {}
    /\ grant' = [u \in Token |-> IF u \in Swept THEN [NoGrant EXCEPT !.st = "swept"]
                                                ELSE grant[u]]
    /\ tmp' = IF \E u \in Swept : grant[u].pending > 0 THEN 0 ELSE tmp
    /\ UNCHANGED <<put, file, dest, guest, sentinel, obj, job, past>>

\* TOKEN_TTL is longer than the pooler waits for an attempt.
Expire(t) ==
    /\ grant[t].st = "live" /\ ~(job.ph = "wait" /\ job.t = t)
    /\ grant' = [grant EXCEPT ![t].st = "expired"]
    /\ UNCHANGED <<put, file, tmp, dest, guest, sentinel, obj, job, past>>

\* handle_put: File::create truncates what is at the temporary name.
PutOpen(t) ==
    /\ guest[t] = "dump" /\ put[t].ph = "none" /\ authorize(t)
    /\ LET n == IF tmp = 0 THEN t ELSE tmp
       IN /\ file' = [file EXCEPT ![n] = {}] /\ tmp' = n
          /\ put' = [put EXCEPT ![t] = [ph |-> "open", inode |-> n, next |-> 1]]
    /\ UNCHANGED <<grant, dest, guest, sentinel, obj, job, past>>

PutRefused(t) ==
    /\ guest[t] = "dump" /\ put[t].ph = "none" /\ ~authorize(t)
    /\ guest' = [guest EXCEPT ![t] = "abort"]
    /\ UNCHANGED <<server, sentinel, obj, job, past>>

\* The handler writes what the stream still yields, whatever became of the guest.
PutWrite(t) ==
    /\ put[t].ph = "open" /\ put[t].next <= Pieces
    /\ file' = [file EXCEPT ![put[t].inode] = @ \cup {<<t, put[t].next>>}]
    /\ put' = [put EXCEPT ![t].next = @ + 1]
    /\ outlived' = (outlived \/ t # job.t)
    /\ UNCHANGED <<grant, tmp, dest, guest, sentinel, obj, job, torn>>

\* The guest's curl gives up before the handler sees the connection break.
CurlFails(t) ==
    /\ guest[t] = "dump" /\ put[t].ph = "open"
    /\ guest' = [guest EXCEPT ![t] = "abort"]
    /\ UNCHANGED <<server, sentinel, obj, job, past>>

\* A guest that still listens knows whether pg_dump made it to the end.
Answered(t) ==
    [guest EXCEPT ![t] = IF @ # "dump" THEN @ ELSE IF put[t].next > Pieces THEN "commit" ELSE "abort"]

\* Mutant of PutEnd: the end of the body is taken for the end of the dump.
PutEndTrusting(t) ==
    /\ put[t].ph = "open"
    /\ put' = [put EXCEPT ![t].ph = "closed"]
    /\ dest' = tmp /\ tmp' = 0
    /\ grant' = [grant EXCEPT ![t].completed = put[t].next - 1]
    /\ guest' = Answered(t)
    /\ UNCHANGED <<file, sentinel, obj, job, past>>

\* The chunked body ended, after all pieces or because pg_dump died: the bytes are
\* pending.
PutEnd(t) ==
    /\ put[t].ph = "open"
    /\ put' = [put EXCEPT ![t].ph = "closed"]
    /\ grant' = [grant EXCEPT ![t].pending = IF grant[t].st = "swept" THEN 0
                                             ELSE put[t].next - 1]
    /\ guest' = Answered(t)
    /\ UNCHANGED <<file, tmp, dest, sentinel, obj, job, past>>

\* The connection breaks, or the upload passes the size limit: whatever is at the
\* temporary name is removed.
PutError(t) ==
    /\ put[t].ph = "open"
    /\ put' = [put EXCEPT ![t].ph = "closed"] /\ tmp' = 0
    /\ guest' = [guest EXCEPT ![t] = IF @ = "dump" THEN "abort" ELSE @]
    /\ UNCHANGED <<grant, file, dest, sentinel, obj, job, past>>

\* The guest's job ends with its exit file.
Exits(t, code) == guest' = [guest EXCEPT ![t] = "exit"] /\ sentinel' = code

\* handle_commit: nothing pending is a conflict, a missing file an error.
Committed(t) == authorize(t) /\ grant[t].pending > 0 /\ tmp # 0

handle_commit(t) ==
    /\ guest[t] = "commit"
    /\ \/ /\ Committed(t)
          /\ dest' = tmp /\ tmp' = 0
          /\ grant' = [grant EXCEPT ![t].completed = grant[t].pending, ![t].pending = 0]
          /\ Exits(t, "ok")
       \/ /\ ~Committed(t)
          /\ Exits(t, "failed") /\ UNCHANGED <<dest, tmp, grant>>
    /\ UNCHANGED <<put, file, obj, job, past>>

\* handle_abort, which may not arrive.
handle_abort(t) ==
    /\ guest[t] = "abort"
    /\ \/ /\ authorize(t) /\ grant' = [grant EXCEPT ![t].pending = 0] /\ tmp' = 0
       \/ UNCHANGED <<grant, tmp>>
    /\ Exits(t, "failed")
    /\ UNCHANGED <<put, file, dest, obj, job, past>>

\* The legacy route: the guest dumps to a file of its own and PUTs it to S3 itself.  A full
\* disk may cut the file although pg_dump succeeds; the answer may be lost.
DirectUpload(t) ==
    /\ guest[t] = "direct"
    /\ \/ /\ \E n \in 1..Pieces :
                /\ obj' = {t} \X (1..n)
                /\ torn' = IF n < Pieces THEN torn \cup {t} ELSE torn
          /\ \E code \in {"ok", "failed"} : Exits(t, code)
       \/ UNCHANGED <<obj, torn>> /\ Exits(t, "failed")
    /\ UNCHANGED <<server, job, outlived>>

Server(t) ==
    \/ Expire(t) \/ PutOpen(t) \/ PutRefused(t) \/ PutWrite(t) \/ CurlFails(t)
    \/ PutEnd(t) \/ PutError(t)
    \/ handle_commit(t) \/ handle_abort(t) \/ DirectUpload(t)

----------------------------------------------------------------------------
(* The pooler: dump_to_local, dump_to_s3_via_server, dump_to_s3.           *)

\* Issue a token, clear the old exit file and launch the job; a direct upload is
\* judged against the object found before.
Launch(r) ==
    /\ job.ph = "idle" /\ job.t < MaxJobs
    /\ LET t == job.t + 1
       IN /\ job' = [ph |-> "wait", t |-> t, route |-> r, base |-> obj]
          /\ IF r = "direct" THEN UNCHANGED <<grant, tmp>> ELSE issue(t)
          /\ guest' = [guest EXCEPT ![t] = IF r = "direct" THEN "direct" ELSE "dump"]
          /\ outlived' = (outlived \/ \E u \in Token : Alive(u))
    /\ sentinel' = "none"
    /\ UNCHANGED <<put, file, dest, obj, torn>>

\* What counts as the end of the dump: the commit on this token, or an object that
\* differs from the one before; and not an implausibly small one.
Landed ==
    IF job.route = "direct" THEN obj # job.base /\ Cardinality(obj) >= MinPieces
    ELSE grant[job.t].completed >= MinPieces

Await ==
    /\ job.ph = "wait" /\ Landed
    /\ job' = [job EXCEPT !.ph = CASE job.route = "freeze" -> "frozen"
                                   [] job.route = "archive" -> "upload"
                                   [] job.route = "direct" -> "archived"]
    /\ UNCHANGED <<server, guest, sentinel, obj, past>>

\* After a failed attempt the VM is stopped, and its jobs with it; a stop may fail.
StopVm == guest' \in {guest, [t \in Token |-> IF Alive(t) THEN "dead" ELSE guest[t]]}

\* The exit file says failed, or success that stays unconfirmed, or the deadline; the
\* dump may have landed since the last look.
GiveUp ==
    /\ job.ph = "wait"
    /\ job' = [job EXCEPT !.ph = "idle"]
    /\ StopVm
    /\ UNCHANGED <<server, sentinel, obj, past>>

\* upload_dump_to_s3 sends what is at the name now and checks its size against the
\* bytes the server counted; the local file goes in any case.
Upload ==
    /\ job.ph = "upload"
    /\ \/ /\ dest # 0 /\ obj' = file[dest] /\ Cardinality(file[dest]) = grant[job.t].completed
          /\ job' = [job EXCEPT !.ph = "archived"] /\ UNCHANGED guest
       \/ /\ obj' \in {obj, IF dest = 0 THEN obj ELSE file[dest]}
          /\ job' = [job EXCEPT !.ph = "idle"] /\ StopVm
    /\ dest' = 0
    /\ UNCHANGED <<grant, put, file, tmp, sentinel, past>>

\* The schema comes back in a new VM and may be offloaded again: a frozen dump is
\* removed, an archive stays at its key.
Thaw ==
    /\ job.ph \in {"frozen", "archived"}
    /\ job' = [job EXCEPT !.ph = "idle"]
    /\ dest' = IF job.ph = "frozen" THEN 0 ELSE dest
    /\ guest' = [t \in Token |-> IF Alive(t) THEN "dead" ELSE guest[t]]
    /\ UNCHANGED <<grant, put, file, tmp, sentinel, obj, past>>

Pooler == (\E r \in Route : Launch(r)) \/ Await \/ GiveUp \/ Upload \/ Thaw

Next == Pooler \/ OtherIssue \/ \E t \in Token : Server(t)

Spec == Init /\ [][Next]_vars

----------------------------------------------------------------------------
\* What the pooler trusts when it goes on to delete the VM is the whole dump of this
\* attempt: not torn, not another attempt's, not the object of an earlier archive, and it
\* stays so (await_server_upload, await_archive, handle_put, handle_commit).  Excepted are
\* attempts that began while the job of an earlier one was alive in a VM that would not
\* stop, or beside which an earlier upload still wrote, and a direct upload of a file that
\* a full disk cut.
TrustedWhole ==
    /\ job.ph = "frozen" => (dest # 0 /\ file[dest] = Whole(job.t)) \/ outlived
    /\ job.ph = "archived" => obj = Whole(job.t) \/ outlived \/ job.t \in torn

\* What the server says of its uploads: "a half-written upload never looks like a complete
\* dump".
NeverHalf == dest # 0 => \E t \in Token : file[dest] = Whole(t)
=============================================================================
