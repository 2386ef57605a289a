----------------------------- MODULE BlobStore -----------------------------
(***************************************************************************)
(* The content-addressed store of the server: blob files on disk, the      *)
(* tables server_blobs and server_blob_refs that say who may read them,    *)
(* and the operations of the log that name them.                           *)
(*                                                                         *)
(* The tables change in transactions, which the one database connection    *)
(* serialises; the files change outside of them.  The questions are about  *)
(* the two together: a file is made visible before its row is committed,   *)
(* an error takes it back, and the process may die at any point between.   *)
(***************************************************************************)
EXTENDS Naturals, FiniteSets

CONSTANTS
    Users,
    Scopes,         \* the <<user, vault>> pairs of the paired devices
    Hashes,         \* blob contents; equal contents have equal hashes
    SizeOf,         \* their sizes
    MaxBlob,        \* cfg.Limits.MaxBlobBytes
    MaxVault,       \* cfg.Limits.MaxVaultBlobBytes
    MaxUser,        \* cfg.Limits.MaxUserBlobBytes
    Reqs, NoReq,    \* requests the server runs at once
    Kinds,          \* those clients send: "upload", "download", "push"
    TempNames, NoTemp,
    Events          \* "fail", "commitfail", "crash", "delete", "retention"

ASSUME ScopeAssumption == \A s \in Scopes : s[1] \in Users
ASSUME SizeAssumption == SizeOf \in [Hashes -> Nat]
ASSUME LimitAssumption == MaxBlob \in Nat /\ MaxVault \in Nat /\ MaxUser \in Nat
ASSUME KindAssumption == Kinds \subseteq {"upload", "download", "push"}
ASSUME NameAssumption == NoReq \notin Reqs /\ NoTemp \notin TempNames

VARIABLES
    userRow,  \* server_users: "active", or "absent" once deleted
    blobs,    \* server_blobs: hashes
    refs,     \* server_blob_refs
    oplog,    \* server_ops that name a blob
    files,    \* blobs/<aa>/<bb>/<hash>
    temps,    \* blobs/.upload-*
    old,      \* those of them older than cfg.Retention.TempUploadHours
    sweep,    \* names the running CleanupRetention has still to look at
    conn,     \* the request whose transaction holds the connection, or NoReq
    pc, call, \* where each request's handler is, and what it asks
    tmp,      \* tmpName of its upload
    fresh,    \* the upload adds a reference, it does not touch an old one
    made,     \* createdPhysical
    reply

db == <<userRow, blobs, refs, oplog>>
disk == <<files, temps, old, sweep>>
locals == <<call, tmp, fresh, made>>
vars == <<userRow, blobs, refs, oplog, files, temps, old, sweep, conn,
          pc, call, tmp, fresh, made, reply>>

Ref == [scope : Scopes, hash : Hashes]
Call == [kind : Kinds, scope : Scopes, hash : Hashes]
NoCall == [kind |-> "none"]
Replies == {"none", "stored", "content", "pushed", "refused", "error"}

InTx == {"ref", "place", "rows", "commit"}
UploadPCs == {"create", "copy", "parts", "begin", "undo"} \cup InTx
PCs == {"idle", "auth", "reply", "read", "open", "touch", "push"}
         \cup UploadPCs

Init ==
    /\ userRow = [u \in Users |-> "active"]
    /\ blobs = {} /\ refs = {} /\ oplog = {}
    /\ files = {} /\ temps = {} /\ old = {} /\ sweep = {}
    /\ conn = NoReq
    /\ pc = [r \in Reqs |-> "idle"]
    /\ call = [r \in Reqs |-> NoCall]
    /\ tmp = [r \in Reqs |-> NoTemp]
    /\ fresh = [r \in Reqs |-> FALSE]
    /\ made = [r \in Reqs |-> FALSE]
    /\ reply = [r \in Reqs |-> "none"]

ConnFree == conn = NoReq
RefOf(c) == [scope |-> c.scope, hash |-> c.hash]
Goto(r, place) == pc' = [pc EXCEPT ![r] = place]
Answer(r, answer) == Goto(r, "reply") /\ reply' = [reply EXCEPT ![r] = answer]

-----------------------------------------------------------------------------
(* Any request: OpLog has the details of authentication.                   *)

Send(r, c) ==
    /\ pc[r] = "idle"
    /\ Goto(r, "auth")
    /\ call' = [call EXCEPT ![r] = c]
    /\ UNCHANGED <<db, disk, conn, tmp, fresh, made, reply>>

FirstStep == [upload |-> "create", download |-> "read", push |-> "push"]

Authenticate(r) ==
    /\ pc[r] = "auth" /\ ConnFree
    /\ IF userRow[call[r].scope[1]] = "active"
       THEN Goto(r, FirstStep[call[r].kind]) /\ UNCHANGED reply
       ELSE Answer(r, "refused")
    /\ UNCHANGED <<db, disk, conn, locals>>

-----------------------------------------------------------------------------
(* handleBlobUpload                                                        *)

\* os.CreateTemp: a random name, here one that no upload has in hand.
CreateTemp(r) ==
    /\ pc[r] = "create"
    /\ \E name \in TempNames \ (temps \cup {tmp[q] : q \in Reqs}) :
          /\ temps' = temps \cup {name}
          /\ tmp' = [tmp EXCEPT ![r] = name]
    /\ Goto(r, "copy")
    /\ UNCHANGED <<db, files, old, sweep, conn, call, fresh, made, reply>>

\* At most MaxBlob + 1 bytes are read, so the rest of a larger body is not.
Copy(r) ==
    /\ pc[r] = "copy"
    /\ IF SizeOf[call[r].hash] > MaxBlob
       THEN Answer(r, "refused")
       ELSE Goto(r, "parts") /\ UNCHANGED reply
    /\ UNCHANGED <<db, disk, conn, locals>>

\* A body with a second part is refused.
CheckParts(r) ==
    /\ pc[r] = "parts"
    /\ \/ Goto(r, "begin") /\ UNCHANGED reply
       \/ Answer(r, "refused")
    /\ UNCHANGED <<db, disk, conn, locals>>

\* A faulty AttachBegin: the checks run outside a transaction.
AttachUnlocked(r) ==
    /\ pc[r] = "begin"
    /\ conn' = r
    /\ Goto(r, "ref")
    /\ UNCHANGED <<db, disk, locals, reply>>

AttachBegin(r) ==
    /\ pc[r] = "begin" /\ ConnFree
    /\ conn' = r
    /\ Goto(r, "ref")
    /\ UNCHANGED <<db, disk, locals, reply>>

\* SUM(size) over rows of server_blob_refs: each counts the octets of its blob.
Octets(rows) == UNION {{ref} \X (1..SizeOf[ref.hash]) : ref \in rows}
SumSizes(rows) == Cardinality(Octets(rows))
VaultUsed(s) == SumSizes({ref \in refs : ref.scope = s})
UserUsed(u) == SumSizes({ref \in refs : ref.scope[1] = u})

OverQuota(s, size) ==
    \/ VaultUsed(s) + size > MaxVault
    \/ UserUsed(s[1]) + size > MaxUser

\* A faulty AlreadyAttached: the content is known, whoever uploaded it.
AlreadyStored(c) == c.hash \in blobs

AlreadyAttached(c) == RefOf(c) \in refs

\* A reference the scope has already is only touched: neither the quotas nor
\* the file are looked at again.
AttachRef(r) ==
    /\ pc[r] = "ref"
    /\ LET c == call[r]
       IN \/ /\ AlreadyAttached(c)
             /\ Goto(r, "commit")
             /\ UNCHANGED <<conn, fresh, reply>>
          \/ /\ ~AlreadyAttached(c)
             /\ OverQuota(c.scope, SizeOf[c.hash])
             /\ conn' = NoReq
             /\ Answer(r, "refused")
             /\ UNCHANGED fresh
          \/ /\ ~AlreadyAttached(c)
             /\ ~OverQuota(c.scope, SizeOf[c.hash])
             /\ Goto(r, "place")
             /\ fresh' = [fresh EXCEPT ![r] = TRUE]
             /\ UNCHANGED <<conn, reply>>
    /\ UNCHANGED <<db, disk, call, tmp, made>>

\* Stat, and Rename where the content is not there yet.
AttachPlace(r) ==
    /\ pc[r] = "place"
    /\ LET hash == call[r].hash
       IN /\ made' = [made EXCEPT ![r] = hash \notin files]
          /\ files' = files \cup {hash}
          /\ temps' = IF hash \in files THEN temps ELSE temps \ {tmp[r]}
    /\ Goto(r, "rows")
    /\ UNCHANGED <<db, old, sweep, conn, call, tmp, fresh, reply>>

\* The two INSERTs: seen by the others when they are committed.
AttachRows(r) ==
    /\ pc[r] = "rows"
    /\ Goto(r, "commit")
    /\ UNCHANGED <<db, disk, conn, locals, reply>>

AttachCommit(r) ==
    /\ pc[r] = "commit"
    /\ conn' = NoReq
    /\ IF fresh[r]
       THEN /\ blobs' = blobs \cup {call[r].hash}
            /\ refs' = refs \cup {RefOf(call[r])}
       ELSE UNCHANGED <<blobs, refs>>
    /\ Answer(r, "stored")
    /\ UNCHANGED <<userRow, oplog, disk, locals>>

\* A Commit that fails rolls back and gives the connection to the next one
\* waiting for it; only then does attachBlob take back the file it made.
AttachCommitFails(r) ==
    /\ "commitfail" \in Events
    /\ pc[r] = "commit"
    /\ conn' = NoReq
    /\ IF made[r] THEN Goto(r, "undo") /\ UNCHANGED reply
                  ELSE Answer(r, "error")
    /\ UNCHANGED <<db, disk, locals>>

AttachUndo(r) ==
    /\ pc[r] = "undo"
    /\ files' = files \ {call[r].hash}
    /\ Answer(r, "error")
    /\ UNCHANGED <<db, temps, old, sweep, conn, locals>>

-----------------------------------------------------------------------------
(* handleBlobDownload: three steps that nothing holds together.            *)

MayRead(c) == RefOf(c) \in refs

ReadRef(r) ==
    /\ pc[r] = "read" /\ ConnFree
    /\ IF MayRead(call[r]) THEN Goto(r, "open") /\ UNCHANGED reply
                           ELSE Answer(r, "refused")
    /\ UNCHANGED <<db, disk, conn, locals>>

OpenFile(r) ==
    /\ pc[r] = "open"
    /\ IF call[r].hash \in files THEN Goto(r, "touch") /\ UNCHANGED reply
                                 ELSE Answer(r, "refused")
    /\ UNCHANGED <<db, disk, conn, locals>>

\* The open file is served, also when its reference has gone by now.
TouchAndServe(r) ==
    /\ pc[r] = "touch" /\ ConnFree
    /\ Answer(r, "content")
    /\ UNCHANGED <<db, disk, conn, locals>>

-----------------------------------------------------------------------------
(* handleSyncPush of an operation that names a blob.  Its transaction      *)
(* touches no file, so it is one step here.                                *)

PushNaming(r) ==
    /\ pc[r] = "push" /\ ConnFree
    /\ IF RefOf(call[r]) \in refs
       THEN /\ oplog' = oplog \cup {RefOf(call[r])}
            /\ Answer(r, "pushed")
       ELSE /\ Answer(r, "refused")
            /\ UNCHANGED oplog
    /\ UNCHANGED <<userRow, blobs, refs, disk, conn, locals>>

-----------------------------------------------------------------------------
\* A faulty TakenBack: the file is removed whoever made it.
TakenBackAlways(r) == IF pc[r] = "rows" THEN {call[r].hash} ELSE {}

\* A faulty TakenBack: attachBlob returns from a failed INSERT at once.
TakenBackNever(r) == {}

\* What a failed INSERT removes: the file, if this upload made it.
TakenBack(r) == IF pc[r] = "rows" /\ made[r] THEN {call[r].hash} ELSE {}

\* A faulty Rollback: it is not deferred.
NoRollback(r) == conn' = conn

Rollback(r) == conn' = IF pc[r] \in InTx THEN NoReq ELSE conn

\* Any call before Commit may fail: the handler answers 500, and its deferred
\* Rollback frees the connection once the file is taken back.
Fail(r) ==
    /\ "fail" \in Events
    /\ pc[r] \notin {"idle", "reply", "commit", "undo"}
    /\ files' = files \ TakenBack(r)
    /\ Rollback(r)
    /\ Answer(r, "error")
    /\ UNCHANGED <<db, temps, old, sweep, locals>>

\* A faulty Forget: the handler's state outlives its request.
ForgetAnswerOnly(r) ==
    /\ reply' = [reply EXCEPT ![r] = "none"]
    /\ UNCHANGED locals

Forget(r) ==
    /\ call' = [call EXCEPT ![r] = NoCall]
    /\ tmp' = [tmp EXCEPT ![r] = NoTemp]
    /\ fresh' = [fresh EXCEPT ![r] = FALSE]
    /\ made' = [made EXCEPT ![r] = FALSE]
    /\ reply' = [reply EXCEPT ![r] = "none"]

\* The answer is out; the deferred removal of the temporary file is last.
Finish(r) ==
    /\ pc[r] = "reply"
    /\ Goto(r, "idle")
    /\ temps' = temps \ {tmp[r]}
    /\ Forget(r)
    /\ UNCHANGED <<db, files, old, sweep, conn>>

Stale(name) == name \in old

\* The process dies: what it had in hand stays on the disk.  It starts again
\* with CleanupRetention, before it serves anybody.  The guard is the bound on
\* crashes: it leaves a name for every request.
Crash ==
    /\ "crash" \in Events
    /\ Cardinality(TempNames \ temps) >= Cardinality(Reqs)
    /\ conn' = NoReq
    /\ temps' = {name \in temps : ~Stale(name)}
    /\ old' = old \cap temps'
    /\ sweep' = {}
    /\ pc' = [r \in Reqs |-> "idle"]
    /\ call' = [r \in Reqs |-> NoCall]
    /\ tmp' = [r \in Reqs |-> NoTemp]
    /\ fresh' = [r \in Reqs |-> FALSE]
    /\ made' = [r \in Reqs |-> FALSE]
    /\ reply' = [r \in Reqs |-> "none"]
    /\ UNCHANGED <<db, files>>

\* A faulty DeleteUser: the references go and the operations stay.
DeleteUserRefs(u) ==
    /\ "delete" \in Events /\ ConnFree
    /\ userRow[u] = "active"
    /\ userRow' = [userRow EXCEPT ![u] = "absent"]
    /\ refs' = {ref \in refs : ref.scope[1] # u}
    /\ UNCHANGED <<blobs, oplog, disk, conn, pc, locals, reply>>

\* DELETE /admin/api/users/<id>: one transaction.  The files stay.
DeleteUser(u) ==
    /\ "delete" \in Events /\ ConnFree
    /\ userRow[u] = "active"
    /\ userRow' = [userRow EXCEPT ![u] = "absent"]
    /\ refs' = {ref \in refs : ref.scope[1] # u}
    /\ oplog' = {op \in oplog : op.scope[1] # u}
    /\ UNCHANGED <<blobs, disk, conn, pc, locals, reply>>

-----------------------------------------------------------------------------
(* CleanupRetention, the part that removes stale uploads, when an           *)
(* administrator asks for it and the server is running.                    *)

\* Hours pass.  No upload and no sweep lasts that long.
Age(name) ==
    /\ "retention" \in Events
    /\ sweep = {}
    /\ name \in temps \ old
    /\ \A r \in Reqs : tmp[r] # name
    /\ old' = old \cup {name}
    /\ UNCHANGED <<db, files, temps, sweep, conn, pc, locals, reply>>

SweepStart ==
    /\ "retention" \in Events
    /\ sweep = {} /\ ConnFree
    /\ sweep' = temps
    /\ UNCHANGED <<db, files, temps, old, conn, pc, locals, reply>>

\* A faulty SweepVisit: a file that is still young ends the sweep.
SweepVisitStopping(name) ==
    /\ name \in sweep
    /\ temps' = IF Stale(name) THEN temps \ {name} ELSE temps
    /\ old' = old \cap temps'
    /\ sweep' = IF name \in temps /\ Stale(name) THEN sweep \ {name} ELSE {}
    /\ UNCHANGED <<db, files, conn, pc, locals, reply>>

\* A name that has vanished since ReadDir ends the sweep with an error.
SweepVisit(name) ==
    /\ name \in sweep
    /\ temps' = IF Stale(name) THEN temps \ {name} ELSE temps
    /\ old' = old \cap temps'
    /\ sweep' = IF name \notin temps THEN {} ELSE sweep \ {name}
    /\ UNCHANGED <<db, files, conn, pc, locals, reply>>

-----------------------------------------------------------------------------
\* The steps of a handler that wait for the connection, and the others.
Waiting(r) ==
    \/ Authenticate(r) \/ AttachBegin(r)
    \/ ReadRef(r) \/ TouchAndServe(r) \/ PushNaming(r)
Running(r) ==
    \/ CreateTemp(r) \/ Copy(r) \/ CheckParts(r)
    \/ AttachRef(r) \/ AttachPlace(r) \/ AttachRows(r)
    \/ AttachCommit(r) \/ AttachUndo(r)
    \/ OpenFile(r)
    \/ Finish(r)

Next ==
    \/ \E r \in Reqs : \/ Waiting(r) \/ Running(r)
                      \/ AttachCommitFails(r) \/ Fail(r)
    \/ \E r \in Reqs, c \in Call : Send(r, c)
    \/ Crash
    \/ \E u \in Users : DeleteUser(u)
    \/ SweepStart
    \/ \E name \in TempNames : Age(name) \/ SweepVisit(name)

Spec == Init /\ [][Next]_vars

\* Fairness: the scheduler runs every goroutine that can run, those waiting
\* for the connection in their turn.
Fairness == \A r \in Reqs : SF_vars(Waiting(r)) /\ WF_vars(Running(r))

FairSpec == Spec /\ Fairness

-----------------------------------------------------------------------------
(* Properties.                                                             *)

\* Every variable holds values of its type.
TypeOK ==
    /\ userRow \in [Users -> {"active", "absent"}]
    /\ blobs \subseteq Hashes /\ refs \subseteq Ref /\ oplog \subseteq Ref
    /\ files \subseteq Hashes
    /\ temps \subseteq TempNames /\ sweep \subseteq TempNames
    /\ old \subseteq temps
    /\ conn \in Reqs \cup {NoReq}
    /\ pc \in [Reqs -> PCs]
    /\ call \in [Reqs -> Call \cup {NoCall}]
    /\ tmp \in [Reqs -> TempNames \cup {NoTemp}]
    /\ fresh \in [Reqs -> BOOLEAN] /\ made \in [Reqs -> BOOLEAN]
    /\ reply \in [Reqs -> Replies]
    /\ \A r \in Reqs : pc[r] = "idle" <=> call[r] = NoCall

\* A blob some scope has a reference to is on the disk: the rename comes
\* before the commit, and no error path of another upload, crash or deleted
\* user takes the shared file away.  It holds as long as no Commit fails.
ReferencedIsStored == \A ref \in refs : ref.hash \in files /\ ref.hash \in blobs

\* An operation in the log can be restored by every device of its scope
\* (validateScopedBlobReferences): the scope still has its reference to the
\* blob the operation names, and the blob is on the disk.
OpsRestorable == \A op \in oplog : op \in refs /\ op.hash \in files

\* No vault and no user ever has more than its quota, however many uploads
\* run their checks at the same time.
QuotaKept ==
    /\ \A s \in Scopes : VaultUsed(s) <= MaxVault
    /\ \A u \in Users : UserUsed(u) <= MaxUser

\* What a successful answer says of the caller's own scope is so: knowing the
\* hash of another scope's content neither gives the content nor saves the
\* upload, and a stored upload has its reference.  Either may go with the user.
AnswersBacked ==
    \A r \in Reqs :
        reply[r] \in {"content", "stored"} =>
            \/ RefOf(call[r]) \in refs
            \/ userRow[call[r].scope[1]] = "absent"

\* A rejected or failed upload leaves nothing on the disk.  While the process
\* lives and no user is deleted, a blob file without a reference is one that
\* an upload in progress made and will commit or remove, and a temporary file
\* is that of an upload in progress; that upload has not lost it.
NoResidue ==
    /\ \A hash \in files :
          \/ \E ref \in refs : ref.hash = hash
          \/ \E r \in Reqs : /\ pc[r] \in {"rows", "commit", "undo"}
                             /\ made[r] /\ call[r].hash = hash
    /\ \A name \in temps : \E r \in Reqs : tmp[r] = name
    /\ \A r \in Reqs :
          pc[r] \in {"copy", "parts", "begin", "ref", "place"} => tmp[r] \in temps

\* A sweep removes all that crashes left behind, whatever uploads come and go
\* meanwhile, unless it stops at a file that has vanished under it.
SweptClean ==
    [][\A name \in TempNames :
          SweepVisit(name) /\ name \in temps /\ sweep' = {} => old' = {}]_vars

\* Every request is answered or dies with the process.
Answered == \A r \in Reqs : pc[r] # "idle" ~> pc[r] = "idle"

\* How far a request has got, as its caller can tell.
StageOf(place) ==
    CASE place = "idle" -> "idle"
      [] place = "auth" -> "asked"
      [] place \in {"open", "touch"} -> "granted"
      [] place = "reply" -> "answered"
      [] OTHER -> "admitted"
Stages == [r \in Reqs |-> StageOf(pc[r])]

\* To its callers the store is one set of contents for each scope, which every
\* request reads or changes in a single step: no interleaving of handlers, no
\* failure, no crash and no state of the disk shows them anything else.  A
\* download that was granted is refused only where a Commit may fail.
Contents == INSTANCE ContentStore WITH
    user <- userRow,
    stored <- refs,
    named <- oplog,
    stage <- Stages,
    ask <- call,
    answer <- reply,
    Size <- SumSizes,
    MayLose <- "commitfail" \in Events

ImplementsContentStore == Contents!Spec
=============================================================================
