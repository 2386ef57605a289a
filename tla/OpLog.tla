------------------------------- MODULE OpLog -------------------------------
(***************************************************************************)
(* The synchronisation core of the server: the operation log of every      *)
(* user and vault in one SQLite file, the handlers of /api/v1/sync/push    *)
(* and /api/v1/sync/pull that serve it, and the clients that follow it.    *)
(*                                                                         *)
(* Go runs each request in a goroutine of its own.  All of them share one  *)
(* database connection (SetMaxOpenConns(1) in NewServer): a statement      *)
(* outside a transaction is atomic, and a transaction excludes every       *)
(* other statement from Begin to Commit or Rollback.  Between two          *)
(* statements, or a statement and a transaction, anything may run.  So a   *)
(* request here is a program counter pc[r], and one step is one statement; *)
(* `conn' is the request that holds the connection in a transaction and    *)
(* `work' what that transaction has done so far.                           *)
(***************************************************************************)
EXTENDS Naturals, Sequences, FiniteSets

CONSTANTS
    Users, Devices,   \* rows of server_users and server_devices
    OwnerOf,          \* the user_id of each device row
    VaultOf, NoVault, \* its vault_id; a legacy row has none
    OpIds, Entities,  \* operation ids, <entity_type, entity_id> pairs
    BatchesOf,        \* the `ops' that the push requests of a device carry
    Keys, NoKey,      \* idempotency keys they use; NoKey is the empty string
    Reqs, NoReq,      \* requests the server runs at once
    MaxPush,          \* cfg.Limits.MaxPushOperations
    MaxPullPage,      \* cfg.Limits.MaxPullPage
    PageLimits,       \* the page_limit values pull requests carry
    Events            \* which events besides sync requests may happen

OpTypes == {"upsert", "delete"}
Operation == [id : OpIds, entity : Entities, type : OpTypes]

ASSUME DeviceAssumption == OwnerOf \in [Devices -> Users]
ASSUME BatchAssumption == BatchesOf \in [Devices -> SUBSET Seq(Operation)]
ASSUME ReqAssumption == NoReq \notin Reqs
ASSUME LimitAssumption == /\ MaxPush \in Nat
                          /\ MaxPullPage \in Nat \ {0}
                          /\ PageLimits \subseteq Nat

EffectiveVault(user, vault) ==
    IF vault # NoVault THEN vault ELSE <<"legacy", user>>

Scope(d) == <<OwnerOf[d], EffectiveVault(OwnerOf[d], VaultOf[d])>>
Scopes == {Scope(d) : d \in Devices}

VARIABLES
    userRow,  \* server_users: "active", "blocked", or "absent" once deleted
    devRow,   \* server_devices: "active", "revoked", or "absent"
    ops,      \* server_ops: a set of rows
    lastRev,  \* the AUTOINCREMENT counter of server_revisions
    tombs,    \* server_tombstones
    idem,     \* server_idempotency_keys
    conn,     \* the request whose transaction holds the connection, or NoReq
    work,     \* that transaction's view of the tables it writes
    pc,       \* where each request's handler is
    call,     \* what the request asks
    top,      \* the server_sequence a pull has read
    reply,    \* what the handler answers
    cursor,   \* each client: the sequence up to which it has applied the log
    got       \* each client: the rows it has applied

db == <<ops, lastRev, tombs, idem>>
accounts == <<userRow, devRow>>
tx == <<conn, work>>
clients == <<cursor, got>>
vars == <<userRow, devRow, ops, lastRev, tombs, idem, conn, work,
          pc, call, top, reply, cursor, got>>

OpRow == [id : OpIds, seq : Nat, scope : Scopes, device : Devices,
          entity : Entities, type : OpTypes, seen : Nat]
Tombstone == [scope : Scopes, entity : Entities, op : OpIds]
Response == [accepted : SUBSET OpIds, conflicts : SUBSET OpRow]
IdemRow == [scope : Scopes, key : Keys, resp : Response]
Work == [ops : SUBSET OpRow, lastRev : Nat, tombs : SUBSET Tombstone,
         next : Nat \ {0}, accepted : SUBSET OpIds, conflicts : SUBSET OpRow]

\* `live' is not sent: it records, for the properties, that the device was
\* not yet revoked when the client sent the request.
PushCall == [kind : {"push"}, dev : Devices, batch : Seq(Operation),
             key : Keys, seen : Nat, live : BOOLEAN]
PullCall == [kind : {"pull"}, dev : Devices, since : Nat,
             limit : PageLimits, live : BOOLEAN]
NoCall == [kind |-> "none"]

PushReply == [kind : {"push"}, resp : Response, cached : BOOLEAN]
PullReply == [kind : {"pull"}, page : SUBSET OpRow, last : Nat,
              more : BOOLEAN, top : Nat]
Denied == [kind |-> "denied"]
Failed == [kind |-> "error"]
NoReply == [kind |-> "none"]

NoWork == [ops |-> {}, lastRev |-> 0, tombs |-> {},
           next |-> 1, accepted |-> {}, conflicts |-> {}]

InTx == {"lookup", "replay", "ops"}
AtServer == {"device", "user", "begin", "top", "page"} \cup InTx
PCs == {"idle", "reply"} \cup AtServer

Init ==
    /\ userRow = [u \in Users |-> "active"]
    /\ devRow = [d \in Devices |-> "active"]
    /\ ops = {} /\ lastRev = 0 /\ tombs = {} /\ idem = {}
    /\ conn = NoReq /\ work = NoWork
    /\ pc = [r \in Reqs |-> "idle"]
    /\ call = [r \in Reqs |-> NoCall]
    /\ top = [r \in Reqs |-> 0]
    /\ reply = [r \in Reqs |-> NoReply]
    /\ cursor = [d \in Devices |-> 0]
    /\ got = [d \in Devices |-> {}]

-----------------------------------------------------------------------------
(* Clients send requests.  A retry is the same request sent again.         *)

Send(r, c) ==
    /\ pc[r] = "idle"
    /\ pc' = [pc EXCEPT ![r] = "device"]
    /\ call' = [call EXCEPT ![r] = c]
    /\ UNCHANGED <<accounts, db, tx, top, reply, clients>>

SendPush(r, d, batch, key, seen) ==
    Send(r, [kind |-> "push", dev |-> d, batch |-> batch, key |-> key,
             seen |-> seen, live |-> devRow[d] = "active"])

SendPull(r, d, limit) ==
    Send(r, [kind |-> "pull", dev |-> d, since |-> cursor[d],
             limit |-> limit, live |-> devRow[d] = "active"])

Answer(r, answer) ==
    /\ pc' = [pc EXCEPT ![r] = "reply"]
    /\ reply' = [reply EXCEPT ![r] = answer]

-----------------------------------------------------------------------------
(* authenticateDevice: two reads in two statements.  Nothing holds the     *)
(* device or the user in place once they are read.                         *)

ConnFree == conn = NoReq

\* A faulty DeviceAdmitted: revoked_at is not looked at.
DeviceKnown(d) == devRow[d] # "absent"

DeviceAdmitted(d) == devRow[d] = "active"

AuthDevice(r) ==
    /\ pc[r] = "device" /\ ConnFree
    /\ IF DeviceAdmitted(call[r].dev)
       THEN pc' = [pc EXCEPT ![r] = "user"] /\ UNCHANGED reply
       ELSE Answer(r, Denied)
    /\ UNCHANGED <<accounts, db, tx, call, top, clients>>

UserAdmitted(u) == userRow[u] = "active"

AuthUser(r) ==
    /\ pc[r] = "user" /\ ConnFree
    /\ IF UserAdmitted(OwnerOf[call[r].dev])
       THEN /\ pc' = [pc EXCEPT ![r] =
                        IF call[r].kind = "push" THEN "begin" ELSE "top"]
            /\ UNCHANGED reply
       ELSE Answer(r, Denied)
    /\ UNCHANGED <<accounts, db, tx, call, top, clients>>

-----------------------------------------------------------------------------
(* handleSyncPush                                                          *)

Snapshot == [ops |-> ops, lastRev |-> lastRev, tombs |-> tombs,
             next |-> 1, accepted |-> {}, conflicts |-> {}]

PushBegin(r) ==
    /\ pc[r] = "begin"
    /\ \/ /\ Len(call[r].batch) > MaxPush
          /\ Answer(r, Denied)
          /\ UNCHANGED tx
       \/ /\ Len(call[r].batch) <= MaxPush
          /\ ConnFree
          /\ conn' = r
          /\ work' = Snapshot
          /\ pc' = [pc EXCEPT ![r] = "lookup"]
          /\ UNCHANGED reply
    /\ UNCHANGED <<accounts, db, call, top, clients>>

\* A faulty CachedAnswers: the key alone, whoever used it.
CachedAnywhere(scope, key) ==
    {row.resp : row \in {e \in idem : e.key = key}}

\* The stored answers to an earlier request with the same key.
CachedAnswers(scope, key) ==
    {row.resp : row \in {e \in idem : e.scope = scope /\ e.key = key}}

PushLookup(r) ==
    /\ pc[r] = "lookup"
    /\ LET cached == IF call[r].key = NoKey THEN {}
                     ELSE CachedAnswers(Scope(call[r].dev), call[r].key)
       IN \/ /\ cached = {}
             /\ pc' = [pc EXCEPT ![r] = "ops"]
             /\ UNCHANGED reply
          \/ \E resp \in cached :
                /\ pc' = [pc EXCEPT ![r] = "replay"]
                /\ reply' = [reply EXCEPT ![r] =
                      [kind |-> "push", resp |-> resp, cached |-> TRUE]]
    /\ UNCHANGED <<accounts, db, tx, call, top, clients>>

ReleaseConn == conn' = NoReq /\ work' = NoWork

\* A faulty PushReplay: the early return leaves the transaction open.
PushReplayKeepingConn(r) ==
    /\ pc[r] = "replay"
    /\ pc' = [pc EXCEPT ![r] = "reply"]
    /\ UNCHANGED <<accounts, db, tx, call, top, reply, clients>>

\* The cached answer is written to the socket before the deferred Rollback
\* runs: until then the handler keeps the connection.
PushReplay(r) ==
    /\ pc[r] = "replay"
    /\ pc' = [pc EXCEPT ![r] = "reply"]
    /\ ReleaseConn
    /\ UNCHANGED <<accounts, db, call, top, reply, clients>>

\* A faulty Conflicts: the boundary is off by one.
ConflictsOffByOne(rows, scope, dev, op, seen) ==
    {row \in rows : /\ row.scope = scope
                    /\ row.entity = op.entity
                    /\ row.device # dev
                    /\ row.seq > seen + 1
                    /\ row.type # "delete"}

\* Rows the conflict query returns for one operation of a batch.
Conflicts(rows, scope, dev, op, seen) ==
    {row \in rows : /\ row.scope = scope
                    /\ row.entity = op.entity
                    /\ row.device # dev
                    /\ row.seq > seen
                    /\ row.type # "delete"}

NewConflicts(rows, scope, dev, op, seen) ==
    IF seen > 0 THEN Conflicts(rows, scope, dev, op, seen) ELSE {}

\* INSERT OR IGNORE: op_id is the primary key of the whole table, whatever
\* the scope of the row that has it.
\* Two faulty forms: no primary key, and one that counts the rows.
IdNeverTaken(rows, id) == FALSE
TableNotEmpty(rows, id) == rows # {}

IdTaken(rows, id) == \E row \in rows : row.id = id

\* A faulty PutTombstone: INSERT OR IGNORE keeps the first delete.
PutFirstTombstone(stones, scope, op) ==
    IF \E t \in stones : t.scope = scope /\ t.entity = op.entity
    THEN stones
    ELSE stones \cup {[scope |-> scope, entity |-> op.entity, op |-> op.id]}

\* INSERT OR REPLACE: one row per scope and entity.
PutTombstone(stones, scope, op) ==
    {t \in stones : t.scope # scope \/ t.entity # op.entity}
        \cup {[scope |-> scope, entity |-> op.entity, op |-> op.id]}

\* A faulty NextSeq: without AUTOINCREMENT SQLite takes the largest id in use.
NextFreeSeq(w) ==
    LET seqs == {row.seq : row \in w.ops}
    IN IF seqs = {} THEN 1
       ELSE 1 + CHOOSE s \in seqs : \A t \in seqs : t <= s

\* server_revisions.id is AUTOINCREMENT: never an id that was used before.
NextSeq(w) == w.lastRev + 1

\* One iteration of the loop over req.Ops.
ApplyOp(w, scope, dev, op, seen) ==
    LET seq == NextSeq(w)
        hits == NewConflicts(w.ops, scope, dev, op, seen)
        passed == [w EXCEPT !.next = @ + 1, !.conflicts = @ \cup hits]
    IN IF IdTaken(w.ops, op.id) THEN passed
       ELSE [passed EXCEPT
               !.ops = @ \cup {[id |-> op.id, seq |-> seq, scope |-> scope,
                                device |-> dev, entity |-> op.entity,
                                type |-> op.type, seen |-> seen]},
               !.lastRev = seq,
               !.tombs = IF op.type = "delete"
                         THEN PutTombstone(@, scope, op) ELSE @,
               !.accepted = @ \cup {op.id}]

PushOp(r) ==
    /\ pc[r] = "ops"
    /\ work.next <= Len(call[r].batch)
    /\ work' = ApplyOp(work, Scope(call[r].dev), call[r].dev,
                       call[r].batch[work.next], call[r].seen)
    /\ UNCHANGED <<accounts, db, conn, pc, call, top, reply, clients>>

\* The answer is stored under the key and the transaction committed.
PushCommit(r) ==
    /\ pc[r] = "ops"
    /\ work.next > Len(call[r].batch)
    /\ LET resp == [accepted |-> work.accepted, conflicts |-> work.conflicts]
       IN /\ idem' = IF call[r].key = NoKey THEN idem
                     ELSE idem \cup {[scope |-> Scope(call[r].dev),
                                      key |-> call[r].key, resp |-> resp]}
          /\ Answer(r, [kind |-> "push", resp |-> resp, cached |-> FALSE])
    /\ ops' = work.ops /\ lastRev' = work.lastRev /\ tombs' = work.tombs
    /\ ReleaseConn
    /\ UNCHANGED <<accounts, call, top, clients>>

-----------------------------------------------------------------------------
(* handleSyncPull: two statements, not one transaction.                    *)

\* A faulty InScope: the vault is not in the WHERE clause.
InUser(rows, scope) == {row \in rows : row.scope[1] = scope[1]}

InScope(rows, scope) == {row \in rows : row.scope = scope}

\* A faulty FirstBySeq: newest rows first.
LastBySeq(rows, n) ==
    {row \in rows : Cardinality({o \in rows : o.seq > row.seq}) < n}

\* ORDER BY server_sequence LIMIT n
FirstBySeq(rows, n) ==
    {row \in rows : Cardinality({o \in rows : o.seq < row.seq}) < n}

PullPageLimit(requested) ==
    IF requested = 0 \/ requested > MaxPullPage THEN MaxPullPage
                                                ELSE requested

\* The last row's sequence, or the given one where there are no rows.
IsLastSeq(rows, default, last) ==
    \/ rows = {} /\ last = default
    \/ /\ \E row \in rows : last = row.seq
       /\ \A row \in rows : row.seq <= last

PullTop(r) ==
    /\ pc[r] = "top" /\ ConnFree
    /\ LET rows == InScope(ops, Scope(call[r].dev))
       IN \E max \in {0} \cup {row.seq : row \in rows} :
             /\ IsLastSeq(rows, 0, max)
             /\ top' = [top EXCEPT ![r] = max]
    /\ pc' = [pc EXCEPT ![r] = "page"]
    /\ UNCHANGED <<accounts, db, tx, call, reply, clients>>

\* A faulty RowsAfter: the caller's own position is served again.
RowsFrom(rows, scope, since) ==
    {row \in InScope(rows, scope) : row.seq >= since}

RowsAfter(rows, scope, since) ==
    {row \in InScope(rows, scope) : row.seq > since}

\* A faulty HasMore: off by one.
HasMoreOffByOne(rows, limit) == Cardinality(rows) > limit + 1

\* One row more than the page holds was asked for.
HasMore(rows, limit) == Cardinality(rows) > limit

PullPage(r) ==
    /\ pc[r] = "page" /\ ConnFree
    /\ LET since == call[r].since
           limit == PullPageLimit(call[r].limit)
           rows == FirstBySeq(RowsAfter(ops, Scope(call[r].dev), since),
                              limit + 1)
           page == FirstBySeq(rows, limit)
       IN \E last \in {since} \cup {row.seq : row \in page} :
             /\ IsLastSeq(page, since, last)
             /\ Answer(r, [kind |-> "pull", page |-> page, last |-> last,
                           more |-> HasMore(rows, limit),
                           top |-> top[r]])
    /\ UNCHANGED <<accounts, db, tx, call, top, clients>>

-----------------------------------------------------------------------------
(* The answer reaches the client, or does not.                             *)

\* A faulty Forget: the state of the last request is left behind.
ForgetReplyOnly(r) ==
    /\ pc' = [pc EXCEPT ![r] = "idle"]
    /\ reply' = [reply EXCEPT ![r] = NoReply]
    /\ UNCHANGED <<call, top>>

Forget(r) ==
    /\ pc' = [pc EXCEPT ![r] = "idle"]
    /\ call' = [call EXCEPT ![r] = NoCall]
    /\ reply' = [reply EXCEPT ![r] = NoReply]
    /\ top' = [top EXCEPT ![r] = 0]

\* A client applies a page in order, all of it or up to the first operation
\* it cannot apply, and keeps the sequence of the last one it applied.
ReceivePage(r) ==
    /\ pc[r] = "reply" /\ reply[r].kind = "pull"
    /\ LET d == call[r].dev
           page == reply[r].page
       IN \E stop \in {reply[r].last} \cup {row.seq : row \in page} :
             /\ cursor' = [cursor EXCEPT ![d] = stop]
             /\ got' = [got EXCEPT ![d] =
                           @ \cup {row \in page : row.seq <= stop}]
    /\ Forget(r)
    /\ UNCHANGED <<accounts, db, tx>>

\* Any other answer is read, or this answer is lost.
Finish(r) ==
    /\ pc[r] = "reply"
    /\ Forget(r)
    /\ UNCHANGED <<accounts, db, tx, clients>>

-----------------------------------------------------------------------------
(* What can go wrong at the server.                                        *)

\* A faulty Fail: the statements were committed one by one.
FailHalfway(r) ==
    /\ "fail" \in Events
    /\ pc[r] \in AtServer \ {"replay"}
    /\ Answer(r, Failed)
    /\ IF pc[r] = "ops"
       THEN ops' = work.ops /\ lastRev' = work.lastRev /\ tombs' = work.tombs
       ELSE UNCHANGED <<ops, lastRev, tombs>>
    /\ IF pc[r] \in InTx THEN ReleaseConn ELSE UNCHANGED tx
    /\ UNCHANGED <<accounts, idem, call, top, clients>>

\* A statement, Begin or Commit returns an error once it has the connection:
\* the handler answers 500 and its deferred Rollback drops what the
\* transaction did.
Fail(r) ==
    /\ "fail" \in Events
    /\ pc[r] \in AtServer \ {"replay"}
    /\ pc[r] \in InTx \/ ConnFree
    /\ Answer(r, Failed)
    /\ IF pc[r] \in InTx THEN ReleaseConn ELSE UNCHANGED tx
    /\ UNCHANGED <<accounts, db, call, top, clients>>

\* The process dies and is started again: what was committed is there, every
\* request in flight and the open transaction are gone.  What CleanupRetention
\* removes at the start, before anybody is served, is a step of ExpireKeys.
Crash ==
    /\ "crash" \in Events
    /\ ReleaseConn
    /\ pc' = [r \in Reqs |-> "idle"]
    /\ call' = [r \in Reqs |-> NoCall]
    /\ reply' = [r \in Reqs |-> NoReply]
    /\ top' = [r \in Reqs |-> 0]
    /\ UNCHANGED <<accounts, db, clients>>

-----------------------------------------------------------------------------
(* Administration, each one statement or one transaction.                  *)

\* revokeDevice: by the administrator, the owner, or the device itself.
RevokeDevice(d) ==
    /\ "revoke" \in Events /\ ConnFree
    /\ devRow[d] # "absent"
    /\ devRow' = [devRow EXCEPT ![d] = "revoked"]
    /\ UNCHANGED <<userRow, db, tx, pc, call, top, reply, clients>>

\* DELETE /admin/api/keys/<id>: whether or not the device was revoked.
DropDevice(d) ==
    /\ "drop" \in Events /\ ConnFree
    /\ devRow[d] # "absent"
    /\ devRow' = [devRow EXCEPT ![d] = "absent"]
    /\ UNCHANGED <<userRow, db, tx, pc, call, top, reply, clients>>

ToggleBlock(u) ==
    /\ "block" \in Events /\ ConnFree
    /\ userRow[u] # "absent"
    /\ userRow' = [userRow EXCEPT ![u] =
                      IF @ = "active" THEN "blocked" ELSE "active"]
    /\ UNCHANGED <<devRow, db, tx, pc, call, top, reply, clients>>

OwnedBy(rows, u) == {row \in rows : row.scope[1] = u}

\* DELETE /admin/api/users/<id>: one transaction over every table.
DeleteUser(u) ==
    /\ "delete" \in Events /\ ConnFree
    /\ userRow[u] # "absent"
    /\ userRow' = [userRow EXCEPT ![u] = "absent"]
    /\ devRow' = [d \in Devices |->
                     IF OwnerOf[d] = u THEN "absent" ELSE devRow[d]]
    /\ ops' = ops \ OwnedBy(ops, u)
    /\ tombs' = tombs \ OwnedBy(tombs, u)
    /\ idem' = idem \ OwnedBy(idem, u)
    /\ UNCHANGED <<lastRev, tx, pc, call, top, reply, clients>>

\* CleanupRetention, at a start or for the administrator, drops the
\* idempotency rows that have grown too old: any of them, for time is not
\* modelled here.
ExpireKeys ==
    /\ "expire" \in Events /\ ConnFree
    /\ \E old \in SUBSET idem : idem' = idem \ old
    /\ UNCHANGED <<accounts, ops, lastRev, tombs, tx, pc, call, top, reply,
                   clients>>

-----------------------------------------------------------------------------
Handler(r) ==
    \/ AuthDevice(r) \/ AuthUser(r)
    \/ PushBegin(r) \/ PushLookup(r) \/ PushReplay(r)
    \/ PushOp(r) \/ PushCommit(r)
    \/ PullTop(r) \/ PullPage(r)

Client(r) ==
    \/ \E d \in Devices : \E batch \in BatchesOf[d], key \in Keys :
          \E seen \in {0, cursor[d]} : SendPush(r, d, batch, key, seen)
    \/ \E d \in Devices, limit \in PageLimits : SendPull(r, d, limit)
    \/ ReceivePage(r)
    \/ Finish(r)

Administration ==
    \/ \E d \in Devices : RevokeDevice(d) \/ DropDevice(d)
    \/ \E u \in Users : ToggleBlock(u) \/ DeleteUser(u)
    \/ ExpireKeys

Next ==
    \/ \E r \in Reqs : Handler(r) \/ Client(r) \/ Fail(r)
    \/ Crash
    \/ Administration

Spec == Init /\ [][Next]_vars

\* Fairness.  The scheduler runs every goroutine that can run.  A goroutine
\* waiting for the connection is served in its turn: database/sql keeps the
\* waiters in a queue, so one that can have the connection again and again
\* gets it.  Nothing is assumed of clients, administrators or failures.
Waiting(r) ==
    AuthDevice(r) \/ AuthUser(r) \/ PushBegin(r) \/ PullTop(r) \/ PullPage(r)
Holding(r) == PushLookup(r) \/ PushReplay(r) \/ PushOp(r) \/ PushCommit(r)

HandlerFairness == \A r \in Reqs : SF_vars(Waiting(r)) /\ WF_vars(Holding(r))

\* Every client keeps pulling, and none is out of luck for ever: a step of its
\* pulls that comes up again and again does not fail, crash or lose its answer
\* each time.  Every answer is over some day, at the latest by WriteTimeout.
OfPull(d, r, step) == call[r].kind = "pull" /\ call[r].dev = d /\ step

ClientFairness ==
    /\ \A d \in Devices :
          SF_vars(\E r \in Reqs, limit \in PageLimits : SendPull(r, d, limit))
    /\ \A d \in Devices, r \in Reqs :
          /\ SF_vars(OfPull(d, r, AuthDevice(r)))
          /\ SF_vars(OfPull(d, r, AuthUser(r)))
          /\ SF_vars(OfPull(d, r, PullTop(r)))
          /\ SF_vars(OfPull(d, r, PullPage(r)))
          /\ SF_vars(OfPull(d, r, ReceivePage(r)))
    /\ \A r \in Reqs : WF_vars(Finish(r))

HandlerSpec == Spec /\ HandlerFairness
FairSpec == Spec /\ HandlerFairness /\ ClientFairness

-----------------------------------------------------------------------------
(* Properties.                                                             *)

\* Every variable holds values of its type, and an idle request slot keeps
\* nothing of the request it served before.
TypeOK ==
    /\ userRow \in [Users -> {"active", "blocked", "absent"}]
    /\ devRow \in [Devices -> {"active", "revoked", "absent"}]
    /\ ops \subseteq OpRow
    /\ lastRev \in Nat
    /\ tombs \subseteq Tombstone
    /\ idem \subseteq IdemRow
    /\ conn \in Reqs \cup {NoReq}
    /\ work \in Work
    /\ pc \in [Reqs -> PCs]
    /\ call \in [Reqs -> PushCall \cup PullCall \cup {NoCall}]
    /\ top \in [Reqs -> Nat]
    /\ reply \in [Reqs -> PushReply \cup PullReply
                              \cup {Denied, Failed, NoReply}]
    /\ cursor \in [Devices -> Nat]
    /\ got \in [Devices -> SUBSET OpRow]
    /\ \A r \in Reqs : pc[r] = "idle" <=> call[r] = NoCall

\* Exactly the request inside a transaction holds the one connection: every
\* way out of handleSyncPush, the early returns included, gives it back.
ConnHeld == \A r \in Reqs : pc[r] \in InTx <=> conn = r

\* A client has applied every operation of its scope up to its cursor, over
\* pages, partly applied pages, lost answers, concurrent pushes and crashes:
\* nothing is ever committed, or left out of a page, behind a cursor.
NoGaps ==
    \A d \in Devices : \A row \in ops :
        row.scope = Scope(d) /\ row.seq <= cursor[d] => row \in got[d]

\* has_more = false is a promise: the page holds all there was between the
\* caller's position and the server_sequence reported with it, although the
\* two are read by two statements.
PullIsComplete ==
    \A r \in Reqs :
        reply[r].kind = "pull" /\ ~reply[r].more =>
            \A row \in ops :
                /\ row.scope = Scope(call[r].dev)
                /\ row.seq > call[r].since
                /\ row.seq <= reply[r].top
                => row \in reply[r].page

\* What all clients and the log have ever seen under a sequence number is one
\* operation, also after the user whose operation it was is deleted.
Seen == ops \cup UNION {got[d] : d \in Devices}
OneOpPerSequence ==
    \A x, y \in Seen : x.seq = y.seq => x = y

\* No tenant sees another's data: the rows a pull returns and a client holds
\* are of its own user and vault, and so is every reported conflict.
ScopeIsolation ==
    /\ \A d \in Devices : \A row \in got[d] :
          row.scope = Scope(d) /\ Scope(row.device) = Scope(d)
    /\ \A r \in Reqs :
          /\ reply[r].kind = "pull" =>
                \A row \in reply[r].page : row.scope = Scope(call[r].dev)
          /\ reply[r].kind = "push" =>
                \A row \in reply[r].resp.conflicts :
                    row.scope = Scope(call[r].dev)

\* An operation a client is told was accepted, now or by the answer stored
\* under its key, is in the log of the client's own scope, through failures
\* and crashes, as long as the user exists.
AcceptedIsStored ==
    \A r \in Reqs :
        /\ reply[r].kind = "push"
        /\ userRow[OwnerOf[call[r].dev]] # "absent"
        => \A id \in reply[r].resp.accepted :
              \E row \in ops : row.id = id /\ row.scope = Scope(call[r].dev)

\* A successful push leaves none of its operations out: each is in the log,
\* accepted now or by an earlier push.  The earlier one may be another user's,
\* with whom its operations go.
NothingDropped ==
    \A r \in Reqs :
        /\ reply[r].kind = "push" /\ ~reply[r].cached
        /\ \A u \in Users : userRow[u] # "absent"
        => \A i \in 1..Len(call[r].batch) :
              \E row \in ops : row.id = call[r].batch[i].id

\* Every concurrent change is reported: an operation accepted with a known
\* server position names all operations of other devices on the same entity
\* between that position and its own, other than deletes.
ConflictsReported ==
    \A r \in Reqs :
        /\ reply[r].kind = "push" /\ ~reply[r].cached
        /\ userRow[OwnerOf[call[r].dev]] # "absent"
        => \A mine, other \in ops :
              /\ mine.id \in reply[r].resp.accepted
              /\ mine.seen > 0
              /\ other.scope = mine.scope /\ other.entity = mine.entity
              /\ other.device # mine.device /\ other.type # "delete"
              /\ other.seq > mine.seen /\ other.seq < mine.seq
              => other \in reply[r].resp.conflicts

\* The tombstone of an entity names the last delete of it in its scope: a
\* delete of that entity that no other delete comes after.
TombstoneNamesLastDelete ==
    \A row \in ops :
        row.type = "delete" =>
            \E t \in tombs : \E last \in ops :
                /\ t.scope = row.scope /\ t.entity = row.entity
                /\ last.id = t.op /\ last.type = "delete"
                /\ last.scope = row.scope /\ last.entity = row.entity
                /\ last.seq >= row.seq

\* An operation is accepted by one push and by no other, however often it is
\* sent, under the same key, another, or none.
AcceptedOnce ==
    \A x, y \in idem :
        x.resp.accepted \cap y.resp.accepted # {} => x = y

\* The log only grows, and only at its end: no step rewrites or removes a row
\* but the deletion of its user, and a new row comes after all sequences
\* ever given out.
AppendOnly ==
    [][/\ \A row \in ops \ ops' : userRow[row.scope[1]] # userRow'[row.scope[1]]
       /\ \A row \in ops' \ ops : row.seq > lastRev]_vars

\* A push enters the log whole or not at all: what a step adds is all of one
\* request's batch that was not there before.
BatchAtomic ==
    [][ops' \ ops # {} =>
          \E r \in Reqs :
              /\ call[r].kind = "push"
              /\ {row.id : row \in ops' \ ops} =
                    {call[r].batch[i].id : i \in 1..Len(call[r].batch)}
                        \ {row.id : row \in ops}]_vars

\* A request sent after the device was revoked or deleted is never served.
RevokedNeverServed ==
    \A r \in Reqs :
        call[r] # NoCall /\ ~call[r].live =>
            /\ pc[r] \in {"device", "reply"}
            /\ reply[r].kind \in {"none", "denied", "error"}

\* Every request is answered, or dies with the process: no handler waits
\* forever for the connection.
Answered == \A r \in Reqs : pc[r] \in AtServer ~> pc[r] \in {"reply", "idle"}

\* A device that keeps pulling gets every operation of its scope, unless it
\* or its user loses access.
Converges ==
    \A d \in Devices : \A id \in OpIds :
        (\E row \in ops : row.id = id /\ row.scope = Scope(d)) ~>
            \/ \E row \in got[d] : row.id = id
            \/ devRow[d] # "active" \/ userRow[OwnerOf[d]] # "active"

\* To its devices the server is one log for each vault: no interleaving of
\* handlers, no lost answer, no failure and no crash shows them anything else.
Logs == INSTANCE VaultLog WITH
    Followers <- Devices,
    ScopeOf <- [d \in Devices |-> Scope(d)],
    log <- [s \in Scopes |-> InScope(ops, s)],
    last <- lastRev,
    live <- {s \in Scopes : userRow[s[1]] # "absent"},
    pos <- cursor,
    seen <- got

ImplementsVaultLog == Logs!Spec
=============================================================================
