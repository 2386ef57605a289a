---------------------------- MODULE OpLogProofs ----------------------------
(***************************************************************************)
(* What is proved of OpLog, for all users, devices, operations, limits and *)
(* events, and any number of requests.                                     *)
(***************************************************************************)
EXTENDS OpLog, FiniteSetTheorems, TLAPS

Call == PushCall \cup PullCall
Reply == PushReply \cup PullReply \cup {Denied, Failed, NoReply}

\* What a handler has at each point of its program.
CallOK ==
    \A r \in Reqs :
        /\ pc[r] \in {"begin"} \cup InTx => call[r] \in PushCall
        /\ pc[r] \in {"top", "page"} => call[r] \in PullCall
        /\ pc[r] \in AtServer \ {"replay"} => reply[r] = NoReply
        /\ pc[r] = "idle" => reply[r] = NoReply
        /\ reply[r].kind = "push" => call[r] \in PushCall
        /\ reply[r].kind = "pull" => call[r] \in PullCall

TypeInv == TypeOK /\ CallOK

\* Deciding what kind of record a call or a reply is.
LEMMA CallKinds ==
    /\ \A c \in PushCall : c.kind = "push" /\ c.dev \in Devices
    /\ \A c \in PullCall : c.kind = "pull" /\ c.dev \in Devices
    /\ NoCall \notin Call
    /\ \A c \in Call : c.kind = "push" => c \in PushCall
    /\ \A c \in Call : c.kind # "push" => c \in PullCall
  BY DEF Call, PushCall, PullCall, NoCall

LEMMA ReplyKinds ==
    /\ \A x \in PushReply : x.kind = "push"
    /\ \A x \in PullReply : x.kind = "pull"
    /\ Denied.kind = "denied" /\ Failed.kind = "error" /\ NoReply.kind = "none"
    /\ \A x \in Reply : x.kind = "push" => x \in PushReply
    /\ \A x \in Reply : x.kind = "pull" => x \in PullReply
  BY DEF Reply, PushReply, PullReply, Denied, Failed, NoReply

LEMMA NoWorkType == NoWork \in Work
  BY DEF NoWork, Work

LEMMA ScopeType == \A d \in Devices : Scope(d) \in Scopes
  BY DEF Scopes

LEMMA InitTypeInv == Init => TypeInv
  <1> SUFFICES ASSUME Init PROVE TypeInv
    OBVIOUS
  <1> USE DEF Init
  <1>1. TypeOK
    BY NoWorkType, ReqAssumption DEF TypeOK, PCs, AtServer, InTx
  <1>2. CallOK
    BY ReplyKinds DEF CallOK, AtServer, InTx
  <1> QED BY <1>1, <1>2 DEF TypeInv

\* One iteration of the push loop keeps the transaction's view well typed.
LEMMA ApplyOpType ==
    ASSUME NEW w \in Work, NEW d \in Devices, NEW op \in Operation,
           NEW seen \in Nat
    PROVE  ApplyOp(w, Scope(d), d, op, seen) \in Work
  <1>1. NewConflicts(w.ops, Scope(d), d, op, seen) \subseteq OpRow
    BY DEF NewConflicts, Conflicts, Work, OpRow
  <1>2. NextSeq(w) \in Nat
    BY DEF NextSeq, Work
  <1>3. [id |-> op.id, seq |-> NextSeq(w), scope |-> Scope(d), device |-> d,
         entity |-> op.entity, type |-> op.type, seen |-> seen] \in OpRow
    BY <1>2, ScopeType DEF OpRow, Operation
  <1>4. PutTombstone(w.tombs, Scope(d), op) \subseteq Tombstone
    BY ScopeType DEF PutTombstone, Tombstone, Operation, Work
  <1> DEFINE row == [id |-> op.id, seq |-> NextSeq(w), scope |-> Scope(d),
                     device |-> d, entity |-> op.entity, type |-> op.type,
                     seen |-> seen]
             stones == IF op.type = "delete"
                       THEN PutTombstone(w.tombs, Scope(d), op) ELSE w.tombs
             hits == w.conflicts \cup NewConflicts(w.ops, Scope(d), d, op, seen)
  <1>5. CASE IdTaken(w.ops, op.id)
    <2>1. ApplyOp(w, Scope(d), d, op, seen) =
            [ops |-> w.ops, lastRev |-> w.lastRev, tombs |-> w.tombs,
             next |-> w.next + 1, accepted |-> w.accepted, conflicts |-> hits]
      BY <1>5 DEF ApplyOp, Work
    <2>2. hits \subseteq OpRow /\ w.next + 1 \in Nat \ {0}
      BY <1>1 DEF Work
    <2> HIDE DEF hits
    <2> QED BY <2>1, <2>2 DEF Work
  <1>6. CASE ~IdTaken(w.ops, op.id)
    <2>1. ApplyOp(w, Scope(d), d, op, seen) =
            [ops |-> w.ops \cup {row}, lastRev |-> NextSeq(w), tombs |-> stones,
             next |-> w.next + 1, accepted |-> w.accepted \cup {op.id},
             conflicts |-> hits]
      BY <1>6 DEF ApplyOp, Work
    <2>2. /\ w.ops \cup {row} \subseteq OpRow /\ stones \subseteq Tombstone
          /\ w.accepted \cup {op.id} \subseteq OpIds
          /\ hits \subseteq OpRow /\ w.next + 1 \in Nat \ {0}
      BY <1>1, <1>3, <1>4 DEF Work, Operation
    <2> HIDE DEF row, stones, hits
    <2> QED BY <2>1, <2>2, <1>2 DEF Work
  <1> QED BY <1>5, <1>6

\* Clients and handlers: every action keeps TypeInv.
LEMMA SendTypeInv ==
    ASSUME TypeInv, NEW r \in Reqs, NEW c \in Call, Send(r, c)
    PROVE  TypeInv'
  <1> USE DEF TypeInv, Send, accounts, db, tx, clients
  <1>1. TypeOK'
    BY CallKinds DEF TypeOK, PCs, AtServer, InTx, Call
  <1>2. CallOK'
    BY ReplyKinds DEF CallOK, TypeOK, AtServer, InTx
  <1> QED BY <1>1, <1>2

LEMMA AuthTypeInv ==
    ASSUME TypeInv, NEW r \in Reqs, AuthDevice(r) \/ AuthUser(r)
    PROVE  TypeInv'
  <1> USE DEF TypeInv, accounts, db, tx, clients
  <1>1. call[r] \in Call
    BY DEF TypeOK, AuthDevice, AuthUser, Call
  <1>2. CASE AuthDevice(r)
    <2>1. TypeOK'
      BY <1>2 DEF AuthDevice, Answer, TypeOK, PCs, AtServer, InTx
    <2>2. CallOK'
      BY <1>2, ReplyKinds DEF AuthDevice, Answer, CallOK, TypeOK, AtServer, InTx
    <2> QED BY <2>1, <2>2
  <1>3. CASE AuthUser(r)
    <2>1. TypeOK'
      BY <1>3 DEF AuthUser, Answer, TypeOK, PCs, AtServer, InTx
    <2>2. CallOK'
      BY <1>1, <1>3, ReplyKinds, CallKinds
      DEF AuthUser, Answer, CallOK, TypeOK, AtServer, InTx
    <2> QED BY <2>1, <2>2
  <1> QED BY <1>2, <1>3

LEMMA PushBeginTypeInv ==
    ASSUME TypeInv, NEW r \in Reqs, PushBegin(r)
    PROVE  TypeInv'
  <1> USE DEF TypeInv, PushBegin, accounts, db, tx, clients
  <1>1. Snapshot \in Work
    BY DEF TypeOK, Snapshot, Work
  <1>2. TypeOK'
    BY <1>1 DEF Answer, TypeOK, PCs, AtServer, InTx
  <1>3. CallOK'
    BY ReplyKinds DEF Answer, CallOK, TypeOK, AtServer, InTx
  <1> QED BY <1>2, <1>3

LEMMA PushLookupTypeInv ==
    ASSUME TypeInv, NEW r \in Reqs, PushLookup(r)
    PROVE  TypeInv'
  <1> USE DEF TypeInv, PushLookup, accounts, db, tx, clients
  <1>1. call[r] \in PushCall /\ reply[r] = NoReply
    BY DEF CallOK, AtServer, InTx
  <1>2. CASE pc' = [pc EXCEPT ![r] = "ops"] /\ UNCHANGED reply
    <2>1. TypeOK'
      BY <1>2 DEF TypeOK, PCs, AtServer, InTx
    <2>2. CallOK'
      BY <1>2, <1>1 DEF CallOK, TypeOK, AtServer, InTx
    <2> QED BY <2>1, <2>2
  <1>3. CASE \E resp \in CachedAnswers(Scope(call[r].dev), call[r].key) :
                /\ pc' = [pc EXCEPT ![r] = "replay"]
                /\ reply' = [reply EXCEPT ![r] =
                      [kind |-> "push", resp |-> resp, cached |-> TRUE]]
    <2>1. PICK resp \in CachedAnswers(Scope(call[r].dev), call[r].key) :
                /\ pc' = [pc EXCEPT ![r] = "replay"]
                /\ reply' = [reply EXCEPT ![r] =
                      [kind |-> "push", resp |-> resp, cached |-> TRUE]]
      BY <1>3
    <2>2. resp \in Response
      BY DEF CachedAnswers, TypeOK, IdemRow
    <2>3. [kind |-> "push", resp |-> resp, cached |-> TRUE] \in PushReply
      BY <2>2 DEF PushReply
    <2>4. TypeOK'
      BY <2>1, <2>3 DEF TypeOK, PCs, AtServer, InTx
    <2>5. CallOK'
      BY <2>1, <1>1, ReplyKinds DEF CallOK, TypeOK, AtServer, InTx
    <2> QED BY <2>4, <2>5
  <1> QED BY <1>2, <1>3

LEMMA PushReplayTypeInv ==
    ASSUME TypeInv, NEW r \in Reqs, PushReplay(r)
    PROVE  TypeInv'
  <1> USE DEF TypeInv, PushReplay, ReleaseConn, accounts, db, clients
  <1>1. TypeOK'
    BY NoWorkType DEF TypeOK, PCs, AtServer, InTx
  <1>2. CallOK'
    BY DEF CallOK, TypeOK, AtServer, InTx
  <1> QED BY <1>1, <1>2

LEMMA PushOpTypeInv ==
    ASSUME TypeInv, NEW r \in Reqs, PushOp(r)
    PROVE  TypeInv'
  <1> USE DEF TypeInv, PushOp, accounts, db, clients
  <1>1. call[r] \in PushCall
    BY DEF CallOK, InTx
  <1>2. call[r].batch[work.next] \in Operation
    BY <1>1 DEF TypeOK, PushCall, Work
  <1>3. work' \in Work
    BY <1>1, <1>2, ApplyOpType DEF TypeOK, PushCall
  <1>4. TypeOK'
    BY <1>3 DEF TypeOK
  <1>5. CallOK'
    BY DEF CallOK, TypeOK
  <1> QED BY <1>4, <1>5

LEMMA PushCommitTypeInv ==
    ASSUME TypeInv, NEW r \in Reqs, PushCommit(r)
    PROVE  TypeInv'
  <1> USE DEF TypeInv, PushCommit, accounts, clients
  <1> DEFINE resp == [accepted |-> work.accepted, conflicts |-> work.conflicts]
             ans == [kind |-> "push", resp |-> resp, cached |-> FALSE]
  <1>1. call[r] \in PushCall
    BY DEF CallOK, InTx
  <1>2. resp \in Response
    BY DEF TypeOK, Work, Response
  <1>3. ans \in PushReply
    BY <1>2 DEF PushReply
  <1>4. idem' \subseteq IdemRow
    BY <1>1, <1>2, ScopeType DEF TypeOK, IdemRow, PushCall
  <1>5. ops' \subseteq OpRow /\ lastRev' \in Nat /\ tombs' \subseteq Tombstone
    BY DEF TypeOK, Work
  <1>6. TypeOK'
    BY <1>3, <1>4, <1>5, NoWorkType
    DEF Answer, ReleaseConn, TypeOK, PCs, AtServer, InTx
  <1>7. CallOK'
    BY <1>1, <1>3, ReplyKinds DEF Answer, CallOK, TypeOK, AtServer, InTx
  <1> QED BY <1>6, <1>7

LEMMA PullTopTypeInv ==
    ASSUME TypeInv, NEW r \in Reqs, PullTop(r)
    PROVE  TypeInv'
  <1> USE DEF TypeInv, PullTop, accounts, db, tx, clients
  <1>1. PICK max \in {0} \cup {row.seq : row \in InScope(ops, Scope(call[r].dev))} :
            top' = [top EXCEPT ![r] = max]
    OBVIOUS
  <1>4. max \in Nat
    BY DEF TypeOK, OpRow, InScope
  <1>2. TypeOK'
    BY <1>1, <1>4 DEF TypeOK, PCs, AtServer, InTx
  <1>3. CallOK'
    BY DEF CallOK, TypeOK, AtServer, InTx
  <1> QED BY <1>2, <1>3

LEMMA PullPageTypeInv ==
    ASSUME TypeInv, NEW r \in Reqs, PullPage(r)
    PROVE  TypeInv'
  <1> USE DEF TypeInv, PullPage, accounts, db, tx, clients
  <1>1. call[r] \in PullCall /\ top[r] \in Nat
    BY DEF CallOK, TypeOK
  <1> DEFINE since == call[r].since
             limit == PullPageLimit(call[r].limit)
             rows == FirstBySeq(RowsAfter(ops, Scope(call[r].dev), since), limit + 1)
             page == FirstBySeq(rows, limit)
  <1>2. page \subseteq OpRow
    BY DEF FirstBySeq, RowsAfter, InScope, TypeOK
  <1>3. PICK last \in {since} \cup {row.seq : row \in page} :
            Answer(r, [kind |-> "pull", page |-> page, last |-> last,
                       more |-> HasMore(rows, limit), top |-> top[r]])
    OBVIOUS
  <1>4. last \in Nat
    BY <1>1, <1>2 DEF PullCall, OpRow
  <1>5. HasMore(rows, limit) \in BOOLEAN
    BY DEF HasMore
  <1> DEFINE ans == [kind |-> "pull", page |-> page, last |-> last,
                     more |-> HasMore(rows, limit), top |-> top[r]]
  <1> HIDE DEF page, rows, limit, since
  <1>6. ans \in PullReply
    BY <1>1, <1>2, <1>4, <1>5 DEF PullReply
  <1>7. ans.kind = "pull"
    OBVIOUS
  <1>8. pc[r] = "page" /\ Answer(r, ans)
    BY <1>3
  <1> HIDE DEF ans
  <1>9. TypeOK'
    BY <1>6, <1>8 DEF Answer, TypeOK, PCs, AtServer, InTx
  <1>10. CallOK'
    BY <1>1, <1>7, <1>8 DEF Answer, CallOK, TypeOK, AtServer, InTx
  <1> QED BY <1>9, <1>10

LEMMA ForgetTypeInv ==
    ASSUME TypeInv, NEW r \in Reqs, Forget(r), UNCHANGED <<accounts, db, tx>>,
           cursor' \in [Devices -> Nat], got' \in [Devices -> SUBSET OpRow]
    PROVE  TypeInv'
  <1> USE DEF TypeInv, Forget, accounts, db, tx
  <1>1. TypeOK'
    BY DEF TypeOK, PCs, AtServer, InTx
  <1>2. CallOK'
    BY ReplyKinds DEF CallOK, TypeOK, AtServer, InTx
  <1> QED BY <1>1, <1>2

LEMMA ReceivePageTypeInv ==
    ASSUME TypeInv, NEW r \in Reqs, ReceivePage(r)
    PROVE  TypeInv'
  <1>1. reply[r] \in PullReply /\ call[r] \in PullCall
    BY ReplyKinds DEF ReceivePage, TypeInv, TypeOK, CallOK, Reply
  <1>2. PICK stop \in {reply[r].last} \cup {row.seq : row \in reply[r].page} :
            /\ cursor' = [cursor EXCEPT ![call[r].dev] = stop]
            /\ got' = [got EXCEPT ![call[r].dev] =
                          @ \cup {row \in reply[r].page : row.seq <= stop}]
    BY DEF ReceivePage
  <1>3. stop \in Nat /\ reply[r].page \subseteq OpRow
    BY <1>1 DEF PullReply, OpRow
  <1>4. cursor' \in [Devices -> Nat] /\ got' \in [Devices -> SUBSET OpRow]
    BY <1>1, <1>2, <1>3 DEF TypeInv, TypeOK
  <1> QED BY <1>4, ForgetTypeInv DEF ReceivePage

LEMMA FailTypeInv ==
    ASSUME TypeInv, NEW r \in Reqs, Fail(r)
    PROVE  TypeInv'
  <1> USE DEF TypeInv, Fail, ReleaseConn, accounts, db, tx, clients
  <1>1. TypeOK'
    BY NoWorkType DEF Answer, TypeOK, PCs, AtServer, InTx
  <1>2. CallOK'
    BY ReplyKinds DEF Answer, CallOK, TypeOK, AtServer, InTx
  <1> QED BY <1>1, <1>2

LEMMA CrashTypeInv ==
    ASSUME TypeInv, Crash
    PROVE  TypeInv'
  <1> USE DEF TypeInv, Crash, ReleaseConn, accounts, db, clients
  <1>1. TypeOK'
    BY NoWorkType DEF TypeOK, PCs, AtServer, InTx
  <1>2. CallOK'
    BY ReplyKinds DEF CallOK, TypeOK, AtServer, InTx
  <1> QED BY <1>1, <1>2

LEMMA AdministrationTypeInv ==
    ASSUME TypeInv, Administration
    PROVE  TypeInv'
  <1> USE DEF TypeInv, accounts, db, tx, clients
  <1>1. /\ UNCHANGED <<pc, call, top, reply, clients, lastRev, tx>>
        /\ ops' \subseteq ops /\ tombs' \subseteq tombs /\ idem' \subseteq idem
    BY DEF Administration, RevokeDevice, DropDevice, ToggleBlock, DeleteUser,
           ExpireKeys
  <1>2. userRow' \in [Users -> {"active", "blocked", "absent"}]
    BY DEF Administration, RevokeDevice, DropDevice, ToggleBlock, DeleteUser,
           ExpireKeys, TypeOK
  <1>3. devRow' \in [Devices -> {"active", "revoked", "absent"}]
    BY DEF Administration, RevokeDevice, DropDevice, ToggleBlock, DeleteUser,
           ExpireKeys, TypeOK
  <1>4. TypeOK'
    BY <1>1, <1>2, <1>3 DEF TypeOK
  <1>5. CallOK'
    BY <1>1 DEF CallOK
  <1> QED BY <1>4, <1>5

LEMMA NextTypeInv == TypeInv /\ [Next]_vars => TypeInv'
  <1> SUFFICES ASSUME TypeInv, [Next]_vars PROVE TypeInv'
    OBVIOUS
  <1>1. ASSUME NEW r \in Reqs, Handler(r) PROVE TypeInv'
    BY <1>1, AuthTypeInv, PushBeginTypeInv, PushLookupTypeInv, PushReplayTypeInv,
       PushOpTypeInv, PushCommitTypeInv, PullTopTypeInv, PullPageTypeInv
    DEF Handler
  <1>2. ASSUME NEW r \in Reqs, Client(r) PROVE TypeInv'
    <2>1. ASSUME NEW d \in Devices, NEW batch \in BatchesOf[d], NEW key \in Keys,
                 NEW seen \in {0, cursor[d]}, SendPush(r, d, batch, key, seen)
          PROVE  TypeInv'
      <3>1. batch \in Seq(Operation) /\ seen \in Nat
        BY <2>1, BatchAssumption DEF TypeInv, TypeOK
      <3>2. [kind |-> "push", dev |-> d, batch |-> batch, key |-> key,
             seen |-> seen, live |-> devRow[d] = "active"] \in PushCall
        BY <3>1 DEF PushCall
      <3> QED BY <2>1, <3>2, SendTypeInv DEF SendPush, Call
    <2>2. ASSUME NEW d \in Devices, NEW limit \in PageLimits, SendPull(r, d, limit)
          PROVE  TypeInv'
      <3>1. [kind |-> "pull", dev |-> d, since |-> cursor[d], limit |-> limit,
             live |-> devRow[d] = "active"] \in PullCall
        BY DEF PullCall, TypeInv, TypeOK
      <3> QED BY <2>2, <3>1, SendTypeInv DEF SendPull, Call
    <2>3. ASSUME Finish(r) PROVE TypeInv'
      BY <2>3, ForgetTypeInv DEF Finish, clients, TypeInv, TypeOK
    <2> QED BY <1>2, <2>1, <2>2, <2>3, ReceivePageTypeInv DEF Client
  <1>3. CASE UNCHANGED vars
    BY <1>3 DEF vars, TypeInv, TypeOK, CallOK
  <1> QED
    BY <1>1, <1>2, <1>3, FailTypeInv, CrashTypeInv, AdministrationTypeInv DEF Next

\* Every variable keeps its type, for every server state the handlers, the
\* clients, failures, crashes and the administrator can produce together.
THEOREM TypeCorrect == Spec => []TypeOK
  <1>1. Spec => []TypeInv
    BY InitTypeInv, NextTypeInv, PTL DEF Spec
  <1>2. TypeInv => TypeOK
    BY DEF TypeInv
  <1> QED BY <1>1, <1>2, PTL

-----------------------------------------------------------------------------
(* The connection.                                                         *)

ConnInv == TypeInv /\ ConnHeld

LEMMA NextConnHeld == ConnInv /\ [Next]_vars => ConnHeld'
  <1> SUFFICES ASSUME ConnInv, [Next]_vars PROVE ConnHeld'
    OBVIOUS
  <1> USE ReqAssumption DEF ConnInv, TypeInv, TypeOK, ConnHeld, accounts, db, tx, clients
  <1>1. ASSUME NEW r \in Reqs, AuthDevice(r) \/ AuthUser(r) PROVE ConnHeld'
    BY <1>1 DEF AuthDevice, AuthUser, Answer, InTx
  <1>2. ASSUME NEW r \in Reqs, PushBegin(r) PROVE ConnHeld'
    BY <1>2 DEF PushBegin, ConnFree, Answer, InTx
  <1>3. ASSUME NEW r \in Reqs, PushLookup(r) PROVE ConnHeld'
    BY <1>3 DEF PushLookup, InTx
  <1>4. ASSUME NEW r \in Reqs, PushReplay(r) PROVE ConnHeld'
    BY <1>4 DEF PushReplay, ReleaseConn, InTx
  <1>5. ASSUME NEW r \in Reqs, PushOp(r) PROVE ConnHeld'
    BY <1>5 DEF PushOp
  <1>6. ASSUME NEW r \in Reqs, PushCommit(r) PROVE ConnHeld'
    BY <1>6 DEF PushCommit, ReleaseConn, Answer, InTx
  <1>7. ASSUME NEW r \in Reqs, PullTop(r) \/ PullPage(r) PROVE ConnHeld'
    BY <1>7 DEF PullTop, PullPage, Answer, InTx
  <1>8. ASSUME NEW r \in Reqs, Client(r) PROVE ConnHeld'
    BY <1>8 DEF Client, SendPush, SendPull, Send, ReceivePage, Finish, Forget, InTx
  <1>9. ASSUME NEW r \in Reqs, Fail(r) PROVE ConnHeld'
    BY <1>9 DEF Fail, ReleaseConn, Answer, InTx
  <1>10. CASE Crash
    BY <1>10 DEF Crash, ReleaseConn, InTx
  <1>11. CASE Administration
    BY <1>11 DEF Administration, RevokeDevice, DropDevice, ToggleBlock,
                 DeleteUser, ExpireKeys
  <1>12. CASE UNCHANGED vars
    BY <1>12 DEF vars
  <1> QED
    BY <1>1, <1>2, <1>3, <1>4, <1>5, <1>6, <1>7, <1>8, <1>9, <1>10, <1>11, <1>12
    DEF Next, Handler

LEMMA ConnInvariant == Spec => []ConnInv
  <1>1. Init => ConnInv
    BY InitTypeInv, ReqAssumption DEF Init, ConnInv, ConnHeld, InTx
  <1>2. ConnInv /\ [Next]_vars => ConnInv'
    BY NextTypeInv, NextConnHeld DEF ConnInv
  <1> QED BY <1>1, <1>2, PTL DEF Spec

\* The single connection is held by the request inside a transaction, and by
\* no other: no handler leaves a transaction open behind it.
THEOREM ConnectionHeld == Spec => []ConnHeld
  BY ConnInvariant, PTL DEF ConnInv

-----------------------------------------------------------------------------
(* The log: sequence numbers and scopes.                                   *)

\* The rows in the log, at the clients, and on their way to them.
PageRows(r) == IF reply[r].kind = "pull" THEN reply[r].page ELSE {}
Known == Seen \cup UNION {PageRows(r) : r \in Reqs}

LogOK ==
    /\ IsFiniteSet(ops)
    /\ \A x \in Known : x.seq \in 1..lastRev /\ x.scope = Scope(x.device)
    /\ \A x, y \in Known : x.seq = y.seq => x = y

\* What an open transaction has added is its own, and lies beyond the log.
NewRows == work.ops \ ops
TxOK ==
    conn \in Reqs =>
        /\ ops \subseteq work.ops /\ IsFiniteSet(work.ops)
        /\ lastRev <= work.lastRev
        /\ \A x \in NewRows : /\ x.seq \in (lastRev + 1)..work.lastRev
                              /\ x.device = call[conn].dev
                              /\ x.scope = Scope(call[conn].dev)
        /\ \A x, y \in NewRows : x.seq = y.seq => x = y

LogInv == ConnInv /\ LogOK /\ TxOK

\* What one iteration of the push loop does to the log.
LEMMA ApplyOpRows ==
    ASSUME NEW w \in Work, NEW d \in Devices, NEW op \in Operation,
           NEW seen \in Nat, NEW w2, w2 = ApplyOp(w, Scope(d), d, op, seen)
    PROVE  /\ \/ w2.ops = w.ops /\ w2.lastRev = w.lastRev
              \/ /\ \E row \in OpRow : /\ w2.ops = w.ops \cup {row}
                                       /\ row.seq = w.lastRev + 1
                                       /\ row.device = d
                                       /\ row.scope = Scope(d)
                 /\ w2.lastRev = w.lastRev + 1
           /\ \A row \in w2.conflicts :
                 row \in w.conflicts \/ row.scope = Scope(d)
  <1> DEFINE row == [id |-> op.id, seq |-> w.lastRev + 1, scope |-> Scope(d),
                     device |-> d, entity |-> op.entity, type |-> op.type,
                     seen |-> seen]
  <1>1. row \in OpRow
    BY ScopeType DEF OpRow, Operation, Work
  <1>2. CASE IdTaken(w.ops, op.id)
    BY <1>2 DEF ApplyOp, Work, NewConflicts, Conflicts
  <1>3. CASE ~IdTaken(w.ops, op.id)
    <2>1. /\ w2.ops = w.ops \cup {row} /\ w2.lastRev = w.lastRev + 1
          /\ w2.conflicts = w.conflicts
                \cup NewConflicts(w.ops, Scope(d), d, op, seen)
      BY <1>3 DEF ApplyOp, Work, NextSeq
    <2> QED BY <1>1, <2>1 DEF NewConflicts, Conflicts
  <1> QED BY <1>2, <1>3

\* No step but a commit adds to the log, or moves its counter.
LEMMA OnlyCommitsAppend ==
    ASSUME ConnInv, [Next]_vars
    PROVE  \/ \E r \in Reqs : PushCommit(r)
           \/ ops' \subseteq ops /\ lastRev' = lastRev
  <1> USE DEF accounts, db, tx, clients
  <1>1. ASSUME NEW r \in Reqs, Handler(r), ~PushCommit(r)
        PROVE  ops' \subseteq ops /\ lastRev' = lastRev
    BY <1>1 DEF Handler, AuthDevice, AuthUser, PushBegin, PushLookup, PushReplay,
                PushOp, PullTop, PullPage
  <1>2. ASSUME NEW r \in Reqs, Client(r) \/ Fail(r)
        PROVE  ops' \subseteq ops /\ lastRev' = lastRev
    BY <1>2 DEF Client, SendPush, SendPull, Send, ReceivePage, Finish, Fail
  <1>3. ASSUME Crash \/ Administration \/ UNCHANGED vars
        PROVE  ops' \subseteq ops /\ lastRev' = lastRev
    BY <1>3 DEF Crash, Administration, RevokeDevice, DropDevice, ToggleBlock,
                DeleteUser, ExpireKeys, vars
  <1> QED BY <1>1, <1>2, <1>3 DEF Next

\* Clients and pages hold nothing that was not in the log.
LEMMA KnownRows ==
    ASSUME ConnInv, [Next]_vars
    PROVE  Known' \subseteq Known \cup ops'
  <1> USE ReplyKinds DEF accounts, db, tx, clients, ConnInv, TypeInv, TypeOK
  <1>1. \A r \in Reqs : PageRows(r) \subseteq Known
    BY DEF Known
  <1>2. ops \subseteq Known /\ \A d \in Devices : got[d] \subseteq Known
    BY DEF Known, Seen
  <1>3. \A d \in Devices : got'[d] \subseteq Known
    <2>1. ASSUME NEW r \in Reqs, ReceivePage(r)
          PROVE  \A d \in Devices : got'[d] \subseteq Known
      <3>1. PICK stop : got' = [got EXCEPT ![call[r].dev] =
                          @ \cup {row \in reply[r].page : row.seq <= stop}]
        BY <2>1 DEF ReceivePage
      <3>2. reply[r].page \subseteq Known
        BY <1>1, <2>1 DEF ReceivePage, PageRows
      <3> QED BY <1>2, <3>1, <3>2
    <2>2. got' = got \/ \E r \in Reqs : ReceivePage(r)
      BY DEF Next, Handler, AuthDevice, AuthUser, PushBegin, PushLookup,
             PushReplay, PushOp, PushCommit, PullTop, PullPage, Client, SendPush,
             SendPull, Send, Finish, Fail, Crash, Administration, RevokeDevice,
             DropDevice, ToggleBlock, DeleteUser, ExpireKeys, vars
    <2> QED BY <1>2, <2>1, <2>2
  <1>4. \A r \in Reqs : PageRows(r)' \subseteq Known
    <2>1. ASSUME NEW r \in Reqs, PullPage(r)
          PROVE  \A q \in Reqs : PageRows(q)' \subseteq Known
      <3> DEFINE rows == FirstBySeq(RowsAfter(ops, Scope(call[r].dev),
                                              call[r].since),
                                    PullPageLimit(call[r].limit) + 1)
                 page == FirstBySeq(rows, PullPageLimit(call[r].limit))
      <3>1. page \subseteq ops
        BY DEF FirstBySeq, RowsAfter, InScope
      <3>2. PICK last :
                reply' = [reply EXCEPT ![r] =
                   [kind |-> "pull", page |-> page, last |-> last,
                    more |-> HasMore(rows, PullPageLimit(call[r].limit)),
                    top |-> top[r]]]
        BY <2>1 DEF PullPage, Answer
      <3> HIDE DEF page, rows
      <3> QED BY <1>1, <1>2, <3>1, <3>2 DEF PageRows
    <2>2. ASSUME NEW r \in Reqs, Handler(r), ~PullPage(r)
          PROVE  \A q \in Reqs : PageRows(q)' \subseteq Known
      BY <2>2, <1>1 DEF PageRows, Handler, AuthDevice, AuthUser, PushBegin,
             PushLookup, PushReplay, PushOp, PushCommit, PullTop, Answer
    <2>3. ASSUME NEW r \in Reqs, Client(r) \/ Fail(r)
          PROVE  \A q \in Reqs : PageRows(q)' \subseteq Known
      BY <2>3, <1>1 DEF PageRows, Client, SendPush, SendPull, Send, ReceivePage,
             Finish, Forget, Fail, Answer
    <2>4. ASSUME Crash \/ Administration \/ UNCHANGED vars
          PROVE  \A q \in Reqs : PageRows(q)' \subseteq Known
      BY <2>4, <1>1 DEF PageRows, Crash, Administration, RevokeDevice, DropDevice,
             ToggleBlock, DeleteUser, ExpireKeys, vars
    <2> QED BY <2>1, <2>2, <2>3, <2>4 DEF Next
  <1> QED BY <1>3, <1>4 DEF Known, Seen

LEMMA NextLogOK == LogInv /\ [Next]_vars => LogOK'
  <1> SUFFICES ASSUME LogInv, [Next]_vars PROVE LogOK'
    OBVIOUS
  <1>1. Known' \subseteq Known \cup ops'
    BY KnownRows DEF LogInv
  <1>2. ops \subseteq Known /\ lastRev \in Nat
    BY DEF Known, Seen, LogInv, ConnInv, TypeInv, TypeOK
  <1>3. CASE ops' \subseteq ops /\ lastRev' = lastRev
    <2>1. IsFiniteSet(ops')
      BY <1>3, FS_Subset DEF LogInv, LogOK
    <2>2. Known' \subseteq Known
      BY <1>1, <1>2, <1>3
    <2> QED BY <2>1, <2>2, <1>3 DEF LogInv, LogOK
  <1>4. ASSUME NEW r \in Reqs, PushCommit(r) PROVE LogOK'
    <2>1. conn = r /\ ops' = work.ops /\ lastRev' = work.lastRev
      BY <1>4 DEF PushCommit, LogInv, ConnInv, ConnHeld, InTx
    <2>2. lastRev' \in Nat /\ lastRev <= lastRev'
      BY <2>1 DEF LogInv, ConnInv, TypeInv, TypeOK, Work, TxOK
    <2>3. Known' \subseteq Known \cup NewRows
      BY <1>1, <1>2, <2>1 DEF NewRows
    <2>4. \A x \in NewRows : x.seq \in (lastRev + 1)..lastRev'
                              /\ x.scope = Scope(x.device)
      BY <2>1 DEF LogInv, TxOK
    <2>5. \A x \in Known' : x.seq \in 1..lastRev' /\ x.scope = Scope(x.device)
      BY <1>2, <2>2, <2>3, <2>4 DEF LogInv, LogOK
    <2>6. \A x, y \in Known' : x.seq = y.seq => x = y
      BY <1>2, <2>1, <2>3, <2>4 DEF LogInv, LogOK, TxOK
    <2>7. IsFiniteSet(ops')
      BY <2>1 DEF LogInv, TxOK
    <2> QED BY <2>5, <2>6, <2>7 DEF LogOK
  <1> QED BY <1>3, <1>4, OnlyCommitsAppend DEF LogInv

LEMMA NextTxOK == LogInv /\ [Next]_vars => TxOK'
  <1> SUFFICES ASSUME LogInv, [Next]_vars PROVE TxOK'
    OBVIOUS
  <1> USE DEF LogInv, ConnInv
  <1>1. lastRev \in Nat /\ conn \in Reqs \cup {NoReq}
    BY DEF TypeInv, TypeOK
  <1>2. CASE conn' = NoReq
    BY <1>2, ReqAssumption DEF TxOK
  <1>3. ASSUME UNCHANGED <<ops, lastRev, conn, work>>,
               conn \in Reqs => call'[conn] = call[conn]
        PROVE  TxOK'
    BY <1>3 DEF TxOK, NewRows
  <1>4. ASSUME NEW r \in Reqs, PushBegin(r) PROVE TxOK'
    <2>1. CASE UNCHANGED tx
      BY <1>3, <1>4, <2>1 DEF PushBegin, db, tx
    <2>2. CASE conn' = r /\ work' = Snapshot
      BY <1>1, <1>4, <2>2 DEF PushBegin, Snapshot, TxOK, NewRows, LogOK, db
    <2> QED BY <1>4, <2>1, <2>2 DEF PushBegin
  <1>5. ASSUME NEW r \in Reqs, PushOp(r) PROVE TxOK'
    <2>1. conn = r /\ UNCHANGED <<ops, lastRev, conn, call>>
      BY <1>5 DEF PushOp, db, ConnHeld, InTx
    <2>2. call[r] \in PushCall /\ work \in Work
      BY <1>5 DEF PushOp, TypeInv, TypeOK, CallOK, InTx
    <2>3. call[r].batch[work.next] \in Operation
      BY <1>5, <2>2 DEF PushOp, PushCall, Work
    <2>4. \/ work'.ops = work.ops /\ work'.lastRev = work.lastRev
          \/ /\ \E row \in OpRow : /\ work'.ops = work.ops \cup {row}
                                   /\ row.seq = work.lastRev + 1
                                   /\ row.device = call[r].dev
                                   /\ row.scope = Scope(call[r].dev)
             /\ work'.lastRev = work.lastRev + 1
      BY <1>5, <2>2, <2>3, ApplyOpRows DEF PushOp, PushCall
    <2>5. CASE work'.ops = work.ops /\ work'.lastRev = work.lastRev
      BY <2>1, <2>5 DEF TxOK, NewRows
    <2>6. ASSUME NEW row \in OpRow, work'.ops = work.ops \cup {row},
                 row.seq = work.lastRev + 1, row.device = call[r].dev,
                 row.scope = Scope(call[r].dev),
                 work'.lastRev = work.lastRev + 1
          PROVE  TxOK'
      <3>1. IsFiniteSet(work'.ops)
        BY <2>1, <2>6, FS_AddElement DEF TxOK
      <3>2. NewRows' \subseteq NewRows \cup {row} /\ ops' \subseteq work'.ops
        BY <2>1, <2>6 DEF NewRows, TxOK
      <3>3. work.lastRev \in Nat /\ lastRev <= work.lastRev
        BY <2>1, <2>2 DEF Work, TxOK
      <3>4. \A x \in NewRows' : /\ x.seq \in (lastRev + 1)..work'.lastRev
                                /\ x.device = call[conn].dev
                                /\ x.scope = Scope(call[conn].dev)
        BY <1>1, <2>1, <2>6, <3>2, <3>3 DEF TxOK
      <3>5. \A x, y \in NewRows' : x.seq = y.seq => x = y
        BY <1>1, <2>1, <2>6, <3>2, <3>3 DEF TxOK
      <3> QED BY <1>1, <2>1, <2>6, <3>1, <3>2, <3>3, <3>4, <3>5 DEF TxOK
    <2> QED BY <2>4, <2>5, <2>6
  <1>6. ASSUME NEW r \in Reqs, Handler(r), ~PushBegin(r), ~PushOp(r)
        PROVE  TxOK'
    BY <1>2, <1>3, <1>6
    DEF Handler, AuthDevice, AuthUser, PushLookup, PushReplay, PushCommit,
        PullTop, PullPage, ReleaseConn, db, tx
  <1>7. ASSUME NEW r \in Reqs, Client(r) PROVE TxOK'
    <2>1. conn # r
      BY <1>7 DEF Client, SendPush, SendPull, Send, ReceivePage, Finish, ConnHeld,
                  InTx
    <2>2. \A q \in Reqs : q # r => call'[q] = call[q]
      BY <1>7 DEF Client, SendPush, SendPull, Send, ReceivePage, Finish, Forget,
                  TypeInv, TypeOK
    <2> QED
      BY <1>3, <1>7, <2>1, <2>2
      DEF Client, SendPush, SendPull, Send, ReceivePage, Finish, db, tx
  <1>8. ASSUME NEW r \in Reqs, Fail(r) PROVE TxOK'
    BY <1>2, <1>3, <1>8 DEF Fail, ReleaseConn, db, tx
  <1>9. CASE Crash
    BY <1>2, <1>9 DEF Crash, ReleaseConn
  <1>10. CASE Administration
    BY <1>1, <1>2, <1>10
    DEF Administration, RevokeDevice, DropDevice, ToggleBlock, DeleteUser,
        ExpireKeys, ConnFree, tx
  <1>11. CASE UNCHANGED vars
    BY <1>3, <1>11 DEF vars
  <1> QED
    BY <1>4, <1>5, <1>6, <1>7, <1>8, <1>9, <1>10, <1>11 DEF Next

LEMMA LogInvariant == Spec => []LogInv
  <1>1. Init => LogInv
    <2> SUFFICES ASSUME Init PROVE LogInv
      OBVIOUS
    <2>1. ConnInv
      BY InitTypeInv, ReqAssumption DEF Init, ConnInv, ConnHeld, InTx
    <2>2. Known = {}
      BY DEF Init, Known, Seen, PageRows, NoReply
    <2>3. LogOK
      BY <2>2, FS_EmptySet DEF Init, LogOK
    <2>4. TxOK
      BY ReqAssumption DEF Init, TxOK
    <2> QED BY <2>1, <2>3, <2>4 DEF LogInv
  <1>2. LogInv /\ [Next]_vars => LogInv'
    BY NextTypeInv, NextConnHeld, NextLogOK, NextTxOK DEF LogInv, ConnInv
  <1> QED BY <1>1, <1>2, PTL DEF Spec

\* A sequence number names one operation for ever, at the server and at all
\* clients: it is not given out again after its operation's user is deleted.
THEOREM SequencesAreUnique == Spec => []OneOpPerSequence
  <1>1. LogInv => OneOpPerSequence
    BY DEF LogInv, LogOK, Known, OneOpPerSequence
  <1> QED BY <1>1, LogInvariant, PTL

\* The log grows at its end only, and loses rows only with their user.
THEOREM LogIsAppendOnly == Spec => AppendOnly
  <1> DEFINE Grows ==
         /\ \A row \in ops \ ops' :
               userRow[row.scope[1]] # userRow'[row.scope[1]]
         /\ \A row \in ops' \ ops : row.seq > lastRev
  <1>1. LogInv /\ [Next]_vars => [Grows]_vars
    <2> SUFFICES ASSUME LogInv, [Next]_vars PROVE Grows
      OBVIOUS
    <2>1. ASSUME NEW r \in Reqs, PushCommit(r) PROVE Grows
      <3>1. conn = r /\ ops' = work.ops
        BY <2>1 DEF PushCommit, LogInv, ConnInv, ConnHeld, InTx
      <3>2. lastRev \in Nat
        BY DEF LogInv, ConnInv, TypeInv, TypeOK
      <3> QED BY <3>1, <3>2 DEF LogInv, TxOK, NewRows
    <2>2. ASSUME NEW u \in Users, DeleteUser(u) PROVE Grows
      <3>1. \A row \in ops \ ops' : row.scope[1] = u
        BY <2>2 DEF DeleteUser, OwnedBy
      <3>2. ops' \subseteq ops /\ userRow[u] # userRow'[u]
        BY <2>2 DEF DeleteUser, LogInv, ConnInv, TypeInv, TypeOK
      <3> QED BY <3>1, <3>2
    <2>3. ASSUME ops' = ops PROVE Grows
      BY <2>3
    <2>4. \/ ops' = ops
          \/ \E r \in Reqs : PushCommit(r)
          \/ \E u \in Users : DeleteUser(u)
      BY DEF Next, Handler, AuthDevice, AuthUser, PushBegin, PushLookup,
             PushReplay, PushOp, PullTop, PullPage, Client, SendPush, SendPull,
             Send, ReceivePage, Finish, Fail, Crash, Administration,
             RevokeDevice, DropDevice, ToggleBlock, ExpireKeys, vars, db
    <2> HIDE DEF Grows
    <2> QED BY <2>1, <2>2, <2>3, <2>4
  <1> QED BY <1>1, LogInvariant, PTL DEF Spec, AppendOnly

-----------------------------------------------------------------------------
(* Tenants.                                                                *)

\* Conflicts found, stored or reported are of the asking device's scope.
ConflictsOK ==
    /\ \A e \in idem : \A row \in e.resp.conflicts : row.scope = e.scope
    /\ conn \in Reqs =>
          \A row \in work.conflicts : row.scope = Scope(call[conn].dev)

ScopeInv == LogInv /\ ScopeIsolation /\ ConflictsOK

LEMMA NextConflictsOK == ScopeInv /\ [Next]_vars => ConflictsOK'
  <1> SUFFICES ASSUME ScopeInv, [Next]_vars PROVE ConflictsOK'
    OBVIOUS
  <1> USE DEF ScopeInv, LogInv, ConnInv
  <1>1. ASSUME idem' \subseteq idem, conn' = NoReq PROVE ConflictsOK'
    BY <1>1, ReqAssumption DEF ConflictsOK
  <1>2. ASSUME UNCHANGED <<idem, conn, work>>,
               conn \in Reqs => call'[conn] = call[conn]
        PROVE  ConflictsOK'
    BY <1>2 DEF ConflictsOK
  <1>3. ASSUME NEW r \in Reqs, PushBegin(r) PROVE ConflictsOK'
    <2>1. CASE UNCHANGED tx
      BY <1>2, <1>3, <2>1 DEF PushBegin, db, tx
    <2>2. CASE work' = Snapshot
      BY <1>3, <2>2 DEF PushBegin, Snapshot, ConflictsOK, db
    <2> QED BY <1>3, <2>1, <2>2 DEF PushBegin
  <1>4. ASSUME NEW r \in Reqs, PushOp(r) PROVE ConflictsOK'
    <2>1. conn = r /\ UNCHANGED <<idem, conn, call>>
      BY <1>4 DEF PushOp, db, ConnHeld, InTx
    <2>2. call[r] \in PushCall /\ work \in Work
      BY <1>4 DEF PushOp, TypeInv, TypeOK, CallOK, InTx
    <2>3. call[r].batch[work.next] \in Operation
      BY <1>4, <2>2 DEF PushOp, PushCall, Work
    <2>4. \A row \in work'.conflicts :
             row \in work.conflicts \/ row.scope = Scope(call[r].dev)
      BY <1>4, <2>2, <2>3, ApplyOpRows DEF PushOp, PushCall
    <2> QED BY <2>1, <2>4 DEF ConflictsOK
  <1>5. ASSUME NEW r \in Reqs, PushCommit(r) PROVE ConflictsOK'
    <2>1. conn = r /\ conn' = NoReq
      BY <1>5 DEF PushCommit, ReleaseConn, ConnHeld, InTx
    <2>2. \A e \in idem' : e \in idem \/ (/\ e.scope = Scope(call[r].dev)
                                        /\ e.resp.conflicts = work.conflicts)
      BY <1>5 DEF PushCommit
    <2> QED BY <2>1, <2>2, ReqAssumption DEF ConflictsOK
  <1>6. ASSUME NEW r \in Reqs, Handler(r), ~PushBegin(r), ~PushOp(r), ~PushCommit(r)
        PROVE  ConflictsOK'
    BY <1>1, <1>2, <1>6
    DEF Handler, AuthDevice, AuthUser, PushLookup, PushReplay, PullTop, PullPage,
        ReleaseConn, db, tx
  <1>7. ASSUME NEW r \in Reqs, Client(r) PROVE ConflictsOK'
    <2>1. conn # r
      BY <1>7 DEF Client, SendPush, SendPull, Send, ReceivePage, Finish, ConnHeld,
                  InTx
    <2>2. \A q \in Reqs : q # r => call'[q] = call[q]
      BY <1>7 DEF Client, SendPush, SendPull, Send, ReceivePage, Finish, Forget,
                  TypeInv, TypeOK
    <2> QED
      BY <1>2, <1>7, <2>1, <2>2
      DEF Client, SendPush, SendPull, Send, ReceivePage, Finish, db, tx
  <1>8. ASSUME NEW r \in Reqs, Fail(r) PROVE ConflictsOK'
    BY <1>1, <1>2, <1>8 DEF Fail, ReleaseConn, db, tx
  <1>9. CASE Crash
    BY <1>1, <1>9 DEF Crash, ReleaseConn, db
  <1>10. CASE Administration
    <2>1. idem' \subseteq idem /\ UNCHANGED tx /\ conn = NoReq
      BY <1>10 DEF Administration, RevokeDevice, DropDevice, ToggleBlock,
                   DeleteUser, ExpireKeys, ConnFree, db
    <2> QED BY <1>1, <2>1 DEF tx
  <1>11. CASE UNCHANGED vars
    BY <1>2, <1>11 DEF vars
  <1> QED
    BY <1>3, <1>4, <1>5, <1>6, <1>7, <1>8, <1>9, <1>10, <1>11 DEF Next

LEMMA NextScopeIsolation == ScopeInv /\ [Next]_vars => ScopeIsolation'
  <1> SUFFICES ASSUME ScopeInv, [Next]_vars PROVE ScopeIsolation'
    OBVIOUS
  <1> USE ReplyKinds
      DEF ScopeInv, LogInv, ConnInv, TypeInv, TypeOK, accounts, db, tx, clients
  <1> DEFINE Fits(q) ==
        /\ reply[q].kind = "pull" =>
              \A row \in reply[q].page : row.scope = Scope(call[q].dev)
        /\ reply[q].kind = "push" =>
              \A row \in reply[q].resp.conflicts : row.scope = Scope(call[q].dev)
  <1>0. \A q \in Reqs : Fits(q)
    BY DEF ScopeIsolation
  <1>1. ASSUME got' = got, \A q \in Reqs : Fits(q)' PROVE ScopeIsolation'
    BY <1>1 DEF ScopeIsolation
  <1>2. ASSUME got' = got, NEW r \in Reqs,
               \A q \in Reqs : q # r => reply'[q] = reply[q] /\ call'[q] = call[q],
               reply'[r].kind \notin {"push", "pull"}
        PROVE  ScopeIsolation'
    BY <1>0, <1>1, <1>2
  <1>3. ASSUME UNCHANGED <<got, reply, call>> PROVE ScopeIsolation'
    BY <1>0, <1>1, <1>3
  <1>4. ASSUME NEW r \in Reqs, AuthDevice(r) \/ AuthUser(r) \/ PushBegin(r)
        PROVE  ScopeIsolation'
    BY <1>2, <1>3, <1>4 DEF AuthDevice, AuthUser, PushBegin, Answer
  <1>5. ASSUME NEW r \in Reqs, PushLookup(r) PROVE ScopeIsolation'
    <2>1. CASE UNCHANGED reply
      BY <1>3, <1>5, <2>1 DEF PushLookup
    <2>2. ASSUME NEW resp \in CachedAnswers(Scope(call[r].dev), call[r].key),
                 reply' = [reply EXCEPT ![r] =
                      [kind |-> "push", resp |-> resp, cached |-> TRUE]]
          PROVE  ScopeIsolation'
      <3>1. \A row \in resp.conflicts : row.scope = Scope(call[r].dev)
        BY DEF CachedAnswers, ConflictsOK
      <3> QED BY <1>0, <1>1, <1>5, <2>2, <3>1 DEF PushLookup
    <2> QED BY <1>5, <2>1, <2>2 DEF PushLookup
  <1>6. ASSUME NEW r \in Reqs, PushReplay(r) \/ PushOp(r) \/ PullTop(r)
        PROVE  ScopeIsolation'
    BY <1>3, <1>6 DEF PushReplay, PushOp, PullTop
  <1>7. ASSUME NEW r \in Reqs, PushCommit(r) PROVE ScopeIsolation'
    <2>1. conn = r
      BY <1>7 DEF PushCommit, ConnHeld, InTx
    <2>2. \A row \in work.conflicts : row.scope = Scope(call[r].dev)
      BY <2>1 DEF ConflictsOK
    <2>3. reply' = [reply EXCEPT ![r] =
             [kind |-> "push",
              resp |-> [accepted |-> work.accepted, conflicts |-> work.conflicts],
              cached |-> FALSE]]
      BY <1>7 DEF PushCommit, Answer
    <2>4. got' = got /\ call' = call
      BY <1>7 DEF PushCommit
    <2> QED BY <1>0, <1>1, <2>2, <2>3, <2>4
  <1>8. ASSUME NEW r \in Reqs, PullPage(r) PROVE ScopeIsolation'
    <2> DEFINE rows == FirstBySeq(RowsAfter(ops, Scope(call[r].dev),
                                            call[r].since),
                                  PullPageLimit(call[r].limit) + 1)
               page == FirstBySeq(rows, PullPageLimit(call[r].limit))
    <2>1. \A row \in page : row.scope = Scope(call[r].dev)
      BY DEF FirstBySeq, RowsAfter, InScope
    <2>2. PICK last :
              reply' = [reply EXCEPT ![r] =
                 [kind |-> "pull", page |-> page, last |-> last,
                  more |-> HasMore(rows, PullPageLimit(call[r].limit)),
                  top |-> top[r]]]
      BY <1>8 DEF PullPage, Answer
    <2>3. got' = got /\ call' = call
      BY <1>8 DEF PullPage
    <2> HIDE DEF page, rows
    <2> QED BY <1>0, <1>1, <2>1, <2>2, <2>3
  <1>9. ASSUME NEW r \in Reqs, NEW c, Send(r, c) PROVE ScopeIsolation'
    <2>1. reply[r] = NoReply
      BY <1>9 DEF Send, CallOK
    <2> QED BY <1>2, <1>9, <2>1 DEF Send
  <1>10. ASSUME NEW r \in Reqs, ReceivePage(r) PROVE ScopeIsolation'
    <2>1. \A q \in Reqs : Fits(q)'
      BY <1>0, <1>10 DEF ReceivePage, Forget
    <2>2. PICK stop : got' = [got EXCEPT ![call[r].dev] =
                        @ \cup {row \in reply[r].page : row.seq <= stop}]
      BY <1>10 DEF ReceivePage
    <2>3. \A row \in reply[r].page : /\ row.scope = Scope(call[r].dev)
                                    /\ row.scope = Scope(row.device)
      BY <1>0, <1>10 DEF ReceivePage, LogOK, Known, PageRows
    <2>4. \A d \in Devices : \A row \in got'[d] :
             row.scope = Scope(d) /\ Scope(row.device) = Scope(d)
      BY <2>2, <2>3 DEF ScopeIsolation
    <2> QED BY <2>1, <2>4 DEF ScopeIsolation
  <1>11. ASSUME NEW r \in Reqs, Finish(r) PROVE ScopeIsolation'
    BY <1>2, <1>11 DEF Finish, Forget
  <1>12. ASSUME NEW r \in Reqs, Fail(r) PROVE ScopeIsolation'
    BY <1>2, <1>12 DEF Fail, Answer
  <1>13. CASE Crash
    BY <1>1, <1>13 DEF Crash
  <1>14. CASE Administration
    BY <1>3, <1>14 DEF Administration, RevokeDevice, DropDevice, ToggleBlock,
                       DeleteUser, ExpireKeys
  <1>15. CASE UNCHANGED vars
    BY <1>3, <1>15 DEF vars
  <1> QED
    BY <1>4, <1>5, <1>6, <1>7, <1>8, <1>9, <1>10, <1>11, <1>12, <1>13, <1>14, <1>15
    DEF Next, Handler, Client, SendPush, SendPull

LEMMA ScopeInvariant == Spec => []ScopeInv
  <1>1. Init /\ LogInv => ScopeInv
    BY ReqAssumption, ReplyKinds DEF Init, ScopeInv, ScopeIsolation, ConflictsOK
  <1>2. ScopeInv /\ [Next]_vars /\ LogInv' => ScopeInv'
    BY NextConflictsOK, NextScopeIsolation DEF ScopeInv
  <1> QED BY <1>1, <1>2, LogInvariant, PTL DEF Spec

\* No tenant is shown another's operations, by pages, conflicts or answers
\* stored under an idempotency key, whatever ids and keys tenants share.
THEOREM TenantsAreIsolated == Spec => []ScopeIsolation
  BY ScopeInvariant, PTL DEF ScopeInv

-----------------------------------------------------------------------------
(* Cursors.                                                                *)

\* The rows of a device's scope up to a sequence are all at the client.
Applied(d, seq) ==
    \A row \in ops : row.scope = Scope(d) /\ row.seq <= seq => row \in got[d]

\* A page is a contiguous piece of the scope's log.
Contiguous(d, since, page, last) ==
    /\ \A row \in page : row.seq <= last
    /\ \A row \in ops :
          row.scope = Scope(d) /\ row.seq > since /\ row.seq <= last
            => row \in page

PullOK(r) ==
    LET d == call[r].dev
    IN /\ call[r] \in PullCall =>
             call[r].since <= lastRev /\ Applied(d, call[r].since)
       /\ reply[r].kind = "pull" =>
             /\ reply[r].last <= lastRev
             /\ Contiguous(d, call[r].since, reply[r].page, reply[r].last)

CursorOK ==
    /\ \A d \in Devices : cursor[d] <= lastRev /\ Applied(d, cursor[d])
    /\ \A r \in Reqs : PullOK(r)

CursorInv == LogInv /\ CursorOK

\* ORDER BY ... LIMIT returns an initial piece of its rows.
LEMMA FirstBySeqInitial ==
    ASSUME NEW rows \in SUBSET OpRow, IsFiniteSet(rows), NEW n \in Nat,
           NEW x \in FirstBySeq(rows, n), NEW y \in rows, y.seq <= x.seq
    PROVE  y \in FirstBySeq(rows, n)
  <1> DEFINE Below(z) == {o \in rows : o.seq < z.seq}
  <1>1. x \in rows /\ Cardinality(Below(x)) < n
    BY DEF FirstBySeq
  <1>2. Below(y) \subseteq Below(x)
    BY <1>1 DEF OpRow
  <1>3. IsFiniteSet(Below(x)) /\ IsFiniteSet(Below(y))
    BY FS_Subset
  <1>4. Cardinality(Below(y)) <= Cardinality(Below(x))
    BY <1>2, <1>3, FS_Subset
  <1>5. Cardinality(Below(y)) \in Nat /\ Cardinality(Below(x)) \in Nat
    BY <1>3, FS_CardinalityType
  <1>6. Cardinality(Below(y)) < n
    BY <1>1, <1>4, <1>5
  <1> QED BY <1>6 DEF FirstBySeq

\* The log does not grow behind a position it has reached.
LEMMA AppliedStays ==
    ASSUME LogInv, [Next]_vars, NEW d \in Devices, NEW seq \in Nat,
           seq <= lastRev, Applied(d, seq), got[d] \subseteq got'[d]
    PROVE  Applied(d, seq)' /\ seq <= lastRev'
  <1> USE DEF LogInv, ConnInv, TypeInv, TypeOK
  <1>1. CASE ops' \subseteq ops /\ lastRev' = lastRev
    BY <1>1 DEF Applied
  <1>2. ASSUME NEW r \in Reqs, PushCommit(r)
        PROVE  Applied(d, seq)' /\ seq <= lastRev'
    <2>1. conn = r /\ ops' = work.ops /\ lastRev' = work.lastRev
      BY <1>2 DEF PushCommit, ConnHeld, InTx
    <2>2. lastRev <= lastRev' /\ lastRev' \in Nat
      BY <2>1 DEF TxOK, Work
    <2>3. \A row \in ops' : row \in ops \/ row.seq > lastRev
      BY <2>1 DEF TxOK, NewRows
    <2>4. \A row \in ops' : row.seq \in Nat
      BY <2>1 DEF Work, OpRow
    <2> QED BY <2>2, <2>3, <2>4 DEF Applied
  <1> QED BY <1>1, <1>2, OnlyCommitsAppend

LEMMA ContiguousStays ==
    ASSUME LogInv, [Next]_vars, NEW d \in Devices, NEW since, NEW page,
           NEW last \in Nat, last <= lastRev, Contiguous(d, since, page, last)
    PROVE  Contiguous(d, since, page, last)' /\ last <= lastRev'
  <1> USE DEF LogInv, ConnInv, TypeInv, TypeOK
  <1>1. CASE ops' \subseteq ops /\ lastRev' = lastRev
    BY <1>1 DEF Contiguous
  <1>2. ASSUME NEW r \in Reqs, PushCommit(r)
        PROVE  Contiguous(d, since, page, last)' /\ last <= lastRev'
    <2>1. conn = r /\ ops' = work.ops /\ lastRev' = work.lastRev
      BY <1>2 DEF PushCommit, ConnHeld, InTx
    <2>2. lastRev <= lastRev' /\ lastRev' \in Nat
      BY <2>1 DEF TxOK, Work
    <2>3. \A row \in ops' : row \in ops \/ row.seq > lastRev
      BY <2>1 DEF TxOK, NewRows
    <2>4. \A row \in ops' : row.seq \in Nat
      BY <2>1 DEF Work, OpRow
    <2> QED BY <2>2, <2>3, <2>4 DEF Contiguous
  <1> QED BY <1>1, <1>2, OnlyCommitsAppend

\* Only ReceivePage changes what a client has, and it only adds.
LEMMA ClientSteps ==
    ASSUME LogInv, [Next]_vars
    PROVE  /\ \A d \in Devices : got[d] \subseteq got'[d]
           /\ \/ UNCHANGED <<cursor, got>>
              \/ \E r \in Reqs : ReceivePage(r)
  <1>1. \/ UNCHANGED <<cursor, got>>
        \/ \E r \in Reqs : ReceivePage(r)
    BY DEF Next, Handler, AuthDevice, AuthUser, PushBegin, PushLookup, PushReplay,
           PushOp, PushCommit, PullTop, PullPage, Client, SendPush, SendPull, Send,
           Finish, Fail, Crash, Administration, RevokeDevice, DropDevice,
           ToggleBlock, DeleteUser, ExpireKeys, vars, clients
  <1>2. ASSUME NEW r \in Reqs, ReceivePage(r)
        PROVE  \A d \in Devices : got[d] \subseteq got'[d]
    BY <1>2 DEF ReceivePage, LogInv, ConnInv, TypeInv, TypeOK
  <1> QED BY <1>1, <1>2

LEMMA NextClientCursors ==
    ASSUME CursorInv, [Next]_vars
    PROVE  \A d \in Devices : cursor'[d] <= lastRev' /\ Applied(d, cursor[d])'
  <1> USE DEF CursorInv, LogInv, ConnInv, TypeInv, TypeOK
  <1>1. CASE UNCHANGED <<cursor, got>>
    <2> SUFFICES ASSUME NEW d \in Devices
                 PROVE  cursor'[d] <= lastRev' /\ Applied(d, cursor[d])'
      OBVIOUS
    <2>1. cursor[d] \in Nat /\ cursor[d] <= lastRev /\ Applied(d, cursor[d])
      BY DEF CursorOK
    <2>2. Applied(d, cursor[d])' /\ cursor[d] <= lastRev'
      BY <1>1, <2>1, AppliedStays DEF Applied
    <2> QED BY <1>1, <2>2
  <1>2. ASSUME NEW r \in Reqs, ReceivePage(r)
        PROVE  \A d \in Devices : cursor'[d] <= lastRev' /\ Applied(d, cursor[d])'
    <2> DEFINE c == call[r].dev
    <2>1. reply[r] \in PullReply /\ call[r] \in PullCall /\ c \in Devices
      BY <1>2, ReplyKinds, CallKinds DEF ReceivePage, CallOK, Reply
    <2>2. PICK stop \in {reply[r].last} \cup {row.seq : row \in reply[r].page} :
              /\ cursor' = [cursor EXCEPT ![c] = stop]
              /\ got' = [got EXCEPT ![c] =
                            @ \cup {row \in reply[r].page : row.seq <= stop}]
      BY <1>2 DEF ReceivePage
    <2>3. UNCHANGED <<ops, lastRev>>
      BY <1>2 DEF ReceivePage, db
    <2>4. /\ reply[r].last <= lastRev /\ Applied(c, call[r].since)
          /\ Contiguous(c, call[r].since, reply[r].page, reply[r].last)
      BY <1>2, <2>1 DEF CursorOK, PullOK, ReceivePage
    <2>5. /\ reply[r].last \in Nat /\ call[r].since \in Nat
          /\ reply[r].page \subseteq OpRow
      BY <2>1 DEF PullReply, PullCall
    <2>6. stop \in Nat /\ stop <= reply[r].last
      BY <2>4, <2>5 DEF Contiguous, OpRow
    <2>7. stop <= lastRev
      BY <2>4, <2>5, <2>6
    <2>8. \A row \in ops : row.scope = Scope(c) /\ row.seq <= stop => row \in got'[c]
      <3> SUFFICES ASSUME NEW row \in ops, row.scope = Scope(c), row.seq <= stop
                   PROVE  row \in got'[c]
        OBVIOUS
      <3>1. row.seq \in Nat
        BY DEF OpRow
      <3>2. CASE row.seq <= call[r].since
        BY <2>1, <2>2, <2>4, <3>2 DEF Applied
      <3>3. CASE row.seq > call[r].since
        <4>1. row \in reply[r].page
          BY <2>4, <2>5, <2>6, <3>1, <3>3 DEF Contiguous
        <4> QED BY <2>1, <2>2, <4>1
      <3> QED BY <2>5, <3>1, <3>2, <3>3
    <2>9. ASSUME NEW d \in Devices, d # c
          PROVE  cursor'[d] <= lastRev' /\ Applied(d, cursor[d])'
      BY <2>2, <2>3, <2>9 DEF CursorOK, Applied
    <2> QED BY <2>1, <2>2, <2>3, <2>7, <2>8, <2>9 DEF Applied
  <1> QED BY <1>1, <1>2, ClientSteps

LEMMA NextPullOK ==
    ASSUME CursorInv, [Next]_vars, NEW q \in Reqs
    PROVE  PullOK(q)'
  <1> USE ReplyKinds
      DEF CursorInv, LogInv, ConnInv, TypeInv, TypeOK, accounts, db, tx, clients
  <1>0. PullOK(q)
    BY DEF CursorOK
  <1>1. ASSUME call[q] \in PullCall,
               NEW d, d = call[q].dev, NEW since, since = call[q].since
        PROVE  Applied(d, since)' /\ since <= lastRev'
    <2>1. d \in Devices /\ since \in Nat
      BY <1>1 DEF PullCall
    <2>2. Applied(d, since) /\ since <= lastRev
      BY <1>0, <1>1 DEF PullOK
    <2>3. got[d] \subseteq got'[d]
      BY <2>1, ClientSteps
    <2> QED BY <2>1, <2>2, <2>3, AppliedStays
  <1>2. ASSUME reply[q].kind = "pull",
               NEW d, d = call[q].dev, NEW since, since = call[q].since,
               NEW page, page = reply[q].page, NEW last, last = reply[q].last
        PROVE  last <= lastRev' /\ Contiguous(d, since, page, last)'
    <2>1. reply[q] \in PullReply /\ call[q] \in PullCall
      BY <1>2 DEF CallOK, Reply
    <2>2. last \in Nat /\ d \in Devices
      BY <1>2, <2>1 DEF PullReply, PullCall
    <2>3. last <= lastRev /\ Contiguous(d, since, page, last)
      BY <1>0, <1>2 DEF PullOK
    <2> QED BY <2>2, <2>3, ContiguousStays
  <1>3. ASSUME UNCHANGED <<call[q], reply[q]>> PROVE PullOK(q)'
    BY <1>1, <1>2, <1>3 DEF PullOK, Applied, Contiguous
  <1>4. ASSUME call'[q] = call[q], reply'[q].kind # "pull" PROVE PullOK(q)'
    BY <1>1, <1>4 DEF PullOK, Applied
  <1>5. ASSUME call'[q] \notin PullCall, reply'[q].kind # "pull" PROVE PullOK(q)'
    BY <1>5 DEF PullOK
  <1>6. ASSUME NEW r \in Reqs, PullPage(r) PROVE PullOK(q)'
    <2> DEFINE d == call[r].dev
               since == call[r].since
               limit == PullPageLimit(call[r].limit)
               after == RowsAfter(ops, Scope(d), since)
               rows == FirstBySeq(after, limit + 1)
               page == FirstBySeq(rows, limit)
    <2>1. call[r] \in PullCall /\ UNCHANGED <<ops, lastRev, got, call>>
      BY <1>6 DEF PullPage, CallOK
    <2>2. PICK last \in {since} \cup {row.seq : row \in page} :
              /\ IsLastSeq(page, since, last)
              /\ Answer(r, [kind |-> "pull", page |-> page, last |-> last,
                            more |-> HasMore(rows, limit), top |-> top[r]])
      BY <1>6 DEF PullPage
    <2>3. /\ since \in Nat /\ since <= lastRev /\ lastRev \in Nat
          /\ d \in Devices /\ limit \in Nat
      BY <2>1, LimitAssumption DEF CursorOK, PullOK, PullCall, PullPageLimit
    <2>4. after \in SUBSET ops /\ rows \in SUBSET after /\ page \in SUBSET rows
      BY DEF RowsAfter, InScope, FirstBySeq
    <2>5. IsFiniteSet(after) /\ IsFiniteSet(rows)
      BY <2>4, FS_Subset DEF LogOK
    <2>6. \A row \in after : row.scope = Scope(d) /\ row.seq > since
      BY DEF RowsAfter, InScope
    <2>7. \A row \in ops : row.scope = Scope(d) /\ row.seq > since => row \in after
      BY DEF RowsAfter, InScope
    <2>8. ASSUME NEW x \in page, NEW y \in after, y.seq <= x.seq PROVE y \in page
      <3>1. y \in rows
        BY <2>3, <2>4, <2>5, <2>8, FirstBySeqInitial
      <3> QED BY <2>3, <2>4, <2>5, <2>8, <3>1, FirstBySeqInitial
    <2> HIDE DEF after, rows, page, limit
    <2>9. last <= lastRev /\ Contiguous(d, since, page, last)
      <3>1. CASE page = {} /\ last = since
        BY <2>3, <3>1 DEF Contiguous, OpRow
      <3>2. ASSUME NEW x \in page, last = x.seq, \A row \in page : row.seq <= last
            PROVE  last <= lastRev /\ Contiguous(d, since, page, last)
        <4>1. x \in ops
          BY <2>4
        <4>2. last <= lastRev
          BY <3>2, <4>1 DEF LogOK, Known, Seen
        <4> QED BY <2>7, <2>8, <3>2, <4>2 DEF Contiguous
      <3> QED BY <2>2, <3>1, <3>2 DEF IsLastSeq
    <2>10. CASE q = r
      <3>1. /\ reply'[r].kind = "pull" /\ reply'[r].last = last
            /\ reply'[r].page = page /\ call' = call
        BY <2>1, <2>2 DEF Answer
      <3>2. /\ last <= lastRev'
            /\ \A row \in page : row.seq <= last
            /\ \A row \in ops' :
                  row.scope = Scope(d) /\ row.seq > since /\ row.seq <= last
                    => row \in page
        BY <2>1, <2>9 DEF Contiguous
      <3>3. /\ since <= lastRev'
            /\ \A row \in ops' :
                  row.scope = Scope(d) /\ row.seq <= since => row \in got'[d]
        BY <1>0, <2>1, <2>10 DEF PullOK, Applied
      <3> QED BY <2>1, <2>10, <3>1, <3>2, <3>3 DEF PullOK, Applied, Contiguous
    <2>11. CASE q # r
      BY <1>3, <2>1, <2>2, <2>11 DEF Answer
    <2> QED BY <2>10, <2>11
  <1>7. ASSUME NEW r \in Reqs, Handler(r), ~PullPage(r) PROVE PullOK(q)'
    BY <1>3, <1>4, <1>7
    DEF Handler, AuthDevice, AuthUser, PushBegin, PushLookup, PushReplay, PushOp,
        PushCommit, PullTop, Answer
  <1>8. ASSUME NEW r \in Reqs, NEW c \in Call, Send(r, c),
               c \in PullCall => c.since = cursor[c.dev]
        PROVE  PullOK(q)'
    <2>1. CASE q # r
      BY <1>3, <1>8, <2>1 DEF Send
    <2>2. CASE q = r /\ c \in PushCall
      BY <1>5, <1>8, <2>2, CallKinds DEF Send, CallOK
    <2>3. CASE q = r /\ c \in PullCall
      <3>1. reply'[q].kind # "pull" /\ call'[q] = c
        BY <1>8, <2>3 DEF Send, CallOK
      <3>2. c.dev \in Devices /\ cursor' = cursor
        BY <1>8, <2>3 DEF Send, PullCall
      <3> QED BY <1>8, <2>3, <3>1, <3>2, NextClientCursors DEF PullOK, Applied
    <2> QED BY <1>8, <2>1, <2>2, <2>3 DEF Call
  <1>9. ASSUME NEW r \in Reqs, NEW d \in Devices, NEW limit \in PageLimits,
               SendPull(r, d, limit)
        PROVE  PullOK(q)'
    <2> DEFINE c == [kind |-> "pull", dev |-> d, since |-> cursor[d],
                     limit |-> limit, live |-> devRow[d] = "active"]
    <2>1. c \in Call /\ c.since = cursor[c.dev]
      BY DEF Call, PullCall
    <2> QED BY <1>8, <1>9, <2>1 DEF SendPull
  <1>10. ASSUME NEW r \in Reqs, NEW d \in Devices, NEW batch \in BatchesOf[d],
                NEW key \in Keys, NEW seen \in {0, cursor[d]},
                SendPush(r, d, batch, key, seen)
         PROVE  PullOK(q)'
    <2> DEFINE c == [kind |-> "push", dev |-> d, batch |-> batch, key |-> key,
                     seen |-> seen, live |-> devRow[d] = "active"]
    <2>1. batch \in Seq(Operation) /\ seen \in Nat
      BY BatchAssumption
    <2>2. c \in PushCall /\ c \notin PullCall
      BY <2>1 DEF PushCall, PullCall
    <2> QED BY <1>8, <1>10, <2>2 DEF SendPush, Call
  <1>11. ASSUME NEW r \in Reqs, ReceivePage(r) \/ Finish(r) PROVE PullOK(q)'
    BY <1>3, <1>5, <1>11, CallKinds DEF ReceivePage, Finish, Forget, Call
  <1>12. ASSUME NEW r \in Reqs, Fail(r) PROVE PullOK(q)'
    BY <1>3, <1>4, <1>12 DEF Fail, Answer
  <1>13. CASE Crash
    BY <1>5, <1>13, CallKinds DEF Crash, Call
  <1>14. CASE Administration
    BY <1>3, <1>14 DEF Administration, RevokeDevice, DropDevice, ToggleBlock,
                       DeleteUser, ExpireKeys
  <1>15. CASE UNCHANGED vars
    BY <1>3, <1>15 DEF vars
  <1> QED
    BY <1>6, <1>7, <1>9, <1>10, <1>11, <1>12, <1>13, <1>14, <1>15
    DEF Next, Client

LEMMA CursorInvariant == Spec => []CursorInv
  <1>1. Init /\ LogInv => CursorInv
    <2> SUFFICES ASSUME Init, LogInv PROVE CursorOK
      BY DEF CursorInv
    <2>1. \A r \in Reqs : call[r] \notin PullCall /\ reply[r].kind # "pull"
      BY CallKinds, ReplyKinds DEF Init, Call
    <2> QED BY <2>1 DEF Init, CursorOK, PullOK, Applied
  <1>2. CursorInv /\ [Next]_vars /\ LogInv' => CursorInv'
    BY NextClientCursors, NextPullOK DEF CursorInv, CursorOK
  <1> QED BY <1>1, <1>2, LogInvariant, PTL DEF Spec

\* No client ever moves past an operation of its scope that it did not get:
\* whatever pushes, pages, losses, failures and crashes come between.
THEOREM CursorsHaveNoGaps == Spec => []NoGaps
  <1>1. CursorInv => NoGaps
    BY DEF CursorInv, CursorOK, Applied, NoGaps
  <1> QED BY <1>1, CursorInvariant, PTL
=============================================================================
