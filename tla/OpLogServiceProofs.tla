------------------------- MODULE OpLogServiceProofs -------------------------
(***************************************************************************)
(* What the devices are promised: what is accepted is stored, whole, once, *)
(* and never for a revoked device; and the server as a whole is the        *)
(* VaultLog.  For all constants, as in OpLogProofs.                        *)
(***************************************************************************)
EXTENDS OpLogProofs

-----------------------------------------------------------------------------
(* Access.                                                                 *)

\* A request of a device that had lost access finds it without access.
AccessLost ==
    \A r \in Reqs : call[r] # NoCall /\ ~call[r].live =>
        devRow[call[r].dev] # "active"

AccessInv == TypeInv /\ RevokedNeverServed /\ AccessLost

\* Access that is lost stays lost: a device id is never used again.
LEMMA NoDeviceReturns ==
    ASSUME TypeInv, [Next]_vars, NEW d \in Devices, devRow[d] # "active"
    PROVE  devRow'[d] # "active"
  <1> USE DEF TypeInv, TypeOK, accounts
  <1>1. ASSUME NEW r \in Reqs, Handler(r) \/ Client(r) \/ Fail(r)
        PROVE  devRow'[d] # "active"
    BY <1>1 DEF Handler, AuthDevice, AuthUser, PushBegin, PushLookup, PushReplay,
                PushOp, PushCommit, PullTop, PullPage, Client, SendPush, SendPull,
                Send, ReceivePage, Finish, Fail
  <1>2. CASE Crash \/ UNCHANGED vars
    BY <1>2 DEF Crash, vars
  <1>3. CASE Administration
    BY <1>3 DEF Administration, RevokeDevice, DropDevice, ToggleBlock, DeleteUser,
                ExpireKeys
  <1> QED BY <1>1, <1>2, <1>3 DEF Next

LEMMA NextAccess == AccessInv /\ [Next]_vars /\ TypeInv' => AccessInv'
  <1> SUFFICES ASSUME AccessInv, [Next]_vars, TypeInv'
               PROVE  RevokedNeverServed' /\ AccessLost'
    BY DEF AccessInv
  <1> USE DEF AccessInv, TypeInv, TypeOK, accounts, db, tx, clients
  <1> DEFINE Refused(r) ==
         call[r] # NoCall /\ ~call[r].live =>
            /\ pc[r] \in {"device", "reply"}
            /\ reply[r].kind \in {"none", "denied", "error"}
            /\ devRow[call[r].dev] # "active"
  <1>0. ASSUME NEW r \in Reqs PROVE Refused(r)
    BY DEF RevokedNeverServed, AccessLost
  <1>1. SUFFICES ASSUME NEW q \in Reqs PROVE Refused(q)'
    BY DEF RevokedNeverServed, AccessLost
  <1>2. call[q] # NoCall => call[q].dev \in Devices
    BY CallKinds DEF TypeInv, TypeOK, Call
  <1>3. ASSUME call[q] # NoCall, devRow[call[q].dev] # "active"
        PROVE  devRow'[call[q].dev] # "active"
    BY <1>2, <1>3, NoDeviceReturns
  <1>4. ASSUME UNCHANGED <<call[q], pc[q], reply[q]>> PROVE Refused(q)'
    BY <1>0, <1>3, <1>4
  <1>5. ASSUME NEW r \in Reqs, AuthDevice(r) PROVE Refused(q)'
    <2>1. CASE q # r
      BY <1>4, <1>5, <2>1 DEF AuthDevice, Answer
    <2>2. CASE q = r
      <3>1. devRow' = devRow /\ call' = call
        BY <1>5 DEF AuthDevice
      <3>2. CASE DeviceAdmitted(call[r].dev)
        BY <1>0, <2>2, <3>1, <3>2 DEF DeviceAdmitted
      <3>3. CASE ~DeviceAdmitted(call[r].dev)
        <4>1. pc'[r] = "reply" /\ reply'[r] = Denied
          BY <1>5, <3>3 DEF AuthDevice, Answer
        <4> QED BY <1>0, <2>2, <3>1, <4>1, ReplyKinds
      <3> QED BY <3>2, <3>3
    <2> QED BY <2>1, <2>2
  <1>6. ASSUME NEW r \in Reqs, Handler(r), ~AuthDevice(r) PROVE Refused(q)'
    <2>1. pc[r] \notin {"device", "reply", "idle"} /\ call' = call
      BY <1>6 DEF Handler, AuthUser, PushBegin, PushLookup, PushReplay, PushOp,
                  PushCommit, PullTop, PullPage
    <2>2. CASE q # r
      BY <1>4, <1>6, <2>2 DEF Handler, AuthUser, PushBegin, PushLookup, PushReplay,
             PushOp, PushCommit, PullTop, PullPage, Answer
    <2>3. CASE q = r
      BY <1>0, <2>1, <2>3
    <2> QED BY <2>2, <2>3
  <1>7. ASSUME NEW r \in Reqs, NEW c, Send(r, c),
               ~c.live => devRow[c.dev] # "active"
        PROVE  Refused(q)'
    <2>1. CASE q # r
      BY <1>4, <1>7, <2>1 DEF Send
    <2>2. CASE q = r
      <3>1. /\ call'[q] = c /\ pc'[q] = "device" /\ devRow' = devRow
            /\ reply'[q] = NoReply
        BY <1>7, <2>2 DEF Send, CallOK
      <3> QED BY <1>7, <3>1, ReplyKinds
    <2> QED BY <2>1, <2>2
  <1>8. ASSUME NEW r \in Reqs, Client(r) PROVE Refused(q)'
    <2>1. CASE ReceivePage(r) \/ Finish(r)
      <3>1. CASE q # r
        BY <1>4, <2>1, <3>1 DEF ReceivePage, Finish, Forget
      <3>2. CASE q = r
        BY <2>1, <3>2 DEF ReceivePage, Finish, Forget
      <3> QED BY <3>1, <3>2
    <2>2. ASSUME NEW d \in Devices, NEW limit \in PageLimits, SendPull(r, d, limit)
          PROVE  Refused(q)'
      BY <1>7, <2>2 DEF SendPull
    <2>3. ASSUME NEW d \in Devices, NEW batch \in BatchesOf[d], NEW key \in Keys,
                 NEW seen \in {0, cursor[d]}, SendPush(r, d, batch, key, seen)
          PROVE  Refused(q)'
      BY <1>7, <2>3 DEF SendPush
    <2> QED BY <1>8, <2>1, <2>2, <2>3 DEF Client
  <1>9. ASSUME NEW r \in Reqs, Fail(r) PROVE Refused(q)'
    <2>1. CASE q # r
      BY <1>4, <1>9, <2>1 DEF Fail, Answer
    <2>2. CASE q = r
      <3>1. devRow' = devRow /\ call' = call /\ pc'[r] = "reply" /\ reply'[r] = Failed
        BY <1>9 DEF Fail, Answer
      <3> QED BY <1>0, <2>2, <3>1, ReplyKinds
    <2> QED BY <2>1, <2>2
  <1>10. CASE Crash
    BY <1>10 DEF Crash
  <1>11. CASE Administration \/ UNCHANGED vars
    BY <1>4, <1>11 DEF Administration, RevokeDevice, DropDevice, ToggleBlock,
                       DeleteUser, ExpireKeys, vars
  <1> HIDE DEF Refused
  <1> QED
    BY <1>5, <1>6, <1>8, <1>9, <1>10, <1>11 DEF Next

\* A request sent after its device was revoked or deleted is never served,
\* whatever was read, blocked or deleted in between.
THEOREM RevokedIsRefused == Spec => []RevokedNeverServed
  <1>1. Init /\ TypeInv => AccessInv
    BY DEF Init, AccessInv, RevokedNeverServed, AccessLost
  <1>2. Spec => []TypeInv
    BY ConnInvariant, PTL DEF ConnInv
  <1>3. AccessInv => RevokedNeverServed
    BY DEF AccessInv
  <1> QED BY <1>1, <1>2, <1>3, NextAccess, PTL DEF Spec

-----------------------------------------------------------------------------
(* Batches.                                                                *)

IdsOf(rows) == {row.id : row \in rows}

\* What the transaction has gone through of its request's batch.
Sent(r) == {call[r].batch[i].id : i \in 1..(work.next - 1)}

\* The rows a transaction has added have ids the log did not have, are what it
\* has accepted, and leave none of the operations it went through without one.
BatchOK ==
    conn \in Reqs =>
        /\ work.accepted = IdsOf(NewRows)
        /\ \A x \in NewRows, y \in ops : x.id # y.id
        /\ IdsOf(work.ops) = IdsOf(ops) \cup Sent(conn)
        /\ work.next <= Len(call[conn].batch) + 1

BatchInv == LogInv /\ BatchOK

LEMMA ApplyOpIds ==
    ASSUME NEW w \in Work, NEW d \in Devices, NEW op \in Operation,
           NEW seen \in Nat, NEW w2, w2 = ApplyOp(w, Scope(d), d, op, seen)
    PROVE  /\ w2.next = w.next + 1
           /\ \/ /\ w2.ops = w.ops /\ w2.accepted = w.accepted
                 /\ op.id \in IdsOf(w.ops)
              \/ \E row \in OpRow :
                    /\ w2.ops = w.ops \cup {row} /\ row.id = op.id
                    /\ w2.accepted = w.accepted \cup {op.id}
                    /\ op.id \notin IdsOf(w.ops)
  <1>1. CASE IdTaken(w.ops, op.id)
    BY <1>1 DEF ApplyOp, Work, IdTaken, IdsOf
  <1>2. CASE ~IdTaken(w.ops, op.id)
    <2> DEFINE row == [id |-> op.id, seq |-> NextSeq(w), scope |-> Scope(d),
                       device |-> d, entity |-> op.entity, type |-> op.type,
                       seen |-> seen]
    <2>1. /\ w2.ops = w.ops \cup {row} /\ w2.accepted = w.accepted \cup {op.id}
          /\ w2.next = w.next + 1
      BY <1>2 DEF ApplyOp, Work
    <2>2. row.id = op.id /\ op.id \notin IdsOf(w.ops) /\ row \in OpRow
      BY <1>2, ScopeType DEF IdTaken, IdsOf, OpRow, Operation, NextSeq, Work
    <2> HIDE DEF row
    <2> QED BY <2>1, <2>2
  <1> QED BY <1>1, <1>2

LEMMA PushOpBatchOK ==
    ASSUME BatchInv, NEW r \in Reqs, PushOp(r)
    PROVE  BatchOK'
  <1> USE DEF BatchInv, LogInv, ConnInv, TypeInv, TypeOK
  <1>1. conn = r /\ UNCHANGED <<ops, lastRev, conn, call>>
    BY DEF PushOp, db, ConnHeld, InTx
  <1>2. call[r] \in PushCall /\ work \in Work
    BY DEF PushOp, CallOK, InTx
  <1> DEFINE op == call[r].batch[work.next]
  <1>3. /\ work.next \in 1..Len(call[r].batch) /\ op \in Operation
        /\ Len(call[r].batch) \in Nat
    BY <1>2 DEF PushOp, PushCall, Work
  <1>4. /\ work'.next = work.next + 1
        /\ \/ /\ work'.ops = work.ops /\ work'.accepted = work.accepted
              /\ op.id \in IdsOf(work.ops)
           \/ \E row \in OpRow :
                 /\ work'.ops = work.ops \cup {row} /\ row.id = op.id
                 /\ work'.accepted = work.accepted \cup {op.id}
                 /\ op.id \notin IdsOf(work.ops)
    <2>1. work' = ApplyOp(work, Scope(call[r].dev), call[r].dev, op, call[r].seen)
      BY DEF PushOp
    <2>2. call[r].dev \in Devices /\ call[r].seen \in Nat
      BY <1>2 DEF PushCall
    <2> HIDE DEF op
    <2> QED BY ONLY <1>2, <1>3, <2>1, <2>2, ApplyOpIds
  <1>5. Sent(r)' = Sent(r) \cup {op.id}
    <2>1. 1..(work'.next - 1) = (1..(work.next - 1)) \cup {work.next}
      BY <1>3, <1>4
    <2> QED BY <1>1, <2>1 DEF Sent
  <1>6. work'.next <= Len(call[r].batch) + 1
    BY <1>3, <1>4
  <1> HIDE DEF op
  <1>7. CASE /\ work'.ops = work.ops /\ work'.accepted = work.accepted
             /\ op.id \in IdsOf(work.ops)
    BY <1>1, <1>5, <1>6, <1>7 DEF BatchOK, NewRows, IdsOf
  <1>8. ASSUME NEW row \in OpRow, work'.ops = work.ops \cup {row}, row.id = op.id,
               work'.accepted = work.accepted \cup {op.id},
               op.id \notin IdsOf(work.ops)
        PROVE  BatchOK'
    <2>1. ops \subseteq work.ops
      BY <1>1 DEF TxOK
    <2>2. row \notin ops /\ \A y \in ops : row.id # y.id
      BY <1>8, <2>1 DEF IdsOf
    <2>3. NewRows' = NewRows \cup {row}
      BY <1>1, <1>8, <2>2 DEF NewRows
    <2>4. IdsOf(NewRows') = IdsOf(NewRows) \cup {op.id}
      BY <1>8, <2>3 DEF IdsOf
    <2>5. IdsOf(work'.ops) = IdsOf(work.ops) \cup {op.id}
      BY <1>8 DEF IdsOf
    <2>6. \A x \in NewRows', y \in ops' : x.id # y.id
      BY <1>1, <2>2, <2>3 DEF BatchOK
    <2>7. IdsOf(ops)' = IdsOf(ops)
      BY <1>1 DEF IdsOf
    <2> QED BY <1>1, <1>5, <1>6, <1>8, <2>4, <2>5, <2>6, <2>7 DEF BatchOK, IdsOf
  <1> QED BY <1>4, <1>7, <1>8

LEMMA NextBatchOK == BatchInv /\ [Next]_vars => BatchOK'
  <1> SUFFICES ASSUME BatchInv, [Next]_vars PROVE BatchOK'
    OBVIOUS
  <1> USE DEF BatchInv, LogInv, ConnInv
  <1>1. conn \in Reqs \cup {NoReq}
    BY DEF TypeInv, TypeOK
  <1>2. CASE conn' = NoReq
    BY <1>2, ReqAssumption DEF BatchOK
  <1>3. ASSUME UNCHANGED <<ops, conn, work>>,
               conn \in Reqs => call'[conn] = call[conn]
        PROVE  BatchOK'
    BY <1>3 DEF BatchOK, NewRows, IdsOf, Sent
  <1>4. ASSUME NEW r \in Reqs, PushBegin(r) PROVE BatchOK'
    <2>1. CASE UNCHANGED tx
      BY <1>3, <1>4, <2>1 DEF PushBegin, db, tx
    <2>2. CASE conn' = r /\ work' = Snapshot
      <3>1. /\ work'.ops = ops /\ work'.next = 1 /\ work'.accepted = {}
            /\ ops' = ops /\ call' = call
        BY <1>4, <2>2 DEF PushBegin, Snapshot, db
      <3>2. call[r] \in PushCall
        BY <1>4 DEF PushBegin, TypeInv, CallOK
      <3>3. Len(call[r].batch) \in Nat
        BY <3>2 DEF PushCall
      <3>4. Sent(r)' = {} /\ NewRows' = {}
        BY <3>1 DEF Sent, NewRows
      <3> QED BY <2>2, <3>1, <3>3, <3>4 DEF BatchOK, IdsOf
    <2> QED BY <1>4, <2>1, <2>2 DEF PushBegin
  <1>5. ASSUME NEW r \in Reqs, PushOp(r) PROVE BatchOK'
    BY <1>5, PushOpBatchOK
  <1>6. ASSUME NEW r \in Reqs, Handler(r), ~PushBegin(r), ~PushOp(r)
        PROVE  BatchOK'
    BY <1>2, <1>3, <1>6
    DEF Handler, AuthDevice, AuthUser, PushLookup, PushReplay, PushCommit,
        PullTop, PullPage, ReleaseConn, db, tx
  <1>7. ASSUME NEW r \in Reqs, Client(r) PROVE BatchOK'
    <2>1. conn # r
      BY <1>7 DEF Client, SendPush, SendPull, Send, ReceivePage, Finish, ConnHeld,
                  InTx
    <2>2. \A q \in Reqs : q # r => call'[q] = call[q]
      BY <1>7 DEF Client, SendPush, SendPull, Send, ReceivePage, Finish, Forget,
                  TypeInv, TypeOK
    <2> QED
      BY <1>3, <1>7, <2>1, <2>2
      DEF Client, SendPush, SendPull, Send, ReceivePage, Finish, db, tx
  <1>8. ASSUME NEW r \in Reqs, Fail(r) PROVE BatchOK'
    BY <1>2, <1>3, <1>8 DEF Fail, ReleaseConn, db, tx
  <1>9. CASE Crash
    BY <1>2, <1>9 DEF Crash, ReleaseConn
  <1>10. CASE Administration
    BY <1>1, <1>2, <1>10
    DEF Administration, RevokeDevice, DropDevice, ToggleBlock, DeleteUser,
        ExpireKeys, ConnFree, tx
  <1>11. CASE UNCHANGED vars
    BY <1>3, <1>11 DEF vars
  <1> QED
    BY <1>4, <1>5, <1>6, <1>7, <1>8, <1>9, <1>10, <1>11 DEF Next

LEMMA BatchInvariant == Spec => []BatchInv
  <1>1. Init /\ LogInv => BatchInv
    BY ReqAssumption DEF Init, BatchInv, BatchOK
  <1>2. BatchInv /\ [Next]_vars /\ LogInv' => BatchInv'
    BY NextBatchOK DEF BatchInv
  <1> QED BY <1>1, <1>2, LogInvariant, PTL DEF Spec

\* A push enters the log whole or not at all, whatever fails on the way.
THEOREM BatchesAreAtomic == Spec => BatchAtomic
  <1> DEFINE Whole ==
         ops' \ ops # {} =>
          \E r \in Reqs :
              /\ call[r].kind = "push"
              /\ {row.id : row \in ops' \ ops} =
                    {call[r].batch[i].id : i \in 1..Len(call[r].batch)}
                        \ {row.id : row \in ops}
  <1>1. BatchInv /\ [Next]_vars => [Whole]_vars
    <2> SUFFICES ASSUME BatchInv, [Next]_vars PROVE Whole
      OBVIOUS
    <2> USE DEF BatchInv, LogInv, ConnInv
    <2>1. ASSUME NEW r \in Reqs, PushCommit(r) PROVE Whole
      <3>1. /\ conn = r /\ ops' = work.ops /\ call[r] \in PushCall
            /\ work.next > Len(call[r].batch) /\ work \in Work
        BY <2>1 DEF PushCommit, ConnHeld, InTx, TypeInv, CallOK, TypeOK
      <3>2. work.next - 1 = Len(call[r].batch)
        BY <3>1 DEF BatchOK, Work, PushCall
      <3>3. IdsOf(NewRows) = Sent(r) \ IdsOf(ops)
        <4>1. IdsOf(work.ops) = IdsOf(ops) \cup Sent(r)
          BY <3>1 DEF BatchOK
        <4>2. IdsOf(work.ops) = IdsOf(ops) \cup IdsOf(NewRows)
          BY <3>1 DEF TxOK, NewRows, IdsOf
        <4>3. IdsOf(NewRows) \cap IdsOf(ops) = {}
          BY <3>1 DEF BatchOK, IdsOf
        <4> QED BY <4>1, <4>2, <4>3
      <3>4. call[r].kind = "push"
        BY <3>1, CallKinds
      <3> QED BY <3>1, <3>2, <3>3, <3>4 DEF NewRows, IdsOf, Sent
    <2>2. CASE ops' \subseteq ops
      BY <2>2
    <2> HIDE DEF Whole
    <2> QED BY <2>1, <2>2, OnlyCommitsAppend
  <1> QED BY <1>1, BatchInvariant, PTL DEF Spec, BatchAtomic

-----------------------------------------------------------------------------
(* Answers.                                                                *)

HasRow(id, scope) == \E row \in ops : row.id = id /\ row.scope = scope

\* What a stored answer accepts is in the log of its scope: users are deleted
\* with their rows and their answers.
StoredOK == \A e \in idem : \A id \in e.resp.accepted : HasRow(id, e.scope)

AnswerInv == BatchInv /\ StoredOK /\ AcceptedOnce /\ AcceptedIsStored

\* The row and the answer a commit adds.
LEMMA CommitSteps ==
    ASSUME BatchInv, NEW r \in Reqs, PushCommit(r),
           NEW resp, resp = [accepted |-> work.accepted,
                             conflicts |-> work.conflicts]
    PROVE  /\ call[r] \in PushCall /\ UNCHANGED <<call, userRow>>
           /\ ops \subseteq ops'
           /\ \A id \in resp.accepted : /\ HasRow(id, Scope(call[r].dev))'
                                        /\ \A y \in ops : y.id # id
           /\ \/ idem' = idem
              \/ idem' = idem \cup {[scope |-> Scope(call[r].dev),
                                     key |-> call[r].key, resp |-> resp]}
           /\ reply' = [reply EXCEPT ![r] =
                           [kind |-> "push", resp |-> resp, cached |-> FALSE]]
  <1> USE DEF BatchInv, LogInv, ConnInv
  <1>1. /\ conn = r /\ ops' = work.ops /\ call[r] \in PushCall
        /\ UNCHANGED <<call, userRow>>
    BY DEF PushCommit, ConnHeld, InTx, TypeInv, CallOK, accounts
  <1>2. ops \subseteq work.ops
    BY <1>1 DEF TxOK
  <1>3. ASSUME NEW id \in work.accepted
        PROVE  HasRow(id, Scope(call[r].dev))' /\ \A y \in ops : y.id # id
    <2>1. PICK x \in NewRows : x.id = id
      BY <1>1, <1>3 DEF BatchOK, IdsOf
    <2>2. x.scope = Scope(call[r].dev) /\ \A y \in ops : y.id # x.id
      BY <1>1 DEF TxOK, BatchOK
    <2>3. x \in ops'
      BY <1>1 DEF NewRows
    <2> QED BY <1>1, <2>1, <2>2, <2>3 DEF HasRow
  <1>4. \/ idem' = idem
        \/ idem' = idem \cup {[scope |-> Scope(call[r].dev),
                               key |-> call[r].key, resp |-> resp]}
    BY DEF PushCommit
  <1>5. reply' = [reply EXCEPT ![r] =
                     [kind |-> "push", resp |-> resp, cached |-> FALSE]]
    BY DEF PushCommit, Answer
  <1> QED BY <1>1, <1>2, <1>3, <1>4, <1>5

\* Other steps than commits and deletions leave the log alone, and answers
\* only go.
LEMMA OtherSteps ==
    ASSUME [Next]_vars
    PROVE  \/ \E r \in Reqs : PushCommit(r)
           \/ \E u \in Users : DeleteUser(u)
           \/ /\ ops' = ops /\ idem' \subseteq idem
              /\ \/ userRow' = userRow
                 \/ UNCHANGED <<call, reply>> /\ \E u \in Users : ToggleBlock(u)
  <1> USE DEF accounts, db, tx, clients
  <1>1. ASSUME NEW r \in Reqs, Handler(r), ~PushCommit(r)
        PROVE  ops' = ops /\ idem' \subseteq idem /\ userRow' = userRow
    BY <1>1 DEF Handler, AuthDevice, AuthUser, PushBegin, PushLookup, PushReplay,
                PushOp, PullTop, PullPage
  <1>2. ASSUME NEW r \in Reqs, Client(r) \/ Fail(r)
        PROVE  ops' = ops /\ idem' \subseteq idem /\ userRow' = userRow
    BY <1>2 DEF Client, SendPush, SendPull, Send, ReceivePage, Finish, Fail
  <1>3. CASE Crash \/ UNCHANGED vars
    BY <1>3 DEF Crash, vars
  <1>4. CASE Administration
    <2>1. CASE \E u \in Users : ToggleBlock(u)
      BY <2>1 DEF ToggleBlock
    <2>2. CASE ExpireKeys \/ \E d \in Devices : RevokeDevice(d) \/ DropDevice(d)
      BY <2>2 DEF ExpireKeys, RevokeDevice, DropDevice
    <2> QED BY <1>4, <2>1, <2>2 DEF Administration
  <1> QED BY <1>1, <1>2, <1>3, <1>4 DEF Next

LEMMA NextStoredOK == AnswerInv /\ [Next]_vars => StoredOK' /\ AcceptedOnce'
  <1> SUFFICES ASSUME AnswerInv, [Next]_vars PROVE StoredOK' /\ AcceptedOnce'
    OBVIOUS
  <1>0. BatchInv /\ StoredOK /\ AcceptedOnce
    BY DEF AnswerInv
  <1>1. ASSUME NEW r \in Reqs, PushCommit(r) PROVE StoredOK' /\ AcceptedOnce'
    <2> DEFINE resp == [accepted |-> work.accepted, conflicts |-> work.conflicts]
               e == [scope |-> Scope(call[r].dev), key |-> call[r].key,
                     resp |-> resp]
    <2>1. /\ ops \subseteq ops'
          /\ \A id \in resp.accepted : /\ HasRow(id, Scope(call[r].dev))'
                                       /\ \A y \in ops : y.id # id
          /\ idem' = idem \/ idem' = idem \cup {e}
      BY <1>0, <1>1, CommitSteps
    <2>2. e.resp = resp /\ e.scope = Scope(call[r].dev)
      OBVIOUS
    <2>3. Scope(call[r].dev)' = Scope(call[r].dev)
      BY <1>1 DEF PushCommit
    <2> HIDE DEF resp, e
    <2>4. StoredOK'
      BY <1>0, <2>1, <2>2, <2>3 DEF StoredOK, HasRow
    <2>5. \A x \in idem : x.resp.accepted \cap resp.accepted = {}
      BY <1>0, <2>1 DEF StoredOK, HasRow
    <2>6. AcceptedOnce'
      BY <1>0, <2>1, <2>2, <2>5 DEF AcceptedOnce
    <2> QED BY <2>4, <2>6
  <1>2. ASSUME NEW u \in Users, DeleteUser(u) PROVE StoredOK' /\ AcceptedOnce'
    <2>1. ops' = ops \ OwnedBy(ops, u) /\ idem' = idem \ OwnedBy(idem, u)
      BY <1>2 DEF DeleteUser
    <2>2. \A e \in idem' : e \in idem /\ e.scope[1] # u
      BY <2>1 DEF OwnedBy
    <2>3. \A row \in ops : row.scope[1] # u => row \in ops'
      BY <2>1 DEF OwnedBy
    <2> QED BY <1>0, <2>2, <2>3 DEF StoredOK, HasRow, AcceptedOnce
  <1>3. CASE ops' = ops /\ idem' \subseteq idem
    BY <1>0, <1>3 DEF StoredOK, HasRow, AcceptedOnce
  <1> QED BY <1>1, <1>2, <1>3, OtherSteps

\* An answer that a handler has ready is kept, dropped, or comes from the
\* store or a commit.
LEMMA PushReplies ==
    ASSUME AnswerInv, [Next]_vars, NEW q \in Reqs, reply'[q].kind = "push"
    PROVE  \/ reply'[q] = reply[q] /\ call'[q] = call[q]
           \/ /\ PushLookup(q)
              /\ \E e \in idem : /\ e.scope = Scope(call[q].dev)
                                 /\ reply'[q].resp = e.resp
           \/ PushCommit(q)
  <1> USE ReplyKinds DEF AnswerInv, BatchInv, LogInv, ConnInv, TypeInv, TypeOK
  <1> DEFINE Kept == reply'[q] = reply[q] /\ call'[q] = call[q]
  <1>1. ASSUME NEW r \in Reqs, Handler(r), ~PushLookup(r), ~PushCommit(r)
        PROVE  Kept
    BY <1>1 DEF Handler, AuthDevice, AuthUser, PushBegin, PushReplay, PushOp,
                PullTop, PullPage, Answer
  <1>2. ASSUME NEW r \in Reqs, PushLookup(r)
        PROVE  \/ Kept
               \/ q = r /\ \E e \in idem : /\ e.scope = Scope(call[q].dev)
                                           /\ reply'[q].resp = e.resp
    BY <1>2 DEF PushLookup, CachedAnswers
  <1>3. ASSUME NEW r \in Reqs, PushCommit(r)
        PROVE  Kept \/ q = r
    BY <1>3 DEF PushCommit, Answer
  <1>4. ASSUME NEW r \in Reqs, Client(r) PROVE Kept
    BY <1>4 DEF Client, SendPush, SendPull, Send, ReceivePage, Finish, Forget,
                CallOK
  <1>5. ASSUME NEW r \in Reqs, Fail(r) PROVE Kept
    BY <1>5 DEF Fail, Answer
  <1>6. ASSUME Crash PROVE Kept
    BY <1>6 DEF Crash
  <1>7. ASSUME Administration \/ UNCHANGED vars PROVE Kept
    BY <1>7 DEF Administration, RevokeDevice, DropDevice, ToggleBlock, DeleteUser,
                ExpireKeys, vars
  <1> HIDE DEF Kept
  <1>8. \/ \E r \in Reqs : \/ Handler(r) /\ ~PushLookup(r) /\ ~PushCommit(r)
                           \/ PushLookup(r) \/ PushCommit(r)
                           \/ Client(r) \/ Fail(r)
        \/ Crash \/ Administration \/ UNCHANGED vars
    BY DEF Next
  <1>9. \/ Kept \/ PushCommit(q)
        \/ /\ PushLookup(q)
           /\ \E e \in idem : /\ e.scope = Scope(call[q].dev)
                              /\ reply'[q].resp = e.resp
    BY ONLY <1>1, <1>2, <1>3, <1>4, <1>5, <1>6, <1>7, <1>8
  <1> QED BY <1>9 DEF Kept

LEMMA NextAcceptedIsStored ==
    AnswerInv /\ [Next]_vars /\ BatchInv' => AcceptedIsStored'
  <1> SUFFICES ASSUME AnswerInv, [Next]_vars, BatchInv',
                      NEW q \in Reqs, reply'[q].kind = "push",
                      userRow'[OwnerOf[call'[q].dev]] # "absent"
               PROVE  \A id \in reply'[q].resp.accepted :
                         HasRow(id, Scope(call[q].dev))'
    BY DEF AcceptedIsStored, HasRow
  <1>0. BatchInv /\ StoredOK /\ AcceptedIsStored
    BY DEF AnswerInv
  <1> DEFINE Goal == \A id \in reply'[q].resp.accepted :
                        HasRow(id, Scope(call[q].dev))'
  <1>1. ASSUME PushCommit(q) PROVE Goal
    <2> DEFINE resp == [accepted |-> work.accepted, conflicts |-> work.conflicts]
    <2>1. /\ \A id \in resp.accepted : HasRow(id, Scope(call[q].dev))'
          /\ reply' = [reply EXCEPT ![q] =
                          [kind |-> "push", resp |-> resp, cached |-> FALSE]]
      BY <1>0, <1>1, CommitSteps
    <2>2. reply'[q].resp = resp
      BY <1>0, <2>1 DEF BatchInv, LogInv, ConnInv, TypeInv, TypeOK
    <2> HIDE DEF resp
    <2> QED BY <2>1, <2>2
  <1>2. ASSUME PushLookup(q), NEW e \in idem, e.scope = Scope(call[q].dev),
               reply'[q].resp = e.resp
        PROVE  Goal
    <2>1. UNCHANGED <<ops, call>>
      BY <1>2 DEF PushLookup, db
    <2> QED BY <1>0, <1>2, <2>1 DEF StoredOK, HasRow
  <1>3. ASSUME reply'[q] = reply[q], call'[q] = call[q] PROVE Goal
    <2>1. call[q].dev \in Devices /\ OwnerOf[call[q].dev] \in Users
      <3>1. call[q] \in PushCall
        BY <1>0, <1>3 DEF BatchInv, LogInv, ConnInv, TypeInv, CallOK
      <3> QED BY <3>1, DeviceAssumption, CallKinds
    <2>2. userRow[OwnerOf[call[q].dev]] # "absent"
      <3>1. CASE userRow' = userRow
        BY <1>3, <3>1
      <3>2. ASSUME NEW u \in Users, ToggleBlock(u) \/ DeleteUser(u)
            PROVE  userRow[OwnerOf[call[q].dev]] # "absent"
        BY <1>0, <1>3, <2>1, <3>2
        DEF ToggleBlock, DeleteUser, BatchInv, LogInv, ConnInv, TypeInv, TypeOK
      <3>3. ASSUME NEW r \in Reqs, PushCommit(r) PROVE userRow' = userRow
        BY <3>3 DEF PushCommit, accounts
      <3> QED BY <3>1, <3>2, <3>3, OtherSteps
    <2>3. ASSUME NEW id \in reply[q].resp.accepted
          PROVE  HasRow(id, Scope(call[q].dev))
      BY <1>0, <1>3, <2>2, <2>3 DEF AcceptedIsStored, HasRow
    <2>4. CASE ops \subseteq ops'
      BY <1>3, <2>3, <2>4 DEF HasRow
    <2>5. ASSUME NEW u \in Users, DeleteUser(u) PROVE Goal
      <3>1. ops' = ops \ OwnedBy(ops, u) /\ userRow'[u] = "absent"
        BY <1>0, <2>5
        DEF DeleteUser, BatchInv, LogInv, ConnInv, TypeInv, TypeOK
      <3>2. OwnerOf[call[q].dev] # u
        BY <1>3, <3>1
      <3>3. Scope(call[q].dev)[1] # u
        BY <3>2 DEF Scope
      <3> QED BY <1>3, <2>3, <3>1, <3>3 DEF HasRow, OwnedBy
    <2>6. ASSUME NEW r \in Reqs, PushCommit(r) PROVE ops \subseteq ops'
      BY <1>0, <2>6, CommitSteps
    <2> HIDE DEF Goal
    <2> QED BY <2>4, <2>5, <2>6, OtherSteps
  <1> HIDE DEF Goal
  <1>4. Goal
    BY <1>1, <1>2, <1>3, PushReplies
  <1> QED BY <1>4 DEF Goal

LEMMA AnswerInvariant == Spec => []AnswerInv
  <1>1. Init /\ BatchInv => AnswerInv
    BY ReplyKinds DEF Init, AnswerInv, StoredOK, AcceptedOnce, AcceptedIsStored
  <1>2. AnswerInv /\ [Next]_vars /\ BatchInv' => AnswerInv'
    BY NextStoredOK, NextAcceptedIsStored DEF AnswerInv
  <1> QED BY <1>1, <1>2, BatchInvariant, PTL DEF Spec

\* What a client is told was accepted is in the log of its own scope as long as
\* its user exists: told by the push itself or by an answer stored before.
THEOREM AnswersAreTrue == Spec => []AcceptedIsStored
  BY AnswerInvariant, PTL DEF AnswerInv

\* No operation is accepted by two pushes, however often it is sent again.
THEOREM NothingIsAcceptedTwice == Spec => []AcceptedOnce
  BY AnswerInvariant, PTL DEF AnswerInv

-----------------------------------------------------------------------------
(* The refinement.                                                         *)

\* As long as a user exists, pages on their way hold what the log holds.
PagesStored ==
    \A r \in Reqs :
        reply[r].kind = "pull" /\ userRow[OwnerOf[call[r].dev]] # "absent" =>
            reply[r].page \subseteq ops

PageInv == CursorInv /\ ScopeInv /\ PagesStored

\* Pages are kept, dropped, or read from the log.
LEMMA PullReplies ==
    ASSUME CursorInv, [Next]_vars, NEW q \in Reqs, reply'[q].kind = "pull"
    PROVE  \/ reply'[q] = reply[q] /\ call'[q] = call[q]
           \/ reply'[q].page \subseteq ops /\ PullPage(q)
  <1> USE ReplyKinds DEF CursorInv, LogInv, ConnInv, TypeInv, TypeOK
  <1> DEFINE Kept == reply'[q] = reply[q] /\ call'[q] = call[q]
  <1>1. ASSUME NEW r \in Reqs, Handler(r), ~PullPage(r)
        PROVE  Kept
    BY <1>1 DEF Handler, AuthDevice, AuthUser, PushBegin, PushLookup, PushReplay,
                PushOp, PushCommit, PullTop, Answer
  <1>2. ASSUME NEW r \in Reqs, PullPage(r)
        PROVE  Kept \/ (q = r /\ reply'[q].page \subseteq ops)
    <2> DEFINE limit == PullPageLimit(call[r].limit)
               rows == FirstBySeq(RowsAfter(ops, Scope(call[r].dev), call[r].since),
                                  limit + 1)
               page == FirstBySeq(rows, limit)
    <2>1. page \subseteq ops
      BY DEF FirstBySeq, RowsAfter, InScope
    <2>2. PICK last : reply' = [reply EXCEPT ![r] =
                         [kind |-> "pull", page |-> page, last |-> last,
                          more |-> HasMore(rows, limit), top |-> top[r]]]
      BY <1>2 DEF PullPage, Answer
    <2>3. call' = call
      BY <1>2 DEF PullPage
    <2> HIDE DEF rows, page, limit
    <2> QED BY <2>1, <2>2, <2>3
  <1>3. ASSUME NEW r \in Reqs, Client(r) PROVE Kept
    BY <1>3 DEF Client, SendPush, SendPull, Send, ReceivePage, Finish, Forget,
                CallOK
  <1>4. ASSUME NEW r \in Reqs, Fail(r) PROVE Kept
    BY <1>4 DEF Fail, Answer
  <1>5. ASSUME Crash PROVE Kept
    BY <1>5 DEF Crash
  <1>6. ASSUME Administration \/ UNCHANGED vars PROVE Kept
    BY <1>6 DEF Administration, RevokeDevice, DropDevice, ToggleBlock, DeleteUser,
                ExpireKeys, vars
  <1> HIDE DEF Kept
  <1>7. \/ \E r \in Reqs : \/ Handler(r) /\ ~PullPage(r)
                           \/ PullPage(r) \/ Client(r) \/ Fail(r)
        \/ Crash \/ Administration \/ UNCHANGED vars
    BY DEF Next
  <1>8. \/ Kept
        \/ reply'[q].page \subseteq ops /\ PullPage(q)
    BY ONLY <1>1, <1>2, <1>3, <1>4, <1>5, <1>6, <1>7
  <1> QED BY <1>8 DEF Kept

LEMMA NextPagesStored == PageInv /\ [Next]_vars => PagesStored'
  <1> SUFFICES ASSUME PageInv, [Next]_vars, NEW q \in Reqs,
                      reply'[q].kind = "pull",
                      userRow'[OwnerOf[call'[q].dev]] # "absent"
               PROVE  reply'[q].page \subseteq ops'
    BY DEF PagesStored
  <1>0. LogInv /\ CursorInv /\ ScopeIsolation /\ PagesStored
    BY DEF PageInv, CursorInv, ScopeInv
  <1>1. CASE reply'[q].page \subseteq ops /\ PullPage(q)
    BY <1>1 DEF PullPage, db
  <1>2. CASE reply'[q] = reply[q] /\ call'[q] = call[q]
    <2>1. call[q].dev \in Devices /\ OwnerOf[call[q].dev] \in Users
      <3>1. call[q] \in PullCall
        BY <1>0, <1>2 DEF LogInv, ConnInv, TypeInv, CallOK
      <3> QED BY <3>1, DeviceAssumption, CallKinds
    <2>2. userRow[OwnerOf[call[q].dev]] # "absent"
      <3>1. CASE userRow' = userRow
        BY <1>2, <3>1
      <3>2. ASSUME NEW u \in Users, ToggleBlock(u) \/ DeleteUser(u)
            PROVE  userRow[OwnerOf[call[q].dev]] # "absent"
        BY <1>0, <1>2, <2>1, <3>2
        DEF ToggleBlock, DeleteUser, LogInv, ConnInv, TypeInv, TypeOK
      <3>3. ASSUME NEW r \in Reqs, PushCommit(r) PROVE userRow' = userRow
        BY <3>3 DEF PushCommit, accounts
      <3> QED BY <3>1, <3>2, <3>3, OtherSteps
    <2>3. reply[q].page \subseteq ops
      BY <1>0, <1>2, <2>2 DEF PagesStored
    <2>4. CASE ops' = ops
      BY <1>2, <2>3, <2>4
    <2>5. ASSUME NEW u \in Users, DeleteUser(u) PROVE reply'[q].page \subseteq ops'
      <3>1. ops' = ops \ OwnedBy(ops, u) /\ userRow'[u] = "absent"
        BY <1>0, <2>5 DEF DeleteUser, LogInv, ConnInv, TypeInv, TypeOK
      <3>2. OwnerOf[call[q].dev] # u
        BY <1>2, <3>1
      <3>3. \A row \in reply[q].page : row.scope[1] # u
        BY <1>0, <1>2, <3>2 DEF Scope, ScopeIsolation
      <3> QED BY <1>2, <2>3, <3>1, <3>3 DEF OwnedBy
    <2>6. ASSUME NEW r \in Reqs, PushCommit(r) PROVE reply'[q].page \subseteq ops'
      <3>1. ops \subseteq ops'
        BY <1>0, <2>6 DEF PushCommit, LogInv, ConnInv, ConnHeld, InTx, TxOK
      <3> QED BY <1>2, <2>3, <3>1
    <2> QED BY <2>4, <2>5, <2>6, OtherSteps
  <1> QED BY <1>1, <1>2, PullReplies, <1>0

LEMMA PageInvariant == Spec => []PageInv
  <1>1. Init /\ CursorInv /\ ScopeInv => PageInv
    BY ReplyKinds DEF Init, PageInv, PagesStored
  <1>2. PageInv /\ [Next]_vars /\ CursorInv' /\ ScopeInv' => PageInv'
    BY NextPagesStored DEF PageInv
  <1> QED BY <1>1, <1>2, CursorInvariant, ScopeInvariant, PTL DEF Spec

\* The mapped variables of VaultLog.
LogOf == [s \in Scopes |-> InScope(ops, s)]
Live == {s \in Scopes : userRow[s[1]] # "absent"}

LEMMA CommitAppends ==
    ASSUME PageInv, NEW r \in Reqs, PushCommit(r)
    PROVE  Logs!Append(Scope(call[r].dev))
  <1> USE DEF PageInv, CursorInv, LogInv, ConnInv
  <1> DEFINE s == Scope(call[r].dev)
  <1>1. /\ conn = r /\ ops' = work.ops /\ lastRev' = work.lastRev
        /\ UNCHANGED <<userRow, cursor, got>>
    BY DEF PushCommit, ConnHeld, InTx, accounts, clients
  <1>2. call[r].dev \in Devices
    BY CallKinds DEF PushCommit, TypeInv, CallOK, InTx
  <1>3. s \in Scopes
    BY <1>2, ScopeType
  <1>4. /\ ops \subseteq ops' /\ lastRev <= lastRev'
        /\ \A x \in ops' \ ops : x.seq \in (lastRev + 1)..lastRev' /\ x.scope = s
        /\ \A x, y \in ops' \ ops : x.seq = y.seq => x = y
    BY <1>1 DEF TxOK, NewRows
  <1>5. lastRev \in Nat /\ lastRev' \in Nat
    BY <1>1 DEF TypeInv, TypeOK, Work
  <1> HIDE DEF s
  <1>6. \A t \in Scopes : LogOf'[t] = IF t = s THEN LogOf[t] \cup (ops' \ ops)
                                      ELSE LogOf[t]
    BY <1>4 DEF LogOf, InScope
  <1>7. LogOf'[s] \ LogOf[s] \subseteq ops' \ ops
    BY <1>3, <1>4 DEF LogOf, InScope
  <1>8. LogOf' = [LogOf EXCEPT ![s] = @ \cup (LogOf'[s] \ LogOf[s])]
    BY <1>3, <1>6 DEF LogOf
  <1>9. \A row \in LogOf'[s] \ LogOf[s] : row.seq \in (lastRev + 1)..lastRev'
    BY <1>4, <1>7
  <1>10. Live' = Live
    BY <1>1 DEF Live
  <1> QED
    BY <1>1, <1>4, <1>5, <1>7, <1>8, <1>9, <1>10
    DEF Logs!Append, s, LogOf, Live

LEMMA DeletionDrops ==
    ASSUME PageInv, NEW u \in Users, DeleteUser(u)
    PROVE  Logs!Drop
  <1> USE DEF PageInv, CursorInv, LogInv, ConnInv, TypeInv, TypeOK
  <1>1. /\ ops' = ops \ OwnedBy(ops, u) /\ UNCHANGED <<lastRev, cursor, got>>
        /\ userRow' = [userRow EXCEPT ![u] = "absent"]
        /\ userRow[u] # "absent"
    BY DEF DeleteUser, clients
  <1>2. ASSUME NEW s \in Scopes PROVE s[1] \in Users
    BY <1>2, DeviceAssumption DEF Scopes, Scope
  <1>3. ASSUME NEW s \in Scopes
        PROVE  /\ s \in Live' => s \in Live
               /\ s \in Live \ Live' <=> s[1] = u
    BY <1>1, <1>2 DEF Live
  <1>4. ASSUME NEW s \in Scopes
        PROVE  InScope(ops, s)' = IF s[1] = u THEN {} ELSE InScope(ops, s)
    BY <1>1 DEF InScope, OwnedBy
  <1>5. LogOf' = [s \in Scopes |-> IF s \in Live \ Live' THEN {} ELSE LogOf[s]]
    BY <1>3, <1>4 DEF LogOf
  <1>6. Live' \subseteq Live
    BY <1>3 DEF Live
  <1> QED BY <1>1, <1>5, <1>6 DEF Logs!Drop, LogOf, Live

LEMMA ReceptionReads ==
    ASSUME PageInv, NEW r \in Reqs, ReceivePage(r)
    PROVE  Logs!Read(call[r].dev)
  <1> USE DEF PageInv, CursorInv, LogInv, ConnInv, TypeInv, TypeOK
  <1> DEFINE d == call[r].dev
  <1>1. reply[r] \in PullReply /\ call[r] \in PullCall /\ d \in Devices
    BY ReplyKinds, CallKinds DEF ReceivePage, CallOK, Reply
  <1>2. PICK stop \in {reply[r].last} \cup {row.seq : row \in reply[r].page} :
            /\ cursor' = [cursor EXCEPT ![d] = stop]
            /\ got' = [got EXCEPT ![d] =
                          @ \cup {row \in reply[r].page : row.seq <= stop}]
    BY DEF ReceivePage
  <1>3. UNCHANGED <<userRow, ops, lastRev>>
    BY DEF ReceivePage, db, accounts
  <1>4. /\ reply[r].last <= lastRev /\ Applied(d, call[r].since)
        /\ Contiguous(d, call[r].since, reply[r].page, reply[r].last)
    BY <1>1 DEF CursorOK, PullOK, ReceivePage
  <1>5. /\ reply[r].last \in Nat /\ call[r].since \in Nat
        /\ reply[r].page \subseteq OpRow
    BY <1>1 DEF PullReply, PullCall
  <1>6. stop \in Nat /\ stop <= reply[r].last
    BY <1>4, <1>5 DEF Contiguous, OpRow
  <1>7. stop \in 0..lastRev
    BY <1>4, <1>5, <1>6
  <1>8. got' = [got EXCEPT ![d] = got'[d]] /\ got[d] \subseteq got'[d]
    BY <1>1, <1>2
  <1>9. Scope(d) \in Scopes
    BY <1>1, ScopeType
  <1> DEFINE upTo == {row \in InScope(ops, Scope(d)) : row.seq <= stop}
  <1>10. upTo \subseteq got'[d]
    <2> SUFFICES ASSUME NEW row \in ops, row.scope = Scope(d), row.seq <= stop
                 PROVE  row \in got'[d]
      BY DEF InScope
    <2>1. row.seq \in Nat
      BY DEF OpRow
    <2>2. CASE row.seq <= call[r].since
      BY <1>1, <1>2, <1>4, <2>2 DEF Applied
    <2>3. CASE row.seq > call[r].since
      <3>1. row \in reply[r].page
        BY <1>4, <1>5, <1>6, <2>1, <2>3 DEF Contiguous
      <3> QED BY <1>1, <1>2, <3>1
    <2> QED BY <1>5, <2>1, <2>2, <2>3
  <1>11. ASSUME Scope(d) \in Live PROVE got'[d] = got[d] \cup upTo
    <2>1. userRow[OwnerOf[d]] # "absent"
      BY <1>11 DEF Live, Scope
    <2>2. reply[r].page \subseteq InScope(ops, Scope(d))
      BY <2>1 DEF PagesStored, ScopeInv, ScopeIsolation, InScope, ReceivePage
    <2>3. {row \in reply[r].page : row.seq <= stop} \subseteq upTo
      BY <2>2
    <2> HIDE DEF upTo
    <2> QED BY <1>1, <1>2, <1>8, <1>10, <2>3
  <1>12. /\ LogOf' = LogOf /\ Live' = Live
         /\ LogOf[Scope(d)] = InScope(ops, Scope(d))
    BY <1>3, <1>9 DEF LogOf, Live
  <1>13. [e \in Devices |-> Scope(e)][d] = Scope(d)
    BY <1>1
  <1> HIDE DEF d
  <1>14. Logs!Read(d)
    BY <1>1, <1>2, <1>3, <1>7, <1>8, <1>11, <1>12, <1>13
    DEF Logs!Read, Logs!UpTo, LogOf, Live
  <1> QED BY <1>14 DEF d

\* The other steps are not seen through the mapping.
LEMMA OthersStutter ==
    ASSUME PageInv, [Next]_vars,
           ~(\E r \in Reqs : PushCommit(r) \/ ReceivePage(r)),
           ~(\E u \in Users : DeleteUser(u))
    PROVE  UNCHANGED Logs!vars
  <1> USE DEF PageInv, CursorInv, LogInv, ConnInv
  <1>1. ops' = ops
    BY OtherSteps
  <1>2. lastRev' = lastRev
    BY OnlyCommitsAppend
  <1>3. UNCHANGED <<cursor, got>>
    BY ClientSteps
  <1>4. Live' = Live
    <2>1. CASE userRow' = userRow
      BY <2>1 DEF Live
    <2>2. ASSUME NEW u \in Users, ToggleBlock(u) PROVE Live' = Live
      <3>1. /\ userRow[u] # "absent"
            /\ userRow' = [userRow EXCEPT ![u] =
                              IF @ = "active" THEN "blocked" ELSE "active"]
        BY <2>2 DEF ToggleBlock
      <3>2. \A v \in Users : userRow'[v] = "absent" <=> userRow[v] = "absent"
        BY <3>1 DEF TypeInv, TypeOK
      <3>3. \A s \in Scopes : s[1] \in Users
        BY DeviceAssumption DEF Scopes, Scope
      <3> QED BY <3>2, <3>3 DEF Live
    <2> QED BY <2>1, <2>2, OtherSteps
  <1>5. LogOf' = LogOf
    BY <1>1 DEF LogOf, InScope
  <1> QED BY <1>2, <1>3, <1>4, <1>5 DEF Logs!vars, LogOf, Live

\* The server is a log for each vault: what handlers, retries, failures and
\* crashes make of pushes and pulls, and what devices make of the answers,
\* are the steps of VaultLog.
THEOREM ServerIsVaultLog == Spec => ImplementsVaultLog
  <1>1. Init => Logs!Init
    <2> SUFFICES ASSUME Init PROVE Logs!Init
      OBVIOUS
    <2>1. LogOf = [s \in Scopes |-> {}]
      BY DEF Init, LogOf, InScope
    <2>2. Live = Scopes
      BY DeviceAssumption DEF Init, Live, Scopes, Scope
    <2> QED BY <2>1, <2>2 DEF Init, Logs!Init, LogOf, Live
  <1>2. PageInv /\ [Next]_vars => [Logs!Next]_(Logs!vars)
    <2> SUFFICES ASSUME PageInv, [Next]_vars PROVE [Logs!Next]_(Logs!vars)
      OBVIOUS
    <2>1. ASSUME NEW r \in Reqs, PushCommit(r) PROVE Logs!Next
      <3>1. Scope(call[r].dev) \in Scopes
        BY <2>1, CallKinds, ScopeType
        DEF PushCommit, PageInv, CursorInv, LogInv, ConnInv, TypeInv, CallOK, InTx
      <3> QED BY <2>1, <3>1, CommitAppends DEF Logs!Next
    <2>2. ASSUME NEW r \in Reqs, ReceivePage(r) PROVE Logs!Next
      <3>1. call[r].dev \in Devices
        BY <2>2, CallKinds
        DEF ReceivePage, PageInv, CursorInv, LogInv, ConnInv, TypeInv, CallOK
      <3> QED BY <2>2, <3>1, ReceptionReads DEF Logs!Next
    <2>3. ASSUME NEW u \in Users, DeleteUser(u) PROVE Logs!Next
      BY <2>3, DeletionDrops DEF Logs!Next
    <2> QED BY <2>1, <2>2, <2>3, OthersStutter
  <1> QED
    BY <1>1, <1>2, PageInvariant, PTL DEF Spec, ImplementsVaultLog, Logs!Spec

\* The abstract log keeps its promise: what is new comes behind every position.
PromiseInv ==
    /\ lastRev \in Nat /\ Live \subseteq Scopes
    /\ \A d \in Devices : cursor[d] \in Nat /\ cursor[d] <= lastRev
    /\ \A s \in Scopes : \A row \in LogOf[s] : row.seq \in 1..lastRev
    /\ DOMAIN cursor = Devices /\ DOMAIN got = Devices
    /\ \A d \in Devices : Scope(d) \in Live =>
          /\ \A row \in LogOf[Scope(d)] : row.seq <= cursor[d] => row \in got[d]
          /\ got[d] \subseteq LogOf[Scope(d)]

LEMMA LogsKeepPromise == Logs!Spec => []PromiseInv
  <1>1. Logs!Init => PromiseInv
    BY ScopeType DEF Logs!Init, PromiseInv, LogOf, Live
  <1>2. ASSUME PromiseInv, [Logs!Next]_(Logs!vars) PROVE PromiseInv'
    <2> DEFINE Have(d) == Scope(d) \in Live =>
                 /\ \A row \in LogOf[Scope(d)] : row.seq <= cursor[d] => row \in got[d]
                 /\ got[d] \subseteq LogOf[Scope(d)]
    <2>1. ASSUME NEW s \in Scopes, Logs!Append(s) PROVE PromiseInv'
      <3> DEFINE new == LogOf'[s] \ LogOf[s]
      <3>1. /\ LogOf' = [LogOf EXCEPT ![s] = @ \cup new]
            /\ lastRev' \in Nat /\ lastRev <= lastRev'
            /\ \A row \in new : row.seq \in (lastRev + 1)..lastRev'
            /\ Live' = Live /\ cursor' = cursor /\ got' = got
        BY <2>1 DEF Logs!Append, LogOf, Live
      <3> HIDE DEF new
      <3>2. \A t \in Scopes : \A row \in LogOf'[t] :
                row \in LogOf[t] \/ row.seq \in (lastRev + 1)..lastRev'
        BY <3>1 DEF LogOf
      <3>3. \A t \in Scopes : LogOf[t] \subseteq LogOf'[t]
        BY <3>1 DEF LogOf
      <3> QED BY <1>2, <3>1, <3>2, <3>3, ScopeType DEF PromiseInv, Scope, EffectiveVault
    <2>2. CASE Logs!Drop
      <3>1. /\ Live' \subseteq Live /\ UNCHANGED <<lastRev, cursor, got>>
            /\ \A s \in Scopes : LogOf'[s] = IF s \in Live \ Live' THEN {}
                                                                  ELSE LogOf[s]
        BY <2>2 DEF Logs!Drop, LogOf, Live
      <3> QED BY <1>2, <3>1, ScopeType DEF PromiseInv, Scope, EffectiveVault
    <2>3. ASSUME NEW d \in Devices, Logs!Read(d) PROVE PromiseInv'
      <3>1. PICK p \in 0..lastRev :
               /\ cursor' = [cursor EXCEPT ![d] = p]
               /\ got' = [got EXCEPT ![d] = got'[d]]
               /\ Scope(d) \in Live => got'[d] = got[d] \cup
                     {row \in LogOf[Scope(d)] : row.seq <= p}
               /\ LogOf' = LogOf /\ lastRev' = lastRev /\ Live' = Live
        BY <2>3 DEF Logs!Read, Logs!UpTo, LogOf, Live
      <3> QED BY <1>2, <3>1, ScopeType DEF PromiseInv, Scope, EffectiveVault
    <2>4. CASE UNCHANGED Logs!vars
      <3>1. UNCHANGED <<LogOf, lastRev, Live, cursor, got>>
        BY <2>4 DEF Logs!vars, LogOf, Live
      <3> QED BY <1>2, <3>1 DEF PromiseInv, Scope, EffectiveVault
    <2> QED BY <1>2, <2>1, <2>2, <2>3, <2>4 DEF Logs!Next
  <1> QED BY <1>1, <1>2, PTL DEF Logs!Spec

\* A device whose user exists has exactly the log of its vault up to its cursor,
\* and never an operation that the log does not hold, or does not hold any more:
\* two devices of a vault have the same rows up to the lower of their cursors.
THEOREM DevicesHaveTheLog == Spec => []Logs!Promise
  <1>1. PromiseInv => Logs!Promise
    BY ScopeType DEF PromiseInv, Logs!Promise, Logs!UpTo, LogOf, Live
  <1> QED BY <1>1, ServerIsVaultLog, LogsKeepPromise, PTL DEF ImplementsVaultLog

-----------------------------------------------------------------------------
(* The last page.                                                          *)

LEMMA LeastSeq ==
    ASSUME NEW rows, rows # {}, \A row \in rows : row.seq \in Nat
    PROVE  \E x \in rows : \A y \in rows : x.seq <= y.seq
  <1> DEFINE Seqs == {row.seq : row \in rows}
  <1>1. Seqs \subseteq Nat /\ Seqs # {}
    OBVIOUS
  <1> HIDE DEF Seqs
  <1>2. PICK m \in Seqs : \A k \in Seqs : <<k, m>> \notin OpToRel(<, Nat)
    BY <1>1, WFMin, NatLessThanWellFounded, Zenon
  <1>3. \A k \in Seqs : k \in Nat /\ m \in Nat /\ ~(k < m)
    BY <1>1, <1>2, Zenon DEF OpToRel
  <1>4. \A k \in Seqs : m <= k
    BY <1>3
  <1> QED BY <1>4 DEF Seqs

\* If ORDER BY ... LIMIT n + 1 yields no more than n rows, it yields them all.
LEMMA FirstBySeqAll ==
    ASSUME NEW rows \in SUBSET OpRow, IsFiniteSet(rows), NEW n \in Nat,
           Cardinality(FirstBySeq(rows, n + 1)) <= n
    PROVE  FirstBySeq(rows, n + 1) = rows /\ FirstBySeq(rows, n) = rows
  <1> DEFINE Below(z) == {o \in rows : o.seq < z.seq}
             first == FirstBySeq(rows, n + 1)
  <1>1. \A z \in rows : z \notin Below(z)
    BY DEF OpRow
  <1>2. first \subseteq rows /\ IsFiniteSet(first)
    BY FS_Subset DEF FirstBySeq
  <1>3. ASSUME NEW z \in rows
        PROVE  IsFiniteSet(Below(z)) /\ Cardinality(Below(z)) \in Nat
    BY FS_Subset, FS_CardinalityType
  <1>4. Cardinality(first) \in Nat /\ Cardinality(first) <= n
    BY <1>2, FS_CardinalityType
  <1>5. first = rows
    <2> SUFFICES ASSUME rows \ first # {} PROVE FALSE
      BY <1>2
    <2>1. PICK x \in rows \ first : \A y \in rows \ first : x.seq <= y.seq
      <3>1. \A row \in rows \ first : row.seq \in Nat
        BY DEF OpRow
      <3> HIDE DEF first
      <3> QED BY <3>1, LeastSeq
    <2>2. Below(x) \subseteq first
      BY <2>1 DEF OpRow
    <2>3. Cardinality(Below(x)) <= Cardinality(first)
      BY <1>2, <2>2, FS_Subset
    <2>4. Cardinality(Below(x)) < n + 1
      <3> HIDE DEF first, Below
      <3> QED BY <1>3, <1>4, <2>1, <2>3
    <2> QED BY <2>1, <2>4 DEF FirstBySeq
  <1>6. FirstBySeq(rows, n) = rows
    <2> SUFFICES ASSUME NEW z \in rows PROVE Cardinality(Below(z)) < n
      BY DEF FirstBySeq
    <2>1. Below(z) \subseteq rows /\ Below(z) # rows
      BY <1>1
    <2> HIDE DEF first, Below
    <2>2. /\ Cardinality(Below(z)) <= Cardinality(rows)
          /\ Cardinality(Below(z)) # Cardinality(rows)
      BY <2>1, FS_Subset
    <2> QED BY <1>3, <1>4, <1>5, <2>2
  <1> QED BY <1>5, <1>6

\* The reported maximum was in the log when it was read.
TopOK == \A r \in Reqs :
             /\ top[r] <= lastRev
             /\ reply[r].kind = "pull" => reply[r].top <= lastRev

LastPageInv == CursorInv /\ TopOK /\ PullIsComplete

LEMMA CounterGrows ==
    ASSUME LogInv, [Next]_vars
    PROVE  /\ lastRev <= lastRev' /\ lastRev \in Nat /\ lastRev' \in Nat
           /\ \A row \in ops' \ ops : row.seq > lastRev
  <1> USE DEF LogInv, ConnInv, TypeInv, TypeOK
  <1>1. ASSUME NEW r \in Reqs, PushCommit(r)
        PROVE  /\ lastRev <= lastRev' /\ lastRev' \in Nat
               /\ \A row \in ops' \ ops : row.seq > lastRev
    <2>1. conn = r /\ ops' = work.ops /\ lastRev' = work.lastRev
      BY <1>1 DEF PushCommit, ConnHeld, InTx
    <2> QED BY <2>1 DEF TxOK, NewRows, Work
  <1> QED BY <1>1, OnlyCommitsAppend

LEMMA NextLastPage == LastPageInv /\ [Next]_vars => TopOK' /\ PullIsComplete'
  <1> SUFFICES ASSUME LastPageInv, [Next]_vars, NEW q \in Reqs
               PROVE  /\ top'[q] <= lastRev'
                      /\ reply'[q].kind = "pull" => reply'[q].top <= lastRev'
                      /\ reply'[q].kind = "pull" /\ ~reply'[q].more =>
                            \A row \in ops' :
                              /\ row.scope = Scope(call'[q].dev)
                              /\ row.seq > call'[q].since
                              /\ row.seq <= reply'[q].top
                              => row \in reply'[q].page
    BY DEF TopOK, PullIsComplete, Scope, EffectiveVault
  <1>0. CursorInv /\ LogInv /\ TypeInv /\ TopOK /\ PullIsComplete
    BY DEF LastPageInv, CursorInv, LogInv, ConnInv
  <1>1. /\ lastRev <= lastRev' /\ lastRev \in Nat /\ lastRev' \in Nat
        /\ \A row \in ops' \ ops : row.seq > lastRev
    BY <1>0, CounterGrows
  <1>2. top'[q] <= lastRev'
    <2>1. CASE top'[q] = top[q] \/ top'[q] = 0
      BY <1>0, <1>1, <2>1 DEF TopOK, TypeInv, TypeOK
    <2>2. ASSUME NEW r \in Reqs, PullTop(r) PROVE top'[q] <= lastRev'
      <3>1. PICK max \in {0} \cup {row.seq : row \in InScope(ops, Scope(call[r].dev))} :
               top' = [top EXCEPT ![r] = max]
        BY <2>2 DEF PullTop
      <3>2. \A row \in ops : row.seq <= lastRev
        BY <1>0 DEF LogInv, LogOK, Known, Seen
      <3>3. max <= lastRev
        BY <1>1, <3>1, <3>2 DEF InScope
      <3>4. lastRev' = lastRev /\ top[q] <= lastRev
        BY <1>0, <2>2 DEF PullTop, db, TopOK
      <3> QED BY <1>0, <3>1, <3>3, <3>4 DEF TypeInv, TypeOK
    <2>3. \/ top'[q] = top[q] \/ top'[q] = 0
          \/ \E r \in Reqs : PullTop(r)
      BY <1>0
      DEF Next, Handler, AuthDevice, AuthUser, PushBegin, PushLookup, PushReplay,
          PushOp, PushCommit, PullPage, Client, SendPush, SendPull, Send,
          ReceivePage, Finish, Forget, Fail, Crash, Administration, RevokeDevice,
          DropDevice, ToggleBlock, DeleteUser, ExpireKeys, vars, TypeInv, TypeOK
    <2> QED BY <2>1, <2>2, <2>3
  <1> DEFINE Goal ==
         /\ reply'[q].top <= lastRev'
         /\ ~reply'[q].more =>
               \A row \in ops' : /\ row.scope = Scope(call'[q].dev)
                                 /\ row.seq > call'[q].since
                                 /\ row.seq <= reply'[q].top
                                 => row \in reply'[q].page
  <1>3. ASSUME reply'[q] = reply[q], call'[q] = call[q], reply'[q].kind = "pull"
        PROVE  Goal
    <2>1. /\ reply[q].top \in Nat /\ reply[q].top <= lastRev
          /\ ~reply[q].more =>
               \A row \in ops : /\ row.scope = Scope(call[q].dev)
                                /\ row.seq > call[q].since
                                /\ row.seq <= reply[q].top
                                => row \in reply[q].page
      <3>1. reply[q] \in PullReply
        BY <1>0, <1>3, ReplyKinds DEF TypeInv, TypeOK, Reply
      <3> QED BY <1>0, <1>3, <3>1 DEF TopOK, PullIsComplete, PullReply
    <2>2. \A row \in ops' : row.seq <= reply[q].top => row \in ops
      <3>1. ops' \subseteq OpRow
        <4>1. TypeInv'
          BY <1>0, NextTypeInv
        <4> QED BY <4>1 DEF TypeInv, TypeOK
      <3> QED BY <1>1, <2>1, <3>1 DEF OpRow
    <2> QED BY <1>1, <1>3, <2>1, <2>2
  <1>4. ASSUME PullPage(q) PROVE Goal
    <2> DEFINE limit == PullPageLimit(call[q].limit)
               after == RowsAfter(ops, Scope(call[q].dev), call[q].since)
               rows == FirstBySeq(after, limit + 1)
               page == FirstBySeq(rows, limit)
    <2>1. PICK last : reply' = [reply EXCEPT ![q] =
                         [kind |-> "pull", page |-> page, last |-> last,
                          more |-> HasMore(rows, limit), top |-> top[q]]]
      BY <1>4 DEF PullPage, Answer
    <2>2. UNCHANGED <<ops, call, lastRev>> /\ call[q] \in PullCall
      BY <1>0, <1>4 DEF PullPage, db, TypeInv, CallOK
    <2>3. limit \in Nat
      BY <2>2, LimitAssumption DEF PullCall, PullPageLimit
    <2>4. after \in SUBSET OpRow /\ IsFiniteSet(after)
      BY <1>0, FS_Subset DEF TypeInv, TypeOK, LogInv, LogOK, RowsAfter, InScope
    <2>5. ASSUME NEW row \in ops, row.scope = Scope(call[q].dev),
                 row.seq > call[q].since
          PROVE  row \in after
      BY <2>5 DEF RowsAfter, InScope
    <2>6. top[q] <= lastRev
      BY <1>0 DEF TopOK
    <2> HIDE DEF limit, after
    <2>7. rows \subseteq after /\ IsFiniteSet(rows)
      BY <2>4, FS_Subset DEF FirstBySeq
    <2>8. ASSUME ~HasMore(rows, limit) PROVE page = after
      <3>1. Cardinality(rows) <= limit
        BY <2>3, <2>7, <2>8, FS_CardinalityType DEF HasMore
      <3> QED BY <2>3, <2>4, <3>1, FirstBySeqAll
    <2> HIDE DEF rows, page
    <2>9. /\ reply'[q].top = top[q] /\ reply'[q].page = page
          /\ reply'[q].more = HasMore(rows, limit)
      BY <1>0, <2>1 DEF TypeInv, TypeOK
    <2> QED BY <2>2, <2>5, <2>6, <2>8, <2>9
  <1> HIDE DEF Goal
  <1>5. reply'[q].kind = "pull" => Goal
    BY <1>0, <1>3, <1>4, PullReplies
  <1> QED BY <1>2, <1>5 DEF Goal

\* has_more = false means that the page and what the client had before are all
\* there was up to the maximum reported with it, although pushes, deletions and
\* failures come between the statements that read the two.
THEOREM LastPageIsComplete == Spec => []PullIsComplete
  <1>1. Init /\ CursorInv => LastPageInv
    BY ReplyKinds DEF Init, LastPageInv, TopOK, PullIsComplete
  <1>2. LastPageInv /\ [Next]_vars /\ CursorInv' => LastPageInv'
    BY NextLastPage DEF LastPageInv
  <1>3. LastPageInv => PullIsComplete
    BY DEF LastPageInv
  <1> QED BY <1>1, <1>2, <1>3, CursorInvariant, PTL DEF Spec

-----------------------------------------------------------------------------
(* Pages that are not the last.                                            *)

\* A page that says there is more moves its client on: it has rows, all behind
\* the client's position, and ends at one of them.
PageMovesOn(since, answer) ==
    /\ answer.page # {}
    /\ \A row \in answer.page : row.seq > since
    /\ \E row \in answer.page : answer.last = row.seq
PagesMoveOn ==
    \A r \in Reqs :
        reply[r].kind = "pull" /\ reply[r].more =>
            PageMovesOn(call[r].since, reply[r])

\* A limited query over some rows returns some.
LEMMA FirstBySeqSome ==
    ASSUME NEW rows \in SUBSET OpRow, rows # {}, NEW n \in Nat \ {0}
    PROVE  FirstBySeq(rows, n) # {}
  <1>1. PICK x \in rows : \A y \in rows : x.seq <= y.seq
    <2>1. \A row \in rows : row.seq \in Nat
      BY DEF OpRow
    <2> QED BY <2>1, LeastSeq
  <1>2. {o \in rows : o.seq < x.seq} = {}
    BY <1>1 DEF OpRow
  <1>3. Cardinality({o \in rows : o.seq < x.seq}) < n
    BY <1>2, FS_EmptySet
  <1> QED BY <1>3 DEF FirstBySeq

LEMMA NextPagesMoveOn ==
    ASSUME CursorInv, PagesMoveOn, [Next]_vars PROVE PagesMoveOn'
  <1> SUFFICES ASSUME NEW q \in Reqs, reply'[q].kind = "pull", reply'[q].more
               PROVE  PageMovesOn(call'[q].since, reply'[q])
    BY DEF PagesMoveOn, PageMovesOn
  <1>1. CASE reply'[q] = reply[q] /\ call'[q] = call[q]
    BY <1>1 DEF PagesMoveOn
  <1>2. CASE PullPage(q)
    <2> DEFINE since == call[q].since
               limit == PullPageLimit(call[q].limit)
               after == RowsAfter(ops, Scope(call[q].dev), since)
               rows == FirstBySeq(after, limit + 1)
               page == FirstBySeq(rows, limit)
    <2>1. PICK last :
             /\ IsLastSeq(page, since, last)
             /\ reply' = [reply EXCEPT ![q] =
                             [kind |-> "pull", page |-> page, last |-> last,
                              more |-> HasMore(rows, limit), top |-> top[q]]]
      BY <1>2 DEF PullPage, Answer
    <2>2. /\ call' = call /\ call[q] \in PullCall
          /\ reply'[q].page = page /\ reply'[q].last = last
          /\ HasMore(rows, limit)
      BY <1>2, <2>1
      DEF PullPage, CursorInv, LogInv, ConnInv, TypeInv, TypeOK, CallOK
    <2>3. limit \in Nat \ {0}
      BY <2>2, LimitAssumption DEF PullCall, PullPageLimit
    <2>4. /\ after \in SUBSET OpRow /\ \A row \in after : row.seq > since
          /\ page \subseteq rows /\ rows \subseteq after
      BY DEF CursorInv, LogInv, ConnInv, TypeInv, TypeOK, RowsAfter, InScope,
             FirstBySeq
    <2> HIDE DEF since, limit, after, rows, page
    <2>5. rows # {}
      BY <2>2, <2>3, FS_EmptySet DEF HasMore
    <2>6. page # {}
      BY <2>3, <2>4, <2>5, FirstBySeqSome DEF page
    <2>7. \E row \in page : last = row.seq
      BY <2>1, <2>6 DEF IsLastSeq
    <2> QED BY <2>2, <2>4, <2>6, <2>7 DEF PageMovesOn, since
  <1> QED BY <1>1, <1>2, PullReplies

\* No client is told to go on without getting any further, for every page limit
\* it may ask for: a client that pulls while has_more is set comes to an end of
\* the log, where PullIsComplete holds.
THEOREM PagesGetOn == Spec => []PagesMoveOn
  <1>1. Init => PagesMoveOn
    BY ReplyKinds DEF Init, PagesMoveOn
  <1>2. CursorInv /\ PagesMoveOn /\ [Next]_vars => PagesMoveOn'
    BY NextPagesMoveOn
  <1> QED BY <1>1, <1>2, CursorInvariant, PTL DEF Spec

-----------------------------------------------------------------------------
(* Tombstones.                                                             *)

\* For every delete there is a tombstone that names it or a later one.
Named(stones, rows) ==
    \A row \in rows :
        row.type = "delete" =>
            \E t \in stones : \E last \in rows :
                /\ t.scope = row.scope /\ t.entity = row.entity
                /\ last.id = t.op /\ last.type = "delete"
                /\ last.scope = row.scope /\ last.entity = row.entity
                /\ last.seq >= row.seq

TombInv == /\ LogInv /\ Named(tombs, ops)
           /\ conn \in Reqs => Named(work.tombs, work.ops)

LEMMA ApplyOpNamed ==
    ASSUME NEW w \in Work, NEW d \in Devices, NEW op \in Operation,
           NEW seen \in Nat, NEW w2, w2 = ApplyOp(w, Scope(d), d, op, seen),
           \A x \in w.ops : x.seq <= w.lastRev,
           Named(w.tombs, w.ops)
    PROVE  Named(w2.tombs, w2.ops)
  <1> DEFINE new == [id |-> op.id, seq |-> NextSeq(w), scope |-> Scope(d),
                     device |-> d, entity |-> op.entity, type |-> op.type,
                     seen |-> seen]
             stone == [scope |-> Scope(d), entity |-> op.entity, op |-> op.id]
  <1>1. CASE IdTaken(w.ops, op.id)
    <2>1. w2.tombs = w.tombs /\ w2.ops = w.ops
      BY <1>1 DEF ApplyOp, Work
    <2> QED BY <2>1 DEF Named
  <1>2. CASE ~IdTaken(w.ops, op.id)
    <2>1. /\ w2.ops = w.ops \cup {new}
          /\ w2.tombs = IF op.type = "delete"
                        THEN PutTombstone(w.tombs, Scope(d), op) ELSE w.tombs
      BY <1>2 DEF ApplyOp, Work
    <2>2. /\ new.type = op.type /\ new.scope = Scope(d) /\ new.id = op.id
          /\ new.entity = op.entity /\ \A x \in w.ops : x.seq <= new.seq
          /\ new.seq <= new.seq
      BY DEF NextSeq, Work, OpRow
    <2>3. CASE op.type # "delete"
      BY <2>1, <2>2, <2>3 DEF Named
    <2>4. CASE op.type = "delete"
      <3>1. /\ stone \in w2.tombs
            /\ \A t \in w.tombs : t.scope # Scope(d) \/ t.entity # op.entity =>
                  t \in w2.tombs
        BY <2>1, <2>4 DEF PutTombstone
      <3>2. stone.scope = Scope(d) /\ stone.entity = op.entity /\ stone.op = op.id
        OBVIOUS
      <3> HIDE DEF new, stone
      <3>3. ASSUME NEW row \in w2.ops, row.type = "delete",
                   row.scope = Scope(d), row.entity = op.entity
            PROVE  /\ stone.scope = row.scope /\ stone.entity = row.entity
                   /\ new.id = stone.op /\ new.type = "delete"
                   /\ new.scope = row.scope /\ new.entity = row.entity
                   /\ new.seq >= row.seq
        BY <2>1, <2>2, <2>4, <3>2, <3>3
      <3>4. ASSUME NEW row \in w2.ops, row.type = "delete",
                   row.scope # Scope(d) \/ row.entity # op.entity
            PROVE  \E t \in w2.tombs : \E last \in w2.ops :
                      /\ t.scope = row.scope /\ t.entity = row.entity
                      /\ last.id = t.op /\ last.type = "delete"
                      /\ last.scope = row.scope /\ last.entity = row.entity
                      /\ last.seq >= row.seq
        <4>1. row \in w.ops
          BY <2>1, <2>2, <3>4
        <4>2. PICK t \in w.tombs, last \in w.ops :
                      /\ t.scope = row.scope /\ t.entity = row.entity
                      /\ last.id = t.op /\ last.type = "delete"
                      /\ last.scope = row.scope /\ last.entity = row.entity
                      /\ last.seq >= row.seq
          BY <3>4, <4>1 DEF Named
        <4> QED BY <2>1, <3>1, <3>4, <4>2
      <3>5. new \in w2.ops
        BY <2>1
      <3> QED BY <3>1, <3>3, <3>4, <3>5 DEF Named
    <2> QED BY <2>3, <2>4
  <1> QED BY <1>1, <1>2

LEMMA PushOpNamed ==
    ASSUME TombInv, NEW r \in Reqs, PushOp(r)
    PROVE  Named(work.tombs, work.ops)'
  <1> USE DEF TombInv, LogInv, ConnInv, TypeInv, TypeOK
  <1>1. conn = r /\ call[r] \in PushCall /\ work \in Work
    BY DEF PushOp, ConnHeld, CallOK, InTx
  <1> DEFINE op == call[r].batch[work.next]
  <1>2. /\ op \in Operation /\ call[r].dev \in Devices /\ call[r].seen \in Nat
        /\ work' = ApplyOp(work, Scope(call[r].dev), call[r].dev, op, call[r].seen)
    BY <1>1 DEF PushOp, PushCall, Work
  <1>3. \A x \in work.ops : x.seq <= work.lastRev
    <2>1. \A x \in ops : x.seq \in 1..lastRev
      BY DEF LogOK, Known, Seen
    <2>2. /\ lastRev <= work.lastRev /\ lastRev \in Nat /\ work.lastRev \in Nat
          /\ \A x \in NewRows : x.seq \in (lastRev + 1)..work.lastRev
      BY <1>1 DEF TxOK, Work
    <2> QED BY <2>1, <2>2 DEF NewRows
  <1> HIDE DEF op
  <1>4. Named(work.tombs, work.ops)
    BY <1>1
  <1>5. Named(work'.tombs, work'.ops)
    BY ONLY <1>1, <1>2, <1>3, <1>4, ApplyOpNamed
  <1> QED BY <1>5

LEMMA DeleteUserNamed ==
    ASSUME Named(tombs, ops), NEW u, DeleteUser(u)
    PROVE  Named(tombs, ops)'
  <1>1. /\ ops' = ops \ OwnedBy(ops, u) /\ tombs' = tombs \ OwnedBy(tombs, u)
    BY DEF DeleteUser
  <1> QED BY <1>1 DEF Named, OwnedBy

LEMMA NextTombInv == TombInv /\ [Next]_vars /\ LogInv' => TombInv'
  <1> SUFFICES ASSUME TombInv, [Next]_vars
               PROVE  /\ Named(tombs, ops)'
                      /\ conn' \in Reqs => Named(work.tombs, work.ops)'
    BY DEF TombInv
  <1> USE DEF TombInv, LogInv, ConnInv, accounts, db, tx, clients
  <1>1. CASE UNCHANGED <<tombs, ops, conn, work>>
    BY <1>1
  <1>2. CASE UNCHANGED <<tombs, ops>> /\ conn' = NoReq
    BY <1>2, ReqAssumption
  <1>3. ASSUME NEW r \in Reqs, PushBegin(r)
        PROVE  /\ UNCHANGED <<tombs, ops>>
               /\ UNCHANGED <<conn, work>> \/ Named(work.tombs, work.ops)'
    BY <1>3 DEF PushBegin, Snapshot, Named
  <1>4. ASSUME NEW r \in Reqs, PushOp(r)
        PROVE  UNCHANGED <<tombs, ops>> /\ Named(work.tombs, work.ops)'
    BY <1>4, PushOpNamed DEF PushOp
  <1>5. ASSUME NEW r \in Reqs, PushCommit(r)
        PROVE  Named(tombs, ops)' /\ conn' = NoReq
    BY <1>5 DEF PushCommit, ReleaseConn, ConnHeld, InTx
  <1>6. ASSUME NEW r \in Reqs, Handler(r), ~PushBegin(r), ~PushOp(r), ~PushCommit(r)
        PROVE  UNCHANGED <<tombs, ops>> /\ (UNCHANGED <<conn, work>> \/ conn' = NoReq)
    BY <1>6 DEF Handler, AuthDevice, AuthUser, PushLookup, PushReplay, PullTop,
                PullPage, ReleaseConn
  <1>7. ASSUME NEW r \in Reqs, Client(r) \/ Fail(r)
        PROVE  UNCHANGED <<tombs, ops>> /\ (UNCHANGED <<conn, work>> \/ conn' = NoReq)
    BY <1>7 DEF Client, SendPush, SendPull, Send, ReceivePage, Finish, Fail,
                ReleaseConn
  <1>8. ASSUME Crash \/ UNCHANGED vars
        PROVE  UNCHANGED <<tombs, ops>> /\ (UNCHANGED <<conn, work>> \/ conn' = NoReq)
    BY <1>8 DEF Crash, ReleaseConn, vars
  <1>9. ASSUME NEW u \in Users, DeleteUser(u)
        PROVE  Named(tombs, ops)' /\ conn' = NoReq
    BY <1>9, DeleteUserNamed DEF DeleteUser, ConnFree
  <1>10. ASSUME Administration, ~ \E u \in Users : DeleteUser(u)
         PROVE  UNCHANGED <<tombs, ops, conn, work>>
    BY <1>10 DEF Administration, RevokeDevice, DropDevice, ToggleBlock, ExpireKeys
  <1> DEFINE Same == UNCHANGED <<tombs, ops>>
             Kept == UNCHANGED <<conn, work>> \/ conn' = NoReq
             Goal == /\ Named(tombs, ops)'
                     /\ conn' \in Reqs => Named(work.tombs, work.ops)'
  <1>11. Same /\ (Kept \/ Named(work.tombs, work.ops)') => Goal
    BY <1>1, <1>2, ReqAssumption
  <1>12. Named(tombs, ops)' /\ conn' = NoReq => Goal
    BY ReqAssumption
  <1>13. ASSUME NEW r \in Reqs, Handler(r) PROVE Goal
    BY ONLY <1>3, <1>4, <1>5, <1>6, <1>11, <1>12, <1>13
  <1>14. ASSUME NEW r \in Reqs, Client(r) \/ Fail(r) PROVE Goal
    BY ONLY <1>7, <1>11, <1>14
  <1>15. ASSUME Crash \/ UNCHANGED vars PROVE Goal
    BY ONLY <1>8, <1>11, <1>15
  <1>16. ASSUME Administration PROVE Goal
    BY ONLY <1>9, <1>10, <1>11, <1>12, <1>16
  <1> HIDE DEF Goal
  <1> QED BY <1>13, <1>14, <1>15, <1>16 DEF Next, Goal

\* Replays, deletes of what is deleted, and failed or interrupted pushes leave
\* the tombstone of an entity on the last delete of it.
THEOREM TombstonesNameLastDeletes == Spec => []TombstoneNamesLastDelete
  <1>1. Init /\ LogInv => TombInv
    BY ReqAssumption DEF Init, TombInv, Named
  <1>2. TombInv => TombstoneNamesLastDelete
    BY DEF TombInv, Named, TombstoneNamesLastDelete
  <1> QED BY <1>1, <1>2, NextTombInv, LogInvariant, PTL DEF Spec

-----------------------------------------------------------------------------
(* What a fresh answer leaves out: nothing.                                *)

\* Users and, with the users, the log stay as long as nobody is deleted.
LEMMA RowsStay ==
    ASSUME BatchInv, [Next]_vars, NEW u \in Users, userRow'[u] # "absent"
    PROVE  /\ userRow[u] # "absent"
           /\ \A row \in ops : row.scope[1] = u => row \in ops'
  <1> USE DEF BatchInv, LogInv, ConnInv, TypeInv, TypeOK
  <1>1. ASSUME NEW r \in Reqs, PushCommit(r)
        PROVE  userRow' = userRow /\ ops \subseteq ops'
    BY <1>1, CommitSteps
  <1>2. ASSUME NEW v \in Users, DeleteUser(v)
        PROVE  /\ userRow[u] # "absent" /\ u # v
               /\ ops' = ops \ OwnedBy(ops, v)
    BY <1>2 DEF DeleteUser
  <1>3. ASSUME NEW v \in Users, ToggleBlock(v) PROVE userRow[u] # "absent"
    BY <1>3 DEF ToggleBlock
  <1> QED BY <1>1, <1>2, <1>3, OtherSteps DEF OwnedBy

\* A fresh answer is kept, or is the one that a commit gives.
LEMMA FreshReplies ==
    ASSUME AnswerInv, [Next]_vars, NEW q \in Reqs,
           reply'[q].kind = "push", ~reply'[q].cached
    PROVE  \/ reply'[q] = reply[q] /\ call'[q] = call[q]
           \/ PushCommit(q)
  <1>1. CASE PushLookup(q)
    <2>1. reply[q].kind # "push"
      BY <1>1, ReplyKinds
      DEF PushLookup, AnswerInv, BatchInv, LogInv, ConnInv, TypeInv, CallOK,
          AtServer, InTx
    <2>2. reply \in [Reqs -> Reply]
      BY DEF AnswerInv, BatchInv, LogInv, ConnInv, TypeInv, TypeOK, Reply
    <2> QED BY <1>1, <2>1, <2>2 DEF PushLookup
  <1> QED BY <1>1, PushReplies

DroppedInv == AnswerInv /\ NothingDropped

LEMMA NextNothingDropped == DroppedInv /\ [Next]_vars => NothingDropped'
  <1> SUFFICES ASSUME DroppedInv, [Next]_vars, NEW q \in Reqs,
                      reply'[q].kind = "push", ~reply'[q].cached,
                      \A u \in Users : userRow'[u] # "absent",
                      NEW i \in 1..Len(call'[q].batch)
               PROVE  \E row \in ops' : row.id = call'[q].batch[i].id
    BY DEF NothingDropped
  <1>0. BatchInv /\ AnswerInv /\ NothingDropped
    BY DEF DroppedInv, AnswerInv
  <1>1. CASE reply'[q] = reply[q] /\ call'[q] = call[q]
    <2>1. \A u \in Users : userRow[u] # "absent"
      BY <1>0, RowsStay
    <2>2. PICK row \in ops : row.id = call[q].batch[i].id
      BY <1>0, <1>1, <2>1 DEF NothingDropped
    <2>3. row.scope[1] \in Users
      <3>1. row \in OpRow
        BY <1>0, <2>2 DEF BatchInv, LogInv, ConnInv, TypeInv, TypeOK
      <3> QED BY <3>1, DeviceAssumption DEF OpRow, Scopes, Scope
    <2>4. row \in ops'
      BY <1>0, <2>2, <2>3, RowsStay
    <2> QED BY <1>1, <2>2, <2>4
  <1>2. CASE PushCommit(q)
    <2> USE DEF BatchInv, LogInv, ConnInv
    <2>1. /\ conn = q /\ ops' = work.ops /\ call[q] \in PushCall /\ call' = call
          /\ work.next > Len(call[q].batch) /\ work \in Work
      BY <1>0, <1>2 DEF PushCommit, ConnHeld, InTx, TypeInv, CallOK, TypeOK
    <2>2. work.next - 1 = Len(call[q].batch)
      BY <1>0, <2>1 DEF BatchOK, Work, PushCall
    <2>3. call[q].batch[i].id \in Sent(q)
      BY <2>1, <2>2 DEF Sent
    <2>4. call[q].batch[i].id \in IdsOf(work.ops)
      BY <1>0, <2>1, <2>3 DEF BatchOK
    <2> QED BY <2>1, <2>4 DEF IdsOf
  <1> QED BY <1>0, <1>1, <1>2, FreshReplies

\* A push that is answered afresh leaves none of its operations out of the log,
\* whatever was in it before and whatever happens to the answer.
THEOREM PushesDropNothing == Spec => []NothingDropped
  <1>1. Init /\ AnswerInv => DroppedInv
    BY ReplyKinds DEF Init, DroppedInv, NothingDropped
  <1>2. DroppedInv /\ [Next]_vars /\ AnswerInv' => DroppedInv'
    BY NextNothingDropped DEF DroppedInv
  <1>3. DroppedInv => NothingDropped
    BY DEF DroppedInv
  <1> QED BY <1>1, <1>2, <1>3, AnswerInvariant, PTL DEF Spec

-----------------------------------------------------------------------------
(* Conflicts.                                                              *)

\* Concurrent changes of what is accepted are among the conflicts.
Reported(rows, accepted, conflicts) ==
    \A mine, other \in rows :
        /\ mine.id \in accepted
        /\ mine.seen > 0
        /\ other.scope = mine.scope /\ other.entity = mine.entity
        /\ other.device # mine.device /\ other.type # "delete"
        /\ other.seq > mine.seen /\ other.seq < mine.seq
        => other \in conflicts

TxReported == conn \in Reqs => Reported(work.ops, work.accepted, work.conflicts)

ReportInv == AnswerInv /\ TxReported /\ ConflictsReported

LEMMA ApplyOpReported ==
    ASSUME NEW w \in Work, NEW d \in Devices, NEW op \in Operation,
           NEW seen \in Nat, NEW w2, w2 = ApplyOp(w, Scope(d), d, op, seen),
           \A x \in w.ops : x.seq <= w.lastRev,
           Reported(w.ops, w.accepted, w.conflicts)
    PROVE  Reported(w2.ops, w2.accepted, w2.conflicts)
  <1> DEFINE new == [id |-> op.id, seq |-> NextSeq(w), scope |-> Scope(d),
                     device |-> d, entity |-> op.entity, type |-> op.type,
                     seen |-> seen]
             hits == NewConflicts(w.ops, Scope(d), d, op, seen)
  <1>1. CASE IdTaken(w.ops, op.id)
    <2>1. /\ w2.ops = w.ops /\ w2.accepted = w.accepted
          /\ w2.conflicts = w.conflicts \cup hits
      BY <1>1 DEF ApplyOp, Work
    <2> HIDE DEF hits
    <2> QED BY <2>1 DEF Reported
  <1>2. CASE ~IdTaken(w.ops, op.id)
    <2>1. /\ w2.ops = w.ops \cup {new} /\ w2.accepted = w.accepted \cup {op.id}
          /\ w2.conflicts = w.conflicts \cup hits
      BY <1>2 DEF ApplyOp, Work
    <2>2. /\ new.scope = Scope(d) /\ new.id = op.id /\ new.entity = op.entity
          /\ new.device = d /\ new.seen = seen
          /\ \A x \in w.ops : x.id # new.id /\ ~(new.seq < x.seq)
          /\ ~(new.seq < new.seq)
      BY <1>2 DEF NextSeq, Work, OpRow, IdTaken
    <2>3. ASSUME NEW other \in w.ops, seen > 0,
                 other.scope = Scope(d), other.entity = op.entity,
                 other.device # d, other.type # "delete", other.seq > seen
          PROVE  other \in hits
      BY <2>3 DEF NewConflicts, Conflicts
    <2> HIDE DEF new, hits
    <2> SUFFICES ASSUME NEW mine \in w2.ops, NEW other \in w2.ops,
                        mine.id \in w2.accepted, mine.seen > 0,
                        other.scope = mine.scope, other.entity = mine.entity,
                        other.device # mine.device, other.type # "delete",
                        other.seq > mine.seen, other.seq < mine.seq
                 PROVE  other \in w2.conflicts
      BY DEF Reported
    <2>4. other \in w.ops
      BY <2>1, <2>2
    <2>5. CASE mine = new
      BY <2>1, <2>2, <2>3, <2>4, <2>5
    <2>6. CASE mine \in w.ops
      <3>1. mine.id \in w.accepted
        BY <2>1, <2>2, <2>6
      <3> QED BY <2>1, <2>4, <2>6, <3>1 DEF Reported
    <2> QED BY <2>1, <2>5, <2>6
  <1> QED BY <1>1, <1>2

\* An open transaction is where it was, has just begun, or is one operation on.
LEMMA TxSteps ==
    ASSUME ConnInv, [Next]_vars, conn' \in Reqs
    PROVE  \/ UNCHANGED <<conn, work>>
           \/ work' = Snapshot
           \/ conn' = conn /\ PushOp(conn)
  <1> USE DEF ConnInv, TypeInv, TypeOK, accounts, db, tx, clients
  <1>1. ASSUME NEW r \in Reqs, PushOp(r) PROVE conn' = conn /\ PushOp(conn)
    BY <1>1 DEF PushOp, ConnHeld, InTx
  <1>2. ASSUME NEW r \in Reqs, Handler(r), ~PushOp(r)
        PROVE  UNCHANGED <<conn, work>> \/ work' = Snapshot
    BY <1>2, ReqAssumption
    DEF Handler, AuthDevice, AuthUser, PushBegin, PushLookup, PushReplay,
        PushCommit, PullTop, PullPage, ReleaseConn
  <1>3. ASSUME NEW r \in Reqs, Client(r) \/ Fail(r)
        PROVE  UNCHANGED <<conn, work>>
    BY <1>3, ReqAssumption
    DEF Client, SendPush, SendPull, Send, ReceivePage, Finish, Fail, ReleaseConn
  <1>4. CASE Crash \/ UNCHANGED vars
    BY <1>4, ReqAssumption DEF Crash, ReleaseConn, vars
  <1>5. CASE Administration
    BY <1>5 DEF Administration, RevokeDevice, DropDevice, ToggleBlock, DeleteUser,
                ExpireKeys
  <1> QED BY <1>1, <1>2, <1>3, <1>4, <1>5 DEF Next

LEMMA NextTxReported == ReportInv /\ [Next]_vars => TxReported'
  <1> SUFFICES ASSUME ReportInv, [Next]_vars, conn' \in Reqs
               PROVE  Reported(work.ops, work.accepted, work.conflicts)'
    BY DEF TxReported
  <1>0. LogInv /\ ConnInv /\ TxReported
    BY DEF ReportInv, AnswerInv, BatchInv, LogInv
  <1>1. CASE UNCHANGED <<conn, work>>
    BY <1>0, <1>1 DEF TxReported
  <1>2. CASE work' = Snapshot
    BY <1>2 DEF Snapshot, Reported
  <1>3. CASE conn' = conn /\ PushOp(conn)
    <2> USE DEF LogInv, ConnInv, TypeInv, TypeOK
    <2> DEFINE r == conn
               op == call[r].batch[work.next]
    <2>1. call[r] \in PushCall /\ work \in Work /\ r \in Reqs
      BY <1>0, <1>3 DEF PushOp, CallOK, InTx
    <2>2. /\ op \in Operation /\ call[r].dev \in Devices /\ call[r].seen \in Nat
          /\ work' = ApplyOp(work, Scope(call[r].dev), call[r].dev, op,
                             call[r].seen)
      BY <1>3, <2>1 DEF PushOp, PushCall, Work
    <2>3. \A x \in work.ops : x.seq <= work.lastRev
      <3>1. \A x \in ops : x.seq \in 1..lastRev
        BY <1>0 DEF LogOK, Known, Seen
      <3>2. /\ lastRev <= work.lastRev /\ lastRev \in Nat /\ work.lastRev \in Nat
            /\ \A x \in NewRows : x.seq \in (lastRev + 1)..work.lastRev
        BY <1>0, <2>1 DEF TxOK, Work
      <3> QED BY <3>1, <3>2 DEF NewRows
    <2>4. Reported(work.ops, work.accepted, work.conflicts)
      BY <1>0, <2>1 DEF TxReported
    <2> HIDE DEF op, r
    <2>5. Reported(work'.ops, work'.accepted, work'.conflicts)
      BY ONLY <2>1, <2>2, <2>3, <2>4, ApplyOpReported
    <2> QED BY <2>5
  <1> QED BY <1>0, <1>1, <1>2, <1>3, TxSteps

LEMMA NextConflictsReported ==
    ReportInv /\ [Next]_vars => ConflictsReported'
  <1> SUFFICES ASSUME ReportInv, [Next]_vars, NEW q \in Reqs,
                      reply'[q].kind = "push", ~reply'[q].cached,
                      userRow'[OwnerOf[call'[q].dev]] # "absent"
               PROVE  Reported(ops', reply'[q].resp.accepted,
                               reply'[q].resp.conflicts)
    BY DEF ConflictsReported, Reported
  <1>0. AnswerInv /\ BatchInv /\ TxReported /\ ConflictsReported /\ AcceptedIsStored
    BY DEF ReportInv, AnswerInv
  <1>1. CASE PushCommit(q)
    <2>1. conn = q /\ ops' = work.ops
      BY <1>0, <1>1 DEF PushCommit, BatchInv, LogInv, ConnInv, ConnHeld, InTx
    <2>2. /\ reply'[q].resp.accepted = work.accepted
          /\ reply'[q].resp.conflicts = work.conflicts
      BY <1>0, <1>1
      DEF PushCommit, Answer, BatchInv, LogInv, ConnInv, TypeInv, TypeOK
    <2> QED BY <1>0, <2>1, <2>2 DEF TxReported
  <1>2. CASE reply'[q] = reply[q] /\ call'[q] = call[q]
    <2> DEFINE resp == reply[q].resp
    <2>1. OwnerOf[call[q].dev] \in Users
      <3>1. call[q] \in PushCall
        BY <1>0, <1>2 DEF BatchInv, LogInv, ConnInv, TypeInv, CallOK
      <3> QED BY <3>1, DeviceAssumption, CallKinds
    <2>2. userRow[OwnerOf[call[q].dev]] # "absent"
      BY <1>0, <1>2, <2>1, RowsStay
    <2>3. /\ Reported(ops, resp.accepted, resp.conflicts)
          /\ \A id \in resp.accepted : \E row \in ops : row.id = id
      BY <1>0, <1>2, <2>2 DEF ConflictsReported, Reported, AcceptedIsStored
    <2> HIDE DEF resp
    <2>4. CASE ops' \subseteq ops
      <3>1. Reported(ops', resp.accepted, resp.conflicts)
        BY <2>3, <2>4 DEF Reported
      <3> QED BY <1>2, <3>1 DEF resp
    <2>5. ASSUME NEW r \in Reqs, PushCommit(r)
          PROVE  Reported(ops', resp.accepted, resp.conflicts)
      <3>1. /\ conn = r /\ ops' = work.ops /\ lastRev \in Nat
            /\ \A x \in ops : x.seq \in 1..lastRev
        BY <1>0, <2>5
        DEF PushCommit, BatchInv, LogInv, ConnInv, TypeInv, TypeOK, ConnHeld, InTx,
            LogOK, Known, Seen
      <3>2. \A x \in ops' \ ops : \A y \in ops : x.id # y.id /\ ~(x.seq < y.seq)
        <4>1. \A x \in NewRows : /\ x.seq \in (lastRev + 1)..work.lastRev
                                 /\ \A y \in ops : x.id # y.id
          BY <1>0, <3>1 DEF BatchInv, LogInv, TxOK, BatchOK
        <4>2. work.lastRev \in Nat
          BY <1>0 DEF BatchInv, LogInv, ConnInv, TypeInv, TypeOK, Work
        <4> QED BY <3>1, <4>1, <4>2 DEF NewRows
      <3> SUFFICES ASSUME NEW mine \in ops', NEW other \in ops',
                          mine.id \in resp.accepted, mine.seen > 0,
                          other.scope = mine.scope, other.entity = mine.entity,
                          other.device # mine.device, other.type # "delete",
                          other.seq > mine.seen, other.seq < mine.seq
                   PROVE  other \in resp.conflicts
        BY DEF Reported
      <3>3. mine \in ops
        BY <2>3, <3>2
      <3>4. other \in ops
        BY <3>2, <3>3
      <3> QED BY <2>3, <3>3, <3>4 DEF Reported
    <2>6. CASE \E r \in Reqs : PushCommit(r)
      BY <1>2, <2>5, <2>6 DEF resp
    <2> QED BY <2>4, <2>6, OnlyCommitsAppend, <1>0 DEF BatchInv, LogInv
  <1> QED BY <1>0, <1>1, <1>2, FreshReplies

\* Whatever comes between the statements of other pushes, an answer names every
\* concurrent change to what it accepts.
THEOREM ConcurrentChangesAreReported == Spec => []ConflictsReported
  <1>1. Init /\ AnswerInv => ReportInv
    BY ReqAssumption, ReplyKinds DEF Init, ReportInv, TxReported, ConflictsReported
  <1>2. ReportInv /\ [Next]_vars /\ AnswerInv' => ReportInv'
    BY NextTxReported, NextConflictsReported DEF ReportInv
  <1>3. ReportInv => ConflictsReported
    BY DEF ReportInv
  <1> QED BY <1>1, <1>2, <1>3, AnswerInvariant, PTL DEF Spec
=============================================================================
