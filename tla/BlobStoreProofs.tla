-------------------------- MODULE BlobStoreProofs --------------------------
(***************************************************************************)
(* What is proved of BlobStore, for all users, vaults, contents, limits    *)
(* and any number of requests.                                             *)
(***************************************************************************)
EXTENDS BlobStore, FiniteSetTheorems, TLAPS

\* What a request asks is a record of Call, and NoCall is none of them.
LEMMA CallKinds ==
    /\ NoCall \notin Call
    /\ \A c \in Call : /\ c.kind \in {"upload", "download", "push"}
                      /\ c.scope \in Scopes /\ c.hash \in Hashes
    /\ \A c \in Call : RefOf(c) \in Ref
  BY KindAssumption DEF NoCall, Call, RefOf, Ref

\* No upload in progress has an old temporary file.
HeldIsYoung == \A r \in Reqs : tmp[r] \notin old
TypeInv == TypeOK /\ HeldIsYoung

\* Every step keeps the types.
LEMMA TypeStep ==
    ASSUME TypeInv, [Next]_vars PROVE TypeInv'
  <1> USE DEF TypeInv, HeldIsYoung, TypeOK, PCs, UploadPCs, InTx, Replies, db,
      disk, locals
  <1>1. CASE UNCHANGED vars
    BY <1>1 DEF vars
  <1>2. ASSUME NEW r \in Reqs, NEW c \in Call, Send(r, c) PROVE TypeInv'
    BY <1>2, CallKinds DEF Send, Goto
  <1>3. ASSUME NEW r \in Reqs, Waiting(r) \/ Running(r)
               \/ AttachCommitFails(r) \/ Fail(r)
        PROVE TypeInv'
    <2>1. CASE Authenticate(r)
      BY <2>1, CallKinds DEF Authenticate, Answer, Goto, FirstStep
    <2>2. CASE AttachBegin(r)
      BY <2>2 DEF AttachBegin, Goto
    <2>3. CASE ReadRef(r)
      BY <2>3 DEF ReadRef, MayRead, Answer, Goto
    <2>4. CASE TouchAndServe(r)
      BY <2>4 DEF TouchAndServe, Answer, Goto
    <2>5. CASE PushNaming(r)
      BY <2>5 DEF PushNaming, Answer, Goto
    <2>6. CASE CreateTemp(r)
      BY <2>6 DEF CreateTemp, Goto
    <2>7. CASE Copy(r)
      BY <2>7 DEF Copy, Answer, Goto
    <2>8. CASE CheckParts(r)
      BY <2>8 DEF CheckParts, Answer, Goto
    <2>9. CASE AttachRef(r)
      BY <2>9 DEF AttachRef, AlreadyAttached, Answer, Goto
    <2>10. CASE AttachPlace(r)
      BY <2>10, CallKinds DEF AttachPlace, Goto
    <2>11. CASE AttachRows(r)
      BY <2>11 DEF AttachRows, Goto
    <2>12. CASE AttachCommit(r)
      BY <2>12, CallKinds DEF AttachCommit, Answer, Goto
    <2>13. CASE AttachUndo(r)
      BY <2>13 DEF AttachUndo, Answer, Goto
    <2>14. CASE OpenFile(r)
      BY <2>14 DEF OpenFile, Answer, Goto
    <2>15. CASE Finish(r)
      BY <2>15, CallKinds, NameAssumption DEF Finish, Goto, Forget
    <2>16. CASE AttachCommitFails(r)
      BY <2>16 DEF AttachCommitFails, Answer, Goto
    <2>17. CASE Fail(r)
      BY <2>17 DEF Fail, Answer, Goto, TakenBack, Rollback
    <2> QED BY <1>3, <2>1, <2>2, <2>3, <2>4, <2>5, <2>6, <2>7, <2>8, <2>9,
         <2>10, <2>11, <2>12, <2>13, <2>14, <2>15, <2>16, <2>17
      DEF Waiting, Running
  <1>4. CASE Crash
    BY <1>4, NameAssumption DEF Crash
  <1>5. ASSUME NEW u \in Users, DeleteUser(u) PROVE TypeInv'
    BY <1>5 DEF DeleteUser
  <1>6. CASE SweepStart
    BY <1>6 DEF SweepStart
  <1>7. ASSUME NEW name \in TempNames, Age(name) \/ SweepVisit(name)
        PROVE TypeInv'
    BY <1>7 DEF Age, SweepVisit, Stale
  <1> QED BY <1>1, <1>2, <1>3, <1>4, <1>5, <1>6, <1>7 DEF Next

\* The connection is held by the one request inside attachBlob's transaction.
ConnHeld == \A r \in Reqs : pc[r] \in InTx <=> conn = r

\* Every step keeps who holds the connection.
LEMMA ConnStep ==
    ASSUME TypeOK, ConnHeld, [Next]_vars PROVE ConnHeld'
  <1> USE DEF TypeOK, ConnHeld, InTx, PCs, UploadPCs, ConnFree, db, disk, locals
  <1>1. CASE UNCHANGED vars
    BY <1>1 DEF vars
  <1>2. ASSUME NEW r \in Reqs, NEW c \in Call, Send(r, c) PROVE ConnHeld'
    BY <1>2 DEF Send, Goto
  <1>3. ASSUME NEW r \in Reqs, Waiting(r) \/ Running(r)
               \/ AttachCommitFails(r) \/ Fail(r)
        PROVE ConnHeld'
    <2>1. CASE Authenticate(r)
      BY <2>1, NameAssumption, CallKinds
      DEF Authenticate, Answer, Goto, FirstStep
    <2>2. CASE AttachBegin(r)
      BY <2>2, NameAssumption, CallKinds DEF AttachBegin, Goto
    <2>3. CASE ReadRef(r)
      BY <2>3 DEF ReadRef, MayRead, Answer, Goto
    <2>4. CASE TouchAndServe(r)
      BY <2>4 DEF TouchAndServe, Answer, Goto
    <2>5. CASE PushNaming(r)
      BY <2>5 DEF PushNaming, Answer, Goto
    <2>6. CASE CreateTemp(r)
      BY <2>6 DEF CreateTemp, Goto
    <2>7. CASE Copy(r)
      BY <2>7 DEF Copy, Answer, Goto
    <2>8. CASE CheckParts(r)
      BY <2>8 DEF CheckParts, Answer, Goto
    <2>9. CASE AttachRef(r)
      BY <2>9, NameAssumption, CallKinds
      DEF AttachRef, AlreadyAttached, Answer, Goto
    <2>10. CASE AttachPlace(r)
      BY <2>10 DEF AttachPlace, Goto
    <2>11. CASE AttachRows(r)
      BY <2>11 DEF AttachRows, Goto
    <2>12. CASE AttachCommit(r)
      BY <2>12, NameAssumption, CallKinds DEF AttachCommit, Answer, Goto
    <2>13. CASE AttachUndo(r)
      BY <2>13 DEF AttachUndo, Answer, Goto
    <2>14. CASE OpenFile(r)
      BY <2>14 DEF OpenFile, Answer, Goto
    <2>15. CASE Finish(r)
      BY <2>15 DEF Finish, Goto, Forget
    <2>16. CASE AttachCommitFails(r)
      BY <2>16, NameAssumption, CallKinds DEF AttachCommitFails, Answer, Goto
    <2>17. CASE Fail(r)
      BY <2>17, NameAssumption, CallKinds
      DEF Fail, Answer, Goto, TakenBack, Rollback
    <2> QED BY <1>3, <2>1, <2>2, <2>3, <2>4, <2>5, <2>6, <2>7, <2>8, <2>9,
         <2>10, <2>11, <2>12, <2>13, <2>14, <2>15, <2>16, <2>17
      DEF Waiting, Running
  <1>4. CASE Crash
    BY <1>4, NameAssumption DEF Crash
  <1>5. ASSUME NEW u \in Users, DeleteUser(u) PROVE ConnHeld'
    BY <1>5 DEF DeleteUser
  <1>6. CASE SweepStart
    BY <1>6 DEF SweepStart
  <1>7. ASSUME NEW name \in TempNames, Age(name) \/ SweepVisit(name)
        PROVE ConnHeld'
    BY <1>7 DEF Age, SweepVisit, Stale
  <1> QED BY <1>1, <1>2, <1>3, <1>4, <1>5, <1>6, <1>7 DEF Next

\* What the transaction in progress knows of the file it will refer to: it is
\* there, and where this upload made it nobody refers to it yet.
PlacedOK ==
    \A r \in Reqs :
        /\ pc[r] # "undo"
        /\ pc[r] \in {"place", "rows"} => fresh[r]
        /\ pc[r] \in {"rows", "commit"} /\ fresh[r] => call[r].hash \in files
        /\ pc[r] = "rows" /\ made[r] =>
              \A ref \in refs : ref.hash # call[r].hash

FileInv == ReferencedIsStored /\ OpsRestorable /\ PlacedOK

\* As long as Commit does not fail, every step keeps the files referred to.
LEMMA FileStep ==
    ASSUME "commitfail" \notin Events, TypeOK, ConnHeld, FileInv,
        [Next]_vars PROVE FileInv'
  <1> USE DEF FileInv, RefOf, ReferencedIsStored, OpsRestorable, PlacedOK,
      TypeOK, ConnHeld, InTx, ConnFree, db, disk, locals
  <1>1. CASE UNCHANGED vars
    BY <1>1 DEF vars
  <1>2. ASSUME NEW r \in Reqs, NEW c \in Call, Send(r, c) PROVE FileInv'
    BY <1>2 DEF Send, Goto
  <1>3. ASSUME NEW r \in Reqs, Waiting(r) \/ Running(r)
               \/ AttachCommitFails(r) \/ Fail(r)
        PROVE FileInv'
    <2>1. CASE Authenticate(r)
      BY <2>1, CallKinds DEF Authenticate, Answer, Goto, FirstStep
    <2>2. CASE AttachBegin(r)
      BY <2>2 DEF AttachBegin, Goto
    <2>3. CASE ReadRef(r)
      BY <2>3 DEF ReadRef, MayRead, Answer, Goto
    <2>4. CASE TouchAndServe(r)
      BY <2>4 DEF TouchAndServe, Answer, Goto
    <2>5. CASE PushNaming(r)
      BY <2>5 DEF PushNaming, Answer, Goto
    <2>6. CASE CreateTemp(r)
      BY <2>6 DEF CreateTemp, Goto
    <2>7. CASE Copy(r)
      BY <2>7 DEF Copy, Answer, Goto
    <2>8. CASE CheckParts(r)
      BY <2>8 DEF CheckParts, Answer, Goto
    <2>9. CASE AttachRef(r)
      BY <2>9 DEF AttachRef, AlreadyAttached, Answer, Goto
    <2>10. CASE AttachPlace(r)
      BY <2>10 DEF AttachPlace, Goto
    <2>11. CASE AttachRows(r)
      BY <2>11 DEF AttachRows, Goto
    <2>12. CASE AttachCommit(r)
      BY <2>12 DEF AttachCommit, Answer, Goto
    <2>13. CASE AttachUndo(r)
      BY <2>13 DEF AttachUndo, Answer, Goto
    <2>14. CASE OpenFile(r)
      BY <2>14 DEF OpenFile, Answer, Goto
    <2>15. CASE Finish(r)
      BY <2>15 DEF Finish, Goto, Forget
    <2>16. CASE AttachCommitFails(r)
      BY <2>16 DEF AttachCommitFails, Answer, Goto
    <2>17. CASE Fail(r)
      BY <2>17 DEF Fail, Answer, Goto, TakenBack, Rollback
    <2> QED BY <1>3, <2>1, <2>2, <2>3, <2>4, <2>5, <2>6, <2>7, <2>8, <2>9,
         <2>10, <2>11, <2>12, <2>13, <2>14, <2>15, <2>16, <2>17
      DEF Waiting, Running
  <1>4. CASE Crash
    BY <1>4 DEF Crash
  <1>5. ASSUME NEW u \in Users, DeleteUser(u) PROVE FileInv'
    BY <1>5 DEF DeleteUser
  <1>6. CASE SweepStart
    BY <1>6 DEF SweepStart
  <1>7. ASSUME NEW name \in TempNames, Age(name) \/ SweepVisit(name)
        PROVE FileInv'
    BY <1>7 DEF Age, SweepVisit, Stale
  <1> QED BY <1>1, <1>2, <1>3, <1>4, <1>5, <1>6, <1>7 DEF Next

\* The type invariant holds in every reachable state.
THEOREM TypeCorrect == Spec => []TypeOK
  <1>1. Init => TypeInv
    BY DEF Init, TypeInv, HeldIsYoung, TypeOK, PCs, Replies
  <1>2. TypeInv /\ [Next]_vars => TypeInv'
    BY TypeStep
  <1>3. TypeInv => TypeOK
    BY DEF TypeInv
  <1> QED BY <1>1, <1>2, <1>3, PTL DEF Spec

\* At most one upload is between Begin and Commit, and exactly that one holds
\* the connection, whatever failed before.
THEOREM ConnectionHeld == Spec => []ConnHeld
  <1>1. Init => ConnHeld
    BY NameAssumption DEF Init, ConnHeld, InTx
  <1>2. TypeOK /\ ConnHeld /\ [Next]_vars => ConnHeld'
    BY ConnStep
  <1> QED BY <1>1, <1>2, TypeCorrect, PTL DEF Spec

\* Nothing is referred to at first.
LEMMA InitFileInv == Init => FileInv
  BY DEF Init, FileInv, ReferencedIsStored, OpsRestorable, PlacedOK

\* With commits that do not fail, a blob some scope refers to is always on the
\* disk: for all interleavings of uploads of the same content, failures before
\* Commit, crashes and deleted users.
THEOREM ReferencesHaveFiles ==
    ASSUME "commitfail" \notin Events
    PROVE  Spec => []ReferencedIsStored
  <1>1. TypeOK /\ ConnHeld /\ FileInv /\ [Next]_vars => FileInv'
    BY FileStep
  <1>2. FileInv => ReferencedIsStored
    BY DEF FileInv
  <1> QED BY <1>1, <1>2, InitFileInv, TypeCorrect, ConnectionHeld, PTL DEF Spec

\* With commits that do not fail, every operation in the log that names a blob
\* can be restored by its scope.
THEOREM OperationsCanBeRestored ==
    ASSUME "commitfail" \notin Events
    PROVE  Spec => []OpsRestorable
  <1>1. TypeOK /\ ConnHeld /\ FileInv /\ [Next]_vars => FileInv'
    BY FileStep
  <1>2. FileInv => OpsRestorable
    BY DEF FileInv
  <1> QED BY <1>1, <1>2, InitFileInv, TypeCorrect, ConnectionHeld, PTL DEF Spec

-----------------------------------------------------------------------------
(* The sweep.                                                              *)

\* While a sweep runs every stale file is still on its list.
SweepInv == sweep # {} => old \subseteq sweep

LEMMA SweepStep ==
    ASSUME TypeInv, SweepInv, [Next]_vars PROVE SweepInv'
  <1> USE DEF SweepInv, disk, locals, db
  <1>1. CASE UNCHANGED vars
    BY <1>1 DEF vars
  <1>2. ASSUME NEW r \in Reqs, NEW c \in Call, Send(r, c) PROVE SweepInv'
    BY <1>2 DEF Send
  <1>3. ASSUME NEW r \in Reqs, Waiting(r) \/ Running(r)
               \/ AttachCommitFails(r) \/ Fail(r)
        PROVE SweepInv'
    BY <1>3
    DEF Waiting, Running, Authenticate, AttachBegin, ReadRef, TouchAndServe,
        PushNaming, CreateTemp, Copy, CheckParts, AttachRef, AttachPlace,
        AttachRows, AttachCommit, AttachUndo, OpenFile, Finish,
        AttachCommitFails, Fail
  <1>4. CASE Crash
    BY <1>4 DEF Crash
  <1>5. ASSUME NEW u \in Users, DeleteUser(u) PROVE SweepInv'
    BY <1>5 DEF DeleteUser
  <1>6. CASE SweepStart
    BY <1>6 DEF SweepStart, TypeInv, TypeOK
  <1>7. ASSUME NEW name \in TempNames, Age(name) \/ SweepVisit(name)
        PROVE SweepInv'
    BY <1>7 DEF Age, SweepVisit, Stale, TypeInv, TypeOK
  <1> QED BY <1>1, <1>2, <1>3, <1>4, <1>5, <1>6, <1>7 DEF Next

\* A sweep that is not stopped by a vanished file removes every stale one.
THEOREM SweepsAreThorough == Spec => SweptClean
  <1>1. Init => TypeInv /\ SweepInv
    BY DEF Init, TypeInv, HeldIsYoung, TypeOK, PCs, Replies, SweepInv
  <1>2. TypeInv /\ SweepInv /\ [Next]_vars => (TypeInv /\ SweepInv)'
    BY TypeStep, SweepStep
  <1>3. TypeInv /\ SweepInv /\ [Next]_vars =>
            [\A name \in TempNames :
                SweepVisit(name) /\ name \in temps /\ sweep' = {}
                    => old' = {}]_vars
    BY DEF SweepInv, SweepVisit, Stale, TypeInv, TypeOK
  <1> QED BY <1>1, <1>2, <1>3, PTL DEF Spec, SweptClean

-----------------------------------------------------------------------------
(* What rejected uploads leave behind.                                     *)

\* A file without a reference has an upload that made it and is not done; and
\* what has made a file is about to commit a reference to it.
Orphans == {hash \in files : \A ref \in refs : ref.hash # hash}
MadeInv ==
    /\ \A hash \in Orphans :
          \E r \in Reqs : /\ pc[r] \in {"rows", "commit", "undo"}
                         /\ made[r] /\ call[r].hash = hash
    /\ \A r \in Reqs :
          /\ pc[r] \in {"place", "rows"} => fresh[r]
          /\ pc[r] = "commit" /\ made[r] => fresh[r]
          /\ made[r] => pc[r] \in {"rows", "commit", "undo", "reply"}

\* Every temporary file is that of one upload, which has it until it renames
\* or removes it.
HeldInv ==
    /\ \A name \in temps : \E r \in Reqs : tmp[r] = name
    /\ \A r \in Reqs :
          /\ pc[r] \in {"copy", "parts", "begin", "ref", "place"} => tmp[r] \in temps
          /\ pc[r] \in {"idle", "auth", "create"} => tmp[r] = NoTemp
    /\ \A q, r \in Reqs : tmp[q] = tmp[r] /\ tmp[r] # NoTemp => q = r

\* Where the process lives and no user is deleted, every step keeps both.
LEMMA MadeStep ==
    ASSUME {"crash", "delete"} \cap Events = {}, TypeInv, MadeInv,
        [Next]_vars PROVE MadeInv'
  <1> USE DEF MadeInv, Orphans, RefOf, TypeInv, HeldIsYoung, TypeOK, InTx, db, disk, locals
  <1>1. CASE UNCHANGED vars
    BY <1>1 DEF vars
  <1>2. ASSUME NEW r \in Reqs, NEW c \in Call, Send(r, c) PROVE MadeInv'
    BY <1>2 DEF Send, Goto
  <1>3. ASSUME NEW r \in Reqs, Waiting(r) \/ Running(r)
               \/ AttachCommitFails(r) \/ Fail(r)
        PROVE MadeInv'
    <2>1. CASE Authenticate(r)
      BY <2>1, CallKinds DEF Authenticate, Answer, Goto, FirstStep
    <2>2. CASE AttachBegin(r)
      BY <2>2 DEF AttachBegin, Goto
    <2>3. CASE ReadRef(r)
      BY <2>3 DEF ReadRef, Answer, Goto
    <2>4. CASE TouchAndServe(r)
      BY <2>4 DEF TouchAndServe, Answer, Goto
    <2>5. CASE PushNaming(r)
      BY <2>5 DEF PushNaming, Answer, Goto
    <2>6. CASE CreateTemp(r)
      BY <2>6 DEF CreateTemp, Goto
    <2>7. CASE Copy(r)
      BY <2>7 DEF Copy, Answer, Goto
    <2>8. CASE CheckParts(r)
      BY <2>8 DEF CheckParts, Answer, Goto
    <2>9. CASE AttachRef(r)
      BY <2>9 DEF AttachRef, Answer, Goto
    <2>10. CASE AttachPlace(r)
      BY <2>10 DEF AttachPlace, Goto
    <2>11. CASE AttachRows(r)
      BY <2>11 DEF AttachRows, Goto
    <2>12. CASE AttachCommit(r)
      <3>1. /\ pc[r] = "commit" /\ files' = files /\ refs \subseteq refs'
            /\ UNCHANGED <<call, fresh, made>>
            /\ pc' = [pc EXCEPT ![r] = "reply"]
        BY <2>12 DEF AttachCommit, Answer, Goto
      <3>2. ASSUME fresh[r] PROVE \E ref \in refs' : ref.hash = call[r].hash
        <4>1. RefOf(call[r]).hash = call[r].hash
          OBVIOUS
        <4>2. RefOf(call[r]) \in refs'
          BY <2>12, <3>2 DEF AttachCommit
        <4> QED BY <4>1, <4>2
      <3>3. ASSUME NEW hash \in Orphans'
            PROVE  \E q \in Reqs : /\ pc'[q] \in {"rows", "commit", "undo"}
                                  /\ made'[q] /\ call'[q].hash = hash
        <4>1. hash \in Orphans
          BY <3>1, <3>3
        <4>2. PICK q \in Reqs : /\ pc[q] \in {"rows", "commit", "undo"}
                               /\ made[q] /\ call[q].hash = hash
          BY <4>1
        <4>3. q # r
          BY <3>1, <3>2, <3>3, <4>2
        <4> QED BY <3>1, <4>2, <4>3
      <3>4. \A q \in Reqs :
               /\ pc'[q] \in {"place", "rows"} => fresh'[q]
               /\ pc'[q] = "commit" /\ made'[q] => fresh'[q]
               /\ made'[q] => pc'[q] \in {"rows", "commit", "undo", "reply"}
        BY <3>1
      <3> QED BY <3>3, <3>4
    <2>13. CASE AttachUndo(r)
      BY <2>13 DEF AttachUndo, Answer, Goto
    <2>14. CASE OpenFile(r)
      BY <2>14 DEF OpenFile, Answer, Goto
    <2>15. CASE Finish(r)
      BY <2>15 DEF Finish, Goto, Forget
    <2>16. CASE AttachCommitFails(r)
      BY <2>16 DEF AttachCommitFails, Answer, Goto
    <2>17. CASE Fail(r)
      BY <2>17 DEF Fail, Answer, Goto, TakenBack
    <2> QED BY <1>3, <2>1, <2>2, <2>3, <2>4, <2>5, <2>6, <2>7, <2>8, <2>9,
         <2>10, <2>11, <2>12, <2>13, <2>14, <2>15, <2>16, <2>17
      DEF Waiting, Running
  <1>4. CASE Crash \/ \E u \in Users : DeleteUser(u)
    BY <1>4 DEF Crash, DeleteUser
  <1>5. CASE SweepStart
    BY <1>5 DEF SweepStart
  <1>6. ASSUME NEW name \in TempNames, Age(name) \/ SweepVisit(name)
        PROVE MadeInv'
    BY <1>6 DEF Age, SweepVisit, Stale
  <1> QED BY <1>1, <1>2, <1>3, <1>4, <1>5, <1>6 DEF Next

LEMMA HeldStep ==
    ASSUME {"crash", "delete"} \cap Events = {}, TypeInv, HeldInv,
        [Next]_vars PROVE HeldInv'
  <1> USE DEF HeldInv, TypeInv, HeldIsYoung, TypeOK, InTx, db, disk, locals
  <1>1. CASE UNCHANGED vars
    BY <1>1 DEF vars
  <1>2. ASSUME NEW r \in Reqs, NEW c \in Call, Send(r, c) PROVE HeldInv'
    BY <1>2 DEF Send, Goto
  <1>3. ASSUME NEW r \in Reqs, Waiting(r) \/ Running(r)
               \/ AttachCommitFails(r) \/ Fail(r)
        PROVE HeldInv'
    <2>1. CASE Authenticate(r)
      BY <2>1, CallKinds DEF Authenticate, Answer, Goto, FirstStep
    <2>2. CASE AttachBegin(r)
      BY <2>2 DEF AttachBegin, Goto
    <2>3. CASE ReadRef(r)
      BY <2>3 DEF ReadRef, Answer, Goto
    <2>4. CASE TouchAndServe(r)
      BY <2>4 DEF TouchAndServe, Answer, Goto
    <2>5. CASE PushNaming(r)
      BY <2>5 DEF PushNaming, Answer, Goto
    <2>6. CASE CreateTemp(r)
      <3>1. PICK name \in TempNames \ (temps \cup {tmp[q] : q \in Reqs}) :
               temps' = temps \cup {name} /\ tmp' = [tmp EXCEPT ![r] = name]
        BY <2>6 DEF CreateTemp
      <3>2. pc[r] = "create" /\ pc' = [pc EXCEPT ![r] = "copy"] /\ tmp[r] = NoTemp
        BY <2>6 DEF CreateTemp, Goto
      <3>3. \A q \in Reqs : tmp[q] # name /\ NoTemp # name
        BY <3>1, NameAssumption
      <3>4. \A n \in temps' : \E q \in Reqs : tmp'[q] = n
        BY <3>1, <3>2, NameAssumption
      <3> QED BY <3>1, <3>2, <3>3, <3>4
    <2>7. CASE Copy(r)
      BY <2>7 DEF Copy, Answer, Goto
    <2>8. CASE CheckParts(r)
      BY <2>8 DEF CheckParts, Answer, Goto
    <2>9. CASE AttachRef(r)
      BY <2>9 DEF AttachRef, Answer, Goto
    <2>10. CASE AttachPlace(r)
      <3>1. /\ pc[r] = "place" /\ pc' = [pc EXCEPT ![r] = "rows"] /\ tmp' = tmp
            /\ temps' = temps \/ temps' = temps \ {tmp[r]}
        BY <2>10 DEF AttachPlace, Goto
      <3>2. tmp[r] \in temps /\ tmp[r] # NoTemp
        BY <3>1, NameAssumption
      <3>3. \A q \in Reqs : q # r => tmp[q] # tmp[r]
        BY <3>2
      <3> QED BY <3>1, <3>3
    <2>11. CASE AttachRows(r)
      BY <2>11 DEF AttachRows, Goto
    <2>12. CASE AttachCommit(r)
      BY <2>12 DEF AttachCommit, Answer, Goto
    <2>13. CASE AttachUndo(r)
      BY <2>13 DEF AttachUndo, Answer, Goto
    <2>14. CASE OpenFile(r)
      BY <2>14 DEF OpenFile, Answer, Goto
    <2>15. CASE Finish(r)
      <3>1. /\ pc' = [pc EXCEPT ![r] = "idle"] /\ temps' = temps \ {tmp[r]}
            /\ tmp' = [tmp EXCEPT ![r] = NoTemp]
        BY <2>15 DEF Finish, Goto, Forget
      <3>2. \A name \in temps' : \E q \in Reqs : tmp'[q] = name
        BY <3>1
      <3>3. \A q \in Reqs : tmp[q] \in temps => tmp[q] # NoTemp
        BY NameAssumption
      <3>4. \A q \in Reqs : q # r /\ tmp[q] \in temps => tmp[q] \in temps'
        BY <3>1, <3>3
      <3> QED BY <3>1, <3>2, <3>4
    <2>16. CASE AttachCommitFails(r)
      BY <2>16 DEF AttachCommitFails, Answer, Goto
    <2>17. CASE Fail(r)
      BY <2>17 DEF Fail, Answer, Goto, TakenBack
    <2> QED BY <1>3, <2>1, <2>2, <2>3, <2>4, <2>5, <2>6, <2>7, <2>8, <2>9,
         <2>10, <2>11, <2>12, <2>13, <2>14, <2>15, <2>16, <2>17
      DEF Waiting, Running
  <1>4. CASE Crash \/ \E u \in Users : DeleteUser(u)
    BY <1>4 DEF Crash, DeleteUser
  <1>5. CASE SweepStart
    BY <1>5 DEF SweepStart
  <1>6. ASSUME NEW name \in TempNames, Age(name) \/ SweepVisit(name)
        PROVE HeldInv'
    BY <1>6 DEF Age, SweepVisit, Stale
  <1> QED BY <1>1, <1>2, <1>3, <1>4, <1>5, <1>6 DEF Next

\* Whatever rejects an upload, a failing Commit included, leaves no file behind,
\* as long as the process lives and no user is deleted.
THEOREM NothingIsLeftBehind ==
    ASSUME {"crash", "delete"} \cap Events = {}
    PROVE  Spec => []NoResidue
  <1> DEFINE Inv == TypeInv /\ MadeInv /\ HeldInv
  <1>1. Init => Inv
    BY DEF Init, TypeInv, HeldIsYoung, TypeOK, PCs, Replies, MadeInv, Orphans,
           HeldInv
  <1>2. Inv /\ [Next]_vars => Inv'
    BY TypeStep, MadeStep, HeldStep
  <1>3. Inv => NoResidue
    BY DEF MadeInv, Orphans, HeldInv, NoResidue
  <1> HIDE DEF Inv
  <1> QED BY <1>1, <1>2, <1>3, PTL DEF Spec

-----------------------------------------------------------------------------
(* The quotas.                                                             *)

\* One more reference adds at most the size of its blob.
LEMMA SumOfMore ==
    ASSUME NEW rows, IsFiniteSet(Octets(rows)), NEW ref \in Ref
    PROVE  /\ IsFiniteSet(Octets(rows \cup {ref}))
           /\ SumSizes(rows) \in Nat /\ SumSizes(rows \cup {ref}) \in Nat
           /\ SumSizes(rows \cup {ref}) <= SumSizes(rows) + SizeOf[ref.hash]
  <1> DEFINE New == {ref} \X (1..SizeOf[ref.hash])
  <1>1. SizeOf[ref.hash] \in Nat
    BY SizeAssumption DEF Ref
  <1>2. IsFiniteSet(New) /\ Cardinality(New) = SizeOf[ref.hash]
    <2>1. ASSUME NEW n \in Nat PROVE IsFiniteSet(1..n) /\ Cardinality(1..n) = n
      <3>1. 1 \in Int /\ n \in Int
        OBVIOUS
      <3>2. /\ IsFiniteSet(1..n)
            /\ Cardinality(1..n) = IF 1 > n THEN 0 ELSE n - 1 + 1
        BY <3>1, FS_Interval, Zenon
      <3> QED BY <3>2
    <2>2. IsFiniteSet({ref}) /\ Cardinality({ref}) = 1
      BY FS_Singleton
    <2>3. /\ IsFiniteSet(New)
          /\ Cardinality(New) =
                Cardinality({ref}) * Cardinality(1..SizeOf[ref.hash])
      BY <1>1, <2>1, <2>2, FS_Product
    <2> QED BY <1>1, <2>1, <2>2, <2>3
  <1>3. Octets(rows \cup {ref}) = Octets(rows) \cup New
    BY DEF Octets
  <1> HIDE DEF New
  <1>4. /\ IsFiniteSet(Octets(rows) \cup New)
        /\ Cardinality(Octets(rows) \cup New) =
              Cardinality(Octets(rows)) + Cardinality(New)
                - Cardinality(Octets(rows) \cap New)
    BY <1>2, FS_Union
  <1>5. IsFiniteSet(Octets(rows) \cap New)
    BY <1>2, FS_Subset
  <1>6. /\ Cardinality(Octets(rows)) \in Nat
        /\ Cardinality(Octets(rows) \cap New) \in Nat
        /\ Cardinality(Octets(rows) \cup New) \in Nat
    BY <1>4, <1>5, FS_CardinalityType
  <1>7. Cardinality(Octets(rows) \cup New) <=
            Cardinality(Octets(rows)) + SizeOf[ref.hash]
    BY <1>1, <1>2, <1>4, <1>6
  <1> QED BY <1>3, <1>4, <1>6, <1>7 DEF SumSizes

\* Fewer references do not weigh more.
LEMMA SumOfFewer ==
    ASSUME NEW more, IsFiniteSet(Octets(more)), NEW rows \in SUBSET more
    PROVE  /\ IsFiniteSet(Octets(rows))
           /\ SumSizes(rows) \in Nat /\ SumSizes(more) \in Nat
           /\ SumSizes(rows) <= SumSizes(more)
  <1>1. Octets(rows) \subseteq Octets(more)
    BY DEF Octets
  <1> QED BY <1>1, FS_Subset, FS_CardinalityType DEF SumSizes

\* The uploads that have passed the quota check and will add a reference: their
\* content still fits, for nobody else adds one before they commit or give up.
Adding(r) == pc[r] \in {"place", "rows", "commit"} /\ fresh[r]
QuotaInv ==
    /\ IsFiniteSet(Octets(refs))
    /\ QuotaKept
    /\ \A r \in Reqs :
          /\ Adding(r) => ~OverQuota(call[r].scope, SizeOf[call[r].hash])
          /\ fresh[r] => pc[r] \in {"place", "rows", "commit", "undo", "reply"}

\* Whatever leaves the references alone leaves the sums alone.
LEMMA SameSums ==
    ASSUME refs' = refs
    PROVE  /\ IsFiniteSet(Octets(refs))' <=> IsFiniteSet(Octets(refs))
           /\ QuotaKept' <=> QuotaKept
           /\ \A s, n : OverQuota(s, n)' <=> OverQuota(s, n)
  BY DEF Octets, SumSizes, VaultUsed, UserUsed, QuotaKept, OverQuota

\* Passing the check or giving up, and all steps but a commit and a deletion,
\* keep what is known of the uploads that have passed it.
LEMMA AddingStep ==
    ASSUME TypeOK, QuotaInv, NEW r \in Reqs, refs' = refs,
        Waiting(r) \/ Running(r) \/ AttachCommitFails(r) \/ Fail(r)
    PROVE  QuotaInv'
  <1> USE DEF TypeOK, InTx, db, disk, locals
  <1>1. SUFFICES ASSUME NEW q \in Reqs
                 PROVE  /\ Adding(q)' =>
                              ~OverQuota(call'[q].scope, SizeOf[call'[q].hash])
                        /\ fresh'[q] => pc'[q] \in {"place", "rows", "commit",
                                                    "undo", "reply"}
    BY SameSums DEF QuotaInv
  <1> DEFINE Size(c) == SizeOf[c.hash]
  <1>2. /\ Adding(q) => ~OverQuota(call[q].scope, Size(call[q]))
        /\ fresh[q] => pc[q] \in {"place", "rows", "commit", "undo", "reply"}
    BY DEF QuotaInv
  <1> HIDE DEF Size
  <1> DEFINE Fits(c) == ~OverQuota(c.scope, Size(c))
  <1> HIDE DEF Fits
  <1>3. SUFFICES
              /\ pc'[q] \in {"place", "rows", "commit"} /\ fresh'[q] =>
                    Fits(call'[q])
              /\ fresh'[q] => pc'[q] \in {"place", "rows", "commit",
                                          "undo", "reply"}
    BY SameSums DEF Adding, Size, Fits
  <1>4. pc[q] \in {"place", "rows", "commit"} /\ fresh[q] => Fits(call[q])
    BY <1>2 DEF Adding, Fits
  <1>5. fresh[q] => pc[q] \in {"place", "rows", "commit", "undo", "reply"}
    BY <1>2
  <1>6. CASE Authenticate(r)
    BY <1>4, <1>5, <1>6, CallKinds DEF Authenticate, Answer, Goto, FirstStep
  <1>7. CASE AttachBegin(r)
    BY <1>4, <1>5, <1>7 DEF AttachBegin, Goto
  <1>8. CASE ReadRef(r) \/ TouchAndServe(r) \/ PushNaming(r)
    BY <1>4, <1>5, <1>8 DEF ReadRef, TouchAndServe, PushNaming, Answer, Goto
  <1>9. CASE CreateTemp(r) \/ Copy(r) \/ CheckParts(r)
    BY <1>4, <1>5, <1>9 DEF CreateTemp, Copy, CheckParts, Answer, Goto
  <1>10. CASE AttachRef(r)
    <2>1. ASSUME ~OverQuota(call[r].scope, SizeOf[call[r].hash])
          PROVE  Fits(call[r])
      BY <2>1 DEF Fits, Size
    <2> QED BY <1>4, <1>5, <1>10, <2>1 DEF AttachRef, Answer, Goto
  <1>11. CASE AttachPlace(r) \/ AttachRows(r)
    BY <1>4, <1>5, <1>11 DEF AttachPlace, AttachRows, Goto
  <1>12. CASE AttachCommit(r) \/ AttachCommitFails(r) \/ AttachUndo(r)
    BY <1>4, <1>5, <1>12
    DEF AttachCommit, AttachCommitFails, AttachUndo, Answer, Goto
  <1>13. CASE OpenFile(r) \/ Fail(r)
    BY <1>4, <1>5, <1>13 DEF OpenFile, Fail, Answer, Goto
  <1>14. CASE Finish(r)
    BY <1>4, <1>5, <1>14 DEF Finish, Goto, Forget
  <1> QED BY <1>6, <1>7, <1>8, <1>9, <1>10, <1>11, <1>12, <1>13, <1>14
    DEF Waiting, Running

\* A commit stays within the quotas: the sums are those that the check saw.
LEMMA CommitStep ==
    ASSUME TypeOK, ConnHeld, QuotaInv, NEW r \in Reqs, AttachCommit(r),
        fresh[r]
    PROVE  QuotaInv'
  <1> DEFINE ref == RefOf(call[r])
             size == SizeOf[call[r].hash]
             s == call[r].scope
  <1>1. /\ pc[r] = "commit" /\ refs' = refs \cup {ref}
        /\ pc' = [pc EXCEPT ![r] = "reply"] /\ UNCHANGED <<call, fresh>>
    BY DEF AttachCommit, Answer, Goto, locals
  <1>2. call[r] \in Call
    BY <1>1 DEF TypeOK
  <1>3. /\ ref \in Ref /\ ref.scope = s /\ ref.hash = call[r].hash
        /\ s \in Scopes /\ s[1] \in Users /\ size \in Nat
    BY <1>2, CallKinds, ScopeAssumption, SizeAssumption DEF RefOf
  <1>4. /\ VaultUsed(s) + size <= MaxVault
        /\ UserUsed(s[1]) + size <= MaxUser
        /\ IsFiniteSet(Octets(refs)) /\ QuotaKept
    <2>1. ~OverQuota(s, size)
      BY <1>1 DEF QuotaInv, Adding
    <2>2. VaultUsed(s) \in Nat /\ UserUsed(s[1]) \in Nat
      BY SumOfFewer DEF QuotaInv, VaultUsed, UserUsed
    <2> QED BY <1>3, <2>1, <2>2, LimitAssumption DEF OverQuota, QuotaInv
  <1> HIDE DEF ref, size
  <1>5. ASSUME NEW rows, rows \in SUBSET refs
        PROVE  /\ IsFiniteSet(Octets(rows))
               /\ SumSizes(rows) \in Nat /\ SumSizes(rows \cup {ref}) \in Nat
               /\ SumSizes(rows \cup {ref}) <= SumSizes(rows) + size
    BY <1>3, <1>4, <1>5, SumOfFewer, SumOfMore DEF size
  <1>6. IsFiniteSet(Octets(refs))'
    BY <1>1, <1>3, <1>4, SumOfMore
  <1>7. ASSUME NEW t \in Scopes PROVE VaultUsed(t)' <= MaxVault
    <2> DEFINE rows == {x \in refs : x.scope = t}
    <2>1. SumSizes(rows) <= MaxVault
      BY <1>4 DEF QuotaKept, VaultUsed
    <2>2. VaultUsed(t)' = IF t = s THEN SumSizes(rows \cup {ref})
                                   ELSE SumSizes(rows)
      <3>1. {x \in refs' : x.scope = t} = IF t = s THEN rows \cup {ref}
                                                   ELSE rows
        BY <1>1, <1>3
      <3> HIDE DEF rows, s
      <3> QED BY <3>1 DEF VaultUsed, SumSizes, Octets
    <2>3. t = s => SumSizes(rows) + size <= MaxVault
      BY <1>4 DEF VaultUsed
    <2>4. rows \in SUBSET refs
      OBVIOUS
    <2> HIDE DEF rows
    <2> QED BY <1>3, <1>5, <2>1, <2>2, <2>3, <2>4, LimitAssumption
  <1>8. ASSUME NEW u \in Users PROVE UserUsed(u)' <= MaxUser
    <2> DEFINE rows == {x \in refs : x.scope[1] = u}
    <2>1. SumSizes(rows) <= MaxUser
      BY <1>4 DEF QuotaKept, UserUsed
    <2>2. UserUsed(u)' = IF u = s[1] THEN SumSizes(rows \cup {ref})
                                     ELSE SumSizes(rows)
      <3>1. {x \in refs' : x.scope[1] = u} = IF u = s[1] THEN rows \cup {ref}
                                                         ELSE rows
        BY <1>1, <1>3
      <3> HIDE DEF rows, s
      <3> QED BY <3>1 DEF UserUsed, SumSizes, Octets
    <2>3. u = s[1] => SumSizes(rows) + size <= MaxUser
      BY <1>4 DEF UserUsed
    <2>4. rows \in SUBSET refs
      OBVIOUS
    <2> HIDE DEF rows
    <2> QED BY <1>3, <1>5, <2>1, <2>2, <2>3, <2>4, LimitAssumption
  <1>9. \A q \in Reqs : ~Adding(q)'
    BY <1>1 DEF ConnHeld, InTx, Adding, TypeOK
  <1>10. \A q \in Reqs :
            fresh'[q] => pc'[q] \in {"place", "rows", "commit", "undo", "reply"}
    BY <1>1 DEF QuotaInv, TypeOK
  <1> QED BY <1>6, <1>7, <1>8, <1>9, <1>10 DEF QuotaInv, QuotaKept

\* A deletion finds nobody inside a transaction, and takes references away.
LEMMA DeletionStep ==
    ASSUME TypeOK, ConnHeld, QuotaInv, NEW u \in Users, DeleteUser(u)
    PROVE  QuotaInv'
  <1>1. /\ refs' \subseteq refs /\ conn = NoReq
        /\ UNCHANGED <<pc, call, fresh>>
    BY DEF DeleteUser, ConnFree, locals
  <1>2. IsFiniteSet(Octets(refs))'
    BY <1>1, SumOfFewer DEF QuotaInv
  <1>3. ASSUME NEW s \in Scopes PROVE VaultUsed(s)' <= MaxVault
    <2> DEFINE few == {x \in refs' : x.scope = s}
               all == {x \in refs : x.scope = s}
    <2>1. few \in SUBSET all /\ all \in SUBSET refs
      BY <1>1
    <2>2. SumSizes(all) <= MaxVault
      BY DEF QuotaInv, QuotaKept, VaultUsed
    <2>3. VaultUsed(s)' = SumSizes(few)
      BY DEF VaultUsed, SumSizes, Octets
    <2> HIDE DEF few, all
    <2> QED BY <2>1, <2>2, <2>3, SumOfFewer, LimitAssumption DEF QuotaInv
  <1>4. ASSUME NEW v \in Users PROVE UserUsed(v)' <= MaxUser
    <2> DEFINE few == {x \in refs' : x.scope[1] = v}
               all == {x \in refs : x.scope[1] = v}
    <2>1. few \in SUBSET all /\ all \in SUBSET refs
      BY <1>1
    <2>2. SumSizes(all) <= MaxUser
      BY DEF QuotaInv, QuotaKept, UserUsed
    <2>3. UserUsed(v)' = SumSizes(few)
      BY DEF UserUsed, SumSizes, Octets
    <2> HIDE DEF few, all
    <2> QED BY <2>1, <2>2, <2>3, SumOfFewer, LimitAssumption DEF QuotaInv
  <1>5. \A q \in Reqs : ~Adding(q)'
    BY <1>1, NameAssumption DEF ConnHeld, InTx, Adding
  <1> QED BY <1>1, <1>2, <1>3, <1>4, <1>5 DEF QuotaInv, QuotaKept

\* Every step keeps the quotas and what the uploads in progress rely on.
LEMMA QuotaStep ==
    ASSUME TypeOK, ConnHeld, QuotaInv, [Next]_vars PROVE QuotaInv'
  <1> DEFINE Still == /\ refs' = refs
                      /\ \A r \in Reqs :
                            fresh'[r] => /\ fresh[r] /\ pc'[r] = pc[r]
                                         /\ call'[r] = call[r]
  <1>1. ASSUME Still PROVE QuotaInv'
    <2>1. ASSUME NEW r \in Reqs, Adding(r)'
          PROVE  (~OverQuota(call[r].scope, SizeOf[call[r].hash]))'
      <3>1. Adding(r) /\ call'[r] = call[r]
        BY <1>1, <2>1 DEF Adding
      <3>2. ~OverQuota(call[r].scope, SizeOf[call[r].hash])
        BY <3>1 DEF QuotaInv
      <3> QED BY <1>1, <3>1, <3>2, SameSums
    <2> QED BY <1>1, <2>1, SameSums DEF QuotaInv
  <1>2. CASE UNCHANGED vars
    BY <1>1, <1>2 DEF vars
  <1>3. ASSUME NEW r \in Reqs, NEW c \in Call, Send(r, c) PROVE QuotaInv'
    <2>1. ~fresh[r]
      BY <1>3 DEF Send, QuotaInv
    <2> QED BY <1>1, <1>3, <2>1 DEF Send, Goto, TypeOK, db
  <1>4. ASSUME NEW r \in Reqs, Waiting(r) \/ Running(r)
               \/ AttachCommitFails(r) \/ Fail(r)
        PROVE QuotaInv'
    <2>1. CASE AttachCommit(r) /\ fresh[r]
      BY <2>1, CommitStep
    <2>2. refs' = refs \/ (AttachCommit(r) /\ fresh[r])
      BY <1>4
      DEF Waiting, Running, Authenticate, AttachBegin, ReadRef, TouchAndServe,
          PushNaming, CreateTemp, Copy, CheckParts, AttachRef, AttachPlace,
          AttachRows, AttachCommit, AttachUndo, OpenFile, Finish,
          AttachCommitFails, Fail, db
    <2> QED BY <1>4, <2>1, <2>2, AddingStep
  <1>5. CASE Crash
    BY <1>1, <1>5 DEF Crash, db
  <1>6. ASSUME NEW u \in Users, DeleteUser(u) PROVE QuotaInv'
    BY <1>6, DeletionStep
  <1>7. CASE SweepStart \/ \E name \in TempNames : Age(name) \/ SweepVisit(name)
    BY <1>1, <1>7 DEF SweepStart, Age, SweepVisit, db, locals
  <1> HIDE DEF Still
  <1> QED BY <1>2, <1>3, <1>4, <1>5, <1>6, <1>7 DEF Next

\* The quotas and what the uploads rely on hold in every reachable state.
LEMMA QuotaInvariant == Spec => []QuotaInv
  <1>1. Init => QuotaInv
    <2>1. ASSUME Init PROVE Octets(refs) = {} /\ refs = {}
      BY <2>1 DEF Init, Octets
    <2>2. ASSUME Init PROVE QuotaKept /\ IsFiniteSet(Octets(refs))
      <3>1. SumSizes({}) = 0 /\ IsFiniteSet(Octets({}))
        BY FS_EmptySet DEF SumSizes, Octets
      <3>2. \A x : {y \in refs : y.scope = x} = {} /\ {y \in refs : y.scope[1] = x} = {}
        BY <2>1, <2>2
      <3>3. \A x : VaultUsed(x) = 0 /\ UserUsed(x) = 0
        BY <3>1, <3>2 DEF VaultUsed, UserUsed
      <3> QED BY <2>1, <2>2, <3>1, <3>3, LimitAssumption DEF QuotaKept
    <2> QED BY <2>2 DEF Init, QuotaInv, Adding
  <1>2. TypeOK /\ ConnHeld /\ QuotaInv /\ [Next]_vars => QuotaInv'
    BY QuotaStep
  <1> QED BY <1>1, <1>2, TypeCorrect, ConnectionHeld, PTL DEF Spec

\* No vault and no user ever has more than its quota, for any limits, sizes and
\* number of uploads that run their checks at the same time.
THEOREM QuotasAreKept == Spec => []QuotaKept
  <1>1. QuotaInv => QuotaKept
    BY DEF QuotaInv
  <1> QED BY <1>1, QuotaInvariant, PTL

-----------------------------------------------------------------------------
(* The store as its callers see it.                                        *)

\* Each handler is the one that was asked for, and an upload that will not add
\* a reference has found one, which stays while it holds the connection.
StageInv ==
    \A r \in Reqs :
        /\ pc[r] \in {"read", "open", "touch"} => call[r].kind = "download"
        /\ pc[r] = "push" => call[r].kind = "push"
        /\ pc[r] \in UploadPCs => call[r].kind = "upload"
        /\ pc[r] \in {"place", "rows"} => fresh[r]
        /\ pc[r] = "commit" /\ ~fresh[r] => RefOf(call[r]) \in refs

\* Every step keeps that.
LEMMA StageStep ==
    ASSUME TypeOK, ConnHeld, StageInv, [Next]_vars PROVE StageInv'
  <1> USE DEF StageInv, RefOf, TypeOK, ConnHeld, UploadPCs, InTx, ConnFree, db,
      disk, locals
  <1>1. CASE UNCHANGED vars
    BY <1>1 DEF vars
  <1>2. ASSUME NEW r \in Reqs, NEW c \in Call, Send(r, c) PROVE StageInv'
    BY <1>2 DEF Send, Goto
  <1>3. ASSUME NEW r \in Reqs, Waiting(r) \/ Running(r)
               \/ AttachCommitFails(r) \/ Fail(r)
        PROVE StageInv'
    <2>1. CASE Authenticate(r)
      BY <2>1, CallKinds DEF Authenticate, Answer, Goto, FirstStep
    <2>2. CASE AttachBegin(r)
      BY <2>2 DEF AttachBegin, Goto
    <2>3. CASE ReadRef(r)
      BY <2>3 DEF ReadRef, MayRead, Answer, Goto
    <2>4. CASE TouchAndServe(r)
      BY <2>4 DEF TouchAndServe, Answer, Goto
    <2>5. CASE PushNaming(r)
      BY <2>5 DEF PushNaming, Answer, Goto
    <2>6. CASE CreateTemp(r)
      BY <2>6 DEF CreateTemp, Goto
    <2>7. CASE Copy(r)
      BY <2>7 DEF Copy, Answer, Goto
    <2>8. CASE CheckParts(r)
      BY <2>8 DEF CheckParts, Answer, Goto
    <2>9. CASE AttachRef(r)
      BY <2>9 DEF AttachRef, AlreadyAttached, Answer, Goto
    <2>10. CASE AttachPlace(r)
      BY <2>10 DEF AttachPlace, Goto
    <2>11. CASE AttachRows(r)
      BY <2>11 DEF AttachRows, Goto
    <2>12. CASE AttachCommit(r)
      BY <2>12 DEF AttachCommit, Answer, Goto
    <2>13. CASE AttachUndo(r)
      BY <2>13 DEF AttachUndo, Answer, Goto
    <2>14. CASE OpenFile(r)
      BY <2>14 DEF OpenFile, Answer, Goto
    <2>15. CASE Finish(r)
      BY <2>15 DEF Finish, Goto, Forget
    <2>16. CASE AttachCommitFails(r)
      BY <2>16 DEF AttachCommitFails, Answer, Goto
    <2>17. CASE Fail(r)
      BY <2>17 DEF Fail, Answer, Goto, TakenBack, Rollback
    <2> QED BY <1>3, <2>1, <2>2, <2>3, <2>4, <2>5, <2>6, <2>7, <2>8, <2>9,
         <2>10, <2>11, <2>12, <2>13, <2>14, <2>15, <2>16, <2>17
      DEF Waiting, Running
  <1>4. CASE Crash
    BY <1>4 DEF Crash
  <1>5. ASSUME NEW u \in Users, DeleteUser(u) PROVE StageInv'
    BY <1>5, NameAssumption DEF DeleteUser
  <1>6. CASE SweepStart
    BY <1>6 DEF SweepStart
  <1>7. ASSUME NEW name \in TempNames, Age(name) \/ SweepVisit(name)
        PROVE StageInv'
    BY <1>7 DEF Age, SweepVisit, Stale
  <1> QED BY <1>1, <1>2, <1>3, <1>4, <1>5, <1>6, <1>7 DEF Next

\* The file of a granted download is there until it is opened, also when its
\* reference goes meanwhile, and nobody is about to take it back.
ReaderInv ==
    \A r \in Reqs : pc[r] = "open" =>
        /\ call[r].hash \in files
        /\ \A q \in Reqs :
              pc[q] = "rows" /\ made[q] => call[q].hash # call[r].hash

\* As long as Commit does not fail, every step keeps it.
LEMMA ReaderStep ==
    ASSUME "commitfail" \notin Events, TypeOK, ConnHeld, FileInv, ReaderInv,
        [Next]_vars PROVE ReaderInv'
  <1> USE DEF ReaderInv, TypeOK, ConnHeld, InTx, ConnFree, db, disk, locals
  <1>1. CASE UNCHANGED vars
    BY <1>1 DEF vars
  <1>2. ASSUME NEW r \in Reqs, NEW c \in Call, Send(r, c) PROVE ReaderInv'
    BY <1>2 DEF Send, Goto
  <1>3. ASSUME NEW r \in Reqs, Waiting(r) \/ Running(r)
               \/ AttachCommitFails(r) \/ Fail(r)
        PROVE ReaderInv'
    <2>1. CASE Authenticate(r)
      BY <2>1, CallKinds DEF Authenticate, Answer, Goto, FirstStep
    <2>2. CASE AttachBegin(r)
      BY <2>2 DEF AttachBegin, Goto
    <2>3. CASE ReadRef(r)
      <3>1. ConnFree /\ pc[r] = "read"
        BY <2>3 DEF ReadRef
      <3>2. \A q \in Reqs : pc[q] # "rows"
        BY <3>1, NameAssumption
      <3>3. MayRead(call[r]) => call[r].hash \in files
        BY DEF MayRead, RefOf, FileInv, ReferencedIsStored
      <3> QED BY <2>3, <3>2, <3>3 DEF ReadRef, Answer, Goto
    <2>4. CASE TouchAndServe(r)
      BY <2>4 DEF TouchAndServe, Answer, Goto
    <2>5. CASE PushNaming(r)
      BY <2>5 DEF PushNaming, Answer, Goto
    <2>6. CASE CreateTemp(r)
      BY <2>6 DEF CreateTemp, Goto
    <2>7. CASE Copy(r)
      BY <2>7 DEF Copy, Answer, Goto
    <2>8. CASE CheckParts(r)
      BY <2>8 DEF CheckParts, Answer, Goto
    <2>9. CASE AttachRef(r)
      BY <2>9 DEF AttachRef, AlreadyAttached, Answer, Goto
    <2>10. CASE AttachPlace(r)
      BY <2>10 DEF AttachPlace, Goto
    <2>11. CASE AttachRows(r)
      BY <2>11 DEF AttachRows, Goto
    <2>12. CASE AttachCommit(r)
      BY <2>12 DEF AttachCommit, Answer, Goto
    <2>13. CASE AttachUndo(r)
      BY <2>13 DEF AttachUndo, FileInv, PlacedOK
    <2>14. CASE OpenFile(r)
      BY <2>14 DEF OpenFile, Answer, Goto
    <2>15. CASE Finish(r)
      BY <2>15 DEF Finish, Goto, Forget
    <2>16. CASE AttachCommitFails(r)
      BY <2>16 DEF AttachCommitFails
    <2>17. CASE Fail(r)
      BY <2>17 DEF Fail, Answer, Goto, TakenBack
    <2> QED BY <1>3, <2>1, <2>2, <2>3, <2>4, <2>5, <2>6, <2>7, <2>8, <2>9,
         <2>10, <2>11, <2>12, <2>13, <2>14, <2>15, <2>16, <2>17
      DEF Waiting, Running
  <1>4. CASE Crash
    BY <1>4 DEF Crash
  <1>5. ASSUME NEW u \in Users, DeleteUser(u) PROVE ReaderInv'
    BY <1>5 DEF DeleteUser
  <1>6. CASE SweepStart
    BY <1>6 DEF SweepStart
  <1>7. ASSUME NEW name \in TempNames, Age(name) \/ SweepVisit(name)
        PROVE ReaderInv'
    BY <1>7 DEF Age, SweepVisit, Stale
  <1> QED BY <1>1, <1>2, <1>3, <1>4, <1>5, <1>6, <1>7 DEF Next

\* Where each request stands follows its handler.
LEMMA StageValues ==
    /\ StageOf("idle") = "idle" /\ StageOf("auth") = "asked"
    /\ StageOf("reply") = "answered"
    /\ StageOf("open") = "granted" /\ StageOf("touch") = "granted"
    /\ \A place \in UploadPCs \cup {"read", "push"} :
          StageOf(place) = "admitted"
  BY DEF StageOf, UploadPCs, InTx

LEMMA StageGoes ==
    ASSUME TypeOK, NEW r \in Reqs, NEW place, Goto(r, place)
    PROVE  /\ Stages' = [Stages EXCEPT ![r] = StageOf(place)]
           /\ Stages[r] = StageOf(pc[r])
           /\ StageOf(place) = StageOf(pc[r]) => Stages' = Stages
  BY DEF TypeOK, Goto, Stages

\* The abstract quotas are those of the code.
LEMMA SameQuotas ==
    ASSUME QuotaKept' PROVE Contents!WithinQuotas(refs')
  <1>1. ASSUME NEW s \in Scopes
        PROVE  SumSizes({x \in refs' : x.scope = s}) <= MaxVault
    <2>1. VaultUsed(s)' <= MaxVault
      BY DEF QuotaKept
    <2> QED BY <2>1 DEF VaultUsed, SumSizes, Octets
  <1>2. ASSUME NEW u \in Users
        PROVE  SumSizes({x \in refs' : x.scope[1] = u}) <= MaxUser
    <2>1. UserUsed(u)' <= MaxUser
      BY DEF QuotaKept
    <2> QED BY <2>1 DEF UserUsed, SumSizes, Octets
  <1> QED BY <1>1, <1>2 DEF Contents!WithinQuotas

\* What a handler does on its way is nothing to its caller.
LEMMA InnerSteps ==
    ASSUME TypeOK, NEW r \in Reqs, AttachBegin(r) \/ CreateTemp(r)
                \/ AttachPlace(r) \/ AttachRows(r)
    PROVE  UNCHANGED Contents!vars
  <1> USE StageValues, StageGoes DEF Contents!vars, UploadPCs, InTx, db, disk,
      locals
  <1>1. CASE AttachBegin(r)
    BY <1>1 DEF AttachBegin
  <1>2. CASE CreateTemp(r)
    BY <1>2 DEF CreateTemp
  <1>3. CASE AttachPlace(r) \/ AttachRows(r)
    BY <1>3 DEF AttachPlace, AttachRows
  <1> QED BY <1>1, <1>2, <1>3

\* What changes what the caller can tell is one step of the abstract store.
LEMMA AnswerSteps ==
    ASSUME TypeOK, ConnHeld, StageInv, QuotaKept',
           "commitfail" \notin Events => ReaderInv,
           NEW r \in Reqs,
           Waiting(r) \/ Running(r) \/ AttachCommitFails(r) \/ Fail(r)
    PROVE  Contents!Next \/ UNCHANGED Contents!vars
  <1> USE StageValues, StageGoes
      DEF UploadPCs, InTx, db, disk, locals, Answer, Contents!Ends,
          Contents!Wanted
  <1>1. SUFFICES \/ UNCHANGED Contents!vars
                 \/ Contents!Admit(r) \/ Contents!Reject(r)
                 \/ Contents!Store(r) \/ Contents!Grant(r)
                 \/ Contents!Serve(r) \/ Contents!Lose(r) \/ Contents!Name(r)
                 \/ Contents!Refuse(r) \/ Contents!Err(r) \/ Contents!Done(r)
    BY DEF Contents!Next
  <1>2. CASE Authenticate(r)
    <2>1. FirstStep[call[r].kind] \in UploadPCs \cup {"read", "push"}
      BY <1>2, CallKinds DEF Authenticate, TypeOK, FirstStep
    <2>2. CASE userRow[call[r].scope[1]] = "active"
      BY <1>2, <2>1, <2>2 DEF Authenticate, Contents!Admit
    <2>3. CASE userRow[call[r].scope[1]] # "active"
      BY <1>2, <2>3 DEF Authenticate, Contents!Reject
    <2> QED BY <2>2, <2>3
  <1>3. CASE AttachBegin(r) \/ CreateTemp(r) \/ AttachPlace(r) \/ AttachRows(r)
    BY <1>3, InnerSteps
  <1>4. CASE ReadRef(r)
    <2>1. CASE MayRead(call[r])
      BY <1>4, <2>1 DEF ReadRef, MayRead, RefOf, StageInv, Contents!Grant
    <2>2. CASE ~MayRead(call[r])
      BY <1>4, <2>2 DEF ReadRef, MayRead, RefOf, StageInv, Contents!Refuse
    <2> QED BY <2>1, <2>2
  <1>5. CASE OpenFile(r)
    <2>1. CASE call[r].hash \in files
      BY <1>5, <2>1 DEF OpenFile, Contents!vars
    <2>2. CASE call[r].hash \notin files
      BY <1>5, <2>2 DEF OpenFile, ReaderInv, Contents!Lose
    <2> QED BY <2>1, <2>2
  <1>6. CASE TouchAndServe(r)
    BY <1>6 DEF TouchAndServe, Contents!Serve
  <1>7. CASE PushNaming(r)
    <2>1. CASE RefOf(call[r]) \in refs
      BY <1>7, <2>1 DEF PushNaming, RefOf, StageInv, Contents!Name
    <2>2. CASE RefOf(call[r]) \notin refs
      BY <1>7, <2>2 DEF PushNaming, RefOf, StageInv, Contents!Refuse
    <2> QED BY <2>1, <2>2
  <1>8. CASE Copy(r) \/ CheckParts(r)
    <2>1. pc[r] \in {"copy", "parts"} /\ UNCHANGED <<db, call>>
      BY <1>8 DEF Copy, CheckParts
    <2>2. CASE Answer(r, "refused")
      BY <2>1, <2>2 DEF StageInv, Contents!Refuse
    <2>3. CASE (Goto(r, "parts") \/ Goto(r, "begin")) /\ UNCHANGED reply
      BY <2>1, <2>3 DEF Contents!vars
    <2> QED BY <1>8, <2>2, <2>3 DEF Copy, CheckParts
  <1>9. CASE AttachRef(r)
    <2>1. pc[r] = "ref" /\ UNCHANGED <<db, call>>
      BY <1>9 DEF AttachRef
    <2>2. CASE Answer(r, "refused")
      BY <2>1, <2>2 DEF StageInv, Contents!Refuse
    <2>3. CASE (Goto(r, "commit") \/ Goto(r, "place")) /\ UNCHANGED reply
      BY <2>1, <2>3 DEF Contents!vars
    <2> QED BY <1>9, <2>2, <2>3 DEF AttachRef
  <1>10. CASE AttachCommit(r)
    <2>1. refs' = refs \cup {RefOf(call[r])}
      BY <1>10 DEF AttachCommit, StageInv
    <2>2. Contents!WithinQuotas(refs')
      BY SameQuotas
    <2>3. pc[r] = "commit" /\ Answer(r, "stored") /\ UNCHANGED <<userRow, oplog, call>>
      BY <1>10 DEF AttachCommit
    <2>4. Stages[r] = "admitted" /\ Contents!Ends(r, "stored")
      BY <2>3
    <2>5. call[r].kind = "upload" /\ RefOf(call[r]) = Contents!Wanted(r)
      BY <2>3 DEF StageInv, RefOf
    <2> QED BY <2>1, <2>2, <2>3, <2>4, <2>5 DEF Contents!Store
  <1>11. CASE AttachCommitFails(r)
    <2>1. CASE made[r]
      BY <1>11, <2>1 DEF AttachCommitFails, Contents!vars
    <2>2. CASE ~made[r]
      BY <1>11, <2>2 DEF AttachCommitFails, Contents!Err
    <2> QED BY <2>1, <2>2
  <1>12. CASE AttachUndo(r)
    BY <1>12 DEF AttachUndo, Contents!Err
  <1>13. CASE Fail(r)
    <2>1. StageOf(pc[r]) \in {"asked", "admitted", "granted"}
      BY <1>13 DEF Fail, TypeOK, PCs
    <2> QED BY <1>13, <2>1 DEF Fail, Contents!Err
  <1>14. CASE Finish(r)
    BY <1>14 DEF Finish, Forget, Contents!Done, NoCall, Contents!NoAsk
  <1> QED BY <1>2, <1>3, <1>4, <1>5, <1>6, <1>7, <1>8, <1>9, <1>10, <1>11,
         <1>12, <1>13, <1>14 DEF Waiting, Running

\* Handlers, failures, crashes, deletions and sweeps are together, to whoever
\* calls it, the abstract store: one set of contents for each scope, within its
\* quotas, that each answered request read or changed in one step.
THEOREM StoreIsContentStore == Spec => ImplementsContentStore
  <1>1. Init => Contents!Init
    BY StageValues
    DEF Init, Contents!Init, Stages, NoCall, Contents!NoAsk
  <1>2. ASSUME TypeOK, ConnHeld, StageInv, QuotaInv,
               "commitfail" \notin Events => ReaderInv, [Next]_vars
        PROVE  [Contents!Next]_(Contents!vars)
    <2>1. QuotaKept'
      BY <1>2, QuotaStep DEF QuotaInv
    <2>2. CASE UNCHANGED vars
      BY <2>2 DEF vars, Contents!vars, Stages
    <2>3. ASSUME NEW r \in Reqs, NEW c \in Call, Send(r, c)
          PROVE  Contents!Next
      <3>1. /\ Stages[r] = "idle" /\ Stages' = [Stages EXCEPT ![r] = "asked"]
            /\ call' = [call EXCEPT ![r] = c]
            /\ UNCHANGED <<userRow, refs, oplog, reply>>
        BY <1>2, <2>3, StageValues, StageGoes DEF Send, db
      <3>2. c \in Contents!Asks
        BY DEF Contents!Asks, Call
      <3>3. Contents!Ask(r)
        BY <3>1, <3>2 DEF Contents!Ask
      <3> QED BY <3>3 DEF Contents!Next
    <2>4. ASSUME NEW r \in Reqs, Waiting(r) \/ Running(r)
                 \/ AttachCommitFails(r) \/ Fail(r)
          PROVE  [Contents!Next]_(Contents!vars)
      BY <1>2, <2>1, <2>4, AnswerSteps
    <2>5. CASE Crash
      <3>1. Contents!Crash
        BY <2>5, StageValues
        DEF Crash, Contents!Crash, Stages, NoCall, Contents!NoAsk, db
      <3> QED BY <3>1 DEF Contents!Next
    <2>6. ASSUME NEW u \in Users, DeleteUser(u) PROVE Contents!Next
      <3>1. Contents!Drop(u)
        BY <2>6 DEF DeleteUser, Contents!Drop, Stages, locals
      <3> QED BY <3>1 DEF Contents!Next
    <2>7. CASE SweepStart \/ \E name \in TempNames : Age(name) \/ SweepVisit(name)
      BY <2>7 DEF SweepStart, Age, SweepVisit, Contents!vars, Stages, db, locals
    <2> QED BY <1>2, <2>2, <2>3, <2>4, <2>5, <2>6, <2>7 DEF Next
  <1>3. Spec => []StageInv
    <2>1. Init => StageInv
      BY DEF Init, StageInv, UploadPCs, InTx
    <2>2. TypeOK /\ ConnHeld /\ StageInv /\ [Next]_vars => StageInv'
      BY StageStep
    <2> QED BY <2>1, <2>2, TypeCorrect, ConnectionHeld, PTL DEF Spec
  <1>4. Spec => []QuotaInv
    BY QuotaInvariant
  <1>5. Spec => []("commitfail" \notin Events => ReaderInv)
    <2> DEFINE Inv == "commitfail" \notin Events => FileInv /\ ReaderInv
    <2>1. Init => Inv
      BY InitFileInv DEF Init, ReaderInv
    <2>2. TypeOK /\ ConnHeld /\ Inv /\ [Next]_vars => Inv'
      BY FileStep, ReaderStep
    <2>3. Inv => ("commitfail" \notin Events => ReaderInv)
      OBVIOUS
    <2> HIDE DEF Inv
    <2> QED BY <2>1, <2>2, <2>3, TypeCorrect, ConnectionHeld, PTL DEF Spec
  <1>6. (TypeOK /\ ConnHeld /\ StageInv /\ QuotaInv
           /\ ("commitfail" \notin Events => ReaderInv)) /\ [Next]_vars
            => [Contents!Next]_(Contents!vars)
    BY <1>2
  <1> QED BY <1>1, <1>3, <1>4, <1>5, <1>6, TypeCorrect, ConnectionHeld, PTL
    DEF Spec, ImplementsContentStore, Contents!Spec

\* What an answer, and a download that was granted, relies on.
Granted(r) == RefOf(call[r]) \in refs \/ userRow[call[r].scope[1]] = "absent"
BackedInv ==
    /\ userRow \in [Users -> {"active", "absent"}]
    /\ call \in [Reqs -> Contents!Asks \cup {NoCall}]
    /\ reply \in [Reqs -> Replies]
    /\ \A r \in Reqs :
          /\ Stages[r] # "idle" => call[r] \in Contents!Asks
          /\ Stages[r] = "granted" => Granted(r)
          /\ reply[r] \in {"content", "stored"} =>
                Stages[r] = "answered" /\ Granted(r)

\* The abstract store answers with nothing else.
LEMMA ContentsBackAnswers == Contents!Spec => []BackedInv
  <1>1. Contents!Init => BackedInv
    BY DEF Contents!Init, BackedInv, Contents!NoAsk, NoCall, Replies
  <1>2. ASSUME BackedInv, [Contents!Next]_(Contents!vars) PROVE BackedInv'
    <2>1. Stages \in [Reqs -> {"idle", "asked", "admitted", "granted", "answered"}]
      BY DEF Stages, StageOf
    <2>2. \A c \in Contents!Asks : c.scope[1] \in Users /\ c # NoCall
      BY ScopeAssumption DEF Contents!Asks, NoCall
    <2> USE DEF BackedInv, Granted, RefOf, Replies, Contents!Wanted,
        Contents!Ends
    <2>3. CASE UNCHANGED Contents!vars
      BY <1>2, <2>3 DEF Contents!vars
    <2>4. ASSUME NEW r \in Reqs, Contents!Ask(r) PROVE BackedInv'
      BY <1>2, <2>1, <2>2, <2>4 DEF Contents!Ask
    <2>5. ASSUME NEW r \in Reqs,
                 Contents!Admit(r) \/ Contents!Reject(r) \/ Contents!Grant(r)
                   \/ Contents!Refuse(r) \/ Contents!Err(r) \/ Contents!Lose(r)
          PROVE BackedInv'
      BY <1>2, <2>1, <2>5 DEF Contents!Admit, Contents!Reject, Contents!Grant,
         Contents!Refuse, Contents!Err, Contents!Lose
    <2>6. ASSUME NEW r \in Reqs, Contents!Store(r) PROVE BackedInv'
      BY <1>2, <2>1, <2>6 DEF Contents!Store
    <2>7. ASSUME NEW r \in Reqs, Contents!Serve(r) \/ Contents!Name(r)
          PROVE BackedInv'
      BY <1>2, <2>1, <2>7 DEF Contents!Serve, Contents!Name
    <2>8. ASSUME NEW r \in Reqs, Contents!Done(r) PROVE BackedInv'
      BY <1>2, <2>1, <2>8 DEF Contents!Done, Contents!NoAsk, NoCall
    <2>9. ASSUME NEW u \in Users, Contents!Drop(u) PROVE BackedInv'
      BY <1>2, <2>1, <2>2, <2>9 DEF Contents!Drop
    <2>10. CASE Contents!Crash
      BY <1>2, <2>1, <2>10 DEF Contents!Crash, Contents!NoAsk, NoCall
    <2> QED BY <1>2, <2>3, <2>4, <2>5, <2>6, <2>7, <2>8, <2>9, <2>10
      DEF Contents!Next
  <1> QED BY <1>1, <1>2, PTL DEF Contents!Spec

\* A download serves only what the caller's own scope refers to, and an upload
\* answered with success has its reference, also where it found one already
\* there; unless the user was deleted meanwhile.  The abstract store shows it.
THEOREM AnswersAreBacked == Spec => []AnswersBacked
  <1>1. BackedInv => AnswersBacked
    BY DEF BackedInv, Granted, AnswersBacked
  <1> QED BY <1>1, StoreIsContentStore, ContentsBackAnswers, PTL
    DEF ImplementsContentStore
=============================================================================
