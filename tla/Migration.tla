----------------------------- MODULE Migration -----------------------------
(***************************************************************************)
(* The database file over the versions of the server: what NewServer does  *)
(* to the file an earlier version, or an interrupted start, left behind,   *)
(* and what the running server adds to it before the next start.           *)
(*                                                                         *)
(* A start executes the statements of serverSchema one by one, each on its *)
(* own, and then migrateServerSchema in one transaction; it serves nobody  *)
(* before both are done.  Whatever the running server writes is migrated   *)
(* again at the next start, so a start has to leave alone what is already  *)
(* as it should be.                                                        *)
(***************************************************************************)
EXTENDS Naturals, Sequences

CONSTANTS
    Users, NoUser,    \* NoUser and NoVault stand for NULL and ''
    Vaults, NoVault,
    Devices,          \* ids of old device rows and of devices still to come
    Disputed,         \* devices that server_user_devices may give two users
    OpIds, Secrets,   \* operation ids, values of mailed tokens
    MaxRev,           \* bound on the sequences given out
    Databases,        \* the files the first start may find
    Events            \* "fail", "crash", "misread"

OwnerOrNone == Users \cup {NoUser}
LegacyVault(user) == <<"legacy", user>>
OpVaults == Vaults \cup {NoVault} \cup {LegacyVault(u) : u \in Users}

EffectiveVault(user, vault) ==
    IF vault # NoVault THEN vault ELSE LegacyVault(user)

\* A table as this version creates it, as an earlier one left it, or missing.
\* The oldest server_devices has no user_id column.
Tables == {"devices", "ops", "tombs", "cached", "tokens"}
Layout == [Tables -> {"absent", "oldest", "old", "new"}]

\* A device that is not in the table has a row of NULLs: what a subquery on
\* it yields.
DeviceRow == [key : {"none", "plain", "disabled"}, legacy : BOOLEAN,
              user : OwnerOrNone, vault : Vaults \cup {NoVault}]
NoRow == [key |-> "none", legacy |-> FALSE, user |-> NoUser, vault |-> NoVault]
OpRow == [id : OpIds, seq : Nat, device : Devices,
          user : OwnerOrNone, vault : OpVaults]
TombRow == [op : OpIds, user : OwnerOrNone, vault : OpVaults]
CacheRow == [user : OwnerOrNone, vault : OpVaults]
TokenRow == [secret : Secrets, user : Users, hashed : BOOLEAN]

Database == [layout : Layout, users : SUBSET Users,
             devices : [Devices -> DeviceRow],
             owners : SUBSET [user : Users, device : Devices],
             ops : SUBSET OpRow, rev : Nat, tombs : SUBSET TombRow,
             cached : SUBSET CacheRow, tokens : SUBSET TokenRow]

OwnerRows(t, d) == {row \in t.owners : row.device = d}
IdsOf(rows) == {row.id : row \in rows}

\* What an earlier version wrote: columns it did not have are NULL, an
\* operation's scope was not stored, and a row of a device that has a user
\* names that user.
WrittenByEarlier(t) ==
    /\ t \in Database
    /\ \A d \in Devices :
          LET row == t.devices[d]
          IN /\ row.key # "disabled" /\ ~row.legacy /\ row.vault = NoVault
             /\ row.key = "none" => row = NoRow /\ OwnerRows(t, d) = {}
             /\ row.user # NoUser =>
                   OwnerRows(t, d) \subseteq {[user |-> row.user, device |-> d]}
             /\ d \notin Disputed =>
                   \A x, y \in OwnerRows(t, d) : x = y
    /\ \A op \in t.ops :
          /\ op.user = NoUser /\ op.vault = NoVault
          /\ 0 < op.seq /\ op.seq <= t.rev
    /\ \A x, y \in t.ops : x.id = y.id => x = y
    /\ \A x \in t.tombs : x.user = NoUser /\ x.op \in IdsOf(t.ops)
    /\ \A x \in t.cached : x.user = NoUser
    /\ \A x \in t.tokens : ~x.hashed
    /\ t.layout["devices"] = "absent" => \A d \in Devices : t.devices[d] = NoRow
    /\ \A table \in Tables : t.layout[table] # "new"
    /\ t.layout["tombs"] = "absent" => t.tombs = {}
    /\ t.layout["cached"] = "absent" => t.cached = {}
    /\ t.layout["tokens"] = "absent" => t.tokens = {}

ASSUME NullAssumption == /\ NoUser \notin Users /\ NoVault \notin Vaults
                         /\ \A u \in Users : LegacyVault(u) # NoVault
ASSUME BoundAssumption == MaxRev \in Nat
ASSUME DatabaseAssumption == \A t \in Databases : WrittenByEarlier(t)

VARIABLES
    db,      \* the file: one record, a field for each table
    stage,   \* where NewServer is: "closed", "schema", "migrate", "open"
    at,      \* the statement of serverSchema that is next
    cursor,  \* each device's client: the sequence it has applied up to
    got      \* and the operations it has applied

clients == <<cursor, got>>
dbvars == <<db, stage, at, cursor, got>>

\* A client of an earlier version has applied all operations up to where it
\* is: what that version promised is not part of this code.
DbInit ==
    /\ db \in Databases
    /\ stage = "closed" /\ at = 1
    /\ cursor \in [Devices -> 0..db.rev]
    /\ \A d \in Devices : db.devices[d].key = "none" => cursor[d] = 0
    /\ got = [d \in Devices |-> {op.id : op \in
                                    {o \in db.ops : o.seq <= cursor[d]}}]

-----------------------------------------------------------------------------
(* serverSchema: CREATE TABLE IF NOT EXISTS, then the indexes, of which    *)
(* the one on server_devices(user_id) needs a column.                      *)

Statements == <<"devices", "ops", "tombs", "cached", "tokens", "index">>

Open ==
    /\ stage = "closed"
    /\ stage' = "schema" /\ at' = 1
    /\ UNCHANGED <<db, clients>>

IfNotExists(layout, table) ==
    [layout EXCEPT ![table] = IF @ = "absent" THEN "new" ELSE @]

CreateTable ==
    /\ stage = "schema" /\ Statements[at] \in Tables
    /\ db' = [db EXCEPT !.layout = IfNotExists(@, Statements[at])]
    /\ at' = at + 1
    /\ UNCHANGED <<stage, clients>>

Refuse == stage' = "closed" /\ UNCHANGED <<db, at, clients>>

CreateIndex ==
    /\ stage = "schema" /\ Statements[at] = "index"
    /\ IF db.layout["devices"] = "oldest"
       THEN Refuse
       ELSE stage' = "migrate" /\ UNCHANGED <<db, at, clients>>

-----------------------------------------------------------------------------
(* migrateServerSchema, step by step on the tables t as its transaction    *)
(* sees them.                                                              *)

AddColumns(t) ==
    [t EXCEPT !.layout = [@ EXCEPT !["devices"] = "new", !["ops"] = "new"]]

\* Exactly one row of server_user_devices.
SoleOwner(t, d, u) == OwnerRows(t, d) = {[user |-> u, device |-> d]}

BackfillDeviceOwners(t) ==
    [t EXCEPT !.devices = [d \in Devices |->
        IF /\ t.devices[d].key # "none" /\ t.devices[d].user = NoUser
           /\ \E u \in Users : SoleOwner(t, d, u)
        THEN [t.devices[d] EXCEPT !.user = CHOOSE u \in Users : SoleOwner(t, d, u)]
        ELSE t.devices[d]]]

\* api_key NOT LIKE 'disabled:%'
PlainKey(row) == row.key = "plain"

MigrateLegacyCredentials(t) ==
    [t EXCEPT !.devices = [d \in Devices |->
        [t.devices[d] EXCEPT !.legacy = @ \/ PlainKey(t.devices[d])]]]

\* A faulty MigrateTokenHashes: the tokens are copied as they are.
CopyTokens(t) == [t EXCEPT !.layout = [@ EXCEPT !["tokens"] = "new"]]

MigrateTokenHashes(t) ==
    IF t.layout["tokens"] = "new" THEN t
    ELSE [t EXCEPT !.tokens = {[x EXCEPT !.hashed = TRUE] : x \in t.tokens},
                   !.layout = [@ EXCEPT !["tokens"] = "new"]]

\* The user and vault of an operation's device, where they are missing.
ScopedOp(t, op) ==
    LET row == t.devices[op.device]
        user == IF op.user = NoUser THEN row.user ELSE op.user
    IN [op EXCEPT !.user = user,
                  !.vault = IF op.vault # NoVault \/ user = NoUser THEN op.vault
                            ELSE EffectiveVault(user, row.vault)]

BackfillOperationScope(t) ==
    [t EXCEPT !.ops = {ScopedOp(t, op) : op \in t.ops}]

Scoped(row) == row.user # NoUser /\ row.vault # NoVault

\* A faulty TombsOfOps: the condition on the scope is the wrong way round.
TombsOfOthers(t) ==
    {[op |-> op.id, user |-> op.user, vault |-> op.vault] :
        op \in {o \in t.ops : ~Scoped(o) /\ \E x \in t.tombs : x.op = o.id}}

\* The join of the old table with server_ops.
TombsOfOps(t) ==
    {[op |-> op.id, user |-> op.user, vault |-> op.vault] :
        op \in {o \in t.ops : Scoped(o) /\ \E x \in t.tombs : x.op = o.id}}

\* hasScopedPrimaryKey takes a layout it could not read for the old one.
KnownNew(t, table, misread) == t.layout[table] = "new" /\ table \notin misread

MigrateTombstoneScope(t, misread) ==
    IF KnownNew(t, "tombs", misread) THEN t
    ELSE [t EXCEPT !.tombs = TombsOfOps(t),
                   !.layout = [@ EXCEPT !["tombs"] = "new"]]

\* A faulty MigrateIdempotencyScope: the answers are taken over.
TakeAnswersOver(t, misread) == [t EXCEPT !.layout = [@ EXCEPT !["cached"] = "new"]]

\* The answers of the old, global table are dropped.
MigrateIdempotencyScope(t, misread) ==
    IF KnownNew(t, "cached", misread) THEN t
    ELSE [t EXCEPT !.cached = {}, !.layout = [@ EXCEPT !["cached"] = "new"]]

\* A faulty Backfilled: operations are scoped before devices have owners.
BackfilledOpsFirst(t) ==
    MigrateLegacyCredentials(BackfillDeviceOwners(BackfillOperationScope(t)))

Backfilled(t) ==
    BackfillOperationScope(MigrateTokenHashes(
        MigrateLegacyCredentials(BackfillDeviceOwners(t))))

Migrated(t, misread) ==
    MigrateIdempotencyScope(
        MigrateTombstoneScope(Backfilled(AddColumns(t)), misread), misread)

\* The transaction commits as a whole, and NewServer returns.
Migrate ==
    /\ stage = "migrate"
    /\ \E misread \in IF "misread" \in Events
                      THEN SUBSET {"tombs", "cached"} ELSE {{}} :
          db' = Migrated(db, misread)
    /\ stage' = "open"
    /\ UNCHANGED <<at, clients>>

\* A statement or the transaction fails: nothing of it stays.
Fail ==
    /\ "fail" \in Events
    /\ stage \in {"schema", "migrate"}
    /\ Refuse

\* The process ends, or dies, at any point.
Close ==
    /\ stage # "closed"
    /\ stage = "open" \/ "crash" \in Events
    /\ Refuse

-----------------------------------------------------------------------------
(* What the running server writes.  Each is one transaction; OpLog and     *)
(* Accounts have the details.                                              *)

\* A faulty NewDevice: the key is stored in the clear.
NewDeviceWithKey(u, v) ==
    [key |-> "plain", legacy |-> FALSE, user |-> u, vault |-> v]

NewDevice(u, v) ==
    [key |-> "disabled", legacy |-> FALSE, user |-> u, vault |-> v]

\* Pairing draws an id at random, so one that nothing refers to.
Pair(d, u, v) ==
    /\ stage = "open" /\ u \in db.users
    /\ db.devices[d] = NoRow /\ OwnerRows(db, d) = {}
    /\ \A op \in db.ops : op.device # d
    /\ db' = [db EXCEPT !.devices[d] = NewDevice(u, v),
                        !.owners = @ \cup {[user |-> u, device |-> d]}]
    /\ cursor' = [cursor EXCEPT ![d] = 0]
    /\ got' = [got EXCEPT ![d] = {}]
    /\ UNCHANGED <<stage, at>>

\* requireSyncScope: a device without a user, or of a deleted one, is refused.
MaySync(d) == db.devices[d].key # "none" /\ db.devices[d].user \in db.users

ScopeVault(d) == EffectiveVault(db.devices[d].user, db.devices[d].vault)

Push(d, id, delete) ==
    /\ stage = "open" /\ MaySync(d)
    /\ db.rev < MaxRev /\ id \notin IdsOf(db.ops)
    /\ LET user == db.devices[d].user
           vault == ScopeVault(d)
       IN db' = [db EXCEPT
              !.ops = @ \cup {[id |-> id, seq |-> db.rev + 1, device |-> d,
                               user |-> user, vault |-> vault]},
              !.rev = @ + 1,
              !.tombs = IF delete
                        THEN @ \cup {[op |-> id, user |-> user, vault |-> vault]}
                        ELSE @,
              !.cached = @ \cup {[user |-> user, vault |-> vault]}]
    /\ UNCHANGED <<stage, at, clients>>

InScope(d) == {op \in db.ops : /\ op.user = db.devices[d].user
                               /\ op.vault = ScopeVault(d)}

Pull(d, upTo) ==
    /\ stage = "open" /\ MaySync(d)
    /\ \E op \in InScope(d) : op.seq = upTo
    /\ upTo > cursor[d]
    /\ got' = [got EXCEPT ![d] = @ \cup
                  IdsOf({op \in InScope(d) : cursor[d] < op.seq /\ op.seq <= upTo})]
    /\ cursor' = [cursor EXCEPT ![d] = upTo]
    /\ UNCHANGED <<db, stage, at>>

DropDevice(d) ==
    /\ stage = "open" /\ db.devices[d].key # "none"
    /\ db' = [db EXCEPT !.devices[d] = NoRow,
                        !.owners = @ \ OwnerRows(db, d)]
    /\ UNCHANGED <<stage, at, clients>>

NotOf(u, rows) == {row \in rows : row.user # u}

DeleteUser(u) ==
    /\ stage = "open" /\ u \in db.users
    /\ db' = [db EXCEPT
          !.users = @ \ {u},
          !.devices = [d \in Devices |-> IF @[d].user = u THEN NoRow ELSE @[d]],
          !.owners = NotOf(u, @), !.ops = NotOf(u, @), !.tombs = NotOf(u, @),
          !.cached = NotOf(u, @), !.tokens = NotOf(u, @)]
    /\ UNCHANGED <<stage, at, clients>>

-----------------------------------------------------------------------------
Start == Open \/ CreateTable \/ CreateIndex \/ Migrate \/ Fail

Serve ==
    \/ \E d \in Devices, u \in Users, v \in Vaults : Pair(d, u, v)
    \/ \E d \in Devices, id \in OpIds, delete \in BOOLEAN : Push(d, id, delete)
    \/ \E d \in Devices, upTo \in 1..MaxRev : Pull(d, upTo)
    \/ \E d \in Devices : DropDevice(d)
    \/ \E u \in Users : DeleteUser(u)

DbNext == Start \/ Serve \/ Close

DbSpec == DbInit /\ [][DbNext]_dbvars

-----------------------------------------------------------------------------
(* Properties.                                                             *)

\* Every variable holds values of its type; a database that is open has the
\* layout of this version, and no token in the clear.
DbTypeOK ==
    /\ db \in Database
    /\ stage \in {"closed", "schema", "migrate", "open"}
    /\ at \in 1..Len(Statements)
    /\ cursor \in [Devices -> Nat]
    /\ got \in [Devices -> SUBSET OpIds]
    /\ stage = "open" => /\ \A table \in Tables : db.layout[table] = "new"
                         /\ \A x \in db.tokens : x.hashed

\* In an open database the two tables that name a device's user agree; every
\* operation of a device that has a user is in the scope that device pulls
\* from, whenever and by whichever version it was written; and no tombstone
\* and no stored answer is without a scope, where any user's request finds it.
OwnLog ==
    stage = "open" =>
        /\ \A row \in db.owners :
              db.devices[row.device].user \in {NoUser, row.user}
        /\ \A op \in db.ops :
              db.devices[op.device].user # NoUser =>
                  /\ op.user = db.devices[op.device].user
                  /\ op.vault = ScopeVault(op.device)
        /\ \A row \in db.tombs \cup db.cached : Scoped(row)

\* No operation enters a scope behind the cursor of a client that follows it,
\* however many starts, interrupted or not, it takes: what is at or before the
\* cursor the client has applied.  Operations of a device that had two users
\* are left out: deleting one of the users decides the device, and the next
\* start adds its old operations to the log of the other.
NoGapsAcrossUpgrade ==
    \A d \in Devices : \A op \in InScope(d) :
        MaySync(d) /\ op.seq <= cursor[d] /\ op.device \notin Disputed =>
            op.id \in got[d]

\* A device of which two users are on record, and one of them is left.
Decided(d) == /\ db.devices[d].key # "none" /\ db.devices[d].user = NoUser
              /\ \E u \in Users : SoleOwner(db, d, u)

\* What this version writes is what this version reads: another start would
\* change nothing in an open database, whatever was paired, pushed, dropped or
\* deleted in it, unless that decided whose an old device is.
RestartChangesNothing ==
    stage = "open" =>
        Migrated(db, {}) = db \/ \E d \in Disputed : Decided(d)

\* A start that goes through, fails or is cut off anywhere loses nothing but
\* cached answers: devices and the rows that give them users, operations with
\* their sequences and, where they have one, their scope, tokens, and the
\* tombstones of operations that have a scope.
Starting == stage \in {"schema", "migrate"}

KeptByStart ==
    /\ \A d \in Devices : db'.devices[d].key = db.devices[d].key
    /\ db'.owners = db.owners /\ db'.users = db.users /\ db'.rev = db.rev
    /\ {<<op.id, op.seq, op.device>> : op \in db'.ops} =
          {<<op.id, op.seq, op.device>> : op \in db.ops}
    /\ {op \in db.ops : Scoped(op)} \subseteq db'.ops
    /\ {<<x.secret, x.user>> : x \in db'.tokens} =
          {<<x.secret, x.user>> : x \in db.tokens}
    /\ \A x \in db.tombs : \A op \in db'.ops :
          op.id = x.op /\ Scoped(op) => \E y \in db'.tombs : y.op = x.op

StartLosesNothing == [][Starting => KeptByStart]_dbvars
=============================================================================
