-------------------------- MODULE MigrationProofs --------------------------
(***************************************************************************)
(* What is proved of Migration, for all users, vaults, devices, operations *)
(* and old databases, and all events.                                      *)
(***************************************************************************)
EXTENDS Migration, TLAPS

-----------------------------------------------------------------------------
(* What each step of the migration makes of the tables t.                  *)

LEMMA AddColumnsFields ==
    ASSUME NEW t \in Database
    PROVE  /\ AddColumns(t) \in Database
           /\ AddColumns(t) = [t EXCEPT !.layout = AddColumns(t).layout]
           /\ AddColumns(t).layout["devices"] = "new"
           /\ AddColumns(t).layout["ops"] = "new"
           /\ \A x \in Tables \ {"devices", "ops"} :
                 AddColumns(t).layout[x] = t.layout[x]
  BY DEF AddColumns, Database, Layout, Tables

\* What becomes of the user of a device, and of an operation.
NewUser(t, d, user) ==
    /\ \/ user = t.devices[d].user
       \/ /\ t.devices[d].key # "none" /\ t.devices[d].user = NoUser
          /\ user \in Users /\ SoleOwner(t, d, user)
    /\ \/ user # NoUser \/ t.devices[d].key = "none"
       \/ ~\E u \in Users : SoleOwner(t, d, u)

NewOp(op, new, row) ==
    /\ new.id = op.id /\ new.seq = op.seq /\ new.device = op.device
    /\ new.user = IF op.user = NoUser THEN row.user ELSE op.user
    /\ new.vault = IF op.vault # NoVault \/ new.user = NoUser THEN op.vault
                   ELSE EffectiveVault(new.user, row.vault)

LEMMA BackfillDevicesFields ==
    ASSUME NEW t \in Database
    PROVE  /\ BackfillDeviceOwners(t) \in Database
           /\ BackfillDeviceOwners(t) =
                 [t EXCEPT !.devices = BackfillDeviceOwners(t).devices]
           /\ \A d \in Devices :
                 LET row == BackfillDeviceOwners(t).devices[d]
                 IN /\ row = [t.devices[d] EXCEPT !.user = row.user]
                    /\ NewUser(t, d, row.user)
  <1> DEFINE C(d) == /\ t.devices[d].key # "none" /\ t.devices[d].user = NoUser
                     /\ \E u \in Users : SoleOwner(t, d, u)
             W(d) == CHOOSE u \in Users : SoleOwner(t, d, u)
             D == [d \in Devices |-> IF C(d) THEN [t.devices[d] EXCEPT !.user = W(d)]
                                     ELSE t.devices[d]]
  <1>1. BackfillDeviceOwners(t) = [t EXCEPT !.devices = D]
    BY DEF BackfillDeviceOwners
  <1>2. \A d \in Devices : C(d) => W(d) \in Users /\ SoleOwner(t, d, W(d))
    OBVIOUS
  <1>3. \A d \in Devices : t.devices[d] \in DeviceRow
    BY DEF Database
  <1> HIDE DEF C, W
  <1>4. D \in [Devices -> DeviceRow]
    BY <1>2, <1>3 DEF DeviceRow, OwnerOrNone
  <1>5. BackfillDeviceOwners(t).devices = D
    BY <1>1 DEF Database
  <1>6. BackfillDeviceOwners(t) \in Database
    BY <1>1, <1>4 DEF Database
  <1>7. BackfillDeviceOwners(t) = [t EXCEPT !.devices = BackfillDeviceOwners(t).devices]
    BY <1>1, <1>5
  <1>8. ASSUME NEW d \in Devices
        PROVE  /\ D[d] = [t.devices[d] EXCEPT !.user = D[d].user]
               /\ C(d) => D[d].user = W(d)
               /\ ~C(d) => D[d].user = t.devices[d].user
    BY <1>3 DEF DeviceRow
  <1>9. \A d \in Devices : C(d) => t.devices[d].key # "none" /\ t.devices[d].user = NoUser
    BY DEF C
  <1>10. \A d \in Devices :
            ~C(d) => \/ t.devices[d].user # NoUser \/ t.devices[d].key = "none"
                     \/ ~\E u \in Users : SoleOwner(t, d, u)
    BY DEF C
  <1> HIDE DEF D
  <1> QED BY <1>2, <1>5, <1>6, <1>7, <1>8, <1>9, <1>10, NullAssumption DEF NewUser

LEMMA LegacyFields ==
    ASSUME NEW t \in Database
    PROVE  /\ MigrateLegacyCredentials(t) \in Database
           /\ MigrateLegacyCredentials(t) =
                 [t EXCEPT !.devices = MigrateLegacyCredentials(t).devices]
           /\ \A d \in Devices : MigrateLegacyCredentials(t).devices[d] =
                 [t.devices[d] EXCEPT !.legacy = @ \/ PlainKey(t.devices[d])]
  BY DEF MigrateLegacyCredentials, Database, DeviceRow, PlainKey

LEMMA TokenFields ==
    ASSUME NEW t \in Database
    PROVE  /\ MigrateTokenHashes(t) \in Database
           /\ MigrateTokenHashes(t) =
                 [t EXCEPT !.tokens = MigrateTokenHashes(t).tokens,
                           !.layout = MigrateTokenHashes(t).layout]
           /\ MigrateTokenHashes(t).tokens =
                 IF t.layout["tokens"] = "new" THEN t.tokens
                 ELSE {[x EXCEPT !.hashed = TRUE] : x \in t.tokens}
           /\ MigrateTokenHashes(t).layout["tokens"] = "new"
           /\ \A x \in Tables \ {"tokens"} :
                 MigrateTokenHashes(t).layout[x] = t.layout[x]
  <1>1. CASE t.layout["tokens"] = "new"
    BY <1>1 DEF MigrateTokenHashes, Database
  <1>2. CASE t.layout["tokens"] # "new"
    <2>1. {[x EXCEPT !.hashed = TRUE] : x \in t.tokens} \in SUBSET TokenRow
      BY DEF Database, TokenRow
    <2> QED BY <1>2, <2>1 DEF MigrateTokenHashes, Database, Layout, Tables
  <1> QED BY <1>1, <1>2

LEMMA ScopeFields ==
    ASSUME NEW t \in Database
    PROVE  /\ BackfillOperationScope(t) \in Database
           /\ BackfillOperationScope(t) =
                 [t EXCEPT !.ops = BackfillOperationScope(t).ops]
           /\ BackfillOperationScope(t).ops = {ScopedOp(t, op) : op \in t.ops}
           /\ \A op \in t.ops :
                 /\ ScopedOp(t, op) \in OpRow
                 /\ NewOp(op, ScopedOp(t, op), t.devices[op.device])
  <1>1. ASSUME NEW op \in t.ops
        PROVE  /\ ScopedOp(t, op) \in OpRow
               /\ NewOp(op, ScopedOp(t, op), t.devices[op.device])
    <2>1. op \in OpRow /\ t.devices[op.device] \in DeviceRow
      BY DEF Database, OpRow
    <2>2. \A u \in Users : LegacyVault(u) \in OpVaults
      BY DEF OpVaults
    <2>3. \A v \in Vaults \cup {NoVault} : v \in OpVaults
      BY DEF OpVaults
    <2> QED BY <2>1, <2>2, <2>3 DEF ScopedOp, NewOp, OpRow, DeviceRow, OwnerOrNone, EffectiveVault
  <1>2. {ScopedOp(t, op) : op \in t.ops} \in SUBSET OpRow
    BY <1>1
  <1> QED BY <1>1, <1>2 DEF BackfillOperationScope, Database

LEMMA TombFields ==
    ASSUME NEW t \in Database, NEW m \in SUBSET Tables
    PROVE  /\ MigrateTombstoneScope(t, m) \in Database
           /\ MigrateTombstoneScope(t, m) = [t EXCEPT !.tombs = MigrateTombstoneScope(t, m).tombs, !.layout = MigrateTombstoneScope(t, m).layout]
           /\ MigrateTombstoneScope(t, m).tombs = IF KnownNew(t, "tombs", m) THEN t.tombs ELSE TombsOfOps(t)
           /\ MigrateTombstoneScope(t, m).layout["tombs"] = "new"
           /\ \A x \in Tables \ {"tombs"} : MigrateTombstoneScope(t, m).layout[x] = t.layout[x]
  <1>1. CASE KnownNew(t, "tombs", m)
    BY <1>1 DEF MigrateTombstoneScope, Database, KnownNew
  <1>2. CASE ~KnownNew(t, "tombs", m)
    <2>1. TombsOfOps(t) \in SUBSET TombRow
      BY DEF TombsOfOps, TombRow, Database, OpRow
    <2> QED BY <1>2, <2>1 DEF MigrateTombstoneScope, Database, Layout, Tables
  <1> QED BY <1>1, <1>2

LEMMA CacheFields ==
    ASSUME NEW t \in Database, NEW m \in SUBSET Tables
    PROVE  /\ MigrateIdempotencyScope(t, m) \in Database
           /\ MigrateIdempotencyScope(t, m) = [t EXCEPT !.cached = MigrateIdempotencyScope(t, m).cached, !.layout = MigrateIdempotencyScope(t, m).layout]
           /\ MigrateIdempotencyScope(t, m).cached = IF KnownNew(t, "cached", m) THEN t.cached ELSE {}
           /\ MigrateIdempotencyScope(t, m).layout["cached"] = "new"
           /\ \A x \in Tables \ {"cached"} : MigrateIdempotencyScope(t, m).layout[x] = t.layout[x]
  <1>1. CASE KnownNew(t, "cached", m)
    BY <1>1 DEF MigrateIdempotencyScope, Database, KnownNew
  <1>2. CASE ~KnownNew(t, "cached", m)
    BY <1>2 DEF MigrateIdempotencyScope, Database, Layout, Tables
  <1> QED BY <1>1, <1>2

\* The migration as a whole: n is what becomes of t.
MigratedFrom(t, m, n) ==
    /\ n \in Database
    /\ n.users = t.users /\ n.owners = t.owners /\ n.rev = t.rev
    /\ \A d \in Devices :
          /\ n.devices[d] = [t.devices[d] EXCEPT
                !.user = n.devices[d].user,
                !.legacy = @ \/ PlainKey(t.devices[d])]
          /\ NewUser(t, d, n.devices[d].user)
    /\ n.ops = {ScopedOp(n, op) : op \in t.ops}
    /\ \A op \in t.ops : NewOp(op, ScopedOp(n, op), n.devices[op.device])
    /\ n.tokens = IF t.layout["tokens"] = "new" THEN t.tokens
                  ELSE {[x EXCEPT !.hashed = TRUE] : x \in t.tokens}
    /\ n.tombs = IF KnownNew(t, "tombs", m) THEN t.tombs
                 ELSE TombsOfOps([n EXCEPT !.tombs = t.tombs])
    /\ n.cached = IF KnownNew(t, "cached", m) THEN t.cached ELSE {}
    /\ \A x \in Tables : n.layout[x] = "new"

LEMMA MigratedFields ==
    ASSUME NEW t \in Database, NEW m \in SUBSET Tables
    PROVE  MigratedFrom(t, m, Migrated(t, m))
  <1> DEFINE a == AddColumns(t)
             b == BackfillDeviceOwners(a)
             c == MigrateLegacyCredentials(b)
             e == MigrateTokenHashes(c)
             f == BackfillOperationScope(e)
             g == MigrateTombstoneScope(f, m)
             n == MigrateIdempotencyScope(g, m)
  <1>0. n = Migrated(t, m)
    BY DEF Migrated, Backfilled
  <1>1. /\ a \in Database
        /\ a = [t EXCEPT !.layout = a.layout]
        /\ a.layout["devices"] = "new" /\ a.layout["ops"] = "new"
        /\ \A x \in Tables \ {"devices", "ops"} : a.layout[x] = t.layout[x]
    BY AddColumnsFields
  <1> HIDE DEF a
  <1>2. /\ b \in Database
        /\ b = [a EXCEPT !.devices = b.devices]
        /\ \A d \in Devices : /\ b.devices[d] = [a.devices[d] EXCEPT !.user = b.devices[d].user]
                             /\ NewUser(a, d, b.devices[d].user)
    BY <1>1, BackfillDevicesFields
  <1> HIDE DEF b
  <1>3. /\ c \in Database
        /\ c = [b EXCEPT !.devices = c.devices]
        /\ \A d \in Devices : c.devices[d] =
              [b.devices[d] EXCEPT !.legacy = @ \/ PlainKey(b.devices[d])]
    BY <1>2, LegacyFields
  <1> HIDE DEF c
  <1>4. /\ e \in Database
        /\ e = [c EXCEPT !.tokens = e.tokens, !.layout = e.layout]
        /\ e.tokens = IF c.layout["tokens"] = "new" THEN c.tokens
                      ELSE {[x EXCEPT !.hashed = TRUE] : x \in c.tokens}
        /\ e.layout["tokens"] = "new"
        /\ \A x \in Tables \ {"tokens"} : e.layout[x] = c.layout[x]
    BY <1>3, TokenFields
  <1> HIDE DEF e
  <1>5. /\ f \in Database
        /\ f = [e EXCEPT !.ops = f.ops]
        /\ f.ops = {ScopedOp(e, op) : op \in e.ops}
        /\ \A op \in e.ops : NewOp(op, ScopedOp(e, op), e.devices[op.device])
    BY <1>4, ScopeFields
  <1> HIDE DEF f
  <1>6. /\ g \in Database
        /\ g = [f EXCEPT !.tombs = g.tombs, !.layout = g.layout]
        /\ g.tombs = IF KnownNew(f, "tombs", m) THEN f.tombs ELSE TombsOfOps(f)
        /\ g.layout["tombs"] = "new"
        /\ \A x \in Tables \ {"tombs"} : g.layout[x] = f.layout[x]
    BY <1>5, TombFields
  <1> HIDE DEF g
  <1>7. /\ n \in Database
        /\ n = [g EXCEPT !.cached = n.cached, !.layout = n.layout]
        /\ n.cached = IF KnownNew(g, "cached", m) THEN g.cached ELSE {}
        /\ n.layout["cached"] = "new"
        /\ \A x \in Tables \ {"cached"} : n.layout[x] = g.layout[x]
    BY <1>6, CacheFields
  <1> HIDE DEF n
  <1>8. /\ n.users = t.users /\ n.owners = t.owners /\ n.rev = t.rev
        /\ a.devices = t.devices /\ a.owners = t.owners
        /\ n.devices = c.devices /\ e.devices = c.devices
        /\ n.tokens = e.tokens /\ c.tokens = t.tokens
        /\ n.ops = f.ops /\ e.ops = t.ops
        /\ n.tombs = g.tombs /\ f.tombs = t.tombs /\ g.cached = t.cached
    <2>1. /\ a.users = t.users /\ a.owners = t.owners /\ a.rev = t.rev
          /\ a.devices = t.devices /\ a.ops = t.ops /\ a.tokens = t.tokens
          /\ a.tombs = t.tombs /\ a.cached = t.cached
      BY <1>1 DEF Database
    <2>2. /\ b.users = t.users /\ b.owners = t.owners /\ b.rev = t.rev
          /\ b.ops = t.ops /\ b.tokens = t.tokens
          /\ b.tombs = t.tombs /\ b.cached = t.cached /\ b.layout = a.layout
      BY <1>1, <1>2, <2>1 DEF Database
    <2>3. /\ c.users = t.users /\ c.owners = t.owners /\ c.rev = t.rev
          /\ c.ops = t.ops /\ c.tokens = t.tokens
          /\ c.tombs = t.tombs /\ c.cached = t.cached
      BY <1>2, <1>3, <2>2 DEF Database
    <2>4. /\ e.users = t.users /\ e.owners = t.owners /\ e.rev = t.rev
          /\ e.ops = t.ops /\ e.devices = c.devices
          /\ e.tombs = t.tombs /\ e.cached = t.cached
      BY <1>3, <1>4, <2>3 DEF Database
    <2>5. /\ f.users = t.users /\ f.owners = t.owners /\ f.rev = t.rev
          /\ f.devices = c.devices /\ f.tokens = e.tokens
          /\ f.tombs = t.tombs /\ f.cached = t.cached
      BY <1>4, <1>5, <2>4 DEF Database
    <2>6. /\ g.users = t.users /\ g.owners = t.owners /\ g.rev = t.rev
          /\ g.devices = c.devices /\ g.tokens = e.tokens
          /\ g.ops = f.ops /\ g.cached = t.cached
      BY <1>5, <1>6, <2>5 DEF Database
    <2>7. /\ n.users = t.users /\ n.owners = t.owners /\ n.rev = t.rev
          /\ n.devices = c.devices /\ n.tokens = e.tokens
          /\ n.ops = f.ops /\ n.tombs = g.tombs
      BY <1>6, <1>7, <2>6 DEF Database
    <2> QED BY <2>1, <2>2, <2>3, <2>4, <2>5, <2>6, <2>7
  <1>9. ASSUME NEW d \in Devices
        PROVE  /\ n.devices[d] = [t.devices[d] EXCEPT
                     !.user = n.devices[d].user,
                     !.legacy = @ \/ PlainKey(t.devices[d])]
               /\ NewUser(t, d, n.devices[d].user)
    <2>1. NewUser(t, d, b.devices[d].user)
      BY <1>2, <1>8 DEF NewUser, SoleOwner, OwnerRows
    <2>2. t.devices[d] \in DeviceRow /\ b.devices[d] \in DeviceRow
      BY <1>2 DEF Database
    <2>3. b.devices[d] = [t.devices[d] EXCEPT !.user = b.devices[d].user]
      BY <1>2, <1>8
    <2>4. c.devices[d] = [b.devices[d] EXCEPT !.legacy = @ \/ PlainKey(b.devices[d])]
      BY <1>3
    <2>5. /\ b.devices[d].legacy = t.devices[d].legacy
          /\ PlainKey(b.devices[d]) = PlainKey(t.devices[d])
          /\ c.devices[d].user = b.devices[d].user
      BY <2>2, <2>3, <2>4 DEF DeviceRow, PlainKey
    <2>6. c.devices[d] = [t.devices[d] EXCEPT !.user = c.devices[d].user,
                             !.legacy = @ \/ PlainKey(t.devices[d])]
      <3> DEFINE new == t.devices[d].legacy \/ PlainKey(t.devices[d])
      <3>1. c.devices[d] = [b.devices[d] EXCEPT !.legacy = new]
        BY <2>4, <2>5
      <3> HIDE DEF new
      <3>2. c.devices[d] = [t.devices[d] EXCEPT !.user = c.devices[d].user, !.legacy = new]
        BY <2>2, <2>3, <2>5, <3>1 DEF DeviceRow
      <3> QED BY <3>2 DEF new
    <2> QED BY <1>8, <2>1, <2>5, <2>6
  <1>10. \A op \in t.ops : ScopedOp(e, op) = ScopedOp(n, op)
    BY <1>8 DEF ScopedOp
  <1>11. \A x \in Tables : n.layout[x] = "new"
    <2>1. /\ b.layout = a.layout /\ c.layout = b.layout /\ f.layout = e.layout
      BY <1>1, <1>2, <1>3, <1>4, <1>5 DEF Database
    <2> QED BY <1>1, <1>4, <1>6, <1>7, <2>1 DEF Tables
  <1>12. /\ c.layout["tokens"] = t.layout["tokens"]
         /\ f.layout["tombs"] = t.layout["tombs"]
         /\ g.layout["cached"] = t.layout["cached"]
    <2>1. /\ b.layout = a.layout /\ c.layout = b.layout /\ f.layout = e.layout
      BY <1>1, <1>2, <1>3, <1>4, <1>5 DEF Database
    <2> QED BY <1>1, <1>4, <1>6, <2>1 DEF Tables
  <1>13. TombsOfOps(f) = TombsOfOps([n EXCEPT !.tombs = t.tombs])
    <2>1. /\ [n EXCEPT !.tombs = t.tombs].ops = f.ops
          /\ [n EXCEPT !.tombs = t.tombs].tombs = f.tombs
      BY <1>7, <1>8 DEF Database
    <2> QED BY <2>1 DEF TombsOfOps
  <1>14. /\ KnownNew(f, "tombs", m) = KnownNew(t, "tombs", m)
         /\ KnownNew(g, "cached", m) = KnownNew(t, "cached", m)
    BY <1>12 DEF KnownNew
  <1>15. n.ops = {ScopedOp(n, op) : op \in t.ops}
    BY <1>5, <1>8, <1>10
  <1>16. \A op \in t.ops : NewOp(op, ScopedOp(n, op), n.devices[op.device])
    BY <1>5, <1>8, <1>10
  <1>17. /\ n \in Database
         /\ n.users = t.users /\ n.owners = t.owners /\ n.rev = t.rev
    BY <1>7, <1>8
  <1>18. n.tokens = IF t.layout["tokens"] = "new" THEN t.tokens
                    ELSE {[x EXCEPT !.hashed = TRUE] : x \in t.tokens}
    BY <1>4, <1>8, <1>12
  <1>19. /\ n.tombs = IF KnownNew(t, "tombs", m) THEN t.tombs
                      ELSE TombsOfOps([n EXCEPT !.tombs = t.tombs])
         /\ n.cached = IF KnownNew(t, "cached", m) THEN t.cached ELSE {}
    BY <1>6, <1>7, <1>8, <1>13, <1>14
  <1>20. MigratedFrom(t, m, n)
    BY <1>9, <1>11, <1>15, <1>16, <1>17, <1>18, <1>19, Zenon DEF MigratedFrom
  <1> QED BY <1>0, <1>20

-----------------------------------------------------------------------------
(* The inductive invariant.                                                *)

\* What a table's layout says of its rows.
LayoutInv ==
    /\ db.layout["devices"] = "absent" => \A d \in Devices : db.devices[d] = NoRow
    /\ db.layout["tombs"] = "absent" => db.tombs = {}
    /\ db.layout["cached"] = "absent" => db.cached = {}
    /\ db.layout["tokens"] = "absent" => db.tokens = {}
    /\ db.layout["tombs"] = "new" => \A x \in db.tombs : Scoped(x)
    /\ db.layout["cached"] = "new" => \A x \in db.cached : Scoped(x)
    /\ db.layout["tokens"] = "new" => \A x \in db.tokens : x.hashed
    /\ db.layout["devices"] = "new" =>
          \A d \in Devices : PlainKey(db.devices[d]) => db.devices[d].legacy

\* Whose a device is.
OwnerInv ==
    /\ \A d \in Devices : db.devices[d].key = "none" => db.devices[d] = NoRow
    /\ \A x \in db.owners : db.devices[x.device].user \in {NoUser, x.user}
    /\ \A d \in Devices \ Disputed : \A x, y \in OwnerRows(db, d) : x = y
    /\ db.layout["devices"] = "new" =>
          \A d \in Devices \ Disputed :
             db.devices[d].key # "none" /\ db.devices[d].user = NoUser =>
                OwnerRows(db, d) = {}

\* Whose an operation is: nobody's, or the device's that pushed it while that
\* is there; and after the first migration nobody's only if the device is.
ScopeInv ==
    \A op \in db.ops :
       /\ op.user = NoUser => op.vault = NoVault
       /\ op.user # NoUser => op.vault # NoVault
       /\ op.user # NoUser /\ db.devices[op.device].key # "none" =>
             /\ op.user = db.devices[op.device].user
             /\ op.vault = ScopeVault(op.device)
       /\ db.layout["devices"] = "new" /\ db.devices[op.device].user # NoUser =>
             op.user # NoUser

\* Where the clients are.  One that may not sync yet has applied all there was.
CursorInv ==
    /\ \A op \in db.ops : 0 < op.seq /\ op.seq <= db.rev
    /\ \A d \in Devices : cursor[d] <= db.rev
    /\ \A d \in Devices :
          /\ db.devices[d].key # "none"
          /\ db.layout["devices"] # "new" \/ db.devices[d].user = NoUser
          => \A op \in db.ops : op.seq <= cursor[d] => op.id \in got[d]

DbInv == /\ DbTypeOK /\ LayoutInv /\ OwnerInv /\ ScopeInv /\ CursorInv
         /\ NoGapsAcrossUpgrade

LEMMA InitInv == DbInit => DbInv
  <1> SUFFICES ASSUME DbInit PROVE DbInv
    OBVIOUS
  <1>1. WrittenByEarlier(db)
    BY DatabaseAssumption DEF DbInit
  <1>2. db \in Database /\ \A table \in Tables : db.layout[table] # "new"
    BY <1>1 DEF WrittenByEarlier
  <1>3. /\ \A op \in db.ops : /\ op.user = NoUser /\ op.vault = NoVault
                              /\ 0 < op.seq /\ op.seq <= db.rev
    BY <1>1 DEF WrittenByEarlier
  <1>4. \A op \in db.ops : op \in OpRow
    BY <1>2 DEF Database
  <1>5. DbTypeOK
    <2>1. cursor \in [Devices -> Nat]
      BY <1>2 DEF DbInit, Database
    <2>2. \A d \in Devices : got[d] = {op.id : op \in {o \in db.ops : o.seq <= cursor[d]}}
      BY DEF DbInit
    <2>3. \A d \in Devices : got[d] \subseteq OpIds
      BY <1>4, <2>2 DEF OpRow
    <2>4. got \in [Devices -> SUBSET OpIds]
      BY <2>3 DEF DbInit
    <2> QED BY <1>2, <2>1, <2>4 DEF DbTypeOK, DbInit, Statements
  <1>6. LayoutInv
    BY <1>1, <1>2 DEF LayoutInv, WrittenByEarlier, Tables
  <1>7. OwnerInv
    <2>1. ASSUME NEW d \in Devices PROVE db.devices[d].key = "none" => db.devices[d] = NoRow
      BY <1>1 DEF WrittenByEarlier
    <2>2. ASSUME NEW x \in db.owners PROVE db.devices[x.device].user \in {NoUser, x.user}
      <3>1. x.device \in Devices
        BY <1>2 DEF Database
      <3>2. x \in OwnerRows(db, x.device)
        BY DEF OwnerRows
      <3>3. db.devices[x.device].user # NoUser =>
              OwnerRows(db, x.device) \subseteq
                 {[user |-> db.devices[x.device].user, device |-> x.device]}
        BY <1>1, <3>1 DEF WrittenByEarlier
      <3> QED BY <3>2, <3>3
    <2>3. \A d \in Devices \ Disputed : \A x, y \in OwnerRows(db, d) : x = y
      BY <1>1 DEF WrittenByEarlier
    <2> QED BY <1>2, <2>1, <2>2, <2>3 DEF OwnerInv, Tables
  <1>8. ScopeInv
    BY <1>2, <1>3 DEF ScopeInv, Tables
  <1>9. \A d \in Devices : \A op \in db.ops : op.seq <= cursor[d] => op.id \in got[d]
    BY DEF DbInit
  <1>10. CursorInv
    <2>1. \A d \in Devices : cursor[d] <= db.rev
      BY <1>2 DEF DbInit, Database
    <2> QED BY <1>3, <1>9, <2>1 DEF CursorInv
  <1>11. NoGapsAcrossUpgrade
    BY <1>9 DEF NoGapsAcrossUpgrade, InScope
  <1> QED BY <1>5, <1>6, <1>7, <1>8, <1>10, <1>11 DEF DbInv

-----------------------------------------------------------------------------
(* A start keeps it.                                                       *)

\* Steps that only move through NewServer.
LEMMA QuietStep ==
    ASSUME DbInv, UNCHANGED <<db, clients>>,
           stage' \in {"closed", "schema", "migrate", "open"},
           at' \in 1..Len(Statements), stage' = "open" => stage = "open"
    PROVE  DbInv'
  BY DEF DbInv, DbTypeOK, LayoutInv, OwnerInv, ScopeInv, CursorInv, clients,
         NoGapsAcrossUpgrade, InScope, MaySync, ScopeVault

LEMMA CreateTableStep ==
    ASSUME DbInv, CreateTable PROVE DbInv'
  <1> DEFINE x == Statements[at]
  <1>0. db \in Database /\ x \in Tables /\ at \in 1..5
    BY DEF DbInv, DbTypeOK, CreateTable, Statements, Tables
  <1> HIDE DEF x
  <1>1. /\ db' \in Database
        /\ db' = [db EXCEPT !.layout = db'.layout]
        /\ db'.layout[x] = IF db.layout[x] = "absent" THEN "new" ELSE db.layout[x]
        /\ \A y \in Tables \ {x} : db'.layout[y] = db.layout[y]
    <2> DEFINE layout == IfNotExists(db.layout, x)
    <2>1. db' = [db EXCEPT !.layout = layout]
      BY DEF CreateTable, x
    <2>2. db.layout \in Layout
      BY <1>0 DEF Database
    <2>3. /\ layout \in Layout
          /\ layout[x] = IF db.layout[x] = "absent" THEN "new" ELSE db.layout[x]
          /\ \A y \in Tables \ {x} : layout[y] = db.layout[y]
      BY <1>0, <2>2 DEF Layout, IfNotExists
    <2> HIDE DEF layout
    <2>4. db' \in Database /\ db'.layout = layout
      BY <1>0, <2>1, <2>3 DEF Database
    <2> QED BY <2>1, <2>3, <2>4
  <1>2. /\ db'.devices = db.devices /\ db'.owners = db.owners /\ db'.ops = db.ops
        /\ db'.rev = db.rev /\ db'.tombs = db.tombs /\ db'.cached = db.cached
        /\ db'.tokens = db.tokens /\ db'.users = db.users
    BY <1>0, <1>1 DEF Database
  <1>3. \A y \in Tables :
           /\ db'.layout[y] = "absent" => db.layout[y] = "absent"
           /\ db'.layout[y] = "new" => db.layout[y] \in {"new", "absent"}
           /\ db.layout[y] = "new" => db'.layout[y] = "new"
    BY <1>1
  <1>4. {"devices", "tombs", "cached", "tokens"} \subseteq Tables
    BY DEF Tables
  <1>5. UNCHANGED <<cursor, got>> /\ stage = "schema" /\ stage' = stage
        /\ at' = at + 1
    BY DEF CreateTable, clients
  <1>6. DbTypeOK'
    BY <1>0, <1>1, <1>5 DEF DbTypeOK, DbInv, Statements
  <1>7. db.layout["devices"] = "absent" =>
           \A d \in Devices : db.devices[d] = NoRow
    BY DEF DbInv, LayoutInv
  <1>8. NoRow.key = "none" /\ NoRow.user = NoUser
    BY DEF NoRow
  <1>9. LayoutInv'
    BY <1>2, <1>3, <1>4, <1>7, <1>8 DEF DbInv, LayoutInv, PlainKey
  <1>10. OwnerInv'
    BY <1>2, <1>3, <1>4, <1>7, <1>8 DEF DbInv, OwnerInv, OwnerRows
  <1>11. ScopeInv'
    <2>1. \A op \in db.ops : op.device \in Devices
      BY <1>0 DEF Database, OpRow
    <2> QED BY <1>2, <1>3, <1>4, <1>7, <1>8, <2>1 DEF DbInv, ScopeInv, ScopeVault
  <1>12. CursorInv'
    <2>1. ASSUME NEW d \in Devices, db'.devices[d].key # "none",
                 db'.layout["devices"] # "new" \/ db'.devices[d].user = NoUser
          PROVE  db.layout["devices"] # "new" \/ db.devices[d].user = NoUser
      BY <1>2, <1>3, <1>4, <1>7, <1>8, <2>1
    <2>2. /\ \A op \in db'.ops : 0 < op.seq /\ op.seq <= db'.rev
          /\ \A d \in Devices : cursor'[d] <= db'.rev
      BY <1>2, <1>5 DEF DbInv, CursorInv
    <2>3. ASSUME NEW d \in Devices, db'.devices[d].key # "none",
                 db'.layout["devices"] # "new" \/ db'.devices[d].user = NoUser
          PROVE  \A op \in db'.ops : op.seq <= cursor'[d] => op.id \in got'[d]
      BY <1>2, <1>5, <2>1, <2>3 DEF DbInv, CursorInv
    <2> QED BY <2>2, <2>3 DEF CursorInv
  <1>13. NoGapsAcrossUpgrade'
    BY <1>2, <1>5 DEF DbInv, NoGapsAcrossUpgrade, InScope, MaySync, ScopeVault
  <1> QED BY <1>6, <1>9, <1>10, <1>11, <1>12, <1>13 DEF DbInv

LEMMA MigrateStep ==
    ASSUME DbInv, Migrate PROVE DbInv'
  <1>1. PICK m \in SUBSET Tables : db' = Migrated(db, m)
    BY DEF Migrate, Tables
  <1>2. db \in Database /\ UNCHANGED <<at, cursor, got>> /\ stage' = "open"
    BY DEF DbInv, DbTypeOK, Migrate, clients
  <1>3. MigratedFrom(db, m, db')
    BY <1>1, <1>2, MigratedFields
  <1>4. \A d \in Devices : db.devices[d] \in DeviceRow /\ db'.devices[d] \in DeviceRow
    BY <1>2, <1>3 DEF MigratedFrom, Database
  <1>5. \A d \in Devices :
           /\ db'.devices[d].key = db.devices[d].key
           /\ db'.devices[d].vault = db.devices[d].vault
           /\ PlainKey(db.devices[d]) => db'.devices[d].legacy
           /\ NewUser(db, d, db'.devices[d].user)
    BY <1>3, <1>4 DEF MigratedFrom, DeviceRow, PlainKey
  <1>6. /\ db'.owners = db.owners /\ db'.users = db.users /\ db'.rev = db.rev
        /\ db' \in Database
        /\ \A x \in Tables : db'.layout[x] = "new"
    BY <1>3 DEF MigratedFrom
  <1>7. \A new \in db'.ops : /\ new \in OpRow
                            /\ \E op \in db.ops : NewOp(op, new, db'.devices[op.device])
    <2> SUFFICES ASSUME NEW new \in db'.ops
                 PROVE  /\ new \in OpRow
                        /\ \E op \in db.ops : NewOp(op, new, db'.devices[op.device])
      OBVIOUS
    <2>1. db'.ops = {ScopedOp(db', op) : op \in db.ops}
      BY <1>3 DEF MigratedFrom
    <2>2. PICK op \in db.ops : new = ScopedOp(db', op)
      BY <2>1
    <2>3. NewOp(op, ScopedOp(db', op), db'.devices[op.device])
      BY <1>3 DEF MigratedFrom
    <2>4. new \in OpRow
      BY <1>6 DEF Database
    <2> QED BY <2>2, <2>3, <2>4
  <1>8. \A x \in db'.tokens : x.hashed
    <2>1. \A x \in db.tokens : x \in TokenRow
      BY <1>2 DEF Database
    <2>2. db'.tokens = IF db.layout["tokens"] = "new" THEN db.tokens
                       ELSE {[x EXCEPT !.hashed = TRUE] : x \in db.tokens}
      BY <1>3 DEF MigratedFrom
    <2>3. CASE db.layout["tokens"] = "new"
      BY <2>2, <2>3 DEF DbInv, LayoutInv
    <2>4. CASE db.layout["tokens"] # "new"
      BY <2>1, <2>2, <2>4 DEF TokenRow
    <2> QED BY <2>3, <2>4
  <1>9. \A x \in db'.tombs : Scoped(x)
    <2>1. CASE KnownNew(db, "tombs", m)
      BY <1>3, <2>1 DEF MigratedFrom, KnownNew, DbInv, LayoutInv
    <2>2. CASE ~KnownNew(db, "tombs", m)
      <3>1. db'.tombs = TombsOfOps([db' EXCEPT !.tombs = db.tombs])
        BY <1>3, <2>2 DEF MigratedFrom
      <3>2. \A t : \A x \in TombsOfOps(t) : Scoped(x)
        BY DEF TombsOfOps, Scoped
      <3> QED BY <3>1, <3>2
    <2> QED BY <2>1, <2>2
  <1>10. \A x \in db'.cached : Scoped(x)
    BY <1>3 DEF MigratedFrom, KnownNew, DbInv, LayoutInv
  <1>11. DbTypeOK'
    BY <1>2, <1>6, <1>8 DEF DbTypeOK, DbInv
  <1>12. LayoutInv'
    BY <1>5, <1>6, <1>8, <1>9, <1>10 DEF LayoutInv, PlainKey, Tables
  <1>13. OwnerInv'
    <2>1. \A d \in Devices : db.devices[d].key = "none" => db'.devices[d] = NoRow
      <3> SUFFICES ASSUME NEW d \in Devices, db.devices[d].key = "none"
                   PROVE  db'.devices[d] = NoRow
        OBVIOUS
      <3>1. db.devices[d] = NoRow
        BY DEF DbInv, OwnerInv
      <3>2. db'.devices[d].user = NoUser
        BY <1>5, <3>1 DEF NewUser, NoRow
      <3>3. db'.devices[d] = [db.devices[d] EXCEPT !.user = db'.devices[d].user,
                                !.legacy = @ \/ PlainKey(db.devices[d])]
        BY <1>3 DEF MigratedFrom
      <3>4. ~PlainKey(NoRow) /\ NoRow.legacy = FALSE
        BY DEF NoRow, PlainKey
      <3>5. db'.devices[d] = [NoRow EXCEPT !.user = NoUser, !.legacy = FALSE]
        BY <3>1, <3>2, <3>3, <3>4
      <3> QED BY <3>5 DEF NoRow
    <2>2. ASSUME NEW x \in db.owners PROVE db'.devices[x.device].user \in {NoUser, x.user}
      <3>1. x.device \in Devices /\ x \in OwnerRows(db, x.device)
        BY <1>2 DEF Database, OwnerRows
      <3>2. NewUser(db, x.device, db'.devices[x.device].user)
        BY <1>5, <3>1
      <3>3. db.devices[x.device].user \in {NoUser, x.user}
        BY DEF DbInv, OwnerInv
      <3> QED BY <3>1, <3>2, <3>3 DEF NewUser, SoleOwner
    <2>3. ASSUME NEW d \in Devices \ Disputed, db.devices[d].key # "none",
                 db'.devices[d].user = NoUser
          PROVE  OwnerRows(db, d) = {}
      <3>1. ~\E u \in Users : SoleOwner(db, d, u)
        BY <1>5, <2>3 DEF NewUser
      <3>2. ASSUME NEW x \in OwnerRows(db, d) PROVE FALSE
        <4>1. x.user \in Users /\ x = [user |-> x.user, device |-> d]
          BY <1>2 DEF OwnerRows, Database
        <4>2. OwnerRows(db, d) = {x}
          BY DEF DbInv, OwnerInv
        <4> QED BY <3>1, <4>1, <4>2 DEF SoleOwner
      <3> QED BY <3>2
    <2>4. \A d \in Devices : OwnerRows(db', d) = OwnerRows(db, d)
      BY <1>6 DEF OwnerRows
    <2> QED BY <1>5, <1>6, <2>1, <2>2, <2>3, <2>4 DEF OwnerInv, DbInv
  <1>14. ASSUME NEW new \in db'.ops
         PROVE  \E op \in db.ops :
                   /\ NewOp(op, new, db'.devices[op.device])
                   /\ op \in OpRow /\ new \in OpRow
    BY <1>2, <1>7 DEF Database
  <1>15. ScopeInv'
    <2> SUFFICES ASSUME NEW new \in db'.ops
                 PROVE  /\ new.user = NoUser => new.vault = NoVault
                        /\ new.user # NoUser => new.vault # NoVault
                        /\ new.user # NoUser /\ db'.devices[new.device].key # "none" =>
                              /\ new.user = db'.devices[new.device].user
                              /\ new.vault = ScopeVault(new.device)'
                        /\ db'.devices[new.device].user # NoUser => new.user # NoUser
      BY DEF ScopeInv
    <2>1. PICK op \in db.ops : /\ NewOp(op, new, db'.devices[op.device])
                              /\ op \in OpRow /\ new \in OpRow
      BY <1>14
    <2> DEFINE d == op.device
    <2>2. /\ d \in Devices /\ new.device = d
          /\ op.user \in OwnerOrNone /\ new.user \in OwnerOrNone
      BY <2>1 DEF NewOp, OpRow
    <2>3. /\ op.user = NoUser => op.vault = NoVault
          /\ op.user # NoUser => op.vault # NoVault
          /\ op.user # NoUser /\ db.devices[d].key # "none" =>
                op.user = db.devices[d].user /\ op.vault = ScopeVault(d)
      BY DEF DbInv, ScopeInv
    <2>4. /\ db'.devices[d].key = db.devices[d].key
          /\ db'.devices[d].vault = db.devices[d].vault
          /\ db.devices[d].user # NoUser => db'.devices[d].user = db.devices[d].user
      BY <1>5, <2>2 DEF NewUser
    <2>5. new.user # NoUser => \A v : EffectiveVault(new.user, v) # NoVault
      BY <2>2, NullAssumption DEF EffectiveVault, OwnerOrNone
    <2>6. CASE op.user # NoUser
      BY <2>1, <2>2, <2>3, <2>4, <2>6 DEF NewOp, ScopeVault
    <2>7. CASE op.user = NoUser
      BY <2>1, <2>2, <2>3, <2>4, <2>5, <2>7 DEF NewOp, ScopeVault
    <2> QED BY <2>6, <2>7
  <1>16. CursorInv'
    <2>1. \A d \in Devices : db'.devices[d].user = NoUser => db.devices[d].user = NoUser
      BY <1>5, NullAssumption DEF NewUser
    <2>2. \A new \in db'.ops : \E op \in db.ops :
             new.seq = op.seq /\ new.id = op.id
      BY <1>14 DEF NewOp
    <2>3. ASSUME NEW d \in Devices, db'.devices[d].key # "none",
                 db'.layout["devices"] # "new" \/ db'.devices[d].user = NoUser
          PROVE  \A op \in db.ops : op.seq <= cursor[d] => op.id \in got[d]
      BY <1>5, <1>6, <2>1, <2>3 DEF CursorInv, DbInv, Tables
    <2>4. ASSUME NEW d \in Devices, db'.devices[d].key # "none",
                 db'.layout["devices"] # "new" \/ db'.devices[d].user = NoUser
          PROVE  \A op \in db'.ops : op.seq <= cursor'[d] => op.id \in got'[d]
      BY <1>2, <2>2, <2>3, <2>4
    <2>5. /\ \A op \in db'.ops : 0 < op.seq /\ op.seq <= db'.rev
          /\ \A d \in Devices : cursor'[d] <= db'.rev
      BY <1>2, <1>6, <2>2 DEF CursorInv, DbInv
    <2> QED BY <2>4, <2>5 DEF CursorInv
  <1>17. NoGapsAcrossUpgrade'
    <2> SUFFICES ASSUME NEW d \in Devices, NEW new \in InScope(d)', MaySync(d)',
                        new.seq <= cursor[d], new.device \notin Disputed
                 PROVE  new.id \in got[d]
      BY <1>2 DEF NoGapsAcrossUpgrade
    <2>0. /\ new \in db'.ops /\ new.user = db'.devices[d].user
          /\ new.vault = ScopeVault(d)' /\ db'.devices[d].key # "none"
          /\ db'.devices[d].user \in db.users
      BY <1>6 DEF InScope, MaySync
    <2>1. PICK op \in db.ops : /\ NewOp(op, new, db'.devices[op.device])
                              /\ op \in OpRow /\ new \in OpRow
      BY <1>14, <2>0
    <2>2. new.id = op.id /\ new.seq = op.seq /\ new.device = op.device
      BY <2>1 DEF NewOp
    <2>3. CASE db.layout["devices"] # "new" \/ db.devices[d].user = NoUser
      BY <1>5, <2>0, <2>2, <2>3 DEF DbInv, CursorInv
    <2>4. CASE db.layout["devices"] = "new" /\ db.devices[d].user # NoUser
      <3>1. /\ db'.devices[d].user = db.devices[d].user
            /\ db'.devices[d].vault = db.devices[d].vault
            /\ db.devices[d].key # "none"
        BY <1>5, <2>0, <2>4 DEF NewUser
      <3>2. ScopeVault(d)' = ScopeVault(d) /\ MaySync(d)
        BY <2>0, <3>1 DEF ScopeVault, MaySync
      <3>3. op.user # NoUser
        <4> SUFFICES ASSUME op.user = NoUser PROVE FALSE
          OBVIOUS
        <4>1. op.device \in Devices \ Disputed
          BY <2>1, <2>2 DEF OpRow
        <4>2. db.devices[op.device].user = NoUser
          BY <2>4 DEF DbInv, ScopeInv
        <4>3. db'.devices[op.device].user # NoUser
          BY <2>0, <2>1, <2>4, <3>1 DEF NewOp
        <4>4. /\ db.devices[op.device].key # "none"
              /\ SoleOwner(db, op.device, db'.devices[op.device].user)
          BY <1>5, <4>1, <4>2, <4>3 DEF NewUser
        <4>5. OwnerRows(db, op.device) = {}
          BY <2>4, <4>1, <4>2, <4>4 DEF DbInv, OwnerInv
        <4> QED BY <4>4, <4>5 DEF SoleOwner
      <3>4. op.vault # NoVault
        BY <3>3 DEF DbInv, ScopeInv
      <3>5. new.user = op.user /\ new.vault = op.vault
        BY <2>1, <3>3, <3>4 DEF NewOp
      <3>6. op \in InScope(d)
        BY <2>0, <3>1, <3>2, <3>5 DEF InScope
      <3> QED BY <2>2, <3>2, <3>6 DEF DbInv, NoGapsAcrossUpgrade
    <2> QED BY <2>3, <2>4
  <1> QED BY <1>11, <1>12, <1>13, <1>15, <1>16, <1>17 DEF DbInv

-----------------------------------------------------------------------------
(* The running server keeps it.                                            *)

LEMMA PairStep ==
    ASSUME DbInv, NEW d \in Devices, NEW u \in Users, NEW v \in Vaults, Pair(d, u, v)
    PROVE  DbInv'
  <1> DEFINE new == NewDevice(u, v)
             D == [db.devices EXCEPT ![d] = new]
             W == db.owners \cup {[user |-> u, device |-> d]}
  <1>1. db \in Database /\ stage = "open" /\ \A x \in Tables : db.layout[x] = "new"
    BY DEF DbInv, DbTypeOK, Pair
  <1>2. new \in DeviceRow /\ new.key = "disabled" /\ new.user = u /\ u # NoUser
    BY NullAssumption DEF NewDevice, DeviceRow, OwnerOrNone
  <1> HIDE DEF new
  <1>3. db' = [db EXCEPT !.devices = D, !.owners = W]
    BY DEF Pair, new
  <1>4. D \in [Devices -> DeviceRow] /\ D[d] = new
        /\ \A x \in Devices \ {d} : D[x] = db.devices[x]
    BY <1>1, <1>2 DEF Database
  <1>5. W \in SUBSET [user : Users, device : Devices]
    BY <1>1 DEF Database
  <1> HIDE DEF D, W
  <1>6. /\ db' \in Database /\ db'.devices = D /\ db'.owners = W
        /\ db'.ops = db.ops /\ db'.rev = db.rev /\ db'.tombs = db.tombs
        /\ db'.cached = db.cached /\ db'.tokens = db.tokens /\ db'.users = db.users
        /\ db'.layout = db.layout
    BY <1>1, <1>3, <1>4, <1>5 DEF Database
  <1>7. /\ UNCHANGED <<stage, at>> /\ u \in db.users /\ OwnerRows(db, d) = {}
        /\ \A op \in db.ops : op.device # d
    BY DEF Pair
  <1>8. /\ cursor' \in [Devices -> Nat] /\ cursor'[d] = 0
        /\ got' \in [Devices -> SUBSET OpIds]
        /\ \A x \in Devices \ {d} : cursor'[x] = cursor[x] /\ got'[x] = got[x]
    BY DEF DbInv, DbTypeOK, Pair
  <1>9. \A op \in db.ops : op.device \in Devices \ {d}
    BY <1>1, <1>7 DEF Database, OpRow
  <1>10. DbTypeOK'
    BY <1>6, <1>7, <1>8 DEF DbTypeOK, DbInv
  <1>11. LayoutInv'
    BY <1>1, <1>2, <1>4, <1>6 DEF LayoutInv, DbInv, PlainKey, Tables
  <1>12. OwnerInv'
    <2>1. \A x \in Devices : db'.devices[x].key = "none" => db'.devices[x] = NoRow
      BY <1>2, <1>4, <1>6 DEF OwnerInv, DbInv
    <2>2. \A x \in db.owners : x.device \in Devices \ {d}
      BY <1>1, <1>7 DEF Database, OwnerRows
    <2>3. \A x \in db'.owners : db'.devices[x.device].user \in {NoUser, x.user}
      BY <1>2, <1>4, <1>6, <2>2 DEF OwnerInv, DbInv, W
    <2>4. /\ OwnerRows(db', d) = {[user |-> u, device |-> d]}
          /\ \A x \in Devices \ {d} : OwnerRows(db', x) = OwnerRows(db, x)
      BY <1>6, <1>7 DEF OwnerRows, W
    <2>5. \A x \in Devices \ Disputed : \A y, z \in OwnerRows(db', x) : y = z
      BY <2>4 DEF OwnerInv, DbInv
    <2>6. \A x \in Devices \ Disputed :
             db'.devices[x].key # "none" /\ db'.devices[x].user = NoUser =>
                OwnerRows(db', x) = {}
      BY <1>1, <1>2, <1>4, <1>6, <2>4 DEF OwnerInv, DbInv, Tables
    <2> QED BY <2>1, <2>3, <2>5, <2>6 DEF OwnerInv
  <1>13. ScopeInv'
    BY <1>4, <1>6, <1>9 DEF ScopeInv, DbInv, ScopeVault
  <1>14. CursorInv'
    <2>1. \A x \in Devices : cursor'[x] <= db.rev
      BY <1>1, <1>8 DEF CursorInv, DbInv, Database
    <2>2. ASSUME NEW x \in Devices, db'.devices[x].key # "none",
                 db'.layout["devices"] # "new" \/ db'.devices[x].user = NoUser
          PROVE  x # d /\ \A op \in db'.ops : op.seq <= cursor'[x] => op.id \in got'[x]
      BY <1>1, <1>2, <1>4, <1>6, <1>8, <2>2 DEF CursorInv, DbInv, Tables
    <2> QED BY <1>6, <2>1, <2>2 DEF CursorInv, DbInv
  <1>15. NoGapsAcrossUpgrade'
    <2> SUFFICES ASSUME NEW x \in Devices, NEW op \in InScope(x)', MaySync(x)',
                        op.seq <= cursor'[x], op.device \notin Disputed
                 PROVE  op.id \in got'[x]
      BY DEF NoGapsAcrossUpgrade
    <2>1. op \in db.ops
      BY <1>6 DEF InScope
    <2>2. 0 < op.seq /\ op.seq \in Nat
      BY <1>1, <2>1 DEF DbInv, CursorInv, Database, OpRow
    <2>3. x # d
      BY <1>8, <2>2
    <2>4. op \in InScope(x) /\ MaySync(x)
      BY <1>4, <1>6, <2>3 DEF InScope, ScopeVault, MaySync
    <2> QED BY <1>8, <2>3, <2>4 DEF DbInv, NoGapsAcrossUpgrade
  <1> QED BY <1>10, <1>11, <1>12, <1>13, <1>14, <1>15 DEF DbInv

LEMMA PushStep ==
    ASSUME DbInv, NEW d \in Devices, NEW id \in OpIds, NEW delete \in BOOLEAN,
           Push(d, id, delete)
    PROVE  DbInv'
  <1> DEFINE user == db.devices[d].user
             vault == ScopeVault(d)
             new == [id |-> id, seq |-> db.rev + 1, device |-> d,
                     user |-> user, vault |-> vault]
             tomb == [op |-> id, user |-> user, vault |-> vault]
             cache == [user |-> user, vault |-> vault]
  <1>1. /\ db \in Database /\ stage = "open"
        /\ \A x \in Tables : db.layout[x] = "new"
        /\ db.rev \in Nat /\ user \in Users
        /\ db.devices[d].key # "none" /\ db.devices[d] \in DeviceRow
    BY DEF DbInv, DbTypeOK, Push, MaySync, Database
  <1>2. user # NoUser /\ vault # NoVault /\ vault \in OpVaults
    BY <1>1, NullAssumption DEF ScopeVault, EffectiveVault, OpVaults, DeviceRow
  <1>3. /\ new \in OpRow /\ tomb \in TombRow /\ cache \in CacheRow
        /\ Scoped(tomb) /\ Scoped(cache)
    BY <1>1, <1>2 DEF OpRow, TombRow, CacheRow, OwnerOrNone, Scoped
  <1>4. /\ db' = [db EXCEPT !.ops = @ \cup {new}, !.rev = @ + 1,
                            !.tombs = IF delete THEN @ \cup {tomb} ELSE @,
                            !.cached = @ \cup {cache}]
        /\ UNCHANGED <<stage, at, cursor, got>>
    BY DEF Push, clients
  <1> HIDE DEF tomb, cache
  <1>5. /\ db' \in Database /\ db'.ops = db.ops \cup {new} /\ db'.rev = db.rev + 1
        /\ db'.tombs \subseteq db.tombs \cup {tomb}
        /\ db'.cached = db.cached \cup {cache}
        /\ db'.devices = db.devices /\ db'.owners = db.owners
        /\ db'.tokens = db.tokens /\ db'.users = db.users /\ db'.layout = db.layout
    <2> HIDE DEF new
    <2>1. db.ops \cup {new} \in SUBSET OpRow /\ db.cached \cup {cache} \in SUBSET CacheRow
          /\ db.tombs \cup {tomb} \in SUBSET TombRow /\ db.rev + 1 \in Nat
      BY <1>1, <1>3 DEF Database
    <2>2. CASE delete
      <3>1. db' = [db EXCEPT !.ops = @ \cup {new}, !.rev = @ + 1,
                             !.tombs = @ \cup {tomb}, !.cached = @ \cup {cache}]
        BY <1>4, <2>2
      <3> QED BY <1>1, <2>1, <3>1 DEF Database
    <2>3. CASE ~delete
      <3>1. db' = [db EXCEPT !.ops = @ \cup {new}, !.rev = @ + 1,
                             !.tombs = @, !.cached = @ \cup {cache}]
        BY <1>4, <2>3
      <3> QED BY <1>1, <2>1, <3>1 DEF Database
    <2> QED BY <2>2, <2>3
  <1>6. /\ new.id = id /\ new.seq = db.rev + 1 /\ new.device = d
        /\ new.user = user /\ new.vault = vault
    OBVIOUS
  <1> HIDE DEF new
  <1>7. DbTypeOK'
    BY <1>4, <1>5 DEF DbTypeOK, DbInv
  <1>8. LayoutInv'
    BY <1>1, <1>3, <1>5 DEF LayoutInv, DbInv, Tables
  <1>9. OwnerInv'
    BY <1>5 DEF OwnerInv, DbInv, OwnerRows
  <1>10. ScopeInv'
    BY <1>1, <1>2, <1>5, <1>6 DEF ScopeInv, DbInv, ScopeVault
  <1>11. \A x \in Devices : cursor[x] \in Nat /\ cursor[x] < new.seq
    BY <1>1, <1>6 DEF DbInv, CursorInv, DbTypeOK
  <1>12. CursorInv'
    <2>1. \A op \in db.ops : op.seq \in Nat
      BY <1>1 DEF Database, OpRow
    <2>2. \A op \in db'.ops : 0 < op.seq /\ op.seq <= db'.rev
      BY <1>1, <1>5, <1>6, <2>1 DEF DbInv, CursorInv
    <2>3. \A x \in Devices : cursor'[x] <= db'.rev
      BY <1>1, <1>4, <1>5, <1>11 DEF DbInv, CursorInv
    <2>4. ASSUME NEW x \in Devices, db'.devices[x].key # "none",
                 db'.layout["devices"] # "new" \/ db'.devices[x].user = NoUser,
                 NEW op \in db'.ops, op.seq <= cursor'[x]
          PROVE  op.id \in got'[x]
      <3>1. op # new
        BY <1>1, <1>4, <1>6, <1>11, <2>4
      <3> QED BY <1>4, <1>5, <2>4, <3>1 DEF DbInv, CursorInv
    <2> QED BY <2>2, <2>3, <2>4 DEF CursorInv
  <1>13. NoGapsAcrossUpgrade'
    <2> SUFFICES ASSUME NEW x \in Devices, NEW op \in InScope(x)', MaySync(x)',
                        op.seq <= cursor[x], op.device \notin Disputed
                 PROVE  op.id \in got[x]
      BY <1>4 DEF NoGapsAcrossUpgrade
    <2>1. op # new
      BY <1>1, <1>6, <1>11
    <2>2. op \in InScope(x) /\ MaySync(x)
      BY <1>5, <2>1 DEF InScope, ScopeVault, MaySync
    <2> QED BY <2>2 DEF DbInv, NoGapsAcrossUpgrade
  <1> QED BY <1>7, <1>8, <1>9, <1>10, <1>12, <1>13 DEF DbInv

LEMMA PullStep ==
    ASSUME DbInv, NEW d \in Devices, NEW upTo \in 1..MaxRev, Pull(d, upTo)
    PROVE  DbInv'
  <1> DEFINE page == {op \in InScope(d) : cursor[d] < op.seq /\ op.seq <= upTo}
  <1>1. /\ db \in Database /\ \A x \in Tables : db.layout[x] = "new"
        /\ db.devices[d].user # NoUser /\ upTo \in Nat
    BY NullAssumption DEF DbInv, DbTypeOK, Pull, MaySync, Database
  <1>2. UNCHANGED <<db, stage, at>> /\ upTo <= db.rev
    BY DEF Pull, InScope, DbInv, CursorInv
  <1>3. IdsOf(page) \subseteq OpIds
    BY <1>1 DEF IdsOf, InScope, Database, OpRow
  <1>4. /\ cursor' \in [Devices -> Nat] /\ got' \in [Devices -> SUBSET OpIds]
        /\ cursor'[d] = upTo /\ got'[d] = got[d] \cup IdsOf(page)
        /\ \A x \in Devices \ {d} : cursor'[x] = cursor[x] /\ got'[x] = got[x]
    BY <1>1, <1>3 DEF Pull, DbInv, DbTypeOK
  <1>5. DbTypeOK' /\ LayoutInv' /\ OwnerInv' /\ ScopeInv'
    BY <1>2, <1>4 DEF DbInv, DbTypeOK, LayoutInv, OwnerInv, ScopeInv, ScopeVault
  <1>6. CursorInv'
    <2>1. \A x \in Devices : cursor'[x] <= db.rev
      BY <1>2, <1>4 DEF DbInv, CursorInv
    <2>2. ASSUME NEW x \in Devices, db.devices[x].key # "none",
                 db.layout["devices"] # "new" \/ db.devices[x].user = NoUser,
                 NEW op \in db.ops, op.seq <= cursor'[x]
          PROVE  op.id \in got'[x]
      BY <1>1, <1>4, <2>2 DEF DbInv, CursorInv, Tables
    <2> QED BY <1>2, <2>1, <2>2 DEF DbInv, CursorInv
  <1>7. NoGapsAcrossUpgrade'
    <2> SUFFICES ASSUME NEW x \in Devices, NEW op \in InScope(x), MaySync(x),
                        op.seq <= cursor'[x], op.device \notin Disputed
                 PROVE  op.id \in got'[x]
      BY <1>2 DEF NoGapsAcrossUpgrade, InScope, ScopeVault, MaySync
    <2>1. op.seq <= cursor[x] => op.id \in got[x]
      BY DEF DbInv, NoGapsAcrossUpgrade
    <2>2. CASE x # d
      BY <1>4, <2>1, <2>2
    <2>3. CASE x = d
      <3>1. op.seq \in Nat /\ cursor[d] \in Nat
        BY <1>1 DEF InScope, Database, OpRow, DbInv, DbTypeOK
      <3>2. CASE op.seq <= cursor[d]
        BY <1>4, <2>1, <2>3, <3>2
      <3>3. CASE cursor[d] < op.seq
        <4>1. op \in page
          BY <1>4, <2>3, <3>3
        <4> QED BY <1>4, <2>3, <4>1 DEF IdsOf
      <3> QED BY <3>1, <3>2, <3>3
    <2> QED BY <2>2, <2>3
  <1> QED BY <1>5, <1>6, <1>7 DEF DbInv

\* Steps that only take rows away.
Removed(n) ==
    /\ n \in Database /\ n.users \subseteq db.users /\ n.rev = db.rev
    /\ n.layout = db.layout /\ n.owners \subseteq db.owners
    /\ n.ops \subseteq db.ops /\ n.tombs \subseteq db.tombs
    /\ n.cached \subseteq db.cached /\ n.tokens \subseteq db.tokens
    /\ \A d \in Devices : n.devices[d] \in {db.devices[d], NoRow}

LEMMA RemovalStep ==
    ASSUME DbInv, stage = "open", Removed(db'), UNCHANGED <<stage, at, clients>>
    PROVE  DbInv'
  <1>1. /\ db \in Database /\ \A x \in Tables : db.layout[x] = "new"
        /\ NoRow.key = "none" /\ NoRow.user = NoUser
    BY DEF DbInv, DbTypeOK, NoRow
  <1>2. \A op \in db.ops : op.device \in Devices
    BY <1>1 DEF Database, OpRow
  <1>3. \A x \in db.owners : x.device \in Devices
    BY <1>1 DEF Database
  <1>4. DbTypeOK'
    BY DEF DbInv, DbTypeOK, Removed, clients
  <1>5. LayoutInv'
    BY <1>1 DEF DbInv, LayoutInv, Removed, PlainKey, Tables
  <1>6. OwnerInv'
    <2>1. \A d \in Devices : OwnerRows(db', d) \subseteq OwnerRows(db, d)
      BY DEF Removed, OwnerRows
    <2>2. \A d \in Devices : db'.devices[d].key = "none" => db'.devices[d] = NoRow
      BY DEF Removed, DbInv, OwnerInv
    <2>3. \A x \in db'.owners : db'.devices[x.device].user \in {NoUser, x.user}
      BY <1>1, <1>3 DEF Removed, DbInv, OwnerInv
    <2>4. \A d \in Devices \ Disputed : \A x, y \in OwnerRows(db', d) : x = y
      BY <2>1 DEF DbInv, OwnerInv
    <2>5. ASSUME NEW d \in Devices \ Disputed, db'.devices[d].key # "none",
                 db'.devices[d].user = NoUser
          PROVE  OwnerRows(db', d) = {}
      <3>1. db'.devices[d] = db.devices[d]
        BY <1>1, <2>5 DEF Removed
      <3>2. OwnerRows(db, d) = {}
        BY <1>1, <2>5, <3>1 DEF DbInv, OwnerInv, Tables
      <3> QED BY <2>1, <3>2
    <2> QED BY <2>2, <2>3, <2>4, <2>5 DEF OwnerInv
  <1>7. ScopeInv'
    <2> SUFFICES ASSUME NEW op \in db'.ops
                 PROVE  /\ op.user = NoUser => op.vault = NoVault
                        /\ op.user # NoUser => op.vault # NoVault
                        /\ op.user # NoUser /\ db'.devices[op.device].key # "none" =>
                              /\ op.user = db'.devices[op.device].user
                              /\ op.vault = ScopeVault(op.device)'
                        /\ db'.devices[op.device].user # NoUser => op.user # NoUser
      BY DEF ScopeInv
    <2>1. op \in db.ops /\ db'.devices[op.device] \in {db.devices[op.device], NoRow}
      BY <1>2 DEF Removed
    <2> QED BY <1>1, <2>1 DEF DbInv, ScopeInv, ScopeVault, Tables
  <1>8. CursorInv'
    <2>1. ASSUME NEW d \in Devices, db'.devices[d].key # "none",
                 db'.layout["devices"] # "new" \/ db'.devices[d].user = NoUser
          PROVE  \A op \in db'.ops : op.seq <= cursor'[d] => op.id \in got'[d]
      BY <1>1, <2>1 DEF DbInv, CursorInv, Removed, clients
    <2> QED BY <2>1 DEF DbInv, CursorInv, Removed, clients
  <1>9. NoGapsAcrossUpgrade'
    <2> SUFFICES ASSUME NEW d \in Devices, NEW op \in InScope(d)', MaySync(d)',
                        op.seq <= cursor[d], op.device \notin Disputed
                 PROVE  op.id \in got[d]
      BY DEF NoGapsAcrossUpgrade, clients
    <2>1. db'.devices[d] = db.devices[d]
      BY <1>1 DEF Removed, MaySync
    <2>2. op \in InScope(d) /\ MaySync(d)
      BY <2>1 DEF Removed, InScope, ScopeVault, MaySync
    <2> QED BY <2>2 DEF DbInv, NoGapsAcrossUpgrade
  <1> QED BY <1>4, <1>5, <1>6, <1>7, <1>8, <1>9 DEF DbInv

LEMMA DropDeviceStep ==
    ASSUME DbInv, NEW d \in Devices, DropDevice(d) PROVE DbInv'
  <1> DEFINE D == [db.devices EXCEPT ![d] = NoRow]
             W == db.owners \ OwnerRows(db, d)
  <1>1. db \in Database /\ NoRow \in DeviceRow
    BY DEF DbInv, DbTypeOK, NoRow, DeviceRow, OwnerOrNone
  <1>2. db' = [db EXCEPT !.devices = D, !.owners = W]
    BY DEF DropDevice
  <1>3. D \in [Devices -> DeviceRow] /\ \A x \in Devices : D[x] \in {db.devices[x], NoRow}
    BY <1>1 DEF Database
  <1>4. W \in SUBSET [user : Users, device : Devices] /\ W \subseteq db.owners
    BY <1>1 DEF Database
  <1>5. \A x \in db.owners : x.device \in Devices
    BY <1>1 DEF Database
  <1> HIDE DEF D, W
  <1>6. Removed(db')
    BY <1>1, <1>2, <1>3, <1>4, <1>5 DEF Removed, Database
  <1> QED BY <1>6, RemovalStep DEF DropDevice

LEMMA DeleteUserStep ==
    ASSUME DbInv, NEW u \in Users, DeleteUser(u) PROVE DbInv'
  <1> DEFINE D == [d \in Devices |-> IF db.devices[d].user = u THEN NoRow
                                    ELSE db.devices[d]]
  <1>1. db \in Database /\ NoRow \in DeviceRow
    BY DEF DbInv, DbTypeOK, NoRow, DeviceRow, OwnerOrNone
  <1>2. db' = [db EXCEPT !.users = @ \ {u}, !.devices = D,
                 !.owners = NotOf(u, @), !.ops = NotOf(u, @), !.tombs = NotOf(u, @),
                 !.cached = NotOf(u, @), !.tokens = NotOf(u, @)]
    BY DEF DeleteUser
  <1>3. D \in [Devices -> DeviceRow] /\ \A x \in Devices : D[x] \in {db.devices[x], NoRow}
    BY <1>1 DEF Database
  <1>4. \A x \in db.owners : x.device \in Devices
    BY <1>1 DEF Database
  <1>5. \A rows : NotOf(u, rows) \subseteq rows
    BY DEF NotOf
  <1> HIDE DEF D
  <1>6. db' \in Database
    BY <1>1, <1>2, <1>3, <1>5 DEF Database
  <1>7. Removed(db')
    BY <1>1, <1>2, <1>3, <1>4, <1>5, <1>6 DEF Removed, Database
  <1> QED BY <1>7, RemovalStep DEF DeleteUser

-----------------------------------------------------------------------------
(* The theorems.                                                           *)

LEMMA StepInv == DbInv /\ [DbNext]_dbvars => DbInv'
  <1> SUFFICES ASSUME DbInv, [DbNext]_dbvars PROVE DbInv'
    OBVIOUS
  <1>0. stage \in {"closed", "schema", "migrate", "open"} /\ at \in 1..Len(Statements)
        /\ 1 \in 1..Len(Statements)
    BY DEF DbInv, DbTypeOK, Statements
  <1>1. CASE UNCHANGED dbvars
    BY <1>0, <1>1, QuietStep DEF dbvars, clients
  <1>2. CASE Open
    BY <1>0, <1>2, QuietStep DEF Open
  <1>3. CASE CreateTable
    BY <1>3, CreateTableStep
  <1>4. CASE CreateIndex
    BY <1>0, <1>4, QuietStep DEF CreateIndex, Refuse
  <1>5. CASE Migrate
    BY <1>5, MigrateStep
  <1>6. CASE Fail
    BY <1>0, <1>6, QuietStep DEF Fail, Refuse
  <1>7. CASE Close
    BY <1>0, <1>7, QuietStep DEF Close, Refuse
  <1>8. CASE Serve
    BY <1>8, PairStep, PushStep, PullStep, DropDeviceStep, DeleteUserStep DEF Serve
  <1> QED BY <1>1, <1>2, <1>3, <1>4, <1>5, <1>6, <1>7, <1>8 DEF DbNext, Start

LEMMA DbInvariant == DbSpec => []DbInv
  BY InitInv, StepInv, PTL DEF DbSpec

\* An open database has this version's layout and no token in the clear.
THEOREM DbTypeCorrect == DbSpec => []DbTypeOK
  <1>1. DbInv => DbTypeOK
    BY DEF DbInv
  <1> QED BY <1>1, DbInvariant, PTL

\* Whichever version wrote a row, an open database has it in the scope of its
\* device, and answers nobody from a row without a scope.
THEOREM RowsHaveOneOwner == DbSpec => []OwnLog
  <1>1. DbInv => OwnLog
    <2> SUFFICES ASSUME DbInv, stage = "open" PROVE OwnLog
      BY DEF OwnLog
    <2>1. \A x \in Tables : db.layout[x] = "new"
      BY DEF DbInv, DbTypeOK
    <2>2. \A row \in db.tombs \cup db.cached : Scoped(row)
      BY <2>1 DEF DbInv, LayoutInv, Tables
    <2>3. ASSUME NEW op \in db.ops, db.devices[op.device].user # NoUser
          PROVE  op.user = db.devices[op.device].user /\ op.vault = ScopeVault(op.device)
      <3>1. op.device \in Devices
        BY DEF DbInv, DbTypeOK, Database, OpRow
      <3>2. db.devices[op.device].key # "none"
        BY <2>3, <3>1 DEF DbInv, OwnerInv, NoRow
      <3> QED BY <2>1, <2>3, <3>2 DEF DbInv, ScopeInv, Tables
    <2> QED BY <2>2, <2>3 DEF OwnLog, DbInv, OwnerInv
  <1> QED BY <1>1, DbInvariant, PTL

\* Upgrades and restarts put no operation behind a client's cursor.
THEOREM UpgradesLeaveNoGaps == DbSpec => []NoGapsAcrossUpgrade
  <1>1. DbInv => NoGapsAcrossUpgrade
    BY DEF DbInv
  <1> QED BY <1>1, DbInvariant, PTL

\* A start that is repeated on what this version wrote changes no row.
THEOREM RestartsChangeNothing == DbSpec => []RestartChangesNothing
  <1>1. DbInv => RestartChangesNothing
    <2> SUFFICES ASSUME DbInv, stage = "open", ~\E d \in Disputed : Decided(d)
                 PROVE  Migrated(db, {}) = db
      BY DEF RestartChangesNothing
    <2> DEFINE n == Migrated(db, {})
    <2>1. /\ db \in Database /\ \A x \in Tables : db.layout[x] = "new"
          /\ \A x \in {"devices", "tombs", "cached", "tokens"} : db.layout[x] = "new"
      BY DEF DbInv, DbTypeOK, Tables
    <2>2. MigratedFrom(db, {}, n)
      BY <2>1, MigratedFields
    <2> HIDE DEF n
    <2>3. n \in Database
      BY <2>2 DEF MigratedFrom
    <2>4. ASSUME NEW d \in Devices PROVE n.devices[d] = db.devices[d]
      <3>1. /\ db.devices[d] \in DeviceRow
            /\ n.devices[d] = [db.devices[d] EXCEPT !.user = n.devices[d].user,
                                  !.legacy = @ \/ PlainKey(db.devices[d])]
            /\ NewUser(db, d, n.devices[d].user)
        BY <2>1, <2>2 DEF MigratedFrom, Database
      <3>2. n.devices[d].user = db.devices[d].user
        <4> SUFFICES ASSUME db.devices[d].key # "none", db.devices[d].user = NoUser,
                            n.devices[d].user \in Users,
                            SoleOwner(db, d, n.devices[d].user)
                     PROVE  FALSE
          BY <3>1 DEF NewUser
        <4>1. CASE d \in Disputed
          BY <4>1 DEF Decided
        <4>2. CASE d \notin Disputed
          <5>1. OwnerRows(db, d) = {}
            BY <2>1, <4>2 DEF DbInv, OwnerInv
          <5> QED BY <5>1 DEF SoleOwner
        <4> QED BY <4>1, <4>2
      <3>3. (db.devices[d].legacy \/ PlainKey(db.devices[d])) = db.devices[d].legacy
        BY <2>1, <3>1 DEF DbInv, LayoutInv, DeviceRow
      <3>4. n.devices[d] = [db.devices[d] EXCEPT !.user = db.devices[d].user,
                                                 !.legacy = db.devices[d].legacy]
        BY <3>1, <3>2, <3>3
      <3> QED BY <3>1, <3>4 DEF DeviceRow
    <2>5. n.devices = db.devices
      BY <2>1, <2>3, <2>4 DEF Database
    <2>6. ASSUME NEW op \in db.ops PROVE ScopedOp(n, op) = op
      <3>1. op \in OpRow /\ op.device \in Devices
        BY <2>1 DEF Database, OpRow
      <3>2. op.user = NoUser => n.devices[op.device].user = NoUser
        BY <2>1, <2>5 DEF DbInv, ScopeInv
      <3>3. op.user # NoUser => op.vault # NoVault
        BY DEF DbInv, ScopeInv
      <3>4. ScopedOp(n, op) = [op EXCEPT !.user = op.user, !.vault = op.vault]
        BY <3>2, <3>3 DEF ScopedOp
      <3> QED BY <3>1, <3>4 DEF OpRow
    <2>7. n.ops = db.ops
      <3>1. n.ops = {ScopedOp(n, op) : op \in db.ops}
        BY <2>2 DEF MigratedFrom
      <3> QED BY ONLY <3>1, <2>6
    <2>8. n.layout = db.layout
      <3>1. n.layout \in Layout /\ db.layout \in Layout
        BY <2>1, <2>3 DEF Database
      <3>2. \A x \in Tables : n.layout[x] = db.layout[x]
        BY <2>1, <2>2 DEF MigratedFrom
      <3> QED BY <3>1, <3>2 DEF Layout
    <2>9. /\ n.tokens = db.tokens /\ n.tombs = db.tombs /\ n.cached = db.cached
          /\ n.users = db.users /\ n.owners = db.owners /\ n.rev = db.rev
      BY <2>1, <2>2 DEF MigratedFrom, KnownNew
    <2>10. n = db
      BY <2>1, <2>3, <2>5, <2>7, <2>8, <2>9 DEF Database
    <2> QED BY <2>10 DEF n
  <1> QED BY <1>1, DbInvariant, PTL

\* What a start keeps when it migrates.
LEMMA MigrateKeeps ==
    ASSUME DbInv, Migrate PROVE KeptByStart
  <1>1. PICK m \in SUBSET Tables : db' = Migrated(db, m)
    BY DEF Migrate, Tables
  <1>2. db \in Database
    BY DEF DbInv, DbTypeOK
  <1>3. MigratedFrom(db, m, db')
    BY <1>1, <1>2, MigratedFields
  <1>4. /\ db' \in Database
        /\ db'.owners = db.owners /\ db'.users = db.users /\ db'.rev = db.rev
        /\ db'.ops = {ScopedOp(db', op) : op \in db.ops}
    BY <1>3 DEF MigratedFrom
  <1>5. \A d \in Devices : db'.devices[d].key = db.devices[d].key
    <2> SUFFICES ASSUME NEW d \in Devices PROVE db'.devices[d].key = db.devices[d].key
      OBVIOUS
    <2>1. db.devices[d] \in DeviceRow
      BY <1>2 DEF Database
    <2> QED BY <1>3, <2>1 DEF MigratedFrom, DeviceRow
  <1>6. \A op \in db.ops :
           /\ ScopedOp(db', op).id = op.id /\ ScopedOp(db', op).seq = op.seq
           /\ ScopedOp(db', op).device = op.device
    BY <1>3 DEF MigratedFrom, NewOp
  <1>7. {<<op.id, op.seq, op.device>> : op \in db'.ops} =
           {<<op.id, op.seq, op.device>> : op \in db.ops}
    BY <1>4, <1>6
  <1>8. ASSUME NEW op \in db.ops, Scoped(op) PROVE op \in db'.ops
    <2>1. op \in OpRow
      BY <1>2 DEF Database
    <2>2. ScopedOp(db', op) = [op EXCEPT !.user = op.user, !.vault = op.vault]
      BY <1>8 DEF ScopedOp, Scoped
    <2>3. ScopedOp(db', op) = op
      BY <2>1, <2>2 DEF OpRow
    <2> QED BY <1>4, <2>3
  <1>9. {<<x.secret, x.user>> : x \in db'.tokens} = {<<x.secret, x.user>> : x \in db.tokens}
    <2>1. CASE db.layout["tokens"] = "new"
      BY <1>3, <2>1 DEF MigratedFrom
    <2>2. CASE db.layout["tokens"] # "new"
      <3>1. db'.tokens = {[x EXCEPT !.hashed = TRUE] : x \in db.tokens}
        BY <1>3, <2>2 DEF MigratedFrom
      <3>2. \A x \in db.tokens : LET y == [x EXCEPT !.hashed = TRUE]
                                 IN y.secret = x.secret /\ y.user = x.user
        BY <1>2 DEF Database, TokenRow
      <3>3. ASSUME NEW x \in db.tokens
            PROVE  \E y \in db'.tokens : y.secret = x.secret /\ y.user = x.user
        BY <3>1, <3>2
      <3>4. ASSUME NEW y \in db'.tokens
            PROVE  \E x \in db.tokens : y.secret = x.secret /\ y.user = x.user
        BY <3>1, <3>2
      <3> QED BY <3>3, <3>4
    <2> QED BY <2>1, <2>2
  <1>10. ASSUME NEW x \in db.tombs, NEW op \in db'.ops, op.id = x.op, Scoped(op)
         PROVE  \E y \in db'.tombs : y.op = x.op
    <2>1. CASE KnownNew(db, "tombs", m)
      BY <1>3, <2>1 DEF MigratedFrom
    <2>2. CASE ~KnownNew(db, "tombs", m)
      <3> DEFINE t == [db' EXCEPT !.tombs = db.tombs]
      <3>1. db'.tombs = TombsOfOps(t)
        BY <1>3, <2>2 DEF MigratedFrom
      <3>2. t.ops = db'.ops /\ t.tombs = db.tombs
        BY <1>4 DEF Database
      <3> HIDE DEF t
      <3>3. [op |-> op.id, user |-> op.user, vault |-> op.vault] \in TombsOfOps(t)
        BY <1>10, <3>2 DEF TombsOfOps
      <3> QED BY <1>10, <3>1, <3>3
    <2> QED BY <2>1, <2>2
  <1> QED BY <1>4, <1>5, <1>7, <1>8, <1>9, <1>10 DEF KeptByStart

\* Nothing is lost by a start, wherever it fails or is cut off.
THEOREM StartsLoseNothing == DbSpec => StartLosesNothing
  <1>1. DbInv /\ [DbNext]_dbvars => [Starting => KeptByStart]_dbvars
    <2> SUFFICES ASSUME DbInv, DbNext, Starting PROVE KeptByStart
      OBVIOUS
    <2>1. db \in Database
      BY DEF DbInv, DbTypeOK
    <2>2. CASE UNCHANGED db
      BY <2>2 DEF KeptByStart
    <2>3. CASE CreateTable
      <3>1. /\ db'.devices = db.devices /\ db'.owners = db.owners /\ db'.ops = db.ops
            /\ db'.rev = db.rev /\ db'.tombs = db.tombs /\ db'.tokens = db.tokens
            /\ db'.users = db.users
        BY <2>1, <2>3 DEF CreateTable, Database
      <3> QED BY <3>1 DEF KeptByStart
    <2>4. CASE Migrate
      BY <2>4, MigrateKeeps
    <2>5. UNCHANGED db \/ CreateTable \/ Migrate
      BY DEF DbNext, Start, Serve, Starting, Open, CreateIndex, Refuse, Fail, Close,
             Pair, Push, Pull, DropDevice, DeleteUser
    <2> QED BY <2>2, <2>3, <2>4, <2>5
  <1> QED BY <1>1, DbInvariant, PTL DEF DbSpec, StartLosesNothing
=============================================================================
