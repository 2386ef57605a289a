# Verification of the Verstak sync server

TLA+ models, TLC configurations and TLAPS proofs for `verstak-sync-server`, the
self-hosted relay of operation logs and blobs (`src/`, Go). Every definition is
taken from the code; line numbers of the correspondence are in `PROJECT.json`.

## 1. The system

One Go process serves HTTP. Each request runs in a goroutine of its own. The
state is one SQLite file, a directory of blobs, a YAML configuration, and a few
maps in memory.

`NewServer` sets `db.SetMaxOpenConns(1)` (`server.go:55`). This is what the
concurrency of the program rests on: a statement outside a transaction is
atomic; a transaction holds the only connection from `Begin` to `Commit` or
`Rollback` and so excludes every other statement; between two statements, or
between a statement and a transaction, any other handler may run. What is not in
the database (files, maps in memory, the sockets) is not covered by that
exclusion.

| Component | State | Operations | What makes it correct |
|---|---|---|---|
| Sync log (`handlers_api.go`, `sync_contract.go`) | `server_ops`, `server_revisions`, `server_tombstones`, `server_idempotency_keys`; each client's cursor | push, pull | no gaps behind a cursor; pushes whole or not at all, once; conflicts complete; one operation per sequence; scopes isolated |
| Device access (`middleware.go`, `devices.go`, `handlers_api.go:45-384`) | `server_devices`, `server_user_devices`, `blocked` of `server_users` | pair, register, authenticate, revoke, drop | a revoked device or blocked user is not served |
| Blob store (`blobs.go`) | `server_blobs`, `server_blob_refs`, files, temporary files | upload, attach, download, reference check of a push | a reference always has its file; quotas; no file of a rejected upload |
| Retention (`retention.go`) | sessions, tokens, keys, audit rows, `.upload-*` files | `CleanupRetention` at start and by the administrator | removes expired data only |
| Accounts (`handlers_auth.go`, `handlers_web_user.go`, `password_reset.go`, `email_tokens.go`) | `server_users`, `server_email_tokens` | register, confirm, forgot, reset | a token works once; accounts can be confirmed |
| Sessions (`sessions.go`, `csrf.go`) | `server_sessions` | login, load, logout, expiry | no session of a blocked or deleted user |
| Administration (`handlers_admin.go`, `web_admin.go`) | all of the above, one-time secrets in memory | block, edit, reset, delete, create, settings | toggles are not lost; a secret is shown once to its administrator |
| Rate limiter (`ratelimit.go`, `rate.go`) | buckets in memory | allow, clean up | at most `Limit` requests per window; bounded memory |
| Schema and migration (`schema.go`) | the tables and the layout an older version left them in | the statements of `serverSchema` one by one, then `migrateServerSchema` in one transaction, at every start | loses nothing, puts every row in its owner's scope, never again changes what this version wrote, leaves no gap behind a cursor |
| Configuration (`config.go`) | `config.yml`, the same in memory | load, override, save, set and check administrator, settings form | the file is always a whole configuration; what was reported as saved comes back |
| Start and stop (`main.go`, `server.go`, `health.go`) | the process, its flags and environment | start, set or bootstrap an administrator, serve, shut down, health, statistics | serves a migrated database only; a bootstrap password replaces nobody's |
| Presentation (`web_render.go`, `locale.go`, `web_locale.go`, `routes.go`, `helpers.go`, `proxy.go`, `smtp.go`, `tokens.go`, templates) | none | rendering, translation, mail, header parsing | |

Interactions: a push reads `server_blob_refs`; every sync and blob request reads
the device and the user in statements of their own and acts later; deleting a
user removes rows of every table in one transaction; retention removes stored
answers that a retried push may still look for; every start migrates again what
the last process wrote, under clients that keep their cursors across it; the
settings form and `main` save through one function.

### What is hard here

- **Read, then act.** Authentication, password checks, confirmation tokens and
  the API's block flag are read in one statement and used in a later one.
- **One connection.** A transaction excludes everybody; a handler that asks for
  a second connection inside one would stop the server. Files and maps in memory
  are outside the exclusion.
- **Retries and crashes.** A client cannot tell a lost answer from a lost
  request, the process may die between any two steps, and stored answers expire.
- **Two stores.** A blob is a file and a row; the rename comes before the commit.
- **Starting over.** The schema, the migration and the configuration are gone
  through at every start, over files written by this and by earlier versions,
  and may be interrupted at every statement.
- **Shared resources.** `op_id` is one key for all users, the rate limiter has
  one map for policies with different windows, a content is one file for all
  scopes.

`PROJECT.json` lists the hazards line by line with the properties that cover them.

## 2. The modules

| Module | Models | One step is |
|---|---|---|
| `OpLog` | push, pull, authentication, revocation, blocking and deletion, key expiry, and the clients | one SQL statement outside a transaction; `Begin` with the blob check, the look-up of the key, one operation of the batch, `Commit` inside one |
| `VaultLog` | what `OpLog` promises, without handlers, pages or retries: a log for each vault that grows at its end, numbers drawn from one counter, readers with exactly the log up to their position | an append, the deletion of a user, a read |
| `BlobStore` | upload, download, blob check of a push, the sweep of temporary files | one SQL statement, one file operation, or the part of a transaction between two of them |
| `ContentStore` | what `BlobStore` promises, without files, temporary names or the connection: one set of contents for each scope, within its quotas, the contents its log names, and requests that are asked, admitted, granted and answered | a request getting one stage further, of which one step reads or changes the set; a crash; the deletion of a user |
| `RateLimiter` | `rateRetryAfter`, `Allow`, `Cleanup` | reading the clock; a critical section of the mutex |
| `Accounts` | registration, confirmation, login, pairing, password resets, the administrator's actions on users and devices, one-time passwords | one statement or one transaction; a critical section of `secretMu` |
| `Migration` | `serverSchema`, `migrateServerSchema`, and what a running server adds to the tables they touch | one statement of the schema; the migration's transaction; one request |
| `Startup` | `main`, `config.go`, the settings form; it extends `Migration`, which is its `NewServer` | reading the configuration; a save before and after its rename; a step of `Migration` |

`MCx.tla` instantiates module `x` for TLC, `xProofs.tla` holds its theorems
(`OpLogServiceProofs.tla` and `AccountsAccessProofs.tla` more of those of
`OpLog` and `Accounts`). `Startup` composes the process with `Migration`; the
others share no variables: what one component needs of another (the user row,
the device row) each of them keeps for itself, with the steps of the other
component that change it.

**How to read `OpLog`.** `pc[r]` is where the goroutine of request `r` is,
`call[r]` what was asked, `reply[r]` what is answered. `conn` is the request that
has the connection; `work` is the transaction's own view of the tables, which
`PushCommit` makes the tables' and `ReleaseConn` throws away. A push is
`SendPush`, `AuthDevice`, `AuthUser`, `PushBegin`, `PushLookup`, then
`PushReplay` or `PushOp` once for each operation and `PushCommit`. A pull is
`SendPull`, `AuthDevice`, `AuthUser`, `PullTop`, `PullPage`. `ReceivePage` lets
the client apply any prefix of the page before it stores its cursor; `Finish`
reads or loses any other answer. `Fail` ends a request with an error at any
statement, `Crash` ends all of them and the clients' unsaved work. The client is
not under `src/`: it is modelled from the contract in `sync_contract.go` and
marked external. `Logs == INSTANCE VaultLog` is the refinement: the log of a
scope is the rows of `ops` with that scope, `last` is `lastRev`, a follower's
position and rows are a device's `cursor` and `got`. Every step of a handler is a
stutter but `PushCommit`, an append, and `ReceivePage`, a read.

**How to read `BlobStore`.** `temps` and `files` are the directory, `blobs`,
`refs` and `oplog` the tables. An upload walks `create`, `copy`, `parts`,
`begin`, `ref`, `place`, `rows`, `commit`; `made[r]` is `createdPhysical`, and
`AttachUndo` is the removal after a failed commit, which the code does when it no
longer has the connection. `CleanupRetention` lists the directory in one step
and visits the names one by one; the one at the start of the process, before
anybody is served, is part of `Crash`. `Contents == INSTANCE ContentStore` is the
refinement: the sets are `refs` and `oplog`, and `StageOf` maps the places of a
request to its five stages. An upload from `begin` to the end of `rows` is a
stutter, and `AttachCommit` is the `Store`, which must still be within the quotas
although they were measured three steps before.

**How to read `RateLimiter`.** `jobs[r]` is what request `r` has still to do: the
cleanup, its address, its account. Each job reads the clock first and takes the
mutex later, at most `Lag` after. `opened` and `given` are histories that count
what a fixed-window policy would count; the code does not keep them.

**How to read `Accounts`.** `call[r]` holds what a handler read in its first
statement and uses in its second. `raced` marks requests, and the rows they
write, whose account lost its sessions or was deleted between the two; it, `by`,
`token` and `pw` of a session are histories for the properties.

**How to read `Migration`.** `db` is the file, with a field for each table that
the migration reads and `layout` for the columns and keys each table has:
`absent`, `oldest` (`server_devices` without `user_id`), `old` (as an earlier
version made it), `new`. `NoUser` and `NoVault` are `NULL` or `''`. A start is
`Open`, `CreateTable` once for each table, `CreateIndex`, `Migrate`. `Migrated`
composes one operator for each function of `schema.go` in the order of the
calls; `misread` is the set of tables whose `PRAGMA table_info` failed, which
`hasScopedPrimaryKey` takes for old ones. `Pair`, `Push`, `Pull`, `DropDevice`
and `DeleteUser` are the running server, each in one step: that they may be so
is what `OpLog` shows. `cursor` and `got` are the clients', over all starts.

**How to read `Startup`.** `proc` is where `main` is, `flags` what it was
started with, `mem` its `Config`, `file` the `config.yml`. Each save is two
steps: `saveLocked` writes another file (`WhileSaving` is what `config.yml` holds
meanwhile) and renames it (`Saved`), and the process may die or the save fail in
between. `told` and `kept` are histories: the passwords and the settings that
were reported as saved. `site` is a constant of the behaviour that says what is
installed and how it is used.

## 3. The runs

| Run | Shows |
|---|---|
| `vault` | Two devices of one vault push and pull page by page with partly applied pages, lost answers and crashes: no gaps behind a cursor, `has_more = false` is a promise, every conflict is reported, tombstones name the last delete; what the devices see is `VaultLog`. |
| `retry` | The same operations pushed again under the same key, another and none, with failing statements, crashes and expiring keys: accepted once, whole or not at all, never dropped; every request is answered. |
| `tenants` | Two vaults of one user and a legacy device of another share an idempotency key while devices are revoked and dropped and users deleted: scopes do not leak, no sequence names two operations, no request sent after a revocation is served. |
| `converges` | Devices that keep pulling get every operation unless they lose access, although statements fail and answers are lost. |
| `blob_tenants` | References, files and operations stay together over failures, crashes and deletions; a sweep that goes through removes every stale temporary file; every step is one of `ContentStore`, in which nobody is served or names what its scope does not refer to. |
| `blob_quota` | The quota holds for concurrent uploads of every size, whatever rejects an upload leaves no file, and every request ends although uploads hold the only connection across file operations. |
| `blob_lost` | **Violation.** A failed commit removes a file another upload has referenced meanwhile. |
| `limiter_windows` | With windows less than a factor of two apart the shared map keeps every policy. |
| `limiter_mixed` | **Violation.** With the shipped windows a login drops buckets of registrations that are still counting. |
| `accounts` | Blocking, resetting and deleting end sessions and rows; reset links die together; accounts can be confirmed; a generated password is shown once. |
| `startup` | Databases of four earlier versions and a new installation, started, interrupted, served, configured and started again: every row gets its owner's scope once and for all, no start loses anything or puts an operation behind a cursor, and passwords and settings that were reported as saved come back. |
| `registration` | **Violation.** A registration switched off in the console is open again after the next start. |

Three properties are violated by the code, on purpose of their runs; `findings`
in `PROJECT.json` quotes what the repository says instead.

- `blob_lost`: `attachBlob` removes "its" file after `Commit` failed. By then the
  connection is free and an upload of the same content may have committed a
  reference to that file. Later uploads find their reference and do not restore
  the file.
- `limiter_mixed`: `Cleanup(2*policy.Window)` uses the window of the action being
  called on the buckets of all actions; 2 x 10 minutes is less than an hour.
- `registration`: `allow_registration` is marshalled with `omitempty`, so a false
  is not written, and a missing key means the default, which is true.

What the models also show and no property forbids, because nothing in the
repository says otherwise:

- A request admitted before its device is revoked or its user deleted is carried
  out; a push of a deleted user leaves rows that are in nobody's scope.
- An `op_id` that another vault has used is skipped in silence; the same key with
  other operations gets the first answer.
- A device that two users have on record gets an owner when one of them is
  deleted, at the next start; its old operations then appear behind the cursors
  of the other user's devices. `NoGapsAcrossUpgrade` and `RestartChangesNothing`
  leave such devices out, by name.
- A failing `PRAGMA table_info` makes a start treat a new
  `server_idempotency_keys` as an old one and drop the stored answers; that is
  why `StartLosesNothing` does not mention them.
- A database whose `server_devices` lacks `user_id` never starts: the index of
  `schema.go:133` needs the column that the migration would add later.
- A public URL from the environment or the command line wins over the file at
  each start and is written to the file by the next save; one set in the console
  is gone at the next start that has the override.
- A password set with `--init-admin` while a server runs is lost at that server's
  next save. `docs/container.ru.md` has the server stopped, and so has `Startup`.

### Bounds

All sets are small: one to three devices and users, one entity, three operation
ids, two requests at once, one or two scopes. They are enough for what the
properties talk about: conflicts, gaps and races are between two actors; three
operations in batches of one, two and three reach partly written batches,
batches over the limit `MaxPush` and pages with and without a successor (`PageLimits`
0 and 1 with `MaxPullPage` 1 and 2); contents of sizes 1, 2 and 4 with a vault
quota of 2, a user quota of 3 and a blob limit of 3 fit, fit alone but not
together, fill, and exceed. In `Accounts` three random values are enough for two
reset tokens and a password or for a session, a token and a device. In
`RateLimiter` time stops at `MaxTime`; windows of 3 and 4 ticks are the
analogue of 10 and 15 minutes, 1 and 6 the ratio of 10 minutes and an hour. In
`Startup` the sites are the union of small instances, so that the product of
old databases and ways to start does not arise: the four old databases (sole
owners; a device with two users; a version that knew the column; the oldest
table) run with no flags and no forms, two operations in them and sequences up
to `MaxRev` = 3, enough for a client on either side of an old and a new row; the
new database runs without a file and with one written by hand, through six ways
to start (nothing, a password, `--init-admin`, two bootstrap passwords with an
URL and the requirement, the latter alone) and four settings forms.
Identifiers are never drawn twice (`rand.Read`), so a run of `OpLog` or
`Accounts` ends when they are used up and those configurations do not check for
deadlock; `RateLimiter` ends with its clock. `BlobStore` and `Startup` never
stop, and are checked for deadlock.

`SYMMETRY` is used for requests, temporary names and, in `Accounts`, for
users, values and administrators, which no definition tells apart, and never
in a run with a liveness property.

### Fairness

Go runs every goroutine that can run: weak fairness for the steps of a handler
that holds the connection or needs none. A goroutine that waits for the
connection stands in the queue of `database/sql`, which is served in order: the
step is enabled again and again and taken in the end, which is strong fairness.
A statement may fail only when it has the connection; nothing is assumed of
failures, crashes or administrators in `HandlerSpec`. `Converges` needs clients
that go on pulling and are not unlucky for ever (`ClientFairness`: strong
fairness for the steps of a device's pulls), which a network that works now and
then justifies.
`CleanupRetention` runs at a start and when an administrator asks for it
(`cmd/server/main.go`, `web_admin.go`); nothing says when, so no fairness is
assumed of it and no liveness property relies on it.

## 4. The proofs

| Module | Theorems | Argument |
|---|---|---|
| `OpLogProofs` | `TypeCorrect`, `ConnectionHeld`, `SequencesAreUnique`, `LogIsAppendOnly`, `TenantsAreIsolated`, `CursorsHaveNoGaps` | see below |
| `OpLogServiceProofs` | `RevokedIsRefused`, `BatchesAreAtomic`, `AnswersAreTrue`, `NothingIsAcceptedTwice`, `ServerIsVaultLog`, `LastPageIsComplete`, `TombstonesNameLastDeletes`, `PushesDropNothing`, `ConcurrentChangesAreReported`, `PagesGetOn`, `DevicesHaveTheLog` | see below |
| `BlobStoreProofs` | `TypeCorrect`, `ConnectionHeld`, `ReferencesHaveFiles`, `OperationsCanBeRestored`, `QuotasAreKept`, `StoreIsContentStore`, `AnswersAreBacked`, `SweepsAreThorough`, `NothingIsLeftBehind` | `FileInv`: what an upload between rename and commit has placed is there (`PlacedOK`), because nobody else has the connection; `SweepInv`: a stale file that a sweep has not visited is still on its list; `MadeInv` and `HeldInv`: a file without a reference, and a temporary file, has the one upload in progress that made it; for the others see below |
| `RateLimiterProofs` | `TypeCorrect`, `LastingKeysAreRight`, `ShortWindowsAreKept`, `LimitsAreKept`, `DenialsAreJustified`, `WaitsAreRight`, `MemoryIsBounded` | `HistoryOK`: the bucket of a lasting key says the same as the history, and a lasting key without a bucket has no open window |
| `AccountsProofs` | `TypeCorrect`, `LinksDieWithReset`, `DeletionIsFinal` | `VoidInv`, `RowsInv` |
| `AccountsAccessProofs` | `AccessEndsSessions`, `PasswordsAreShownOnce`, `AccountsAreConfirmable` | `AccessInv`, `SecretInv`; `Confirmable` is inductive |
| `MigrationProofs` | `DbTypeCorrect`, `RowsHaveOneOwner`, `UpgradesLeaveNoGaps`, `RestartsChangeNothing`, `StartsLoseNothing` | `DbInv`, see below |
| `StartupProofs` | `ProcessKeepsDatabase`, `TypeCorrect`, `AdministratorsAreKept`, `SettingsAreKept` | `ConfigInv`, see below |

The theorems hold for all values of the constants that satisfy the assumptions of
the modules (limits are natural numbers, a missing value is none of the
others). Some are conditional: `ReferencesHaveFiles` and
`OperationsCanBeRestored` assume that no `Commit` fails, and the limiter's
theorems on counting assume room for all keys (`Room`). Which keys count rightly
then is `Lasting`: those whose window is no more than twice that of any action,
less the lag of the clocks (`LastingKeysAreRight`). With the shipped policies
these are pair, device-register, auth-test and login (`ShortWindowsAreKept`), but
not the four with a window of an hour. `LimitsAreKept`, `DenialsAreJustified` and
`WaitsAreRight`, which speak of all keys, assume that all are lasting
(`WindowsClose`). The runs `blob_lost` and `limiter_mixed` show that the first and
the last of these conditions are needed. `NothingIsLeftBehind` assumes no crash and no deleted
user: both leave blob files that the code never removes.

`OpLogProofs` goes in layers. `TypeInv` adds to `TypeOK` that a request at a push
step carries a push (`CallOK`). `ConnInv` adds `ConnHeld`. `LogInv` adds that the
rows anybody knows have unique sequences no higher than `lastRev` (`LogOK`), and
that the one transaction started from the current tables and numbers its rows
above all of them (`TxOK`); it needs `ConnHeld`, for otherwise two transactions
could draw one number. `ScopeInv` adds `ScopeIsolation` and the same of the
conflicts a transaction has collected. `CursorInv` adds that a page on its way is
contiguous: it leaves out nothing of its scope between `since` and its last row.
New rows come above `lastRev`, so nothing enters a page or a cursor's past
behind anyone's back, and `NoGaps` follows.

`OpLogServiceProofs` builds on it. `AccessInv` adds that a request of a device
that had lost access finds it without access: ids are not used again. `BatchInv`
says of the transaction that the ids it has added are what it has accepted, that
the log did not have them, and that with the log they cover the operations gone
through; at the commit that is `BatchAtomic`. `AnswerInv` adds that the accepted
ids of every stored answer are in its scope's log while the user exists: users
are deleted with rows and answers in one transaction. `PageInv` adds that a page
on its way was read from the log, and with `NoGaps` every step is one of
`VaultLog` or a stutter (`ServerIsVaultLog`); in it a deleted user's follower may
still get what was on its way. `LastPageInv` adds that the maximum a pull read
first was at most `lastRev` then, so that rows committed between the two
statements come above it. `PagesGetOn` is the part of `Converges` that is safety: a page
with more to come is never empty and never ends where it began, because its limit
is at least one however small the client asks; with `PullIsComplete` only the
scheduling of the pulls is left to TLC. `DevicesHaveTheLog` is proved of
`VaultLog` (`PromiseInv`, three actions) and holds of the server by the refinement.

`TombInv` says of the tables, and of what the open transaction has made of them,
that every delete has a tombstone naming it or a later delete of its entity; the
transaction needs it of its own because it becomes the tables at once. `DroppedInv`
is `NothingDropped` with `AnswerInv`: at the commit the ids of the log cover the
batch (`BatchInv`). `ReportInv` says of the open transaction what
`ConflictsReported` says of the answer it will give; after the commit no row can
come below the sequence of an accepted one, and no row can take its id, for its
row is there (`AcceptedIsStored`).

`QuotaInv` of `BlobStoreProofs` adds to `QuotaKept` that the upload which has
passed the check and not committed (`Adding`) still fits: nobody else has the
connection, so the sums it read can only have become smaller, by the deletion of
a user. The sums are written as numbers of octets (`SumSizes`), so that adding a
reference and dropping some are facts about cardinalities (`SumOfMore`,
`SumOfFewer`). `StageInv` says where the request of each kind can be, and that an upload which
only touches a reference has it; `ReaderInv`, that a download which has found its
reference finds the file, unless a `Commit` fails; with them each of the steps is a step of `ContentStore` or a stutter
(`StoreIsContentStore`). `AnswersAreBacked` is then proved of the abstract store,
where a request has five stages, and holds of the server by the refinement.

`DbInv` of `MigrationProofs` has one part for each thing a step of the migration
needs of the ones before. `LayoutInv`: what is in a table that has the new layout
is scoped, and a missing table is empty. `OwnerInv`: the two tables that name a
device's user agree, and in the new layout a device without a user is one nobody,
or more than one user, has on record. `ScopeInv`: an operation has both parts of
its scope or none, and the one of its device. `CursorInv`: while a device cannot
sync (its owner is not known yet), its client has all operations up to its
cursor, whosever they are. `NoGapsAcrossUpgrade` needs the last one: the backfill
puts operations into a scope at once, behind cursors that were already there.
That a second start changes nothing follows from `DbInv` step by step of
`Migrated`; that no start loses anything, from what each operator keeps.

`ConfigInv` of `StartupProofs` says at each place of `main` and of the form how
memory, file and what operators were told differ: not at all, or by the one
change that is being saved. `ProcessKeepsDatabase` is the composition: every
step of a process is one of `Migration` or leaves the database alone, so its
theorems, which are stated of `DbSpec`, hold of `Spec` of `Startup`.

In `AccountsProofs`, `VoidInv` adds to `ResetVoidsTokens` that voided tokens were
drawn, so a fresh one is not among them; together with the uniqueness of token
identifiers in `TypeOK` this makes a reset, which removes all reset tokens of
its account, final. `RowsInv` adds that a request which will write a row either
found its account, which exists, or is marked as raced by the deletion;
`RowsStep` describes what every step but a deletion does to rows and requests,
lemma by lemma.

In `AccountsAccessProofs`, `AccessInv` says of a login that has checked the
password what `SessionsEndWithAccess` says of the session it will write, and
`AccessStep(shut)` describes a step that shuts out the accounts in `shut` and
nobody else: none, or the one account that is blocked, reset or deleted.
`SecretInv` adds that every password that waits or was shown was drawn, so a new
one is none of them, and that two requests never carry the same one.

**Only model-checked.** Liveness (`Answered`, `Converges`) is out of the prover's
reach, and with it what fairness does. Every safety and action property of the
passing runs, and both refinements, are theorems.

## 5. Abstractions and what is not modelled

- Payloads, names, addresses, time stamps of rows, the audit log and `last_seen`
  are left out: nothing that is modelled reads them back. Hashes stand for
  contents.
- A device row without an owner is refused by `requireSyncScope`
  (`middleware.go:29-31`) and is not among the devices.
- A client states as its position 0 or its cursor, one for all operations of a
  push; the code takes one for each operation.
- A crash is the death of the process. With WAL and `synchronous = NORMAL` a
  power failure may take the last commits; SQLite is not modelled.
- A restart empties the rate limiter's map; its module is about one life of the
  process.
- Temporary names are random and never meet; an upload is over within
  `ReadTimeout` and is never old.
- Requests that a pure check turns away (sizes, passwords, CSRF, rate limits)
  change nothing and are left out where they do not hold the connection.
- Administrator logins, new names and addresses for users and the pages are not
  modelled; the password and ownership checks before a user revokes a device are
  not, the revocation is (`OpLog`).
- The SMTP settings are rows of their own that only mailing reads. The console
  writes them in one transaction, `/admin/api/smtp` key by key and mailing reads
  them key by key, so a mail sent meanwhile may use a mixture. Not modelled: the
  outcome is a mail that is not sent.
- Sessions, blobs, revisions and the audit log are tables that the migration only
  creates; `Migration` leaves them out.
- Of the configuration `Startup` has the administrators, the public URL (for the
  keys that may be empty) and the registration policy (for those whose default is
  not the zero value). `normalize` fills in limits and retention by pure rules.
- A crash between writing `.config-*` and its rename leaves that file behind;
  nothing reads it.
- Presentation (`web_render.go`, `locale.go`, templates) computes pages from what
  it reads and keeps no state: a third of the code, and nothing to check here.

## 6. Plan

1. Done: `OpLog`, `BlobStore`, `RateLimiter`, `Accounts` with their runs, the
   type theorems of all four and their safety theorems.
2. Done: `VaultLog`, checked in the run `vault` and proved (`ServerIsVaultLog`);
   `AcceptedIsStored`, `AcceptedOnce`, `BatchAtomic`, `PullIsComplete` and
   `RevokedNeverServed` proved.
3. Done: `Migration` and `Startup` with their run and their proofs; the
   properties moved into larger runs to make room for them.
4. Done: every safety and action property of the passing runs is proved.
   `ContentStore`, checked in `blob_tenants` and proved; the limiter's theorems
   action by action, so that they say something of the shipped policies.
5. Next, models: administrator sessions in `Accounts` (a generated password is
   keyed by one); the SMTP rows.
