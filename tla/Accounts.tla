------------------------------ MODULE Accounts ------------------------------
(***************************************************************************)
(* Accounts, e-mail tokens, web sessions and paired devices of             *)
(* verstak-sync-server: handlers_auth.go, handlers_web_user.go,            *)
(* password_reset.go, sessions.go and the user actions of handlers_admin.go *)
(* and web_admin.go.                                                       *)
(*                                                                         *)
(* Every statement and every transaction is one step: the server has one   *)
(* database connection.  A handler that reads in one statement and writes  *)
(* in a later one is two steps, and what it read is in call[r] meanwhile.  *)
(* A request that a check turns away changes nothing and is left out, and  *)
(* so are names, addresses and the last_seen columns.                      *)
(*                                                                         *)
(* A row written by a request that read an account before the account lost *)
(* its sessions, or was deleted, is marked in `raced': a history of the    *)
(* row that the server does not keep.                                      *)
(***************************************************************************)

CONSTANTS
    Users,      \* identifiers drawn for accounts
    Passwords,  \* passwords people choose
    Secrets,    \* values drawn at random: tokens, sessions, devices, passwords
    Admins,     \* sessions of administrators
    Reqs,       \* requests of two steps that may be in flight at once
    Events,     \* what may happen besides: "fail", "crash", "age"
    None        \* no account, no request, no password waiting

VARIABLES
    account,    \* server_users
    tokens,     \* server_email_tokens
    sessions,   \* server_sessions with scope 'user'
    devices,    \* server_devices with their server_user_devices
    secret,     \* webSecrets: the password waiting for an administrator
    call,       \* what a request between its two steps knows
    drawn,      \* random values drawn: rand.Read does not repeat one
    void,       \* history: reset tokens of accounts whose password was reset
    shown,      \* history: generated passwords shown to an administrator
    cut         \* history: accounts whose web registration was cut short

tables == <<account, tokens, sessions, devices>>
history == <<void, shown, cut>>
vars == <<tables, secret, call, drawn, history>>

Password == Passwords \cup Secrets
Races == {"no", "wiped", "gone"}

\* server_users.  `by' is who set the password, and `token' whether a
\* confirmation token was issued: histories.
Account == [pw : Password, by : {"owner", "api", "browser"},
            confirmed : BOOLEAN, blocked : BOOLEAN, token : BOOLEAN]

Token == [id : Secrets, user : Users, purpose : {"confirm", "reset"},
          old : BOOLEAN, raced : Races]

\* `pw' is the password that was checked at login: a history.
Session == [id : Secrets, user : Users, pw : Password, old : BOOLEAN,
            raced : Races]

Device == [id : Secrets, user : Users, raced : Races]

Waiting == [pw : Secrets, old : BOOLEAN]

\* `pw' is the password that was checked or generated; `key' is the token of
\* a confirmation, the new value of a block, the administrator of a reset.
CallOf(ops, pws, keys) ==
    [op : ops, user : Users, pw : pws, key : keys, raced : Races]

Call ==
    CallOf({"register", "forgot"}, {None}, {None})
        \cup CallOf({"confirm"}, {None}, Secrets)
        \cup CallOf({"login", "pair"}, Password, {None})
        \cup CallOf({"block"}, {None}, BOOLEAN)
        \cup CallOf({"reset"}, Secrets, Admins)

ASSUME NoneIsNew == None \notin Account \cup Call \cup Waiting

NewAccount(p, confirmed) ==
    [pw |-> p, by |-> "owner", confirmed |-> confirmed, blocked |-> FALSE,
     token |-> FALSE]

EmailToken(x, u, purpose, raced) ==
    [id |-> x, user |-> u, purpose |-> purpose, old |-> FALSE, raced |-> raced]

Request(op, u, p, key) ==
    [op |-> op, user |-> u, pw |-> p, key |-> key, raced |-> "no"]

Exists(u) == account[u] # None

Fresh(x) == x \notin drawn

InFlight(r, op) == call[r] # None /\ call[r].op = op

Done(r) == [call EXCEPT ![r] = None]

\* The requests in flight that read account u, whose sessions are wiped or
\* which is gone now.
Raced(u, how) ==
    [r \in Reqs |->
        IF call[r] # None /\ call[r].user = u /\ call[r].raced # "gone"
        THEN [call[r] EXCEPT !.raced = how]
        ELSE call[r]]

Init ==
    /\ account = [u \in Users |-> None]
    /\ tokens = {} /\ sessions = {} /\ devices = {}
    /\ secret = [a \in Admins |-> None]
    /\ call = [r \in Reqs |-> None]
    /\ drawn = {}
    /\ void = {} /\ shown = {} /\ cut = {}

-----------------------------------------------------------------------------
(* Registration and confirmation.                                          *)

\* A faulty ApiRegister: the token is issued after the transaction, and fails.
ApiRegisterWithoutToken(u, p, x) ==
    /\ Fresh(u) /\ Fresh(x)
    /\ account' = [account EXCEPT ![u] = NewAccount(p, FALSE)]
    /\ drawn' = drawn \cup {u, x}
    /\ UNCHANGED <<tokens, sessions, devices, secret, call, history>>

\* handleRegister: the account and its token in one transaction.
ApiRegister(u, p, x) ==
    /\ Fresh(u) /\ Fresh(x)
    /\ account' = [account EXCEPT
                      ![u] = [NewAccount(p, FALSE) EXCEPT !.token = TRUE]]
    /\ tokens' = tokens \cup {EmailToken(x, u, "confirm", "no")}
    /\ drawn' = drawn \cup {u, x}
    /\ UNCHANGED <<sessions, devices, secret, call, history>>

\* handleUserWebRegister: the account, then the token, each on its own.
WebRegister(r, u, p) ==
    /\ call[r] = None /\ Fresh(u)
    /\ account' = [account EXCEPT ![u] = NewAccount(p, FALSE)]
    /\ call' = [call EXCEPT ![r] = Request("register", u, None, None)]
    /\ drawn' = drawn \cup {u}
    /\ UNCHANGED <<tokens, sessions, devices, secret, history>>

\* The second step of a web registration and of a password request: the
\* token of an account that may be gone by now.
IssueToken(r, x) ==
    /\ InFlight(r, "register") \/ InFlight(r, "forgot")
    /\ Fresh(x)
    /\ LET u == call[r].user
           confirm == call[r].op = "register"
       IN /\ tokens' = tokens \cup
                 {EmailToken(x, u, IF confirm THEN "confirm" ELSE "reset",
                             call[r].raced)}
          /\ account' = IF confirm /\ Exists(u)
                        THEN [account EXCEPT ![u].token = TRUE]
                        ELSE account
    /\ call' = Done(r)
    /\ drawn' = drawn \cup {x}
    /\ UNCHANGED <<sessions, devices, secret, history>>

\* handleConfirm reads the token before its transaction.
ConfirmRead(r, t) ==
    /\ call[r] = None
    /\ t.purpose = "confirm" /\ ~t.old
    /\ call' = [call EXCEPT ![r] = Request("confirm", t.user, None, t.id)]
    /\ UNCHANGED <<tables, secret, drawn, history>>

ConfirmCommit(r) ==
    /\ InFlight(r, "confirm")
    /\ account' = IF Exists(call[r].user)
                  THEN [account EXCEPT ![call[r].user].confirmed = TRUE]
                  ELSE account
    /\ tokens' = {t \in tokens : t.id # call[r].key}
    /\ call' = Done(r)
    /\ UNCHANGED <<sessions, devices, secret, drawn, history>>

\* The administrator creates a confirmed account, or confirms one.
CreateUser(u, p) ==
    /\ Fresh(u)
    /\ account' = [account EXCEPT ![u] = NewAccount(p, TRUE)]
    /\ drawn' = drawn \cup {u}
    /\ UNCHANGED <<tokens, sessions, devices, secret, call, history>>

ConfirmUser(u) ==
    /\ Exists(u)
    /\ account' = [account EXCEPT ![u].confirmed = TRUE]
    /\ UNCHANGED <<tokens, sessions, devices, secret, call, drawn, history>>

-----------------------------------------------------------------------------
(* Logging in and pairing: the password is checked against what one        *)
(* statement read, and a later one writes the session or the device.       *)

Admitted(u) == Exists(u) /\ account[u].confirmed /\ ~account[u].blocked

CheckPassword(r, u, op) ==
    /\ call[r] = None
    /\ Admitted(u)
    /\ call' = [call EXCEPT ![r] = Request(op, u, account[u].pw, None)]
    /\ UNCHANGED <<tables, secret, drawn, history>>

CreateSession(r, x) ==
    /\ InFlight(r, "login") /\ Fresh(x)
    /\ sessions' = sessions \cup
           {[id |-> x, user |-> call[r].user, pw |-> call[r].pw, old |-> FALSE,
             raced |-> call[r].raced]}
    /\ call' = Done(r)
    /\ drawn' = drawn \cup {x}
    /\ UNCHANGED <<account, tokens, devices, secret, history>>

PairDevice(r, x) ==
    /\ InFlight(r, "pair") /\ Fresh(x)
    /\ devices' = devices \cup
           {[id |-> x, user |-> call[r].user, raced |-> call[r].raced]}
    /\ call' = Done(r)
    /\ drawn' = drawn \cup {x}
    /\ UNCHANGED <<account, tokens, sessions, secret, history>>

\* Logging out, and the row that loadSession finds expired.
DropSession(s) ==
    /\ sessions' = sessions \ {s}
    /\ UNCHANGED <<account, tokens, devices, secret, call, drawn, history>>

\* delete-device of the console, for a revoked device, and DELETE
\* /admin/api/keys/<id>, for any.  OpLog has the revocation.
DropDevice(d) ==
    /\ devices' = devices \ {d}
    /\ UNCHANGED <<account, tokens, sessions, secret, call, drawn, history>>

-----------------------------------------------------------------------------
(* A forgotten password.                                                   *)

ForgotRead(r, u) ==
    /\ call[r] = None
    /\ Exists(u)
    /\ call' = [call EXCEPT ![r] = Request("forgot", u, None, None)]
    /\ UNCHANGED <<tables, secret, drawn, history>>

ResetTokensOf(u) == {t \in tokens : t.user = u /\ t.purpose = "reset"}

\* A faulty Voided: only the token that was used.
VoidedAlone(t) == {t}

Voided(t) == ResetTokensOf(t.user)

\* resetPasswordWithToken, one transaction.  The sessions stay.
ResetPassword(t, p) ==
    /\ t.purpose = "reset" /\ ~t.old
    /\ Exists(t.user)
    /\ account' = [account EXCEPT ![t.user].pw = p, ![t.user].by = "owner"]
    /\ tokens' = tokens \ Voided(t)
    /\ void' = void \cup {x.id : x \in ResetTokensOf(t.user)}
    /\ UNCHANGED <<sessions, devices, secret, call, drawn, shown, cut>>

-----------------------------------------------------------------------------
(* The administrator.                                                      *)

\* A faulty Wiped: the sessions live on.
WipedNone(u) == {}

Wiped(u) == {s \in sessions : s.user = u}

\* Both ways to block: the flag, and the sessions when it is set.
SetBlocked(u, blocked) ==
    /\ account' = IF Exists(u) THEN [account EXCEPT ![u].blocked = blocked]
                               ELSE account
    /\ sessions' = IF blocked THEN sessions \ Wiped(u) ELSE sessions
    /\ UNCHANGED <<tokens, devices, secret, drawn, history>>

\* toggle-user of handleAdminWebAction reads the flag in the transaction.
ToggleUser(u) ==
    /\ Exists(u)
    /\ SetBlocked(u, ~account[u].blocked)
    /\ call' = IF account[u].blocked THEN call ELSE Raced(u, "wiped")

\* POST /admin/api/users/<id>/block reads it before.
BlockRead(r, u) ==
    /\ call[r] = None
    /\ Exists(u)
    /\ call' = [call EXCEPT
                   ![r] = Request("block", u, None, ~account[u].blocked)]
    /\ UNCHANGED <<tables, secret, drawn, history>>

BlockCommit(r) ==
    /\ InFlight(r, "block")
    /\ SetBlocked(call[r].user, call[r].key)
    /\ call' = [(IF call[r].key THEN Raced(call[r].user, "wiped") ELSE call)
                    EXCEPT ![r] = None]

\* POST /admin/api/users/<id>/reset-password: the sessions stay.
ApiReset(u, x) ==
    /\ Exists(u) /\ Fresh(x)
    /\ account' = [account EXCEPT ![u].pw = x, ![u].by = "api"]
    /\ drawn' = drawn \cup {x}
    /\ UNCHANGED <<tokens, sessions, devices, secret, call, history>>

\* reset-user-password: the transaction, which does not mind when the account
\* is gone.
BrowserReset(r, a, u, x) ==
    /\ call[r] = None
    /\ ~Fresh(u) /\ Fresh(x)
    /\ account' = IF Exists(u)
                  THEN [account EXCEPT ![u].pw = x, ![u].by = "browser"]
                  ELSE account
    /\ sessions' = sessions \ Wiped(u)
    /\ call' = [Raced(u, "wiped") EXCEPT ![r] = Request("reset", u, x, a)]
    /\ drawn' = drawn \cup {x}
    /\ UNCHANGED <<tokens, devices, secret, history>>

\* storeAdminOneTimeSecret: after the transaction, under secretMu.  Passwords
\* that waited too long are swept out.
StoreSecret(r) ==
    /\ InFlight(r, "reset")
    /\ secret' = [a \in Admins |->
                     IF a = call[r].key
                     THEN [pw |-> call[r].pw, old |-> FALSE]
                     ELSE IF secret[a] # None /\ secret[a].old THEN None
                     ELSE secret[a]]
    /\ call' = Done(r)
    /\ UNCHANGED <<tables, drawn, history>>

\* A faulty Taken: the password stays in the map.
TakenKept(a) == secret

Taken(a) == [secret EXCEPT ![a] = None]

\* takeAdminOneTimeSecret.
TakeSecret(a) ==
    /\ secret[a] # None
    /\ secret' = Taken(a)
    /\ shown' = IF secret[a].old THEN shown ELSE shown \cup {secret[a].pw}
    /\ UNCHANGED <<tables, call, drawn, void, cut>>

\* A faulty RowsKept: the e-mail tokens are forgotten.
RowsKeptButTokens(table, u) ==
    IF table = tokens THEN tokens ELSE {row \in table : row.user # u}

RowsKept(table, u) == {row \in table : row.user # u}

\* Both ways to delete a user, in one transaction.
DeleteUser(u) ==
    /\ ~Fresh(u)
    /\ account' = [account EXCEPT ![u] = None]
    /\ tokens' = RowsKept(tokens, u)
    /\ sessions' = RowsKept(sessions, u)
    /\ devices' = RowsKept(devices, u)
    /\ call' = Raced(u, "gone")
    /\ UNCHANGED <<secret, drawn, history>>

-----------------------------------------------------------------------------
(* Time, failures and restarts.                                            *)

\* A faulty Older: the old row stays.
OlderCopied(table, row) == table \cup {[row EXCEPT !.old = TRUE]}

Older(table, row) == (table \ {row}) \cup {[row EXCEPT !.old = TRUE]}

Age ==
    /\ "age" \in Events
    /\ \/ /\ \E t \in tokens : ~t.old /\ tokens' = Older(tokens, t)
          /\ UNCHANGED <<sessions, secret>>
       \/ /\ \E s \in sessions : ~s.old /\ sessions' = Older(sessions, s)
          /\ UNCHANGED <<tokens, secret>>
       \/ /\ \E a \in Admins :
                /\ secret[a] # None /\ ~secret[a].old
                /\ secret' = [secret EXCEPT ![a].old = TRUE]
          /\ UNCHANGED <<tokens, sessions>>
    /\ UNCHANGED <<account, devices, call, drawn, history>>

\* CleanupRetention for the administrator, one table in each statement.
Cleanup ==
    /\ \/ tokens' = {t \in tokens : ~t.old} /\ UNCHANGED sessions
       \/ sessions' = {s \in sessions : ~s.old} /\ UNCHANGED tokens
    /\ UNCHANGED <<account, devices, secret, call, drawn, history>>

Registering == {r \in Reqs : InFlight(r, "register")}

\* The second step of a request fails: nothing is written, and the first step
\* stays.  Only the step that stores a password cannot fail.
Fail(r) ==
    /\ "fail" \in Events
    /\ call[r] # None /\ ~InFlight(r, "reset")
    /\ call' = Done(r)
    /\ cut' = cut \cup {call[q].user : q \in Registering \cap {r}}
    /\ UNCHANGED <<tables, secret, drawn, void, shown>>

\* The process dies and starts again: the requests and the map are gone, and
\* CleanupRetention runs before anybody is served.
Crash ==
    /\ "crash" \in Events
    /\ tokens' = {t \in tokens : ~t.old}
    /\ sessions' = {s \in sessions : ~s.old}
    /\ call' = [r \in Reqs |-> None]
    /\ secret' = [a \in Admins |-> None]
    /\ cut' = cut \cup {call[r].user : r \in Registering}
    /\ UNCHANGED <<account, devices, drawn, void, shown>>

-----------------------------------------------------------------------------
Registration ==
    \/ \E u \in Users, p \in Passwords, x \in Secrets : ApiRegister(u, p, x)
    \/ \E r \in Reqs, u \in Users, p \in Passwords : WebRegister(r, u, p)
    \/ \E r \in Reqs, x \in Secrets : IssueToken(r, x)
    \/ \E r \in Reqs : (\E t \in tokens : ConfirmRead(r, t)) \/ ConfirmCommit(r)

Access ==
    \/ \E r \in Reqs, u \in Users, op \in {"login", "pair"} :
          CheckPassword(r, u, op)
    \/ \E r \in Reqs, x \in Secrets : CreateSession(r, x) \/ PairDevice(r, x)
    \/ \E s \in sessions : DropSession(s)
    \/ \E d \in devices : DropDevice(d)
    \/ \E r \in Reqs, u \in Users : ForgotRead(r, u)
    \/ \E t \in tokens, p \in Passwords : ResetPassword(t, p)

Administration ==
    \/ \E u \in Users, p \in Passwords : CreateUser(u, p)
    \/ \E u \in Users : ConfirmUser(u) \/ ToggleUser(u) \/ DeleteUser(u)
    \/ \E r \in Reqs : (\E u \in Users : BlockRead(r, u)) \/ BlockCommit(r)
    \/ \E u \in Users, x \in Secrets : ApiReset(u, x)
    \/ \E r \in Reqs, a \in Admins, u \in Users, x \in Secrets :
          BrowserReset(r, a, u, x)
    \/ \E r \in Reqs : StoreSecret(r)
    \/ \E a \in Admins : TakeSecret(a)

Next ==
    \/ Registration \/ Access \/ Administration
    \/ Age \/ Cleanup \/ Crash
    \/ \E r \in Reqs : Fail(r)

Spec == Init /\ [][Next]_vars

-----------------------------------------------------------------------------
(* Properties.                                                             *)

TypeOK ==
    /\ account \in [Users -> Account \cup {None}]
    /\ tokens \subseteq Token
    /\ sessions \subseteq Session
    /\ devices \subseteq Device
    /\ secret \in [Admins -> Waiting \cup {None}]
    /\ call \in [Reqs -> Call \cup {None}]
    /\ drawn \subseteq Users \cup Secrets
    /\ void \subseteq Secrets /\ shown \subseteq Secrets /\ cut \subseteq Users
    \* Identifiers in the tables were drawn, each for one row.
    /\ \A u \in Users : Exists(u) => u \in drawn
    /\ \A t \in tokens : t.id \in drawn
    /\ \A s, t \in tokens : s.id = t.id => s = t

\* Blocking or deleting a user, or resetting the password in the console, ends
\* the sessions of the user: what is left of them was opened by logins that
\* checked the password before and were still on their way.
SessionsEndWithAccess ==
    \A s \in sessions :
        \/ s.raced # "no"
        \/ /\ Exists(s.user) /\ ~account[s.user].blocked
           /\ account[s.user].by = "browser" => s.pw = account[s.user].pw

\* After a user is deleted no row of the user is left, but for what requests
\* in flight at that moment wrote: tokens, sessions and devices.
RowsEndWithUser ==
    \A row \in tokens \cup sessions \cup devices :
        row.raced = "gone" \/ Exists(row.user)

\* Once a password is reset no link mailed for the account before that works
\* again, neither the one that was used nor any other.
ResetVoidsTokens == \A t \in tokens : t.id \notin void

\* An account that waits for its confirmation was given a token, unless its
\* web registration was cut short between the two statements.
Confirmable ==
    \A u \in Users :
        Exists(u) /\ ~account[u].confirmed =>
            \/ account[u].token
            \/ \E r \in Reqs : InFlight(r, "register") /\ call[r].user = u
            \/ u \in cut

\* A generated password is shown to one administrator, the one who asked for
\* it, and once: while it waits nobody has seen it and nobody else gets it.
PasswordShownOnce ==
    /\ \A a \in Admins : secret[a] # None => secret[a].pw \notin shown
    /\ \A a, b \in Admins :
          secret[a] # None /\ secret[b] # None /\ secret[a].pw = secret[b].pw
              => a = b
    /\ \A r \in Reqs :
          InFlight(r, "reset") =>
              /\ call[r].pw \notin shown
              /\ \A a \in Admins : secret[a] # None => secret[a].pw # call[r].pw
=============================================================================
