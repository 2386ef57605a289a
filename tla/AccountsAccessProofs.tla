------------------------ MODULE AccountsAccessProofs ------------------------
(***************************************************************************)
(* More of Accounts, for any number of users, requests, administrators and *)
(* random values: who keeps a session, who can be confirmed, and who sees  *)
(* a generated password.                                                   *)
(***************************************************************************)
EXTENDS AccountsProofs

-----------------------------------------------------------------------------
(* Sessions end with access.                                               *)

\* In the accounts table `accounts' a login of u that checked p is good.
Opens(accounts, u, p) ==
    /\ accounts[u] # None
    /\ ~accounts[u].blocked
    /\ accounts[u].by = "browser" => p = accounts[u].pw

\* The property, and the same of logins that have not written their session.
AccessInv ==
    /\ SessionsEndWithAccess
    /\ \A r \in Reqs :
          call[r] # None /\ call[r].op = "login" =>
              call[r].raced # "no" \/ Opens(account, call[r].user, call[r].pw)

\* A step that shuts the accounts `shut' out and no other.
AccountsOpen(shut) ==
    \A u \in Users \ shut, p \in Password :
        Opens(account, u, p) => Opens(account', u, p)

SessionsKept(shut) ==
    \A s \in sessions' :
        /\ s.user \notin shut
        /\ \/ \E old \in sessions :
                 old.user = s.user /\ old.pw = s.pw /\ old.raced = s.raced
           \/ \E r \in Reqs :
                 /\ call[r] # None /\ call[r].op = "login"
                 /\ s.user = call[r].user /\ s.pw = call[r].pw
                 /\ s.raced = call[r].raced

LoginsKept(shut) ==
    \A r \in Reqs :
        call'[r] # None /\ call'[r].op = "login" =>
            \/ call'[r].raced # "no"
            \/ Opens(account', call'[r].user, call'[r].pw)
            \/ call'[r] = call[r] /\ call[r].user \notin shut

AccessStep(shut) ==
    AccountsOpen(shut) /\ SessionsKept(shut) /\ LoginsKept(shut)

\* Such a step keeps the invariant.
LEMMA AccessStepKeeps ==
    ASSUME TypeOK, AccessInv, NEW shut \in SUBSET Users, AccessStep(shut)
    PROVE  AccessInv'
  <1>1. ASSUME NEW r \in Reqs, call[r] # None, call[r].op = "login"
        PROVE  /\ call[r].user \in Users /\ call[r].pw \in Password
               /\ call[r].raced # "no"
                     \/ Opens(account, call[r].user, call[r].pw)
    BY <1>1, CallFields DEF AccessInv
  <1>2. ASSUME NEW s \in sessions
        PROVE  /\ s.user \in Users /\ s.pw \in Password
               /\ s.raced # "no" \/ Opens(account, s.user, s.pw)
    BY DEF TypeOK, Session, AccessInv, SessionsEndWithAccess, Opens, Exists
  <1>3. ASSUME NEW s \in sessions'
        PROVE  s.raced # "no" \/ Opens(account', s.user, s.pw)
    BY <1>1, <1>2 DEF AccessStep, SessionsKept, AccountsOpen
  <1>4. SessionsEndWithAccess'
    BY <1>3 DEF SessionsEndWithAccess, Opens, Exists
  <1>5. ASSUME NEW r \in Reqs, call'[r] # None, call'[r].op = "login"
        PROVE  call'[r].raced # "no"
                   \/ Opens(account', call'[r].user, call'[r].pw)
    BY <1>1, <1>5 DEF AccessStep, LoginsKept, AccountsOpen
  <1>6. (\A r \in Reqs :
            call[r] # None /\ call[r].op = "login" =>
                call[r].raced # "no"
                    \/ Opens(account, call[r].user, call[r].pw))'
    BY <1>5 DEF Opens
  <1> QED
    BY <1>4, <1>6 DEF AccessInv

\* A row that is written, of an account that is new or no more restricted
\* than before.
LEMMA OpenRow ==
    ASSUME TypeOK, NEW u \in Users, NEW a \in Account,
           account' = [account EXCEPT ![u] = a],
           \A p \in Password : Opens(account, u, p) =>
               ~a.blocked /\ (a.by = "browser" => p = a.pw)
    PROVE  AccountsOpen({})
  <1> SUFFICES ASSUME NEW w \in Users, NEW p \in Password, Opens(account, w, p)
               PROVE  Opens(account', w, p)
    BY DEF AccountsOpen
  <1>1. account' \in [Users -> Account \cup {None}] /\ account'[u] = a
    BY DEF TypeOK
  <1>2. a # None
    BY NoneIsNew
  <1>3. CASE w = u
    BY <1>1, <1>2, <1>3 DEF Opens
  <1>4. CASE w # u
    <2>1. account'[w] = account[w]
      BY <1>4 DEF TypeOK
    <2> QED
      BY <2>1 DEF Opens
  <1> QED
    BY <1>3, <1>4

\* Steps that leave the sessions and the logins in flight as they are.
LEMMA OtherCalls ==
    ASSUME TypeOK, sessions' \subseteq sessions,
           \A q \in Reqs : \/ call'[q] = None
                           \/ call'[q] = call[q]
                           \/ call'[q].op # "login"
    PROVE  SessionsKept({}) /\ LoginsKept({})
  BY DEF SessionsKept, LoginsKept

LEMMA RequestOp ==
    ASSUME NEW op, NEW u, NEW p, NEW key
    PROVE  /\ Request(op, u, p, key).op = op
           /\ Request(op, u, p, key).user = u
           /\ Request(op, u, p, key).pw = p
           /\ Request(op, u, p, key).key = key
  BY DEF Request

LEMMA RegistrationAccess ==
    ASSUME TypeOK, Registration
    PROVE  AccessStep({})
  <1> USE DEF AccessStep, history, tables
  <1>1. ASSUME NEW u \in Users, NEW p \in Passwords, NEW x \in Secrets,
               ApiRegister(u, p, x)
        PROVE  AccessStep({})
    <2> DEFINE a == [NewAccount(p, FALSE) EXCEPT !.token = TRUE]
    <2>1. a \in Account /\ ~a.blocked /\ a.by = "owner"
      BY NewAccountType DEF NewAccount, Password
    <2>2. account' = [account EXCEPT ![u] = a]
      BY <1>1 DEF ApiRegister
    <2> HIDE DEF a
    <2>3. AccountsOpen({})
      BY <2>1, <2>2, OpenRow
    <2> QED
      BY <1>1, <2>3, OtherCalls DEF ApiRegister
  <1>2. ASSUME NEW r \in Reqs, NEW u \in Users, NEW p \in Passwords,
               WebRegister(r, u, p)
        PROVE  AccessStep({})
    <2> DEFINE a == NewAccount(p, FALSE)
    <2>1. a \in Account /\ ~a.blocked /\ a.by = "owner"
      BY NewAccountType DEF NewAccount, Password
    <2>2. account' = [account EXCEPT ![u] = a]
      BY <1>2 DEF WebRegister
    <2> HIDE DEF a
    <2>3. AccountsOpen({})
      BY <2>1, <2>2, OpenRow
    <2>4. \A q \in Reqs : call'[q] = call[q] \/ call'[q].op # "login"
      BY <1>2, RequestOp DEF WebRegister, TypeOK
    <2> QED
      BY <1>2, <2>3, <2>4, OtherCalls DEF WebRegister
  <1>3. ASSUME NEW r \in Reqs, NEW x \in Secrets, IssueToken(r, x)
        PROVE  AccessStep({})
    <2> DEFINE u == call[r].user
               a == [account[u] EXCEPT !.token = TRUE]
    <2>1. u \in Users
      BY <1>3, CallFields DEF IssueToken, InFlight
    <2>2. CASE account' = account
      BY <1>3, <2>2, OtherCalls DEF IssueToken, Done, TypeOK, AccountsOpen
    <2>3. CASE Exists(u) /\ account' = [account EXCEPT ![u] = a]
      <3>0. account[u] \in Account
        BY <2>1, <2>3, AccountTypes
      <3>1. /\ a \in Account /\ a.pw = account[u].pw
            /\ a.by = account[u].by /\ a.blocked = account[u].blocked
        BY <3>0 DEF Account
      <3> HIDE DEF a
      <3>2. AccountsOpen({})
        BY <2>1, <2>3, <3>1, OpenRow DEF Opens
      <3> QED
        BY <1>3, <3>2, OtherCalls DEF IssueToken, Done, TypeOK
    <2> QED
      BY <1>3, <2>2, <2>3 DEF IssueToken
  <1>4. ASSUME NEW r \in Reqs, NEW t \in tokens, ConfirmRead(r, t)
        PROVE  AccessStep({})
    <2>1. \A q \in Reqs : call'[q] = call[q] \/ call'[q].op # "login"
      BY <1>4, RequestOp DEF ConfirmRead, TypeOK
    <2> QED
      BY <1>4, <2>1, OtherCalls DEF ConfirmRead, AccountsOpen
  <1>5. ASSUME NEW r \in Reqs, ConfirmCommit(r)
        PROVE  AccessStep({})
    <2> DEFINE u == call[r].user
               a == [account[u] EXCEPT !.confirmed = TRUE]
    <2>1. u \in Users
      BY <1>5, CallFields DEF ConfirmCommit, InFlight
    <2>2. CASE account' = account
      BY <1>5, <2>2, OtherCalls DEF ConfirmCommit, Done, TypeOK, AccountsOpen
    <2>3. CASE Exists(u) /\ account' = [account EXCEPT ![u] = a]
      <3>0. account[u] \in Account
        BY <2>1, <2>3, AccountTypes
      <3>1. /\ a \in Account /\ a.pw = account[u].pw
            /\ a.by = account[u].by /\ a.blocked = account[u].blocked
        BY <3>0 DEF Account
      <3> HIDE DEF a
      <3>2. AccountsOpen({})
        BY <2>1, <2>3, <3>1, OpenRow DEF Opens
      <3> QED
        BY <1>5, <3>2, OtherCalls DEF ConfirmCommit, Done, TypeOK
    <2> QED
      BY <1>5, <2>2, <2>3 DEF ConfirmCommit
  <1> QED
    BY <1>1, <1>2, <1>3, <1>4, <1>5 DEF Registration

LEMMA AccessAccess ==
    ASSUME TypeOK, Access
    PROVE  AccessStep({})
  <1> USE DEF AccessStep, history, tables
  <1>1. ASSUME NEW r \in Reqs, NEW u \in Users, NEW op \in {"login", "pair"},
               CheckPassword(r, u, op)
        PROVE  AccessStep({})
    <2>1. Opens(account', u, account[u].pw)
      BY <1>1 DEF CheckPassword, Admitted, Exists, Opens
    <2>2. \A q \in Reqs :
              \/ call'[q] = call[q]
              \/ call'[q].user = u /\ call'[q].pw = account[u].pw
      BY <1>1, RequestOp DEF CheckPassword, TypeOK
    <2>3. LoginsKept({})
      BY <2>1, <2>2 DEF LoginsKept
    <2> QED
      BY <1>1, <2>3 DEF CheckPassword, AccountsOpen, SessionsKept
  <1>2. ASSUME NEW r \in Reqs, NEW x \in Secrets, CreateSession(r, x)
        PROVE  AccessStep({})
    <2> DEFINE new == [id |-> x, user |-> call[r].user, pw |-> call[r].pw,
                       old |-> FALSE, raced |-> call[r].raced]
    <2>1. /\ new.user = call[r].user /\ new.pw = call[r].pw
          /\ new.raced = call[r].raced
      OBVIOUS
    <2>2. /\ sessions' = sessions \cup {new}
          /\ call[r] # None /\ call[r].op = "login"
      BY <1>2 DEF CreateSession, InFlight
    <2> HIDE DEF new
    <2>3. SessionsKept({})
      BY <2>1, <2>2 DEF SessionsKept
    <2>4. LoginsKept({}) /\ AccountsOpen({})
      BY <1>2 DEF CreateSession, LoginsKept, AccountsOpen, Done, TypeOK
    <2> QED
      BY <2>3, <2>4
  <1>3. ASSUME NEW r \in Reqs, NEW x \in Secrets, PairDevice(r, x)
        PROVE  AccessStep({})
    BY <1>3, OtherCalls DEF PairDevice, Done, TypeOK, AccountsOpen
  <1>4. ASSUME NEW s \in sessions, DropSession(s)
        PROVE  AccessStep({})
    BY <1>4, OtherCalls DEF DropSession, AccountsOpen
  <1>5. ASSUME NEW r \in Reqs, NEW u \in Users, ForgotRead(r, u)
        PROVE  AccessStep({})
    <2>1. \A q \in Reqs : call'[q] = call[q] \/ call'[q].op # "login"
      BY <1>5, RequestOp DEF ForgotRead, TypeOK
    <2> QED
      BY <1>5, <2>1, OtherCalls DEF ForgotRead, AccountsOpen
  <1>6. ASSUME NEW t \in tokens, NEW p \in Passwords, ResetPassword(t, p)
        PROVE  AccessStep({})
    <2> DEFINE u == t.user
               a == [account[u] EXCEPT !.pw = p, !.by = "owner"]
    <2>1. u \in Users
      BY DEF TypeOK, Token
    <2>0. account[u] \in Account
      BY <1>6, <2>1, AccountTypes DEF ResetPassword
    <2>2. /\ a \in Account /\ a.by = "owner"
          /\ a.blocked = account[u].blocked
      BY <2>0 DEF Password, Account
    <2>3. account' = [account EXCEPT ![u] = a]
      BY <1>6, <2>1 DEF ResetPassword, TypeOK
    <2> HIDE DEF a, u
    <2>4. AccountsOpen({})
      BY <2>1, <2>2, <2>3, OpenRow DEF Opens
    <2> QED
      BY <1>6, <2>4, OtherCalls DEF ResetPassword
  <1>7. ASSUME NEW d \in devices, DropDevice(d)
        PROVE  AccessStep({})
    BY <1>7, OtherCalls DEF DropDevice, AccountsOpen
  <1> QED
    BY <1>1, <1>2, <1>3, <1>4, <1>5, <1>6, <1>7 DEF Access

\* A login of an account that is shut out is marked, or was before.
LEMMA RacedLogins ==
    ASSUME TypeOK, NEW u \in Users, NEW how \in {"wiped", "gone"},
           NEW q \in Reqs, Raced(u, how)[q] # None
    PROVE  \/ Raced(u, how)[q].raced # "no"
           \/ Raced(u, how)[q] = call[q] /\ call[q].user # u
  <1>1. CASE call[q] # None /\ call[q].user = u /\ call[q].raced # "gone"
    BY <1>1, RacedCalls DEF Races
  <1>2. CASE ~(call[q] # None /\ call[q].user = u /\ call[q].raced # "gone")
    <2>1. Raced(u, how)[q] = call[q]
      BY <1>2 DEF Raced
    <2> QED
      BY <1>2, <2>1
  <1> QED
    BY <1>1, <1>2

\* A step that shuts one account out: the sessions go, the logins are marked.
LEMMA ShutOut ==
    ASSUME TypeOK, NEW u \in Users, NEW how \in {"wiped", "gone"},
           sessions' = sessions \ Wiped(u),
           \A w \in Users \ {u} : account'[w] = account[w],
           \A q \in Reqs : \/ call'[q] = None
                           \/ call'[q] = Raced(u, how)[q]
                           \/ call'[q].op # "login"
    PROVE  AccessStep({u})
  <1>1. AccountsOpen({u})
    BY DEF AccountsOpen, Opens
  <1>2. SessionsKept({u})
    BY DEF SessionsKept, Wiped
  <1>3. LoginsKept({u})
    BY RacedLogins DEF LoginsKept
  <1> QED
    BY <1>1, <1>2, <1>3 DEF AccessStep

\* Taking the block off an account, or changing nothing.
LEMMA Unblocking ==
    ASSUME TypeOK, NEW u \in Users, SetBlocked(u, FALSE)
    PROVE  AccountsOpen({}) /\ sessions' = sessions
  <1>1. CASE Exists(u)
    <2> DEFINE a == [account[u] EXCEPT !.blocked = FALSE]
    <2>1. account[u] \in Account
      BY <1>1, AccountTypes
    <2>2. /\ a \in Account /\ ~a.blocked
          /\ a.by = account[u].by /\ a.pw = account[u].pw
      BY <2>1 DEF Account
    <2>3. account' = [account EXCEPT ![u] = a]
      BY <1>1 DEF SetBlocked
    <2> HIDE DEF a
    <2>4. AccountsOpen({})
      BY <2>2, <2>3, OpenRow DEF Opens
    <2> QED
      BY <2>4 DEF SetBlocked
  <1>2. CASE ~Exists(u)
    BY <1>2 DEF SetBlocked, AccountsOpen
  <1> QED
    BY <1>1, <1>2

LEMMA AdministrationAccess ==
    ASSUME TypeOK, Administration
    PROVE  \E shut \in SUBSET Users : AccessStep(shut)
  <1> USE DEF history, tables
  <1> SUFFICES AccessStep({}) \/ \E u \in Users : AccessStep({u})
    OBVIOUS
  <1>1. ASSUME NEW u \in Users, NEW p \in Passwords, CreateUser(u, p)
        PROVE  AccessStep({})
    <2> DEFINE a == NewAccount(p, TRUE)
    <2>1. a \in Account /\ ~a.blocked /\ a.by = "owner"
      BY NewAccountType DEF NewAccount, Password
    <2>2. account' = [account EXCEPT ![u] = a]
      BY <1>1 DEF CreateUser
    <2> HIDE DEF a
    <2>3. AccountsOpen({})
      BY <2>1, <2>2, OpenRow
    <2> QED
      BY <1>1, <2>3, OtherCalls DEF CreateUser, AccessStep
  <1>2. ASSUME NEW u \in Users, ConfirmUser(u)
        PROVE  AccessStep({})
    <2> DEFINE a == [account[u] EXCEPT !.confirmed = TRUE]
    <2>1. account[u] \in Account
      BY <1>2, AccountTypes DEF ConfirmUser
    <2>2. /\ a \in Account /\ a.pw = account[u].pw
          /\ a.by = account[u].by /\ a.blocked = account[u].blocked
      BY <2>1 DEF Account
    <2>3. account' = [account EXCEPT ![u] = a]
      BY <1>2 DEF ConfirmUser
    <2> HIDE DEF a
    <2>4. AccountsOpen({})
      BY <2>2, <2>3, OpenRow DEF Opens
    <2> QED
      BY <1>2, <2>4, OtherCalls DEF ConfirmUser, AccessStep
  <1>3. ASSUME NEW u \in Users, ToggleUser(u)
        PROVE  AccessStep({}) \/ AccessStep({u})
    <2>1. account[u].blocked \in BOOLEAN
      BY <1>3, AccountTypes, AccountColumns DEF ToggleUser
    <2>2. CASE account[u].blocked = FALSE
      <3>1. SetBlocked(u, TRUE) /\ call' = Raced(u, "wiped")
        BY <1>3, <2>2 DEF ToggleUser
      <3>2. AccessStep({u})
        BY <3>1, ShutOut DEF SetBlocked, TypeOK
      <3> QED
        BY <3>2
    <2>3. CASE account[u].blocked = TRUE
      <3>1. SetBlocked(u, FALSE) /\ call' = call
        BY <1>3, <2>3 DEF ToggleUser
      <3>2. AccountsOpen({}) /\ sessions' = sessions
        BY <3>1, Unblocking
      <3> QED
        BY <3>1, <3>2, OtherCalls DEF AccessStep
    <2> QED
      BY <2>1, <2>2, <2>3
  <1>4. ASSUME NEW r \in Reqs, NEW u \in Users, BlockRead(r, u)
        PROVE  AccessStep({})
    <2>1. \A q \in Reqs : call'[q] = call[q] \/ call'[q].op # "login"
      BY <1>4, RequestOp DEF BlockRead, TypeOK
    <2> QED
      BY <1>4, <2>1, OtherCalls DEF BlockRead, AccountsOpen, AccessStep
  <1>5. ASSUME NEW r \in Reqs, BlockCommit(r)
        PROVE  AccessStep({}) \/ \E u \in Users : AccessStep({u})
    <2> DEFINE u == call[r].user
    <2>1. u \in Users /\ call[r].key \in BOOLEAN
      BY <1>5, CallFields DEF BlockCommit, InFlight
    <2>2. CASE call[r].key = TRUE
      <3>1. /\ SetBlocked(u, TRUE)
            /\ call' = [Raced(u, "wiped") EXCEPT ![r] = None]
        BY <1>5, <2>2 DEF BlockCommit
      <3>2. \A q \in Reqs : call'[q] = None \/ call'[q] = Raced(u, "wiped")[q]
        BY <3>1 DEF Raced
      <3> HIDE DEF u
      <3>3. AccessStep({u})
        BY <2>1, <3>1, <3>2, ShutOut DEF SetBlocked, TypeOK
      <3> QED
        BY <2>1, <3>3
    <2>3. CASE call[r].key = FALSE
      <3>1. SetBlocked(u, FALSE) /\ call' = [call EXCEPT ![r] = None]
        BY <1>5, <2>3 DEF BlockCommit
      <3>2. AccountsOpen({}) /\ sessions' = sessions
        BY <2>1, <3>1, Unblocking
      <3>3. \A q \in Reqs : call'[q] = None \/ call'[q] = call[q]
        BY <3>1 DEF TypeOK
      <3> QED
        BY <3>2, <3>3, OtherCalls DEF AccessStep
    <2> QED
      BY <2>1, <2>2, <2>3
  <1>6. ASSUME NEW u \in Users, NEW x \in Secrets, ApiReset(u, x)
        PROVE  AccessStep({})
    <2> DEFINE a == [account[u] EXCEPT !.pw = x, !.by = "api"]
    <2>1. account[u] \in Account
      BY <1>6, AccountTypes DEF ApiReset
    <2>2. /\ a \in Account /\ a.by = "api"
          /\ a.blocked = account[u].blocked
      BY <2>1 DEF Password, Account
    <2>3. account' = [account EXCEPT ![u] = a]
      BY <1>6 DEF ApiReset, TypeOK
    <2> HIDE DEF a
    <2>4. AccountsOpen({})
      BY <2>2, <2>3, OpenRow DEF Opens
    <2> QED
      BY <1>6, <2>4, OtherCalls DEF ApiReset, AccessStep
  <1>7. ASSUME NEW r \in Reqs, NEW a \in Admins, NEW u \in Users,
               NEW x \in Secrets, BrowserReset(r, a, u, x)
        PROVE  AccessStep({u})
    <2>1. \A q \in Reqs : \/ call'[q] = Raced(u, "wiped")[q]
                          \/ call'[q].op # "login"
      BY <1>7, RequestOp DEF BrowserReset, Raced
    <2>2. \A w \in Users \ {u} : account'[w] = account[w]
      BY <1>7 DEF BrowserReset, TypeOK
    <2>3. sessions' = sessions \ Wiped(u)
      BY <1>7 DEF BrowserReset
    <2> QED
      BY <2>1, <2>2, <2>3, ShutOut
  <1>8. ASSUME NEW r \in Reqs, StoreSecret(r)
        PROVE  AccessStep({})
    BY <1>8, OtherCalls DEF StoreSecret, Done, TypeOK, AccountsOpen, AccessStep
  <1>9. ASSUME NEW a \in Admins, TakeSecret(a)
        PROVE  AccessStep({})
    BY <1>9, OtherCalls DEF TakeSecret, AccountsOpen, AccessStep
  <1>10. ASSUME NEW u \in Users, DeleteUser(u)
         PROVE  AccessStep({u})
    <2>1. sessions' = sessions \ Wiped(u)
      BY <1>10 DEF DeleteUser, RowsKept, Wiped
    <2>2. call' = Raced(u, "gone")
      BY <1>10 DEF DeleteUser
    <2>3. \A w \in Users \ {u} : account'[w] = account[w]
      BY <1>10 DEF DeleteUser, TypeOK
    <2> QED
      BY <2>1, <2>2, <2>3, ShutOut
  <1> QED
    BY <1>1, <1>2, <1>3, <1>4, <1>5, <1>6, <1>7, <1>8, <1>9, <1>10
    DEF Administration

LEMMA TimeAccess ==
    ASSUME TypeOK, Age \/ Cleanup \/ Crash \/ (\E r \in Reqs : Fail(r))
                      \/ UNCHANGED vars
    PROVE  AccessStep({})
  <1> USE DEF AccessStep, history, tables
  <1>1. CASE Age
    <2>1. \A s \in sessions :
             /\ [s EXCEPT !.old = TRUE].user = s.user
             /\ [s EXCEPT !.old = TRUE].pw = s.pw
             /\ [s EXCEPT !.old = TRUE].raced = s.raced
      BY DEF TypeOK, Session
    <2>2. \A s \in sessions' : \E old \in sessions :
              old.user = s.user /\ old.pw = s.pw /\ old.raced = s.raced
      BY <1>1, <2>1 DEF Age, Older
    <2>3. SessionsKept({})
      BY <2>2 DEF SessionsKept
    <2>4. LoginsKept({}) /\ AccountsOpen({})
      BY <1>1 DEF Age, LoginsKept, AccountsOpen
    <2> QED
      BY <2>3, <2>4
  <1>2. CASE Cleanup
    BY <1>2, OtherCalls DEF Cleanup, AccountsOpen
  <1>3. CASE Crash
    <2>1. /\ account' = account /\ sessions' \subseteq sessions
          /\ \A q \in Reqs : call'[q] = None
      BY <1>3 DEF Crash
    <2> QED
      BY <2>1, OtherCalls DEF AccountsOpen
  <1>4. ASSUME NEW r \in Reqs, Fail(r)
        PROVE  AccessStep({})
    <2>1. \A q \in Reqs : call'[q] = None \/ call'[q] = call[q]
      BY <1>4 DEF Fail, Done, TypeOK
    <2>2. account' = account /\ sessions' = sessions
      BY <1>4 DEF Fail
    <2> QED
      BY <2>1, <2>2, OtherCalls DEF AccountsOpen
  <1>5. CASE UNCHANGED vars
    BY <1>5, OtherCalls DEF vars, AccountsOpen
  <1> QED
    BY <1>1, <1>2, <1>3, <1>4, <1>5

\* Blocking or deleting a user, or a reset in the console, ends the sessions
\* of the user, but for logins that were on their way.
THEOREM AccessEndsSessions == Spec => []SessionsEndWithAccess
  <1>1. Init => AccessInv
    BY DEF Init, AccessInv, SessionsEndWithAccess
  <1>2. TypeOK /\ AccessInv /\ [Next]_vars => AccessInv'
    <2> SUFFICES ASSUME TypeOK, AccessInv, [Next]_vars
                 PROVE  AccessInv'
      OBVIOUS
    <2>1. PICK shut \in SUBSET Users : AccessStep(shut)
      BY RegistrationAccess, AccessAccess, AdministrationAccess, TimeAccess
      DEF Next
    <2> QED
      BY <2>1, AccessStepKeeps
  <1>3. AccessInv => SessionsEndWithAccess
    BY DEF AccessInv
  <1> QED
    BY <1>1, <1>2, <1>3, TypeCorrect, PTL DEF Spec

-----------------------------------------------------------------------------
(* Passwords are shown once.                                               *)

\* Passwords that wait, travel or were shown were drawn, and two requests
\* never carry one password.
SecretInv ==
    /\ PasswordShownOnce
    /\ shown \subseteq drawn
    /\ \A a \in Admins : secret[a] # None => secret[a].pw \in drawn
    /\ \A r \in Reqs : InFlight(r, "reset") => call[r].pw \in drawn
    /\ \A r, q \in Reqs :
          InFlight(r, "reset") /\ InFlight(q, "reset") /\ call[r].pw = call[q].pw
              => r = q

\* The steps that touch neither what waits nor what was shown, and start no
\* reset.
ResetsKept ==
    \A r \in Reqs :
        call'[r] # None /\ call'[r].op = "reset" =>
            call[r] # None /\ call[r].op = "reset" /\ call'[r].pw = call[r].pw

SecretStep ==
    /\ shown' = shown /\ drawn \subseteq drawn' /\ ResetsKept
    /\ \A a \in Admins :
          secret'[a] # None => secret[a] # None /\ secret'[a].pw = secret[a].pw

LEMMA SecretStepKeeps ==
    ASSUME TypeOK, SecretInv, SecretStep
    PROVE  SecretInv'
  BY DEF SecretInv, SecretStep, ResetsKept, PasswordShownOnce, InFlight

\* A request that is new and no reset, over, or marked.
LEMMA ResetCalls ==
    ASSUME TypeOK,
           \A q \in Reqs :
               \/ call'[q] = None
               \/ call'[q] = call[q]
               \/ call'[q].op # "reset"
               \/ \E u \in Users, how \in Races : call'[q] = Raced(u, how)[q]
    PROVE  ResetsKept
  BY RacedCalls DEF ResetsKept

\* A request that is new and no reset, or over, when nothing else changes.
LEMMA OneCall ==
    ASSUME TypeOK, NEW r \in Reqs, NEW c, c = None \/ c.op # "reset",
           call' = [call EXCEPT ![r] = c]
    PROVE  ResetsKept
  BY DEF ResetsKept, TypeOK

LEMMA RegistrationSecrets ==
    ASSUME TypeOK, Registration
    PROVE  SecretStep
  <1> USE DEF history, tables
  <1>1. drawn \subseteq drawn' /\ UNCHANGED <<shown, secret>>
    BY DEF Registration, ApiRegister, WebRegister, IssueToken, ConfirmRead,
           ConfirmCommit
  <1>2. ASSUME NEW u \in Users, NEW p \in Passwords, NEW x \in Secrets,
               ApiRegister(u, p, x)
        PROVE  ResetsKept
    BY <1>2, ResetCalls DEF ApiRegister
  <1>3. ASSUME NEW r \in Reqs, NEW u \in Users, NEW p \in Passwords,
               WebRegister(r, u, p)
        PROVE  ResetsKept
    <2>1. Request("register", u, None, None).op # "reset"
      BY DEF Request
    <2>2. call' = [call EXCEPT ![r] = Request("register", u, None, None)]
      BY <1>3 DEF WebRegister
    <2> QED
      BY <2>1, <2>2, OneCall
  <1>4. ASSUME NEW r \in Reqs, NEW t \in tokens, ConfirmRead(r, t)
        PROVE  ResetsKept
    <2>1. Request("confirm", t.user, None, t.id).op # "reset"
      BY DEF Request
    <2>2. call' = [call EXCEPT ![r] = Request("confirm", t.user, None, t.id)]
      BY <1>4 DEF ConfirmRead
    <2> QED
      BY <2>1, <2>2, OneCall
  <1>5. ASSUME NEW r \in Reqs,
               ConfirmCommit(r) \/ \E x \in Secrets : IssueToken(r, x)
        PROVE  ResetsKept
    BY <1>5, OneCall DEF ConfirmCommit, IssueToken, Done
  <1> QED
    BY <1>1, <1>2, <1>3, <1>4, <1>5 DEF Registration, SecretStep

LEMMA AccessSecrets ==
    ASSUME TypeOK, Access
    PROVE  SecretStep
  <1> USE DEF history, tables
  <1>1. drawn \subseteq drawn' /\ UNCHANGED <<shown, secret>>
    BY DEF Access, CheckPassword, CreateSession, PairDevice, DropSession,
           DropDevice, ForgotRead, ResetPassword
  <1>2. ASSUME NEW r \in Reqs, NEW u \in Users, NEW op \in {"login", "pair"},
               CheckPassword(r, u, op)
        PROVE  ResetsKept
    BY <1>2, OneCall, RequestOp DEF CheckPassword
  <1>3. ASSUME NEW r \in Reqs, NEW x \in Secrets,
               CreateSession(r, x) \/ PairDevice(r, x)
        PROVE  ResetsKept
    BY <1>3, OneCall DEF CreateSession, PairDevice, Done
  <1>4. ASSUME NEW r \in Reqs, NEW u \in Users, ForgotRead(r, u)
        PROVE  ResetsKept
    <2>1. Request("forgot", u, None, None).op # "reset"
      BY DEF Request
    <2>2. call' = [call EXCEPT ![r] = Request("forgot", u, None, None)]
      BY <1>4 DEF ForgotRead
    <2> QED
      BY <2>1, <2>2, OneCall
  <1>5. ASSUME \/ \E s \in sessions : DropSession(s)
               \/ \E d \in devices : DropDevice(d)
               \/ \E t \in tokens, p \in Passwords : ResetPassword(t, p)
        PROVE  ResetsKept
    BY <1>5, ResetCalls DEF DropSession, DropDevice, ResetPassword
  <1> QED
    BY <1>1, <1>2, <1>3, <1>4, <1>5 DEF Access, SecretStep

LEMMA TimeSecrets ==
    ASSUME TypeOK, Age \/ Cleanup \/ Crash \/ (\E r \in Reqs : Fail(r))
                      \/ UNCHANGED vars
    PROVE  SecretStep
  <1> USE DEF history, tables
  <1>1. drawn' = drawn /\ shown' = shown
    BY DEF Age, Cleanup, Crash, Fail, vars
  <1>2. \A q \in Reqs : call'[q] = None \/ call'[q] = call[q]
    BY DEF Age, Cleanup, Crash, Fail, vars, Done, TypeOK
  <1>3. \A a \in Admins :
            secret'[a] # None => secret[a] # None /\ secret'[a].pw = secret[a].pw
    <2>1. CASE Age
      <3>1. \A w \in Waiting : [w EXCEPT !.old = TRUE].pw = w.pw
        BY DEF Waiting
      <3>2. \A a \in Admins : secret[a] # None => secret[a] \in Waiting
        BY DEF TypeOK
      <3>3. \/ secret' = secret
            \/ \E b \in Admins :
                  /\ secret[b] # None
                  /\ secret' = [secret EXCEPT ![b] = [secret[b] EXCEPT !.old = TRUE]]
        BY <2>1 DEF Age
      <3> QED
        BY <3>1, <3>2, <3>3 DEF TypeOK
    <2>2. CASE Crash
      BY <2>2 DEF Crash
    <2>3. CASE Cleanup \/ (\E r \in Reqs : Fail(r)) \/ UNCHANGED vars
      BY <2>3 DEF Cleanup, Fail, vars
    <2> QED
      BY <2>1, <2>2, <2>3
  <1> QED
    BY <1>1, <1>2, <1>3, ResetCalls DEF SecretStep

\* What the administrator does, but for the steps of a generated password.
LEMMA AdministrationSecrets ==
    ASSUME TypeOK, Administration,
           \A r \in Reqs : ~StoreSecret(r),
           \A a \in Admins : ~TakeSecret(a),
           \A r \in Reqs, a \in Admins, u \in Users, x \in Secrets :
               ~BrowserReset(r, a, u, x)
    PROVE  SecretStep
  <1> USE DEF history, tables
  <1>1. drawn \subseteq drawn' /\ UNCHANGED <<shown, secret>>
    BY DEF Administration, CreateUser, ConfirmUser, ToggleUser, BlockRead,
           BlockCommit, ApiReset, DeleteUser, SetBlocked
  <1>2. ASSUME NEW r \in Reqs, BlockCommit(r)
        PROVE  ResetsKept
    <2>1. call[r].user \in Users
      BY <1>2, CallFields DEF BlockCommit, InFlight
    <2>2. \A q \in Reqs : \/ call'[q] = None
                         \/ call'[q] = call[q]
                         \/ call'[q] = Raced(call[r].user, "wiped")[q]
      BY <1>2 DEF BlockCommit, Raced, TypeOK
    <2> QED
      BY <2>1, <2>2, ResetCalls DEF Races
  <1>3. ASSUME NEW u \in Users, ToggleUser(u) \/ DeleteUser(u)
        PROVE  ResetsKept
    BY <1>3, ResetCalls DEF ToggleUser, DeleteUser, Races
  <1>4. ASSUME NEW r \in Reqs, NEW u \in Users, BlockRead(r, u)
        PROVE  ResetsKept
    <2>1. \A q \in Reqs : call'[q] = call[q] \/ call'[q].op # "reset"
      BY <1>4, RequestOp DEF BlockRead, TypeOK
    <2> QED
      BY <2>1, ResetCalls
  <1>5. ASSUME call' = call
        PROVE  ResetsKept
    BY <1>5, ResetCalls
  <1>6. ResetsKept
    BY <1>2, <1>3, <1>4, <1>5
    DEF Administration, CreateUser, ConfirmUser, ApiReset
  <1> QED
    BY <1>1, <1>6 DEF SecretStep

\* The three steps of a generated password.
LEMMA ResetSecret ==
    ASSUME TypeOK, SecretInv, NEW r \in Reqs, NEW a \in Admins, NEW u \in Users,
           NEW x \in Secrets, BrowserReset(r, a, u, x)
    PROVE  SecretInv'
  <1>1. /\ shown' = shown /\ secret' = secret /\ drawn' = drawn \cup {x}
        /\ x \notin drawn /\ call[r] = None
    BY DEF BrowserReset, history, Fresh
  <1>2. call'[r] = Request("reset", u, x, a)
    <2>1. Raced(u, "wiped") \in [Reqs -> Call \cup {None}]
      BY RacedCalls DEF Races
    <2> QED
      BY <2>1 DEF BrowserReset
  <1>3. \A q \in Reqs : q # r => call'[q] = Raced(u, "wiped")[q]
    BY DEF BrowserReset, Raced
  <1>4. call'[r].pw = x
    BY <1>2, RequestOp
  <1>5. \A q \in Reqs :
            q # r /\ call'[q] # None /\ call'[q].op = "reset" =>
                call[q] # None /\ call[q].op = "reset" /\ call'[q].pw = call[q].pw
    BY <1>3, RacedCalls DEF Races
  <1>6. \A q \in Reqs : InFlight(q, "reset")' =>
            \/ q = r /\ call'[q].pw = x
            \/ q # r /\ InFlight(q, "reset") /\ call'[q].pw = call[q].pw
    BY <1>4, <1>5 DEF InFlight
  <1> QED
    BY <1>1, <1>6 DEF SecretInv, PasswordShownOnce

LEMMA StoredSecret ==
    ASSUME TypeOK, SecretInv, NEW r \in Reqs, StoreSecret(r)
    PROVE  SecretInv'
  <1> DEFINE p == call[r].pw
  <1>1. InFlight(r, "reset") /\ shown' = shown /\ drawn' = drawn
    BY DEF StoreSecret, history
  <1>2. p \in drawn /\ p \notin shown
    BY <1>1 DEF SecretInv, PasswordShownOnce
  <1>3. \A q \in Reqs : InFlight(q, "reset")' =>
            q # r /\ InFlight(q, "reset") /\ call'[q].pw = call[q].pw
    BY DEF StoreSecret, Done, InFlight, TypeOK
  <1>4. \A a \in Admins : secret'[a] # None =>
            \/ a = call[r].key /\ secret'[a].pw = p
            \/ /\ a # call[r].key
               /\ secret[a] # None /\ secret'[a].pw = secret[a].pw
    BY DEF StoreSecret
  <1> HIDE DEF p
  <1>5. \A q \in Reqs : q # r /\ InFlight(q, "reset") => call[q].pw # p
    BY <1>1 DEF SecretInv, p
  <1>6. \A a \in Admins : secret[a] # None => secret[a].pw # p
    BY <1>1 DEF SecretInv, PasswordShownOnce, p
  <1>7. PasswordShownOnce'
    <2>1. \A a \in Admins : secret'[a] # None => secret'[a].pw \notin shown'
      BY <1>1, <1>2, <1>4 DEF SecretInv, PasswordShownOnce
    <2>2. \A a, b \in Admins :
              /\ secret'[a] # None /\ secret'[b] # None
              /\ secret'[a].pw = secret'[b].pw
              => a = b
      BY <1>4, <1>6 DEF SecretInv, PasswordShownOnce
    <2>3. \A q \in Reqs : InFlight(q, "reset")' =>
              /\ call'[q].pw \notin shown'
              /\ \A a \in Admins :
                    secret'[a] # None => secret'[a].pw # call'[q].pw
      BY <1>1, <1>3, <1>4, <1>5 DEF SecretInv, PasswordShownOnce
    <2> QED
      BY <2>1, <2>2, <2>3 DEF PasswordShownOnce
  <1> QED
    BY <1>1, <1>2, <1>3, <1>4, <1>7 DEF SecretInv

LEMMA TakenSecret ==
    ASSUME TypeOK, SecretInv, NEW a \in Admins, TakeSecret(a)
    PROVE  SecretInv'
  <1>1. /\ secret[a] # None /\ call' = call /\ drawn' = drawn
        /\ shown' \subseteq shown \cup {secret[a].pw}
    BY DEF TakeSecret
  <1>2. \A b \in Admins : secret'[b] # None => b # a /\ secret'[b] = secret[b]
    BY DEF TakeSecret, Taken, TypeOK
  <1> QED
    BY <1>1, <1>2 DEF SecretInv, PasswordShownOnce, InFlight

\* A generated password is shown to the administrator who asked for it, once.
THEOREM PasswordsAreShownOnce == Spec => []PasswordShownOnce
  <1>1. Init => SecretInv
    BY DEF Init, SecretInv, PasswordShownOnce, InFlight
  <1>2. TypeOK /\ SecretInv /\ [Next]_vars => SecretInv'
    <2> SUFFICES ASSUME TypeOK, SecretInv, [Next]_vars
                 PROVE  SecretInv'
      OBVIOUS
    <2>1. CASE \E r \in Reqs, a \in Admins, u \in Users, x \in Secrets :
                   BrowserReset(r, a, u, x)
      BY <2>1, ResetSecret
    <2>2. CASE \E r \in Reqs : StoreSecret(r)
      BY <2>2, StoredSecret
    <2>3. CASE \E a \in Admins : TakeSecret(a)
      BY <2>3, TakenSecret
    <2>4. ASSUME \A r \in Reqs, a \in Admins, u \in Users, x \in Secrets :
                     ~BrowserReset(r, a, u, x),
                 \A r \in Reqs : ~StoreSecret(r),
                 \A a \in Admins : ~TakeSecret(a)
          PROVE  SecretInv'
      <3>1. SecretStep
        BY <2>4, RegistrationSecrets, AccessSecrets, AdministrationSecrets,
           TimeSecrets DEF Next
      <3> QED
        BY <3>1, SecretStepKeeps
    <2> QED
      BY <2>1, <2>2, <2>3, <2>4
  <1>3. SecretInv => PasswordShownOnce
    BY DEF SecretInv
  <1> QED
    BY <1>1, <1>2, <1>3, TypeCorrect, PTL DEF Spec

-----------------------------------------------------------------------------
(* Every account can be confirmed.                                         *)

\* What has to be done for account u is done, in hand, or was cut short.
Provided(accounts, calls, cuts, u) ==
    accounts[u] # None /\ ~accounts[u].confirmed =>
        \/ accounts[u].token
        \/ \E r \in Reqs :
              calls[r] # None /\ calls[r].op = "register" /\ calls[r].user = u
        \/ u \in cuts

\* A step that leaves the registrations in flight where they are, and cut.
RegistersKept ==
    /\ cut \subseteq cut'
    /\ \A r \in Reqs :
          InFlight(r, "register") =>
              /\ call'[r] # None /\ call'[r].op = "register"
              /\ call'[r].user = call[r].user

\* A step that writes the row of one account, or none.
LEMMA ConfirmableKept ==
    ASSUME TypeOK, Confirmable, RegistersKept, NEW w \in Users,
           \A u \in Users : u # w => account'[u] = account[u],
           Provided(account, call, cut, w) => Provided(account', call', cut', w)
    PROVE  Confirmable'
  <1>1. ASSUME NEW u \in Users
        PROVE  Provided(account, call, cut, u)
    BY DEF Confirmable, Provided, Exists, InFlight
  <1>2. ASSUME NEW u \in Users
        PROVE  Provided(account', call', cut', u)
    <2>1. CASE u = w
      BY <1>1, <2>1
    <2>2. CASE u # w
      BY <1>1, <2>2 DEF Provided, RegistersKept, InFlight
    <2> QED
      BY <2>1, <2>2
  <1> QED
    BY <1>2 DEF Confirmable, Provided, Exists, InFlight

\* Writing a row that stays confirmed and keeps its token.
LEMMA RowKept ==
    ASSUME TypeOK, Confirmable, RegistersKept, NEW u \in Users, NEW a \in Account,
           account' = [account EXCEPT ![u] = a],
           a.confirmed \/ a.token
               \/ (/\ Exists(u)
                   /\ a.confirmed = account[u].confirmed
                   /\ a.token = account[u].token)
    PROVE  Confirmable'
  <1>1. \A w \in Users : w # u => account'[w] = account[w]
    BY DEF TypeOK
  <1>2. account'[u] = a
    BY DEF TypeOK
  <1>3. Provided(account, call, cut, u) => Provided(account', call', cut', u)
    BY <1>2 DEF Provided, RegistersKept, InFlight, Exists
  <1> QED
    BY <1>1, <1>3, ConfirmableKept

\* Writing no row.
LEMMA NoRow ==
    ASSUME TypeOK, Confirmable, RegistersKept, account' = account
    PROVE  Confirmable'
  BY DEF Confirmable, RegistersKept, Exists, InFlight

LEMMA OtherRequests ==
    ASSUME TypeOK, cut \subseteq cut', NEW r \in Reqs, ~InFlight(r, "register"),
           NEW c, call' = [call EXCEPT ![r] = c] \/ call' = call
    PROVE  RegistersKept
  BY DEF RegistersKept, TypeOK, InFlight

LEMMA MarkedRequests ==
    ASSUME TypeOK, cut' = cut, NEW u \in Users, NEW how \in Races,
           \A q \in Reqs : call'[q] = Raced(u, how)[q] \/ ~InFlight(q, "register")
    PROVE  RegistersKept
  BY RacedCalls DEF RegistersKept, InFlight

LEMMA RegistrationConfirmable ==
    ASSUME TypeOK, Confirmable, Registration
    PROVE  Confirmable'
  <1> USE DEF history, tables
  <1>1. ASSUME NEW u \in Users, NEW p \in Passwords, NEW x \in Secrets,
               ApiRegister(u, p, x)
        PROVE  Confirmable'
    <2> DEFINE a == [NewAccount(p, FALSE) EXCEPT !.token = TRUE]
    <2>1. a \in Account /\ a.token
      BY NewAccountType DEF NewAccount, Password
    <2>2. account' = [account EXCEPT ![u] = a] /\ RegistersKept
      BY <1>1 DEF ApiRegister, RegistersKept, InFlight
    <2> HIDE DEF a
    <2> QED
      BY <2>1, <2>2, RowKept
  <1>2. ASSUME NEW r \in Reqs, NEW u \in Users, NEW p \in Passwords,
               WebRegister(r, u, p)
        PROVE  Confirmable'
    <2>1. RegistersKept
      BY <1>2, OtherRequests DEF WebRegister, InFlight
    <2>2. call'[r] = Request("register", u, None, None)
      BY <1>2 DEF WebRegister, TypeOK
    <2>3. Request("register", u, None, None) # None
      BY CallTypes, RequestTypes
    <2>4. Provided(account', call', cut', u)
      BY <2>2, <2>3, RequestOp DEF Provided
    <2>5. \A w \in Users : w # u => account'[w] = account[w]
      BY <1>2 DEF WebRegister, TypeOK
    <2> QED
      BY <2>1, <2>4, <2>5, ConfirmableKept
  <1>3. ASSUME NEW r \in Reqs, NEW x \in Secrets, IssueToken(r, x)
        PROVE  Confirmable'
    <2> DEFINE u == call[r].user
    <2>1. u \in Users /\ call' = [call EXCEPT ![r] = None] /\ cut' = cut
      BY <1>3, CallFields DEF IssueToken, InFlight, Done
    <2>2. CASE call[r].op # "register"
      <3>1. RegistersKept
        BY <2>1, <2>2, OtherRequests DEF InFlight
      <3>2. account' = account
        BY <1>3, <2>2 DEF IssueToken
      <3> QED
        BY <3>1, <3>2, NoRow
    <2>3. CASE call[r].op = "register"
      <3>1. ASSUME NEW w \in Users, w # u
            PROVE  Provided(account, call, cut, w)
                       => Provided(account', call', cut', w)
        <4>1. account'[w] = account[w]
          BY <1>3, <2>1, <2>3, <3>1 DEF IssueToken, TypeOK
        <4>2. \A q \in Reqs : call[q].user = w => q # r
          BY <3>1
        <4> QED
          BY <2>1, <4>1, <4>2 DEF Provided, TypeOK
      <3>2. account'[u] # None => account'[u].token
        <4>1. CASE Exists(u)
          <5>1. account[u] \in Account
            BY <2>1, <4>1, AccountTypes
          <5>2. account' = [account EXCEPT ![u] = [account[u] EXCEPT !.token = TRUE]]
            BY <1>3, <2>3, <4>1 DEF IssueToken
          <5>3. [account[u] EXCEPT !.token = TRUE].token
            BY <5>1 DEF Account
          <5> QED
            BY <2>1, <5>2, <5>3 DEF TypeOK
        <4>2. CASE ~Exists(u)
          BY <1>3, <2>3, <4>2 DEF IssueToken, Exists
        <4> QED
          BY <4>1, <4>2
      <3>3. \A w \in Users : Provided(account, call, cut, w)
        BY DEF Confirmable, Provided, Exists, InFlight
      <3>4. \A w \in Users : Provided(account', call', cut', w)
        BY <3>1, <3>2, <3>3 DEF Provided
      <3> QED
        BY <3>4 DEF Confirmable, Provided, Exists, InFlight
    <2> QED
      BY <2>2, <2>3
  <1>4. ASSUME NEW r \in Reqs, NEW t \in tokens, ConfirmRead(r, t)
        PROVE  Confirmable'
    BY <1>4, OtherRequests, NoRow DEF ConfirmRead, InFlight
  <1>5. ASSUME NEW r \in Reqs, ConfirmCommit(r)
        PROVE  Confirmable'
    <2> DEFINE u == call[r].user
               a == [account[u] EXCEPT !.confirmed = TRUE]
    <2>1. u \in Users /\ RegistersKept
      BY <1>5, CallFields, OtherRequests DEF ConfirmCommit, InFlight, Done
    <2>2. CASE ~Exists(u)
      BY <1>5, <2>1, <2>2, NoRow DEF ConfirmCommit
    <2>3. CASE Exists(u)
      <3>1. account[u] \in Account
        BY <2>1, <2>3, AccountTypes
      <3>2. a \in Account /\ a.confirmed
        BY <3>1 DEF Account
      <3>3. account' = [account EXCEPT ![u] = a]
        BY <1>5, <2>3 DEF ConfirmCommit
      <3> HIDE DEF a, u
      <3> QED
        BY <2>1, <3>2, <3>3, RowKept
    <2> QED
      BY <2>2, <2>3
  <1> QED
    BY <1>1, <1>2, <1>3, <1>4, <1>5 DEF Registration

LEMMA AccessConfirmable ==
    ASSUME TypeOK, Confirmable, Access
    PROVE  Confirmable'
  <1> USE DEF history, tables
  <1>1. ASSUME NEW r \in Reqs, NEW u \in Users,
               \/ ForgotRead(r, u)
               \/ \E op \in {"login", "pair"} : CheckPassword(r, u, op)
        PROVE  Confirmable'
    BY <1>1, OtherRequests, NoRow DEF ForgotRead, CheckPassword, InFlight
  <1>2. ASSUME NEW r \in Reqs, NEW x \in Secrets,
               CreateSession(r, x) \/ PairDevice(r, x)
        PROVE  Confirmable'
    BY <1>2, OtherRequests, NoRow DEF CreateSession, PairDevice, InFlight, Done
  <1>3. ASSUME NEW s \in sessions, DropSession(s)
        PROVE  Confirmable'
    BY <1>3, NoRow DEF DropSession, RegistersKept, InFlight
  <1>4. ASSUME NEW t \in tokens, NEW p \in Passwords, ResetPassword(t, p)
        PROVE  Confirmable'
    <2> DEFINE u == t.user
               a == [account[u] EXCEPT !.pw = p, !.by = "owner"]
    <2>1. u \in Users /\ Exists(u)
      BY <1>4 DEF TypeOK, Token, ResetPassword
    <2>2. account[u] \in Account
      BY <2>1, AccountTypes
    <2>3. /\ a \in Account
          /\ a.confirmed = account[u].confirmed /\ a.token = account[u].token
      BY <2>2 DEF Password, Account
    <2>4. account' = [account EXCEPT ![u] = a]
      BY <1>4, <2>1 DEF ResetPassword, TypeOK
    <2>5. RegistersKept
      BY <1>4 DEF ResetPassword, RegistersKept, InFlight
    <2> HIDE DEF a, u
    <2> QED
      BY <2>1, <2>3, <2>4, <2>5, RowKept
  <1>5. ASSUME NEW d \in devices, DropDevice(d)
        PROVE  Confirmable'
    BY <1>5, NoRow DEF DropDevice, RegistersKept, InFlight
  <1> QED
    BY <1>1, <1>2, <1>3, <1>4, <1>5 DEF Access

LEMMA BlockedConfirmable ==
    ASSUME TypeOK, Confirmable, RegistersKept,
           NEW u \in Users, NEW b \in BOOLEAN, SetBlocked(u, b)
    PROVE  Confirmable'
  <1>1. CASE ~Exists(u)
    BY <1>1, NoRow DEF SetBlocked
  <1>2. CASE Exists(u)
    <2> DEFINE a == [account[u] EXCEPT !.blocked = b]
    <2>1. account[u] \in Account
      BY <1>2, AccountTypes
    <2>2. /\ a \in Account
          /\ a.confirmed = account[u].confirmed /\ a.token = account[u].token
      BY <2>1 DEF Account
    <2>3. account' = [account EXCEPT ![u] = a]
      BY <1>2 DEF SetBlocked
    <2> HIDE DEF a
    <2> QED
      BY <1>2, <2>2, <2>3, RowKept
  <1> QED
    BY <1>1, <1>2

LEMMA AdministrationConfirmable ==
    ASSUME TypeOK, Confirmable, Administration
    PROVE  Confirmable'
  <1> USE DEF history, tables
  <1>1. ASSUME NEW u \in Users, NEW p \in Passwords, CreateUser(u, p)
        PROVE  Confirmable'
    <2>1. NewAccount(p, TRUE) \in Account /\ NewAccount(p, TRUE).confirmed
      BY NewAccountType DEF NewAccount, Password
    <2>2. account' = [account EXCEPT ![u] = NewAccount(p, TRUE)]
      BY <1>1 DEF CreateUser
    <2>3. RegistersKept
      BY <1>1 DEF CreateUser, RegistersKept, InFlight
    <2> QED
      BY <2>1, <2>2, <2>3, RowKept
  <1>2. ASSUME NEW u \in Users, ConfirmUser(u)
        PROVE  Confirmable'
    <2> DEFINE a == [account[u] EXCEPT !.confirmed = TRUE]
    <2>1. account[u] \in Account
      BY <1>2, AccountTypes DEF ConfirmUser
    <2>2. a \in Account /\ a.confirmed
      BY <2>1 DEF Account
    <2>3. account' = [account EXCEPT ![u] = a] /\ RegistersKept
      BY <1>2 DEF ConfirmUser, RegistersKept, InFlight
    <2> HIDE DEF a
    <2> QED
      BY <2>2, <2>3, RowKept
  <1>3. ASSUME NEW u \in Users, ToggleUser(u)
        PROVE  Confirmable'
    <2>1. (~account[u].blocked) \in BOOLEAN /\ SetBlocked(u, ~account[u].blocked)
      BY <1>3 DEF ToggleUser
    <2>2. call' = call \/ call' = Raced(u, "wiped")
      BY <1>3 DEF ToggleUser
    <2>3. cut' = cut
      BY <2>1 DEF SetBlocked
    <2>4. RegistersKept
      BY <2>2, <2>3, MarkedRequests DEF Races, RegistersKept, InFlight
    <2> QED
      BY <2>1, <2>4, BlockedConfirmable
  <1>4. ASSUME NEW r \in Reqs, NEW u \in Users, BlockRead(r, u)
        PROVE  Confirmable'
    BY <1>4, OtherRequests, NoRow DEF BlockRead, InFlight
  <1>5. ASSUME NEW r \in Reqs, BlockCommit(r)
        PROVE  Confirmable'
    <2> DEFINE u == call[r].user
    <2>1. /\ u \in Users /\ call[r].key \in BOOLEAN /\ ~InFlight(r, "register")
          /\ SetBlocked(u, call[r].key) /\ cut' = cut
      BY <1>5, CallFields DEF BlockCommit, InFlight, SetBlocked
    <2>2. CASE call[r].key = TRUE
      <3>1. \A q \in Reqs :
                call'[q] = Raced(u, "wiped")[q] \/ ~InFlight(q, "register")
        BY <1>5, <2>1, <2>2 DEF BlockCommit, Raced
      <3> QED
        BY <2>1, <3>1, MarkedRequests, BlockedConfirmable DEF Races
    <2>3. CASE call[r].key = FALSE
      <3>1. call' = [call EXCEPT ![r] = None]
        BY <1>5, <2>3 DEF BlockCommit
      <3> QED
        BY <2>1, <3>1, OtherRequests, BlockedConfirmable
    <2> QED
      BY <2>1, <2>2, <2>3
  <1>6. ASSUME NEW u \in Users, NEW x \in Secrets, ApiReset(u, x)
        PROVE  Confirmable'
    <2> DEFINE a == [account[u] EXCEPT !.pw = x, !.by = "api"]
    <2>1. account[u] \in Account
      BY <1>6, AccountTypes DEF ApiReset
    <2>2. /\ a \in Account
          /\ a.confirmed = account[u].confirmed /\ a.token = account[u].token
      BY <2>1 DEF Password, Account
    <2>3. account' = [account EXCEPT ![u] = a]
      BY <1>6 DEF ApiReset, TypeOK
    <2>4. RegistersKept /\ Exists(u)
      BY <1>6 DEF ApiReset, RegistersKept, InFlight
    <2> HIDE DEF a
    <2> QED
      BY <2>2, <2>3, <2>4, RowKept
  <1>7. ASSUME NEW r \in Reqs, NEW b \in Admins, NEW u \in Users,
               NEW x \in Secrets, BrowserReset(r, b, u, x)
        PROVE  Confirmable'
    <2> DEFINE a == [account[u] EXCEPT !.pw = x, !.by = "browser"]
    <2>1. \A q \in Reqs :
              call'[q] = Raced(u, "wiped")[q] \/ ~InFlight(q, "register")
      BY <1>7 DEF BrowserReset, Raced, InFlight
    <2>2. RegistersKept
      BY <1>7, <2>1, MarkedRequests DEF BrowserReset, Races
    <2>3. CASE ~Exists(u)
      BY <1>7, <2>2, <2>3, NoRow DEF BrowserReset
    <2>4. CASE Exists(u)
      <3>1. account[u] \in Account
        BY <2>4, AccountTypes
      <3>2. /\ a \in Account
            /\ a.confirmed = account[u].confirmed /\ a.token = account[u].token
        BY <3>1 DEF Password, Account
      <3>3. account' = [account EXCEPT ![u] = a]
        BY <1>7, <2>4 DEF BrowserReset, TypeOK
      <3> HIDE DEF a
      <3> QED
        BY <2>2, <2>4, <3>2, <3>3, RowKept
    <2> QED
      BY <2>3, <2>4
  <1>8. ASSUME NEW r \in Reqs, StoreSecret(r)
        PROVE  Confirmable'
    BY <1>8, OtherRequests, NoRow DEF StoreSecret, InFlight, Done
  <1>9. ASSUME NEW a \in Admins, TakeSecret(a)
        PROVE  Confirmable'
    BY <1>9, NoRow DEF TakeSecret, RegistersKept, InFlight
  <1>10. ASSUME NEW u \in Users, DeleteUser(u)
         PROVE  Confirmable'
    <2>1. RegistersKept
      BY <1>10, MarkedRequests DEF DeleteUser, Races
    <2>2. /\ account'[u] = None
          /\ \A w \in Users : w # u => account'[w] = account[w]
      BY <1>10 DEF DeleteUser, TypeOK
    <2> QED
      BY <2>1, <2>2, ConfirmableKept DEF Provided
  <1> QED
    BY <1>1, <1>2, <1>3, <1>4, <1>5, <1>6, <1>7, <1>8, <1>9, <1>10
    DEF Administration

LEMMA TimeConfirmable ==
    ASSUME TypeOK, Confirmable,
           Age \/ Cleanup \/ Crash \/ (\E r \in Reqs : Fail(r)) \/ UNCHANGED vars
    PROVE  Confirmable'
  <1> USE DEF history, tables
  <1>1. CASE Age \/ Cleanup \/ UNCHANGED vars
    BY <1>1, NoRow DEF Age, Cleanup, vars, RegistersKept, InFlight
  <1>2. ASSUME account' = account, cut \subseteq cut',
               \A r \in Reqs :
                   InFlight(r, "register") =>
                       \/ call'[r] = call[r]
                       \/ call[r].user \in cut'
        PROVE  Confirmable'
    BY <1>2 DEF Confirmable, Exists, InFlight
  <1>3. CASE Crash
    BY <1>2, <1>3 DEF Crash, Registering
  <1>4. ASSUME NEW r \in Reqs, Fail(r)
        PROVE  Confirmable'
    <2>1. \A q \in Reqs : q # r => call'[q] = call[q]
      BY <1>4 DEF Fail, Done, TypeOK
    <2>2. InFlight(r, "register") => call[r].user \in cut'
      BY <1>4 DEF Fail, Registering
    <2> QED
      BY <1>2, <1>4, <2>1, <2>2 DEF Fail
  <1> QED
    BY <1>1, <1>3, <1>4

\* An account that waits for its confirmation was given a token, unless its
\* web registration was cut short.
THEOREM AccountsAreConfirmable == Spec => []Confirmable
  <1>1. Init => Confirmable
    BY DEF Init, Confirmable, Exists
  <1>2. TypeOK /\ Confirmable /\ [Next]_vars => Confirmable'
    BY RegistrationConfirmable, AccessConfirmable, AdministrationConfirmable,
       TimeConfirmable DEF Next
  <1> QED
    BY <1>1, <1>2, TypeCorrect, PTL DEF Spec
=============================================================================
