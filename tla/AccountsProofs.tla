--------------------------- MODULE AccountsProofs ---------------------------
(***************************************************************************)
(* What is proved of Accounts, for any number of users, requests,          *)
(* administrators and random values.                                       *)
(***************************************************************************)
EXTENDS Accounts, TLAPS

\* Marking the requests of an account changes nothing else of them.
LEMMA RacedCalls ==
    ASSUME TypeOK, NEW u \in Users, NEW how \in Races
    PROVE  /\ Raced(u, how) \in [Reqs -> Call \cup {None}]
           /\ \A r \in Reqs :
                 /\ (Raced(u, how)[r] = None) <=> (call[r] = None)
                 /\ call[r] # None =>
                       /\ Raced(u, how)[r].op = call[r].op
                       /\ Raced(u, how)[r].user = call[r].user
                       /\ Raced(u, how)[r].pw = call[r].pw
                       /\ Raced(u, how)[r].key = call[r].key
                       /\ Raced(u, how)[r].raced \in {call[r].raced, how}
                       /\ call[r].user # u =>
                             Raced(u, how)[r].raced = call[r].raced
                       /\ call[r].user = u /\ call[r].raced # "gone" =>
                             Raced(u, how)[r].raced = how
  <1> DEFINE Mark(c) == [c EXCEPT !.raced = how]
  <1>1. \A c \in Call :
           /\ Mark(c) \in Call /\ Mark(c) # None
           /\ Mark(c).op = c.op /\ Mark(c).user = c.user /\ Mark(c).pw = c.pw
           /\ Mark(c).key = c.key /\ Mark(c).raced = how
    BY NoneIsNew DEF Call, CallOf
  <1>2. \A r \in Reqs :
           Raced(u, how)[r] =
               IF call[r] # None /\ call[r].user = u /\ call[r].raced # "gone"
               THEN Mark(call[r]) ELSE call[r]
    BY DEF Raced
  <1>3. \A r \in Reqs : call[r] \in Call \cup {None}
    BY DEF TypeOK
  <1>4. \A r \in Reqs : Raced(u, how)[r] \in Call \cup {None}
    BY <1>1, <1>2, <1>3
  <1>5. Raced(u, how) \in [Reqs -> Call \cup {None}]
    BY <1>4 DEF Raced
  <1> HIDE DEF Mark
  <1> QED
    BY <1>1, <1>2, <1>3, <1>5

\* A new request, and a request that is over.
LEMMA CallTypes ==
    ASSUME TypeOK
    PROVE  /\ \A r \in Reqs : Done(r) \in [Reqs -> Call \cup {None}]
           /\ \A r \in Reqs, c \in Call, f \in [Reqs -> Call \cup {None}] :
                 [f EXCEPT ![r] = c] \in [Reqs -> Call \cup {None}]
           /\ \A c \in Call : c # None
  BY NoneIsNew DEF Done, TypeOK

LEMMA RequestTypes ==
    ASSUME NEW u \in Users
    PROVE  /\ \A op \in {"register", "forgot"} : Request(op, u, None, None) \in Call
           /\ \A x \in Secrets : Request("confirm", u, None, x) \in Call
           /\ \A op \in {"login", "pair"}, p \in Password :
                 Request(op, u, p, None) \in Call
           /\ \A b \in BOOLEAN : Request("block", u, None, b) \in Call
           /\ \A x \in Secrets, a \in Admins : Request("reset", u, x, a) \in Call
  BY DEF Request, Call, CallOf, Races

\* The fields of a request in flight.
LEMMA CallFields ==
    ASSUME TypeOK, NEW r \in Reqs, call[r] # None
    PROVE  /\ call[r] \in Call
           /\ call[r].user \in Users /\ call[r].raced \in Races
           /\ call[r].op \in {"login", "pair"} => call[r].pw \in Password
           /\ call[r].op = "block" => call[r].key \in BOOLEAN
           /\ call[r].op = "reset" =>
                 call[r].pw \in Secrets /\ call[r].key \in Admins
  <1>1. call[r] \in Call
    BY DEF TypeOK
  <1> QED
    BY <1>1 DEF Call, CallOf

\* The row of an account that exists.
LEMMA AccountTypes ==
    ASSUME TypeOK, NEW u \in Users, Exists(u)
    PROVE  account[u] \in Account
  BY DEF TypeOK, Exists

\* Changing one column of an account.
LEMMA AccountColumns ==
    ASSUME NEW a \in Account
    PROVE  /\ \A b \in BOOLEAN : /\ [a EXCEPT !.confirmed = b] \in Account
                                /\ [a EXCEPT !.blocked = b] \in Account
                                /\ [a EXCEPT !.token = b] \in Account
           /\ \A p \in Password, by \in {"owner", "api", "browser"} :
                 [a EXCEPT !.pw = p, !.by = by] \in Account
           /\ a.pw \in Password /\ a.blocked \in BOOLEAN
           /\ a # None
  BY NoneIsNew DEF Account

LEMMA NewAccountType ==
    ASSUME NEW p \in Password, NEW c \in BOOLEAN
    PROVE  /\ NewAccount(p, c) \in Account
           /\ [NewAccount(p, c) EXCEPT !.token = TRUE] \in Account
  BY DEF NewAccount, Account

-----------------------------------------------------------------------------
(* Types.                                                                  *)

LEMMA RegistrationTypes ==
    ASSUME TypeOK, Registration
    PROVE  TypeOK'
  <1> USE DEF TypeOK, tables, history, Fresh, Exists
  <1>1. ASSUME NEW u \in Users, NEW p \in Passwords, NEW x \in Secrets,
               ApiRegister(u, p, x)
        PROVE  TypeOK'
    <2>1. [NewAccount(p, FALSE) EXCEPT !.token = TRUE] \in Account
      BY NewAccountType DEF Password
    <2>2. EmailToken(x, u, "confirm", "no") \in Token
      BY DEF EmailToken, Token, Races
    <2>3. EmailToken(x, u, "confirm", "no").id = x
      BY DEF EmailToken
    <2>4. PICK a \in Account :
              account' = [account EXCEPT ![u] = a]
      BY <1>1, <2>1 DEF ApiRegister
    <2>5. PICK t \in Token : t.id = x /\ tokens' = tokens \cup {t}
      BY <1>1, <2>2, <2>3 DEF ApiRegister
    <2>6. /\ account' \in [Users -> Account \cup {None}]
          /\ \A w \in Users : account'[w] # None => w = u \/ account[w] # None
      BY <2>4
    <2>7. /\ tokens' \subseteq Token
          /\ \A y \in tokens' : y \in tokens \/ y = t
      BY <2>5
    <2>8. /\ drawn' = drawn \cup {u, x} /\ x \notin drawn
          /\ UNCHANGED <<sessions, devices, secret, call, void, shown, cut>>
      BY <1>1 DEF ApiRegister
    <2> QED
      BY <2>5, <2>6, <2>7, <2>8
  <1>2. ASSUME NEW r \in Reqs, NEW u \in Users, NEW p \in Passwords,
               WebRegister(r, u, p)
        PROVE  TypeOK'
    <2>1. NewAccount(p, FALSE) \in Account
      BY NewAccountType DEF Password
    <2>2. call' \in [Reqs -> Call \cup {None}]
      BY <1>2, CallTypes, RequestTypes DEF WebRegister
    <2> QED
      BY <1>2, <2>1, <2>2 DEF WebRegister
  <1>3. ASSUME NEW r \in Reqs, NEW x \in Secrets, IssueToken(r, x)
        PROVE  TypeOK'
    <2> DEFINE u == call[r].user
               purpose == IF call[r].op = "register" THEN "confirm" ELSE "reset"
               t == EmailToken(x, u, purpose, call[r].raced)
    <2>1. u \in Users /\ call[r].raced \in Races
      BY <1>3, CallFields DEF IssueToken, InFlight
    <2>2. t \in Token /\ t.id = x
      BY <2>1 DEF EmailToken, Token
    <2>3. account' \in [Users -> Account \cup {None}]
      <3>1. Exists(u) => [account[u] EXCEPT !.token = TRUE] \in Account
        BY <2>1, AccountColumns
      <3> QED
        BY <1>3, <2>1, <3>1 DEF IssueToken
    <2>4. \A w \in Users : account'[w] # None => account[w] # None
      BY <1>3, <2>1 DEF IssueToken
    <2>5. tokens' = tokens \cup {t}
      BY <1>3 DEF IssueToken
    <2>6. call' \in [Reqs -> Call \cup {None}]
      BY <1>3, CallTypes DEF IssueToken
    <2> HIDE DEF t
    <2> QED
      BY <1>3, <2>2, <2>3, <2>4, <2>5, <2>6 DEF IssueToken
  <1>4. ASSUME NEW r \in Reqs, NEW t \in tokens, ConfirmRead(r, t)
        PROVE  TypeOK'
    <2>1. t.user \in Users /\ t.id \in Secrets
      BY DEF Token
    <2>2. call' \in [Reqs -> Call \cup {None}]
      BY <1>4, <2>1, CallTypes, RequestTypes DEF ConfirmRead
    <2> QED
      BY <1>4, <2>2 DEF ConfirmRead
  <1>5. ASSUME NEW r \in Reqs, ConfirmCommit(r)
        PROVE  TypeOK'
    <2>1. call[r].user \in Users
      BY <1>5, CallFields DEF ConfirmCommit, InFlight
    <2>2. Exists(call[r].user) =>
              [account[call[r].user] EXCEPT !.confirmed = TRUE] \in Account
      BY <2>1, AccountColumns
    <2>3. account' \in [Users -> Account \cup {None}]
      BY <1>5, <2>1, <2>2 DEF ConfirmCommit
    <2>4. call' \in [Reqs -> Call \cup {None}]
      BY <1>5, CallTypes DEF ConfirmCommit
    <2> QED
      BY <1>5, <2>1, <2>3, <2>4 DEF ConfirmCommit
  <1> QED
    BY <1>1, <1>2, <1>3, <1>4, <1>5 DEF Registration

LEMMA AccessTypes ==
    ASSUME TypeOK, Access
    PROVE  TypeOK'
  <1> USE DEF TypeOK, tables, history, Fresh, Exists
  <1>1. ASSUME NEW r \in Reqs, NEW u \in Users, NEW op \in {"login", "pair"},
               CheckPassword(r, u, op)
        PROVE  TypeOK'
    <2>1. account[u].pw \in Password
      BY <1>1, AccountColumns DEF CheckPassword, Admitted
    <2>2. call' \in [Reqs -> Call \cup {None}]
      BY <1>1, <2>1, CallTypes, RequestTypes DEF CheckPassword
    <2> QED
      BY <1>1, <2>2 DEF CheckPassword
  <1>2. ASSUME NEW r \in Reqs, NEW x \in Secrets, CreateSession(r, x)
        PROVE  TypeOK'
    <2>1. call' \in [Reqs -> Call \cup {None}]
      BY <1>2, CallTypes DEF CreateSession
    <2>2. call[r].pw \in Password
      BY <1>2, CallFields DEF CreateSession, InFlight
    <2>3. call[r].user \in Users /\ call[r].raced \in Races
      BY <1>2, CallFields DEF CreateSession, InFlight
    <2>4. [id |-> x, user |-> call[r].user, pw |-> call[r].pw, old |-> FALSE,
           raced |-> call[r].raced] \in Session
      BY <2>2, <2>3 DEF Session
    <2>5. sessions' \subseteq Session
      BY <1>2, <2>4 DEF CreateSession
    <2> QED
      BY <1>2, <2>1, <2>5 DEF CreateSession
  <1>3. ASSUME NEW r \in Reqs, NEW x \in Secrets, PairDevice(r, x)
        PROVE  TypeOK'
    <2>1. call' \in [Reqs -> Call \cup {None}]
      BY <1>3, CallTypes DEF PairDevice
    <2>2. devices' \subseteq Device
      BY <1>3, CallFields DEF PairDevice, InFlight, Device
    <2> QED
      BY <1>3, <2>1, <2>2 DEF PairDevice
  <1>4. ASSUME NEW s \in sessions, DropSession(s)
        PROVE  TypeOK'
    BY <1>4 DEF DropSession
  <1>5. ASSUME NEW r \in Reqs, NEW u \in Users, ForgotRead(r, u)
        PROVE  TypeOK'
    <2>1. call' \in [Reqs -> Call \cup {None}]
      BY <1>5, CallTypes, RequestTypes DEF ForgotRead
    <2> QED
      BY <1>5, <2>1 DEF ForgotRead
  <1>6. ASSUME NEW t \in tokens, NEW p \in Passwords, ResetPassword(t, p)
        PROVE  TypeOK'
    <2>1. t.user \in Users
      BY DEF Token
    <2>2. [account[t.user] EXCEPT !.pw = p, !.by = "owner"] \in Account
      BY <1>6, <2>1, AccountColumns DEF ResetPassword, Password
    <2>3. account' = [account EXCEPT
              ![t.user] = [account[t.user] EXCEPT !.pw = p, !.by = "owner"]]
      BY <1>6, <2>1 DEF ResetPassword
    <2>4. void' \subseteq Secrets
      BY <1>6 DEF ResetPassword, ResetTokensOf, Token
    <2> QED
      BY <1>6, <2>1, <2>2, <2>3, <2>4 DEF ResetPassword
  <1>7. ASSUME NEW d \in devices, DropDevice(d)
        PROVE  TypeOK'
    BY <1>7 DEF DropDevice
  <1> QED
    BY <1>1, <1>2, <1>3, <1>4, <1>5, <1>6, <1>7 DEF Access

\* SetBlocked, the part of the two ways to block that is the same.
LEMMA BlockedTypes ==
    ASSUME TypeOK, NEW u \in Users, NEW b \in BOOLEAN, SetBlocked(u, b),
           call' \in [Reqs -> Call \cup {None}]
    PROVE  TypeOK'
  <1>1. Exists(u) => [account[u] EXCEPT !.blocked = b] \in Account
    BY AccountTypes, AccountColumns
  <1>2. account' \in [Users -> Account \cup {None}]
    BY <1>1 DEF SetBlocked, TypeOK, Exists
  <1> QED
    BY <1>2 DEF SetBlocked, TypeOK, Exists, history

LEMMA AdministrationTypes ==
    ASSUME TypeOK, Administration
    PROVE  TypeOK'
  <1> USE DEF TypeOK, tables, history, Fresh, Exists
  <1>1. ASSUME NEW u \in Users, NEW p \in Passwords, CreateUser(u, p)
        PROVE  TypeOK'
    <2>1. NewAccount(p, TRUE) \in Account
      BY NewAccountType DEF Password
    <2> QED
      BY <1>1, <2>1 DEF CreateUser
  <1>2. ASSUME NEW u \in Users, ConfirmUser(u)
        PROVE  TypeOK'
    <2>1. [account[u] EXCEPT !.confirmed = TRUE] \in Account
      BY <1>2, AccountColumns DEF ConfirmUser
    <2> QED
      BY <1>2, <2>1 DEF ConfirmUser
  <1>3. ASSUME NEW u \in Users, ToggleUser(u)
        PROVE  TypeOK'
    <2>1. account[u].blocked \in BOOLEAN
      BY <1>3, AccountColumns DEF ToggleUser
    <2>2. call' \in [Reqs -> Call \cup {None}]
      BY <1>3, RacedCalls DEF ToggleUser, Races
    <2> QED
      BY <1>3, <2>1, <2>2, BlockedTypes DEF ToggleUser
  <1>4. ASSUME NEW r \in Reqs, NEW u \in Users, BlockRead(r, u)
        PROVE  TypeOK'
    <2>1. account[u].blocked \in BOOLEAN
      BY <1>4, AccountColumns DEF BlockRead
    <2>2. call' \in [Reqs -> Call \cup {None}]
      BY <1>4, <2>1, CallTypes, RequestTypes DEF BlockRead
    <2> QED
      BY <1>4, <2>2 DEF BlockRead
  <1>5. ASSUME NEW r \in Reqs, BlockCommit(r)
        PROVE  TypeOK'
    <2>1. call[r].user \in Users /\ call[r].key \in BOOLEAN
      BY <1>5, CallFields DEF BlockCommit, InFlight
    <2>2. Raced(call[r].user, "wiped") \in [Reqs -> Call \cup {None}]
      BY <2>1, RacedCalls DEF Races
    <2>3. call' \in [Reqs -> Call \cup {None}]
      BY <1>5, <2>2 DEF BlockCommit
    <2> QED
      BY <1>5, <2>1, <2>3, BlockedTypes DEF BlockCommit
  <1>6. ASSUME NEW u \in Users, NEW x \in Secrets, ApiReset(u, x)
        PROVE  TypeOK'
    <2>1. [account[u] EXCEPT !.pw = x, !.by = "api"] \in Account
      BY <1>6, AccountColumns DEF ApiReset, Password
    <2>2. account' = [account EXCEPT
                         ![u] = [account[u] EXCEPT !.pw = x, !.by = "api"]]
      BY <1>6 DEF ApiReset
    <2> QED
      BY <1>6, <2>1, <2>2 DEF ApiReset
  <1>7. ASSUME NEW r \in Reqs, NEW a \in Admins, NEW u \in Users,
               NEW x \in Secrets, BrowserReset(r, a, u, x)
        PROVE  TypeOK'
    <2>1. account[u] # None =>
              [account[u] EXCEPT !.pw = x, !.by = "browser"] \in Account
      BY <1>7, AccountColumns DEF Password
    <2>2. account' =
              IF account[u] # None
              THEN [account EXCEPT
                       ![u] = [account[u] EXCEPT !.pw = x, !.by = "browser"]]
              ELSE account
      BY <1>7 DEF BrowserReset
    <2>3. account' \in [Users -> Account \cup {None}]
      BY <2>1, <2>2
    <2>4. Raced(u, "wiped") \in [Reqs -> Call \cup {None}]
      BY RacedCalls DEF Races
    <2>5. call' \in [Reqs -> Call \cup {None}]
      BY <1>7, <2>4, CallTypes, RequestTypes DEF BrowserReset
    <2> QED
      BY <1>7, <2>2, <2>3, <2>5 DEF BrowserReset
  <1>8. ASSUME NEW r \in Reqs, StoreSecret(r)
        PROVE  TypeOK'
    <2>1. call[r].pw \in Secrets
      BY <1>8, CallFields DEF StoreSecret, InFlight
    <2>2. [pw |-> call[r].pw, old |-> FALSE] \in Waiting
      BY <2>1 DEF Waiting
    <2>3. secret' \in [Admins -> Waiting \cup {None}]
      BY <1>8, <2>2 DEF StoreSecret
    <2>4. call' \in [Reqs -> Call \cup {None}]
      BY <1>8, CallTypes DEF StoreSecret
    <2> QED
      BY <1>8, <2>3, <2>4 DEF StoreSecret
  <1>9. ASSUME NEW a \in Admins, TakeSecret(a)
        PROVE  TypeOK'
    <2>1. secret[a].pw \in Secrets
      BY <1>9 DEF TakeSecret, Waiting
    <2> QED
      BY <1>9, <2>1 DEF TakeSecret, Taken
  <1>10. ASSUME NEW u \in Users, DeleteUser(u)
         PROVE  TypeOK'
    <2>1. call' \in [Reqs -> Call \cup {None}]
      BY <1>10, RacedCalls DEF DeleteUser, Races
    <2> QED
      BY <1>10, <2>1 DEF DeleteUser, RowsKept
  <1> QED
    BY <1>1, <1>2, <1>3, <1>4, <1>5, <1>6, <1>7, <1>8, <1>9, <1>10
    DEF Administration

LEMMA AgeTypes ==
    ASSUME TypeOK, Age
    PROVE  TypeOK'
  <1> USE DEF TypeOK, history
  <1>1. ASSUME NEW t \in tokens, tokens' = Older(tokens, t),
               UNCHANGED <<account, sessions, devices, secret, call, drawn, history>>
        PROVE  TypeOK'
    <2> DEFINE o == [t EXCEPT !.old = TRUE]
    <2>1. o \in Token /\ o.id = t.id
      BY DEF Token
    <2>2. tokens' = (tokens \ {t}) \cup {o}
      BY <1>1 DEF Older
    <2> HIDE DEF o
    <2> QED
      BY <1>1, <2>1, <2>2 DEF Exists
  <1>2. ASSUME NEW s \in sessions, sessions' = Older(sessions, s),
               UNCHANGED <<account, tokens, devices, secret, call, drawn, history>>
        PROVE  TypeOK'
    <2>1. [s EXCEPT !.old = TRUE] \in Session
      BY DEF Session
    <2> QED
      BY <1>2, <2>1 DEF Older, Exists
  <1>3. ASSUME NEW a \in Admins, secret[a] # None,
               secret' = [secret EXCEPT ![a].old = TRUE],
               UNCHANGED <<account, tokens, sessions, devices, call, drawn, history>>
        PROVE  TypeOK'
    <2>1. [secret[a] EXCEPT !.old = TRUE] \in Waiting
      BY <1>3 DEF Waiting
    <2> QED
      BY <1>3, <2>1 DEF Exists
  <1> QED
    BY <1>1, <1>2, <1>3 DEF Age

\* Every table, request and history is well typed, and random values name one
\* e-mail token each.
THEOREM TypeCorrect == Spec => []TypeOK
  <1>1. Init => TypeOK
    BY DEF Init, TypeOK, Exists
  <1>2. TypeOK /\ [Next]_vars => TypeOK'
    <2> SUFFICES ASSUME TypeOK, [Next]_vars
                 PROVE  TypeOK'
      OBVIOUS
    <2>1. CASE Cleanup
      BY <2>1 DEF Cleanup, TypeOK, history, Exists
    <2>2. CASE Crash
      BY <2>2, CallFields DEF Crash, TypeOK, tables, Exists, Registering, InFlight
    <2>3. ASSUME NEW r \in Reqs, Fail(r)
          PROVE  TypeOK'
      BY <2>3, CallTypes, CallFields
      DEF Fail, TypeOK, tables, Exists, Registering, InFlight
    <2>4. CASE UNCHANGED vars
      BY <2>4 DEF vars, TypeOK, tables, history, Exists
    <2> QED
      BY <2>1, <2>2, <2>3, <2>4, RegistrationTypes, AccessTypes,
         AdministrationTypes, AgeTypes
      DEF Next
  <1> QED
    BY <1>1, <1>2, PTL DEF Spec

-----------------------------------------------------------------------------
(* Reset tokens.                                                           *)

\* A voided token was drawn, so no later token is a voided one.
VoidInv == ResetVoidsTokens /\ void \subseteq drawn

\* Every step but a reset leaves `void' alone; a token of the next state has
\* the identifier of a token of this one, or one that is drawn now.
LEMMA TokenStep ==
    ASSUME TypeOK, [Next]_vars,
           \A t \in tokens, p \in Passwords : ~ResetPassword(t, p)
    PROVE  /\ void' = void /\ drawn \subseteq drawn'
           /\ \A t \in tokens' :
                 (\E s \in tokens : s.id = t.id) \/ t.id \notin drawn
  <1> USE DEF history, tables, Fresh
  <1>1. CASE Registration
    <2>1. ASSUME NEW u \in Users, NEW p \in Passwords, NEW x \in Secrets,
                 ApiRegister(u, p, x)
          PROVE  /\ void' = void /\ drawn \subseteq drawn'
                 /\ tokens' = tokens \cup {EmailToken(x, u, "confirm", "no")}
                 /\ x \notin drawn
      BY <2>1 DEF ApiRegister
    <2>2. ASSUME NEW r \in Reqs, NEW x \in Secrets, IssueToken(r, x)
          PROVE  /\ void' = void /\ drawn \subseteq drawn' /\ x \notin drawn
                 /\ \A t \in tokens' : t \in tokens \/ t.id = x
      BY <2>2 DEF IssueToken, EmailToken
    <2>3. CASE \E r \in Reqs, u \in Users, p \in Passwords : WebRegister(r, u, p)
      BY <2>3 DEF WebRegister
    <2>4. CASE \E r \in Reqs : \E t \in tokens : ConfirmRead(r, t)
      BY <2>4 DEF ConfirmRead
    <2>5. CASE \E r \in Reqs : ConfirmCommit(r)
      BY <2>5 DEF ConfirmCommit
    <2> QED
      BY <1>1, <2>1, <2>2, <2>3, <2>4, <2>5 DEF Registration, EmailToken
  <1>2. CASE Access
    BY <1>2 DEF Access, CheckPassword, CreateSession, PairDevice, DropSession,
                DropDevice, ForgotRead
  <1>3. CASE Administration
    BY <1>3 DEF Administration, CreateUser, ConfirmUser, ToggleUser, SetBlocked,
                BlockRead, BlockCommit, ApiReset, BrowserReset, StoreSecret,
                TakeSecret, DeleteUser, RowsKept
  <1>4. CASE Age
    <2>1. \A t \in tokens : [t EXCEPT !.old = TRUE].id = t.id
      BY DEF TypeOK, Token
    <2> QED
      BY <1>4, <2>1 DEF Age, Older
  <1>5. CASE Cleanup \/ Crash \/ (\E r \in Reqs : Fail(r)) \/ UNCHANGED vars
    BY <1>5 DEF Cleanup, Crash, Fail, vars
  <1> QED
    BY <1>1, <1>2, <1>3, <1>4, <1>5 DEF Next

LEMMA VoidedTokens ==
    ASSUME TypeOK, VoidInv,
           NEW t \in tokens, NEW p \in Passwords, ResetPassword(t, p)
    PROVE  VoidInv'
  <1>1. void' = void \cup {x.id : x \in ResetTokensOf(t.user)}
    BY DEF ResetPassword
  <1>2. tokens' = tokens \ ResetTokensOf(t.user) /\ drawn' = drawn
    BY DEF ResetPassword, Voided
  <1>3. \A s \in tokens' : s.id \notin void'
    BY <1>1, <1>2 DEF TypeOK, VoidInv, ResetVoidsTokens, ResetTokensOf
  <1>4. void' \subseteq drawn'
    BY <1>1, <1>2 DEF TypeOK, VoidInv, ResetTokensOf
  <1> QED
    BY <1>3, <1>4 DEF VoidInv, ResetVoidsTokens

\* After a password is reset no link mailed for the account before it works.
THEOREM LinksDieWithReset == Spec => []ResetVoidsTokens
  <1>1. Init => VoidInv
    BY DEF Init, VoidInv, ResetVoidsTokens
  <1>2. TypeOK /\ VoidInv /\ [Next]_vars => VoidInv'
    <2> SUFFICES ASSUME TypeOK, VoidInv, [Next]_vars
                 PROVE  VoidInv'
      OBVIOUS
    <2>1. CASE \E t \in tokens, p \in Passwords : ResetPassword(t, p)
      BY <2>1, VoidedTokens
    <2>2. CASE \A t \in tokens, p \in Passwords : ~ResetPassword(t, p)
      BY <2>2, TokenStep DEF VoidInv, ResetVoidsTokens
    <2> QED
      BY <2>1, <2>2
  <1>3. VoidInv => ResetVoidsTokens
    BY DEF VoidInv
  <1> QED
    BY <1>1, <1>2, <1>3, TypeCorrect, PTL DEF Spec

-----------------------------------------------------------------------------
(* Rows of deleted users.                                                  *)

\* The requests that write rows found the account, or know better by now.
Writing == {"register", "forgot", "login", "pair"}

RowsInv ==
    /\ RowsEndWithUser
    /\ \A r \in Reqs :
          call[r] # None /\ call[r].op \in Writing =>
              call[r].raced = "gone" \/ Exists(call[r].user)

\* What every step does to the accounts, the rows and the requests that write
\* rows, but for the step that deletes a user.
AccountsKept == \A u \in Users : Exists(u) => Exists(u)'

RowsTraced ==
    \A row \in tokens' \cup sessions' \cup devices' :
        \/ \E old \in tokens \cup sessions \cup devices :
              old.user = row.user /\ old.raced = row.raced
        \/ Exists(row.user)' /\ row.user \in Users
        \/ \E r \in Reqs :
              /\ call[r] # None /\ call[r].op \in Writing
              /\ row.user = call[r].user /\ row.raced = call[r].raced

CallsTraced ==
    \A r \in Reqs :
        call'[r] # None /\ call'[r].op \in Writing =>
            \/ Exists(call[r].user)'
            \/ /\ call[r] # None /\ call[r].op \in Writing
               /\ call[r].user = call'[r].user
               /\ call'[r].raced = "gone" \/ call[r].raced # "gone"

RowsStep == AccountsKept /\ RowsTraced /\ CallsTraced

LEMMA RowsOfRegistration ==
    ASSUME TypeOK, Registration
    PROVE  RowsStep
  <1> USE DEF history, tables, Fresh, Exists, TypeOK
  <1> DEFINE Row(row) ==
          \/ \E old \in tokens \cup sessions \cup devices :
                old.user = row.user /\ old.raced = row.raced
          \/ Exists(row.user)' /\ row.user \in Users
          \/ \E r \in Reqs :
                /\ call[r] # None /\ call[r].op \in Writing
                /\ row.user = call[r].user /\ row.raced = call[r].raced
  <1>0. \A row \in tokens \cup sessions \cup devices : Row(row)
    OBVIOUS
  <1>1. ASSUME NEW u \in Users, NEW p \in Passwords, NEW x \in Secrets,
               ApiRegister(u, p, x)
        PROVE  RowsStep
    <2>1. PICK a \in Account : account' = [account EXCEPT ![u] = a]
      BY <1>1, NewAccountType DEF ApiRegister, Password
    <2>2. \A w \in Users : Exists(w) \/ w = u => Exists(w)'
      BY <2>1, NoneIsNew
    <2>3. Row(EmailToken(x, u, "confirm", "no"))
      BY <2>2 DEF EmailToken
    <2> HIDE DEF Row
    <2>4. \A row \in tokens' \cup sessions' \cup devices' : Row(row)
      BY <1>0, <1>1, <2>3 DEF ApiRegister
    <2>5. call' = call
      BY <1>1 DEF ApiRegister
    <2> QED
      BY <2>2, <2>4, <2>5 DEF RowsStep, AccountsKept, RowsTraced, CallsTraced, Row
  <1>2. ASSUME NEW r \in Reqs, NEW u \in Users, NEW p \in Passwords,
               WebRegister(r, u, p)
        PROVE  RowsStep
    <2>1. NewAccount(p, FALSE) # None
      BY NewAccountType, NoneIsNew DEF Password
    <2>2. \A w \in Users : Exists(w) \/ w = u => Exists(w)'
      BY <1>2, <2>1 DEF WebRegister
    <2>3. \A row \in tokens' \cup sessions' \cup devices' : Row(row)
      BY <1>2 DEF WebRegister
    <2>4. call' = [call EXCEPT ![r] = Request("register", u, None, None)]
      BY <1>2 DEF WebRegister
    <2>5. Request("register", u, None, None).user = u
      BY DEF Request
    <2>6. \A q \in Reqs : call'[q] = call[q] \/ call'[q].user = u
      BY <2>4, <2>5
    <2>7. CallsTraced
      BY <2>2, <2>6 DEF CallsTraced
    <2>8. AccountsKept /\ RowsTraced
      BY <2>2, <2>3 DEF AccountsKept, RowsTraced
    <2> QED
      BY <2>7, <2>8 DEF RowsStep
  <1>3. ASSUME NEW r \in Reqs, NEW x \in Secrets, IssueToken(r, x)
        PROVE  RowsStep
    <2> DEFINE t == EmailToken(x, call[r].user,
                        IF call[r].op = "register" THEN "confirm" ELSE "reset",
                        call[r].raced)
    <2>1. t.user = call[r].user /\ t.raced = call[r].raced
      BY DEF EmailToken
    <2>2. /\ tokens' = tokens \cup {t}
          /\ UNCHANGED <<sessions, devices>>
      BY <1>3 DEF IssueToken
    <2>3. call[r] # None /\ call[r].op \in Writing
      BY <1>3 DEF IssueToken, InFlight, Writing
    <2> HIDE DEF t
    <2>4. \A row \in tokens' \cup sessions' \cup devices' : Row(row)
      BY <2>1, <2>2, <2>3
    <2>5. \A w \in Users : Exists(w) => Exists(w)'
      <3>1. call[r].user \in Users
        BY <2>3, CallFields
      <3>2. Exists(call[r].user) =>
                [account[call[r].user] EXCEPT !.token = TRUE] \in Account
        BY <3>1, AccountTypes, AccountColumns
      <3> QED
        BY <1>3, <3>1, <3>2, NoneIsNew DEF IssueToken
    <2>6. call' = Done(r)
      BY <1>3 DEF IssueToken
    <2> QED
      BY <2>4, <2>5, <2>6 DEF RowsStep, AccountsKept, RowsTraced, CallsTraced, Done
  <1>4. ASSUME NEW r \in Reqs, NEW t \in tokens, ConfirmRead(r, t)
        PROVE  RowsStep
    <2>1. call' = [call EXCEPT ![r] = Request("confirm", t.user, None, t.id)]
      BY <1>4 DEF ConfirmRead
    <2>2. Request("confirm", t.user, None, t.id).op \notin Writing
      BY DEF Request, Writing
    <2>3. UNCHANGED tables
      BY <1>4 DEF ConfirmRead
    <2> QED
      BY <2>1, <2>2, <2>3
      DEF RowsStep, AccountsKept, RowsTraced, CallsTraced
  <1>5. ASSUME NEW r \in Reqs, ConfirmCommit(r)
        PROVE  RowsStep
    <2>1. call[r].user \in Users
      BY <1>5, CallFields DEF ConfirmCommit, InFlight
    <2>2. Exists(call[r].user) =>
              [account[call[r].user] EXCEPT !.confirmed = TRUE] \in Account
      BY <2>1, AccountTypes, AccountColumns
    <2>3. \A w \in Users : Exists(w) => Exists(w)'
      BY <1>5, <2>1, <2>2, NoneIsNew DEF ConfirmCommit
    <2>4. \A row \in tokens' \cup sessions' \cup devices' : Row(row)
      BY <1>5 DEF ConfirmCommit
    <2>5. call' = Done(r)
      BY <1>5 DEF ConfirmCommit
    <2> QED
      BY <2>3, <2>4, <2>5 DEF RowsStep, AccountsKept, RowsTraced, CallsTraced, Done
  <1> QED
    BY <1>1, <1>2, <1>3, <1>4, <1>5 DEF Registration

LEMMA RowsOfAccess ==
    ASSUME TypeOK, Access
    PROVE  RowsStep
  <1> USE DEF history, tables, Fresh, Exists, TypeOK
  <1>1. ASSUME NEW r \in Reqs, NEW u \in Users, NEW op \in {"login", "pair"},
               CheckPassword(r, u, op)
        PROVE  RowsStep
    <2>1. call' = [call EXCEPT ![r] = Request(op, u, account[u].pw, None)]
      BY <1>1 DEF CheckPassword
    <2>2. Request(op, u, account[u].pw, None).user = u
      BY DEF Request
    <2>3. \A q \in Reqs : call'[q] = call[q] \/ call'[q].user = u
      BY <2>1, <2>2
    <2>4. UNCHANGED tables /\ Exists(u)
      BY <1>1 DEF CheckPassword, Admitted
    <2>5. CallsTraced
      BY <2>3, <2>4 DEF CallsTraced
    <2>6. AccountsKept /\ RowsTraced
      BY <2>4 DEF AccountsKept, RowsTraced
    <2> QED
      BY <2>5, <2>6 DEF RowsStep
  <1>2. ASSUME NEW r \in Reqs, NEW x \in Secrets,
               CreateSession(r, x) \/ PairDevice(r, x)
        PROVE  RowsStep
    <2>1. /\ call[r] # None /\ call[r].op \in Writing
          /\ account' = account /\ call' = Done(r)
      BY <1>2 DEF CreateSession, PairDevice, InFlight, Writing
    <2>2. ASSUME NEW row \in tokens' \cup sessions' \cup devices',
                 row \notin tokens \cup sessions \cup devices
          PROVE  row.user = call[r].user /\ row.raced = call[r].raced
      BY <1>2, <2>2 DEF CreateSession, PairDevice
    <2> QED
      BY <2>1, <2>2 DEF RowsStep, AccountsKept, RowsTraced, CallsTraced, Done
  <1>3. ASSUME NEW s \in sessions, DropSession(s)
        PROVE  RowsStep
    BY <1>3 DEF DropSession, RowsStep, AccountsKept, RowsTraced, CallsTraced
  <1>4. ASSUME NEW r \in Reqs, NEW u \in Users, ForgotRead(r, u)
        PROVE  RowsStep
    <2>1. call' = [call EXCEPT ![r] = Request("forgot", u, None, None)]
      BY <1>4 DEF ForgotRead
    <2>2. Request("forgot", u, None, None).user = u
      BY DEF Request
    <2>3. \A q \in Reqs : call'[q] = call[q] \/ call'[q].user = u
      BY <2>1, <2>2
    <2>4. UNCHANGED tables /\ Exists(u)
      BY <1>4 DEF ForgotRead
    <2>5. CallsTraced
      BY <2>3, <2>4 DEF CallsTraced
    <2>6. AccountsKept /\ RowsTraced
      BY <2>4 DEF AccountsKept, RowsTraced
    <2> QED
      BY <2>5, <2>6 DEF RowsStep
  <1>5. ASSUME NEW t \in tokens, NEW p \in Passwords, ResetPassword(t, p)
        PROVE  RowsStep
    <2>1. t.user \in Users
      BY DEF Token
    <2>2. [account[t.user] EXCEPT !.pw = p, !.by = "owner"] # None
      BY <1>5, <2>1, AccountTypes, AccountColumns, NoneIsNew
      DEF ResetPassword, Password
    <2>3. account' = [account EXCEPT
              ![t.user] = [account[t.user] EXCEPT !.pw = p, !.by = "owner"]]
      BY <1>5, <2>1 DEF ResetPassword
    <2>4. \A u \in Users : Exists(u) => Exists(u)'
      BY <2>1, <2>2, <2>3
    <2> QED
      BY <1>5, <2>4 DEF ResetPassword, RowsStep, AccountsKept, RowsTraced, CallsTraced
  <1>6. ASSUME NEW d \in devices, DropDevice(d)
        PROVE  RowsStep
    BY <1>6 DEF DropDevice, RowsStep, AccountsKept, RowsTraced, CallsTraced
  <1> QED
    BY <1>1, <1>2, <1>3, <1>4, <1>5, <1>6 DEF Access

\* Changing the columns of an account keeps the accounts there are.
LEMMA ColumnsKeepAccounts ==
    ASSUME TypeOK, NEW u \in Users, NEW a \in Account,
           account' = [account EXCEPT ![u] = a] \/ account' = account
    PROVE  \A w \in Users : Exists(w) => Exists(w)'
  BY NoneIsNew DEF TypeOK, Exists

LEMMA RowsOfBlocking ==
    ASSUME TypeOK, NEW u \in Users, NEW b \in BOOLEAN, SetBlocked(u, b),
           \A r \in Reqs :
               call'[r] # None =>
                   /\ call[r] # None
                   /\ call'[r].user = call[r].user /\ call'[r].op = call[r].op
                   /\ call'[r].raced = "gone" \/ call[r].raced # "gone"
    PROVE  RowsStep
  <1>1. CASE Exists(u)
    <2>1. [account[u] EXCEPT !.blocked = b] \in Account
      BY <1>1, AccountTypes, AccountColumns
    <2>2. \A w \in Users : Exists(w) => Exists(w)'
      BY <1>1, <2>1, ColumnsKeepAccounts DEF SetBlocked
    <2> QED
      BY <2>2 DEF SetBlocked, RowsStep, AccountsKept, RowsTraced, CallsTraced
  <1>2. CASE ~Exists(u)
    <2>1. account' = account
      BY <1>2 DEF SetBlocked
    <2> QED
      BY <2>1 DEF SetBlocked, RowsStep, AccountsKept, RowsTraced, CallsTraced, Exists
  <1> QED
    BY <1>1, <1>2

\* A request that is marked, or over, is traced to itself.
LEMMA MarkedCalls ==
    ASSUME TypeOK, NEW u \in Users, NEW r \in Reqs
    PROVE  \A q \in Reqs :
              LET marked == [Raced(u, "wiped") EXCEPT ![r] = None]
              IN  \A f \in {Raced(u, "wiped"), marked} :
                      f[q] # None =>
                          /\ call[q] # None
                          /\ f[q].user = call[q].user /\ f[q].op = call[q].op
                          /\ f[q].raced = "gone" \/ call[q].raced # "gone"
  <1>1. ASSUME NEW q \in Reqs, NEW f \in [Reqs -> Call \cup {None}],
               f[q] # None, f[q] = Raced(u, "wiped")[q]
        PROVE  /\ call[q] # None
               /\ f[q].user = call[q].user /\ f[q].op = call[q].op
               /\ f[q].raced = "gone" \/ call[q].raced # "gone"
    <2>1. call[q] # None /\ f[q].user = call[q].user /\ f[q].op = call[q].op
      BY <1>1, RacedCalls DEF Races
    <2>2. call[q].raced = "gone" => Raced(u, "wiped")[q] = call[q]
      BY DEF Raced
    <2> QED
      BY <1>1, <2>1, <2>2
  <1>2. Raced(u, "wiped") \in [Reqs -> Call \cup {None}]
    BY RacedCalls DEF Races
  <1> QED
    BY <1>1, <1>2

LEMMA RowsOfAdministration ==
    ASSUME TypeOK, Administration, \A u \in Users : ~DeleteUser(u)
    PROVE  RowsStep
  <1> USE DEF history, tables, TypeOK
  <1>1. ASSUME NEW u \in Users, NEW p \in Passwords, CreateUser(u, p)
        PROVE  RowsStep
    <2>1. NewAccount(p, TRUE) \in Account
      BY NewAccountType DEF Password
    <2>2. AccountsKept
      BY <1>1, <2>1, ColumnsKeepAccounts DEF CreateUser, AccountsKept
    <2> QED
      BY <1>1, <2>2 DEF CreateUser, RowsStep, RowsTraced, CallsTraced
  <1>2. ASSUME NEW u \in Users, ConfirmUser(u)
        PROVE  RowsStep
    <2>1. [account[u] EXCEPT !.confirmed = TRUE] \in Account
      BY <1>2, AccountTypes, AccountColumns DEF ConfirmUser
    <2>2. AccountsKept
      BY <1>2, <2>1, ColumnsKeepAccounts DEF ConfirmUser, AccountsKept
    <2> QED
      BY <1>2, <2>2 DEF ConfirmUser, RowsStep, RowsTraced, CallsTraced
  <1>3. ASSUME NEW u \in Users, ToggleUser(u)
        PROVE  RowsStep
    <2>1. account[u].blocked \in BOOLEAN
      BY <1>3, AccountTypes, AccountColumns DEF ToggleUser
    <2>2. \A r \in Reqs :
              call'[r] # None =>
                  /\ call[r] # None
                  /\ call'[r].user = call[r].user /\ call'[r].op = call[r].op
                  /\ call'[r].raced = "gone" \/ call[r].raced # "gone"
      BY <1>3, MarkedCalls DEF ToggleUser
    <2> QED
      BY <1>3, <2>1, <2>2, RowsOfBlocking DEF ToggleUser
  <1>4. ASSUME NEW r \in Reqs, NEW u \in Users, BlockRead(r, u)
        PROVE  RowsStep
    <2>1. Request("block", u, None, ~account[u].blocked).op \notin Writing
      BY DEF Request, Writing
    <2>2. CallsTraced
      BY <1>4, <2>1 DEF BlockRead, CallsTraced
    <2> QED
      BY <1>4, <2>2 DEF BlockRead, RowsStep, RowsTraced, AccountsKept, Exists
  <1>5. ASSUME NEW r \in Reqs, BlockCommit(r)
        PROVE  RowsStep
    <2>1. call[r].user \in Users /\ call[r].key \in BOOLEAN
      BY <1>5, CallFields DEF BlockCommit, InFlight
    <2>2. \A q \in Reqs :
              call'[q] # None =>
                  /\ call[q] # None
                  /\ call'[q].user = call[q].user /\ call'[q].op = call[q].op
                  /\ call'[q].raced = "gone" \/ call[q].raced # "gone"
      BY <1>5, <2>1, MarkedCalls DEF BlockCommit
    <2> QED
      BY <1>5, <2>1, <2>2, RowsOfBlocking DEF BlockCommit
  <1>6. ASSUME NEW u \in Users, NEW x \in Secrets, ApiReset(u, x)
        PROVE  RowsStep
    <2>1. [account[u] EXCEPT !.pw = x, !.by = "api"] \in Account
      BY <1>6, AccountTypes, AccountColumns DEF ApiReset, Password
    <2>2. account' = [account EXCEPT
                         ![u] = [account[u] EXCEPT !.pw = x, !.by = "api"]]
      BY <1>6 DEF ApiReset
    <2>3. AccountsKept
      BY <2>1, <2>2, ColumnsKeepAccounts DEF AccountsKept
    <2> QED
      BY <1>6, <2>3 DEF ApiReset, RowsStep, RowsTraced, CallsTraced
  <1>7. ASSUME NEW r \in Reqs, NEW a \in Admins, NEW u \in Users,
               NEW x \in Secrets, BrowserReset(r, a, u, x)
        PROVE  RowsStep
    <2>1. ASSUME Exists(u)
          PROVE  AccountsKept
      <3>1. [account[u] EXCEPT !.pw = x, !.by = "browser"] \in Account
        BY <2>1, AccountTypes, AccountColumns DEF Password
      <3>2. account' = [account EXCEPT
                ![u] = [account[u] EXCEPT !.pw = x, !.by = "browser"]]
        BY <1>7, <2>1 DEF BrowserReset
      <3> QED
        BY <3>1, <3>2, ColumnsKeepAccounts DEF AccountsKept
    <2>2. ~Exists(u) => AccountsKept
      BY <1>7 DEF BrowserReset, AccountsKept, Exists
    <2>3. RowsTraced
      BY <1>7 DEF BrowserReset, RowsTraced, Wiped
    <2>4. Request("reset", u, x, a).op \notin Writing
      BY DEF Request, Writing
    <2>5. \A q \in Reqs : call'[q] = Request("reset", u, x, a)
                            \/ call'[q] = Raced(u, "wiped")[q]
      BY <1>7 DEF BrowserReset, Raced
    <2>6. CallsTraced
      BY <2>4, <2>5, MarkedCalls DEF CallsTraced
    <2> QED
      BY <2>1, <2>2, <2>3, <2>6 DEF RowsStep
  <1>8. ASSUME NEW r \in Reqs, StoreSecret(r)
        PROVE  RowsStep
    BY <1>8 DEF StoreSecret, Done, RowsStep, AccountsKept, RowsTraced,
                CallsTraced, Exists
  <1>9. ASSUME NEW a \in Admins, TakeSecret(a)
        PROVE  RowsStep
    BY <1>9 DEF TakeSecret, RowsStep, AccountsKept, RowsTraced, CallsTraced, Exists
  <1> QED
    BY <1>1, <1>2, <1>3, <1>4, <1>5, <1>6, <1>7, <1>8, <1>9 DEF Administration

LEMMA RowsOfTime ==
    ASSUME TypeOK, Age \/ Cleanup \/ Crash \/ (\E r \in Reqs : Fail(r))
                      \/ UNCHANGED vars
    PROVE  RowsStep
  <1> USE DEF history, tables, RowsStep, AccountsKept, RowsTraced, CallsTraced,
              Exists
  <1>1. CASE Age
    <2>1. /\ \A t \in tokens : /\ [t EXCEPT !.old = TRUE].user = t.user
                               /\ [t EXCEPT !.old = TRUE].raced = t.raced
          /\ \A s \in sessions : /\ [s EXCEPT !.old = TRUE].user = s.user
                                 /\ [s EXCEPT !.old = TRUE].raced = s.raced
      BY DEF TypeOK, Token, Session
    <2>2. /\ \A row \in tokens' : \E old \in tokens :
                 old.user = row.user /\ old.raced = row.raced
          /\ \A row \in sessions' : \E old \in sessions :
                 old.user = row.user /\ old.raced = row.raced
      BY <1>1, <2>1 DEF Age, Older
    <2>3. UNCHANGED <<account, devices, call>>
      BY <1>1 DEF Age
    <2> QED
      BY <2>2, <2>3
  <1>2. CASE Cleanup
    BY <1>2 DEF Cleanup
  <1>3. CASE Crash
    BY <1>3 DEF Crash
  <1>4. ASSUME NEW r \in Reqs, Fail(r)
        PROVE  RowsStep
    <2>1. UNCHANGED tables
      BY <1>4 DEF Fail
    <2>2. \A q \in Reqs : call'[q] # None => call'[q] = call[q]
      BY <1>4 DEF Fail, Done, TypeOK
    <2> QED
      BY <2>1, <2>2
  <1>5. CASE UNCHANGED vars
    BY <1>5 DEF vars
  <1> QED
    BY <1>1, <1>2, <1>3, <1>4, <1>5

LEMMA RowsOfDeletion ==
    ASSUME TypeOK, RowsInv, NEW u \in Users, DeleteUser(u)
    PROVE  RowsInv'
  <1>1. \A w \in Users : w # u => (Exists(w) <=> Exists(w)')
    BY DEF DeleteUser, Exists, TypeOK
  <1>2. RowsEndWithUser'
    <2>1. \A row \in tokens \cup sessions \cup devices : row.user \in Users
      BY DEF TypeOK, Token, Session, Device
    <2>2. \A row \in tokens' \cup sessions' \cup devices' :
              row \in tokens \cup sessions \cup devices /\ row.user # u
      BY DEF DeleteUser, RowsKept
    <2> QED
      BY <1>1, <2>1, <2>2 DEF RowsInv, RowsEndWithUser
  <1>3. ASSUME NEW r \in Reqs, call'[r] # None, call'[r].op \in Writing
        PROVE  call'[r].raced = "gone" \/ Exists(call[r].user)'
    <2>1. call' = Raced(u, "gone")
      BY DEF DeleteUser
    <2>2. /\ call[r] # None /\ call[r].op \in Writing
          /\ call'[r].user = call[r].user
          /\ call[r].raced = "gone" => call'[r].raced = "gone"
          /\ call[r].user = u => call'[r].raced = "gone"
      BY <1>3, <2>1, RacedCalls DEF Races
    <2>3. call[r].user \in Users
      BY <2>2, CallFields
    <2> QED
      BY <1>1, <2>2, <2>3 DEF RowsInv, DeleteUser
  <1> QED
    BY <1>2, <1>3 DEF RowsInv

\* After a user is deleted no row of the user is left or comes back, but for
\* what requests in flight at that moment write.
THEOREM DeletionIsFinal == Spec => []RowsEndWithUser
  <1>1. Init => RowsInv
    BY DEF Init, RowsInv, RowsEndWithUser
  <1>2. TypeOK /\ RowsInv /\ [Next]_vars => RowsInv'
    <2> SUFFICES ASSUME TypeOK, RowsInv, [Next]_vars
                 PROVE  RowsInv'
      OBVIOUS
    <2>1. CASE \E u \in Users : DeleteUser(u)
      BY <2>1, RowsOfDeletion
    <2>2. CASE \A u \in Users : ~DeleteUser(u)
      <3>1. RowsStep
        BY <2>2, RowsOfRegistration, RowsOfAccess, RowsOfAdministration, RowsOfTime
        DEF Next
      <3>2. RowsEndWithUser'
        <4>1. \A r \in Reqs : call[r] # None => call[r].user \in Users
          BY CallFields
        <4>2. \A row \in tokens \cup sessions \cup devices : row.user \in Users
          BY DEF TypeOK, Token, Session, Device
        <4> QED
          BY <3>1, <4>1, <4>2
          DEF RowsStep, RowsTraced, AccountsKept, RowsInv, RowsEndWithUser
      <3>3. \A r \in Reqs :
                call'[r] # None /\ call'[r].op \in Writing =>
                    call'[r].raced = "gone" \/ Exists(call[r].user)'
        <4>1. \A r \in Reqs : call[r] # None => call[r].user \in Users
          BY CallFields
        <4> QED
          BY <3>1, <4>1 DEF RowsStep, CallsTraced, AccountsKept, RowsInv
      <3> QED
        BY <3>2, <3>3 DEF RowsInv
    <2> QED
      BY <2>1, <2>2
  <1>3. RowsInv => RowsEndWithUser
    BY DEF RowsInv
  <1> QED
    BY <1>1, <1>2, <1>3, TypeCorrect, PTL DEF Spec
=============================================================================
