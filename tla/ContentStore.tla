---------------------------- MODULE ContentStore ----------------------------
(***************************************************************************)
(* What the blob store promises whoever calls it, without files, temporary *)
(* names, rows, transactions or waiting: each scope has a set of contents, *)
(* every request that is answered took effect in one step while it was     *)
(* under way, no set outgrows its quota, and the log names only what its   *)
(* scope has.                                                              *)
(***************************************************************************)
EXTENDS Naturals

CONSTANTS
    Users, Scopes, Hashes, Reqs, Kinds,
    Size(_),            \* the octets a set of contents takes
    MaxVault, MaxUser,  \* at most as many for a scope and for a user
    MayLose             \* a content may get lost

VARIABLES
    user,     \* each user: "active", or "absent" once deleted
    stored,   \* [scope, hash]: who has which content
    named,    \* [scope, hash]: contents that operations of the log name
    stage,    \* each request: "idle", "asked", "admitted", "granted", "answered"
    ask,      \* what it asks
    answer    \* and what it is answered

vars == <<user, stored, named, stage, ask, answer>>

Asks == [kind : Kinds, scope : Scopes, hash : Hashes]
NoAsk == [kind |-> "none"]

Init ==
    /\ user = [u \in Users |-> "active"]
    /\ stored = {} /\ named = {}
    /\ stage = [r \in Reqs |-> "idle"]
    /\ ask = [r \in Reqs |-> NoAsk]
    /\ answer = [r \in Reqs |-> "none"]

Wanted(r) == [scope |-> ask[r].scope, hash |-> ask[r].hash]

WithinQuotas(set) ==
    /\ \A s \in Scopes : Size({x \in set : x.scope = s}) <= MaxVault
    /\ \A u \in Users : Size({x \in set : x.scope[1] = u}) <= MaxUser

Ends(r, with) ==
    /\ stage' = [stage EXCEPT ![r] = "answered"]
    /\ answer' = [answer EXCEPT ![r] = with]
    /\ UNCHANGED <<user, ask>>

Ask(r) ==
    /\ stage[r] = "idle"
    /\ stage' = [stage EXCEPT ![r] = "asked"]
    /\ \E c \in Asks : ask' = [ask EXCEPT ![r] = c]
    /\ UNCHANGED <<user, stored, named, answer>>

\* Only requests of users there are at that moment go on.
Admit(r) ==
    /\ stage[r] = "asked" /\ user[ask[r].scope[1]] = "active"
    /\ stage' = [stage EXCEPT ![r] = "admitted"]
    /\ UNCHANGED <<user, stored, named, ask, answer>>

Reject(r) ==
    /\ stage[r] = "asked" /\ user[ask[r].scope[1]] # "active"
    /\ Ends(r, "refused") /\ UNCHANGED <<stored, named>>

\* The content is the scope's in the step that answers so, and fits.
Store(r) ==
    /\ stage[r] = "admitted" /\ ask[r].kind = "upload"
    /\ stored' = stored \cup {Wanted(r)}
    /\ WithinQuotas(stored')
    /\ Ends(r, "stored") /\ UNCHANGED named

Grant(r) ==
    /\ stage[r] = "admitted" /\ ask[r].kind = "download"
    /\ Wanted(r) \in stored
    /\ stage' = [stage EXCEPT ![r] = "granted"]
    /\ UNCHANGED <<user, stored, named, ask, answer>>

Serve(r) ==
    /\ stage[r] = "granted"
    /\ Ends(r, "content") /\ UNCHANGED <<stored, named>>

\* A content that was granted is not denied any more.
Lose(r) ==
    /\ MayLose /\ stage[r] = "granted"
    /\ Ends(r, "refused") /\ UNCHANGED <<stored, named>>

Name(r) ==
    /\ stage[r] = "admitted" /\ ask[r].kind = "push"
    /\ Wanted(r) \in stored
    /\ named' = named \cup {Wanted(r)}
    /\ Ends(r, "pushed") /\ UNCHANGED stored

\* An upload may be refused; the others only what their scope does not have.
Refuse(r) ==
    /\ stage[r] = "admitted"
    /\ ask[r].kind # "upload" => Wanted(r) \notin stored
    /\ Ends(r, "refused") /\ UNCHANGED <<stored, named>>

\* An error changes nothing.
Err(r) ==
    /\ stage[r] \in {"asked", "admitted", "granted"}
    /\ Ends(r, "error") /\ UNCHANGED <<stored, named>>

Done(r) ==
    /\ stage[r] = "answered"
    /\ stage' = [stage EXCEPT ![r] = "idle"]
    /\ ask' = [ask EXCEPT ![r] = NoAsk]
    /\ answer' = [answer EXCEPT ![r] = "none"]
    /\ UNCHANGED <<user, stored, named>>

\* A user goes with all contents and operations.
Drop(u) ==
    /\ user[u] = "active"
    /\ user' = [user EXCEPT ![u] = "absent"]
    /\ stored' = {x \in stored : x.scope[1] # u}
    /\ named' = {x \in named : x.scope[1] # u}
    /\ UNCHANGED <<stage, ask, answer>>

\* A crash ends the requests and takes nothing that was stored.
Crash ==
    /\ stage' = [r \in Reqs |-> "idle"]
    /\ ask' = [r \in Reqs |-> NoAsk]
    /\ answer' = [r \in Reqs |-> "none"]
    /\ UNCHANGED <<user, stored, named>>

Next ==
    \/ \E r \in Reqs :
          \/ Ask(r) \/ Admit(r) \/ Reject(r)
          \/ Store(r) \/ Grant(r) \/ Serve(r) \/ Lose(r) \/ Name(r)
          \/ Refuse(r) \/ Err(r) \/ Done(r)
    \/ \E u \in Users : Drop(u)
    \/ Crash

Spec == Init /\ [][Next]_vars
=============================================================================
