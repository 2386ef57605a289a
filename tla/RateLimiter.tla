---------------------------- MODULE RateLimiter ----------------------------
(***************************************************************************)
(* The in-memory rate limiter that guards pairing, login, registration and *)
(* the reset forms: a map of fixed-window buckets behind a mutex, shared   *)
(* by all actions although their windows differ.                           *)
(*                                                                         *)
(* A guarded request first cleans the map up, then consumes an attempt of  *)
(* its address and, when it names one, of its account.  Each of the three  *)
(* reads the clock before it takes the mutex, so the time it works with    *)
(* may be behind that of a request it lets pass.                           *)
(***************************************************************************)
EXTENDS Naturals, Sequences, FiniteSets

CONSTANTS
    Actions,          \* the keys of ratePolicies
    Limit, Window,    \* the policy of each action
    Addresses,        \* what clientIP returns
    Accounts,         \* hashed account names
    MaxBuckets,       \* maxRateLimitBuckets
    Lag,              \* longest wait between the clock and the mutex
    Reqs, MaxTime

ASSUME PolicyAssumption == /\ Limit \in [Actions -> Nat \ {0}]
                           /\ Window \in [Actions -> Nat \ {0}]
ASSUME BoundAssumption == MaxBuckets \in Nat \ {0} /\ Lag \in Nat /\ MaxTime \in Nat

\* "<action>:ip:<address>" and "<action>:account:<hash>"
Keys == Actions \X (({"ip"} \X Addresses) \cup ({"account"} \X Accounts))
WindowOf(key) == Window[key[1]]
LimitOf(key) == Limit[key[1]]

VARIABLES
    now,      \* the clock
    buckets,  \* the map: a function on the keys it holds
    jobs,     \* each request: what it has still to do; empty when idle
    stamp,    \* the time its current job has read
    timed,    \* it has read the clock and waits for the mutex
    wait,     \* what it was told: 0, or the wait when it was denied
    opened,   \* history: when the policy's current window of a key began
    given     \* history: attempts the key was allowed in that window

vars == <<now, buckets, jobs, stamp, timed, wait, opened, given>>
history == <<opened, given>>

Bucket == [count : Nat, start : Nat, seen : Nat]
Purge(action) == [op |-> "purge", action |-> action]
Attempt(key) == [op |-> "attempt", key |-> key]
Job == {Purge(a) : a \in Actions} \cup {Attempt(k) : k \in Keys}

Init ==
    /\ now = 0
    /\ buckets = [k \in {} |-> 0]
    /\ jobs = [r \in Reqs |-> <<>>]
    /\ stamp = [r \in Reqs |-> 0]
    /\ timed = [r \in Reqs |-> FALSE]
    /\ wait = [r \in Reqs |-> 0]
    /\ opened = [k \in Keys |-> 0]
    /\ given = [k \in Keys |-> 0]

\* Time passes; Lag bounds how long a request waits for the mutex.
Tick ==
    /\ now < MaxTime
    /\ \A r \in Reqs : timed[r] => now + 1 <= stamp[r] + Lag
    /\ now' = now + 1
    /\ UNCHANGED <<buckets, jobs, stamp, timed, wait, history>>

\* rateRetryAfter(action, account): the address, then the account if any.
Arrive(r, action, address) ==
    /\ jobs[r] = <<>>
    /\ LET first == <<Purge(action), Attempt(<<action, <<"ip", address>>>>)>>
       IN \/ jobs' = [jobs EXCEPT ![r] = first]
          \/ \E account \in Accounts :
                jobs' = [jobs EXCEPT ![r] = Append(first,
                            Attempt(<<action, <<"account", account>>>>))]
    /\ wait' = [wait EXCEPT ![r] = 0]
    /\ UNCHANGED <<now, buckets, stamp, timed, history>>

ReadClock(r) ==
    /\ jobs[r] # <<>> /\ ~timed[r]
    /\ stamp' = [stamp EXCEPT ![r] = now]
    /\ timed' = [timed EXCEPT ![r] = TRUE]
    /\ UNCHANGED <<now, buckets, jobs, wait, history>>

Restricted(map, keys) == [k \in keys |-> map[k]]

\* now.Sub(bucket.LastSeen) > maxAge
Idle(bucket, at, age) == at > bucket.seen + age

\* A faulty CleanupAge: one window after the bucket was last seen, or before.
CleanupAgeHalved(action) == Window[action] \div 2

CleanupAge(action) == 2 * Window[action]

\* Cleanup(2 * policy.Window): the age is that of the action that calls it.
Cleanup(r) ==
    /\ timed[r] /\ Head(jobs[r]).op = "purge"
    /\ LET age == CleanupAge(Head(jobs[r]).action)
       IN buckets' = Restricted(buckets, {k \in DOMAIN buckets :
                                    ~Idle(buckets[k], stamp[r], age)})
    /\ jobs' = [jobs EXCEPT ![r] = Tail(@)]
    /\ timed' = [timed EXCEPT ![r] = FALSE]
    /\ UNCHANGED <<now, stamp, wait, history>>

MustEvict(key) ==
    key \notin DOMAIN buckets /\ Cardinality(DOMAIN buckets) >= MaxBuckets

\* The keys the map may hold once there is room: one of those seen longest
\* ago goes, whichever the map's iteration meets first.
Remaining(key) ==
    IF MustEvict(key)
    THEN {DOMAIN buckets \ {k} : k \in {o \in DOMAIN buckets :
              \A p \in DOMAIN buckets : buckets[o].seen <= buckets[p].seen}}
    ELSE {DOMAIN buckets}

\* A faulty Exhausted: the last attempt of the window is refused.
ExhaustedEarly(bucket, key) == bucket.count + 1 >= LimitOf(key)

Exhausted(bucket, key) == bucket.count >= LimitOf(key)

\* A faulty Over: the window slides with every attempt, allowed or not.
OverSinceSeen(bucket, key, at) == at >= bucket.seen + WindowOf(key)

\* !now.Before(bucket.WindowStart.Add(policy.Window))
Over(bucket, key, at) == at >= bucket.start + WindowOf(key)

Current(key, at) ==
    IF key \in DOMAIN buckets /\ ~Over(buckets[key], key, at)
    THEN [buckets[key] EXCEPT !.seen = at]
    ELSE [count |-> 0, start |-> at, seen |-> at]

With(map, keys, key, bucket) ==
    [k \in keys \cup {key} |-> IF k = key THEN bucket ELSE map[k]]

\* The history of the policy itself: windows do not overlap.  One attempt
\* over the limit is enough to tell, so `given' stops there.
Record(key, at) ==
    \/ /\ given[key] = 0 \/ at >= opened[key] + WindowOf(key)
       /\ opened' = [opened EXCEPT ![key] = at]
       /\ given' = [given EXCEPT ![key] = 1]
    \/ /\ given[key] # 0 /\ at < opened[key] + WindowOf(key)
       /\ given' = [given EXCEPT ![key] =
                        IF @ > LimitOf(key) THEN @ ELSE @ + 1]
       /\ UNCHANGED opened

\* A faulty Rest: a whole window, whenever it began.
RestWhole(bucket, key, at) == WindowOf(key)

\* bucket.WindowStart.Add(policy.Window).Sub(now)
Rest(bucket, key, at) == bucket.start + WindowOf(key) - at

\* Allow(key, policy); the first denial ends the request.
Allow(r) ==
    /\ timed[r] /\ Head(jobs[r]).op = "attempt"
    /\ LET key == Head(jobs[r]).key
           bucket == Current(key, stamp[r])
       IN \E keys \in Remaining(key) :
          \/ /\ Exhausted(bucket, key)
             /\ buckets' = With(buckets, keys, key, bucket)
             /\ wait' = [wait EXCEPT ![r] = Rest(bucket, key, stamp[r])]
             /\ jobs' = [jobs EXCEPT ![r] = <<>>]
             /\ UNCHANGED history
          \/ /\ ~Exhausted(bucket, key)
             /\ buckets' = With(buckets, keys, key,
                                [bucket EXCEPT !.count = @ + 1])
             /\ jobs' = [jobs EXCEPT ![r] = Tail(@)]
             /\ Record(key, stamp[r])
             /\ UNCHANGED wait
    /\ timed' = [timed EXCEPT ![r] = FALSE]
    /\ UNCHANGED <<now, stamp>>

Next ==
    \/ Tick
    \/ \E r \in Reqs :
          \/ \E action \in Actions, address \in Addresses :
                Arrive(r, action, address)
          \/ ReadClock(r) \/ Cleanup(r) \/ Allow(r)

Spec == Init /\ [][Next]_vars

-----------------------------------------------------------------------------
(* Properties.                                                             *)

\* Every variable holds values of its type.
TypeOK ==
    /\ now \in Nat
    /\ DOMAIN buckets \subseteq Keys
    /\ buckets \in [DOMAIN buckets -> Bucket]
    /\ jobs \in [Reqs -> Seq(Job)]
    /\ stamp \in [Reqs -> Nat] /\ \A r \in Reqs : stamp[r] <= now
    /\ timed \in [Reqs -> BOOLEAN]
    /\ wait \in [Reqs -> Nat]
    /\ opened \in [Keys -> Nat] /\ given \in [Keys -> Nat]

\* "RatePolicy is a fixed-window policy" (ratelimit.go): no key is allowed
\* more than Limit attempts in a window, although the buckets that count them
\* are dropped by other requests and clocks are read before the mutex.
LimitKept == \A key \in Keys : given[key] <= LimitOf(key)

\* Nobody is denied who has attempts left in the current window, or whose
\* window is over.
DeniedOnlyAtLimit ==
    [][\A r \in Reqs :
          wait'[r] > wait[r] =>
              LET key == Head(jobs[r]).key
              IN /\ given[key] = LimitOf(key)
                 /\ stamp[r] < opened[key] + WindowOf(key)]_vars

\* The wait a denied request is told ends the window, and is no longer than
\* one window and the time it waited for the mutex.
WaitIsRight ==
    [][\A r \in Reqs :
          wait'[r] > wait[r] =>
              LET key == Head(jobs[r]).key
              IN /\ stamp[r] + wait'[r] = opened[key] + WindowOf(key)
                 /\ wait'[r] <= WindowOf(key) + Lag]_vars

\* The map never holds more buckets than maxRateLimitBuckets, however many
\* addresses and accounts are tried.
MemoryBounded == Cardinality(DOMAIN buckets) <= MaxBuckets
=============================================================================
