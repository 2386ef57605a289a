------------------------- MODULE RateLimiterProofs -------------------------
(***************************************************************************)
(* What is proved of RateLimiter: for which policies the buckets of a map  *)
(* that every action cleans up still count what each policy allows.        *)
(***************************************************************************)
EXTENDS RateLimiter, FiniteSetTheorems, TLAPS

\* A record of either kind is told by its op.
LEMMA JobKinds ==
    /\ \A j \in Job : j.op = "purge" => j.action \in Actions
    /\ \A j \in Job : j.op = "attempt" => j.key \in Keys
    /\ \A a \in Actions : Purge(a) \in Job
    /\ \A k \in Keys : Attempt(k) \in Job
  <1> USE DEF Job, Purge, Attempt
  <1>1. ASSUME NEW j \in Job
        PROVE  \/ j.op = "purge" /\ j.action \in Actions
               \/ j.op = "attempt" /\ j.key \in Keys
    <2>1. CASE \E a \in Actions : j = Purge(a)
      BY <2>1
    <2>2. CASE \E k \in Keys : j = Attempt(k)
      BY <2>2
    <2> QED BY <2>1, <2>2
  <1>2. \A a \in Actions : Purge(a) \in Job
    OBVIOUS
  <1>3. \A k \in Keys : Attempt(k) \in Job
    OBVIOUS
  <1> QED BY <1>1, <1>2, <1>3

\* A key has its policy.
LEMMA PolicyOfKey ==
    \A k \in Keys : WindowOf(k) \in Nat \ {0} /\ LimitOf(k) \in Nat \ {0}
  BY PolicyAssumption DEF Keys, WindowOf, LimitOf

\* A request that waits for the mutex has a job and a clock that lags little.
TimedOK ==
    \A r \in Reqs : timed[r] => jobs[r] # <<>> /\ now <= stamp[r] + Lag

\* Each bucket counts no more than its limit and is never new and empty.
CountOK ==
    \A k \in DOMAIN buckets :
        /\ buckets[k].count \in 1..LimitOf(k)
        /\ buckets[k].start <= now
        /\ buckets[k].start <= buckets[k].seen + Lag

TypeInv == TypeOK /\ TimedOK /\ CountOK

\* What Allow makes of a bucket before it decides.
LEMMA CurrentType ==
    ASSUME TypeInv, NEW r \in Reqs, timed[r], NEW key \in Keys
    PROVE  /\ Current(key, stamp[r]) \in Bucket
           /\ Current(key, stamp[r]).count <= LimitOf(key)
           /\ Current(key, stamp[r]).seen = stamp[r]
           /\ Current(key, stamp[r]).start <= now
           /\ Current(key, stamp[r]).start <= stamp[r] + Lag
           /\ stamp[r] < Current(key, stamp[r]).start + WindowOf(key)
  <1> USE PolicyOfKey, BoundAssumption
  <1> USE DEF TypeInv, TypeOK, TimedOK, CountOK, Bucket, Current, Over
  <1>1. CASE key \in DOMAIN buckets /\ ~Over(buckets[key], key, stamp[r])
    BY <1>1
  <1>2. CASE ~(key \in DOMAIN buckets /\ ~Over(buckets[key], key, stamp[r]))
    <2>1. Current(key, stamp[r]) =
            [count |-> 0, start |-> stamp[r], seen |-> stamp[r]]
      BY <1>2
    <2>2. stamp[r] \in Nat /\ stamp[r] <= now
      OBVIOUS
    <2> QED BY <2>1, <2>2
  <1> QED BY <1>1, <1>2

\* Making room keeps a subset of the map's keys.
LEMMA RemainingSubset ==
    \A key : \A keys \in Remaining(key) : keys \subseteq DOMAIN buckets
  BY DEF Remaining

\* An attempt keeps the types, in both outcomes.
LEMMA AllowType ==
    ASSUME TypeInv, NEW r \in Reqs, Allow(r)
    PROVE  TypeInv'
  <1> DEFINE key == Head(jobs[r]).key
             bucket == Current(key, stamp[r])
  <1>1. /\ timed[r] /\ jobs[r] # <<>> /\ jobs[r] \in Seq(Job)
        /\ key \in Keys /\ Tail(jobs[r]) \in Seq(Job)
    BY JobKinds DEF Allow, Rest, TypeInv, TypeOK, TimedOK
  <1>2. /\ bucket \in Bucket /\ bucket.count <= LimitOf(key)
        /\ bucket.seen = stamp[r] /\ bucket.start <= now
        /\ bucket.start <= stamp[r] + Lag
        /\ stamp[r] < bucket.start + WindowOf(key)
    BY <1>1, CurrentType
  <1>3. /\ timed' = [timed EXCEPT ![r] = FALSE]
        /\ now' = now /\ stamp' = stamp
    BY DEF Allow, Rest
  <1>4. ASSUME NEW keys \in Remaining(key), NEW b \in Bucket,
               buckets' = With(buckets, keys, key, b),
               b.count \in 1..LimitOf(key), b.start = bucket.start,
               b.seen = bucket.seen
        PROVE  /\ DOMAIN buckets' \subseteq Keys
               /\ buckets' \in [DOMAIN buckets' -> Bucket]
               /\ CountOK'
    <2>1. keys \subseteq DOMAIN buckets
      BY RemainingSubset
    <2>2. /\ DOMAIN buckets' = keys \cup {key}
          /\ \A k \in keys \cup {key} :
                buckets'[k] = IF k = key THEN b ELSE buckets[k]
          /\ buckets' = [k \in keys \cup {key} |->
                            IF k = key THEN b ELSE buckets[k]]
      BY <1>4 DEF With
    <2> HIDE DEF key, bucket
    <2>3. \A k \in keys \cup {key} :
             (IF k = key THEN b ELSE buckets[k]) \in Bucket
      BY <2>1, <1>4 DEF TypeInv, TypeOK
    <2>4. DOMAIN buckets' \subseteq Keys /\ buckets' \in [DOMAIN buckets' -> Bucket]
      BY <1>1, <2>1, <2>2, <2>3 DEF TypeInv, TypeOK
    <2>5. CountOK'
      BY <2>1, <2>2, <1>2, <1>3, <1>4 DEF CountOK, TypeInv
    <2> QED BY <2>4, <2>5
  <1>5. CASE Exhausted(bucket, key)
    <2>1. PICK keys \in Remaining(key) :
             /\ buckets' = With(buckets, keys, key, bucket)
             /\ wait' = [wait EXCEPT ![r] =
                            bucket.start + WindowOf(key) - stamp[r]]
             /\ jobs' = [jobs EXCEPT ![r] = <<>>]
             /\ UNCHANGED history
      BY <1>5 DEF Allow, Rest
    <2> HIDE DEF key, bucket
    <2>2. bucket.count \in 1..LimitOf(key)
      BY <1>1, <1>2, <1>5, PolicyOfKey DEF Exhausted, Bucket
    <2>3. /\ DOMAIN buckets' \subseteq Keys
          /\ buckets' \in [DOMAIN buckets' -> Bucket] /\ CountOK'
      BY <1>2, <1>4, <2>1, <2>2
    <2>4. bucket.start + WindowOf(key) - stamp[r] \in Nat
      BY <1>1, <1>2, PolicyOfKey DEF Bucket, TypeInv, TypeOK
    <2>5. TypeOK'
      BY <1>3, <2>1, <2>3, <2>4 DEF TypeInv, TypeOK, history
    <2>6. TimedOK'
      BY <1>3, <2>1 DEF TypeInv, TimedOK, TypeOK
    <2> QED BY <2>3, <2>5, <2>6 DEF TypeInv
  <1>6. CASE ~Exhausted(bucket, key)
    <2>1. PICK keys \in Remaining(key) :
             /\ buckets' = With(buckets, keys, key,
                                [bucket EXCEPT !.count = @ + 1])
             /\ jobs' = [jobs EXCEPT ![r] = Tail(@)]
             /\ Record(key, stamp[r])
             /\ UNCHANGED wait
      BY <1>6 DEF Allow, Rest
    <2> DEFINE b == [bucket EXCEPT !.count = @ + 1]
    <2> HIDE DEF key, bucket
    <2>2. /\ b \in Bucket /\ b.count \in 1..LimitOf(key)
          /\ b.start = bucket.start /\ b.seen = bucket.seen
      BY <1>1, <1>2, <1>6, PolicyOfKey DEF Exhausted, Bucket
    <2>3. /\ DOMAIN buckets' \subseteq Keys
          /\ buckets' \in [DOMAIN buckets' -> Bucket] /\ CountOK'
      BY <1>4, <2>1, <2>2
    <2>4. opened' \in [Keys -> Nat] /\ given' \in [Keys -> Nat]
      <3>1. /\ stamp[r] \in Nat /\ 1 \in Nat
            /\ (IF given[key] > LimitOf(key) THEN given[key]
                                            ELSE given[key] + 1) \in Nat
        BY <1>1 DEF TypeInv, TypeOK
      <3>2. opened \in [Keys -> Nat] /\ given \in [Keys -> Nat]
        BY DEF TypeInv, TypeOK
      <3>3. \/ opened' = [opened EXCEPT ![key] = stamp[r]]
            \/ opened' = opened
        BY <2>1 DEF Record
      <3>4. \/ given' = [given EXCEPT ![key] = 1]
            \/ given' = [given EXCEPT ![key] =
                             IF @ > LimitOf(key) THEN @ ELSE @ + 1]
        BY <2>1 DEF Record
      <3> QED BY <1>1, <3>1, <3>2, <3>3, <3>4
    <2>5. TypeOK'
      BY <1>1, <1>3, <2>1, <2>3, <2>4 DEF TypeInv, TypeOK
    <2>6. TimedOK'
      BY <1>3, <2>1 DEF TypeInv, TimedOK, TypeOK
    <2> QED BY <2>3, <2>5, <2>6 DEF TypeInv
  <1> QED BY <1>5, <1>6

\* Every step keeps the types.
LEMMA TypeStep ==
    ASSUME TypeInv, [Next]_vars PROVE TypeInv'
  <1> USE BoundAssumption
  <1> USE DEF TypeInv, TypeOK, TimedOK, CountOK, history
  <1>1. CASE UNCHANGED vars
    BY <1>1 DEF vars
  <1>2. CASE Tick
    BY <1>2 DEF Tick, Bucket
  <1>3. ASSUME NEW r \in Reqs, NEW action \in Actions, NEW address \in Addresses,
               Arrive(r, action, address)
        PROVE  TypeInv'
    <2>1. jobs' \in [Reqs -> Seq(Job)] /\ jobs'[r] # <<>>
      <3> DEFINE first == <<Purge(action),
                            Attempt(<<action, <<"ip", address>>>>)>>
      <3>1. first \in Seq(Job) /\ Len(first) = 2
        BY JobKinds DEF Keys
      <3>2. ASSUME NEW account \in Accounts
            PROVE  Attempt(<<action, <<"account", account>>>>) \in Job
        BY JobKinds DEF Keys
      <3>3. /\ \A j \in Job : Append(first, j) \in Seq(Job)
                                /\ Append(first, j) # <<>>
            /\ first # <<>>
        BY <3>1
      <3>4. \/ jobs' = [jobs EXCEPT ![r] = first]
            \/ \E account \in Accounts :
                  jobs' = [jobs EXCEPT ![r] = Append(first,
                              Attempt(<<action, <<"account", account>>>>))]
        BY <1>3 DEF Arrive
      <3> HIDE DEF first
      <3>5. CASE jobs' = [jobs EXCEPT ![r] = first]
        BY <3>1, <3>3, <3>5
      <3>6. ASSUME NEW j \in Job, jobs' = [jobs EXCEPT ![r] = Append(first, j)]
            PROVE  jobs' \in [Reqs -> Seq(Job)] /\ jobs'[r] # <<>>
        BY <3>3, <3>6
      <3> QED BY <3>2, <3>4, <3>5, <3>6
    <2> QED BY <1>3, <2>1 DEF Arrive
  <1>4. ASSUME NEW r \in Reqs, ReadClock(r) PROVE TypeInv'
    BY <1>4 DEF ReadClock
  <1>5. ASSUME NEW r \in Reqs, Cleanup(r) PROVE TypeInv'
    <2>1. /\ DOMAIN buckets' \subseteq DOMAIN buckets
          /\ buckets' = [k \in DOMAIN buckets' |-> buckets[k]]
      BY <1>5 DEF Cleanup, Restricted
    <2>2. jobs[r] # <<>> /\ Tail(jobs[r]) \in Seq(Job)
      BY <1>5 DEF Cleanup
    <2> QED BY <1>5, <2>1, <2>2 DEF Cleanup
  <1>6. ASSUME NEW r \in Reqs, Allow(r) PROVE TypeInv'
    BY <1>6, AllowType
  <1> QED BY <1>1, <1>2, <1>3, <1>4, <1>5, <1>6 DEF Next

\* Nothing is counted at first.
LEMMA InitTypeInv == Init => TypeInv
  BY DEF Init, TypeInv, TypeOK, TimedOK, CountOK

\* The types are kept, and with them: no bucket ever counts more than its
\* limit, and no wait is negative.
THEOREM TypeCorrect == Spec => []TypeOK
  <1>1. TypeInv /\ [Next]_vars => TypeInv'
    BY TypeStep
  <1>2. TypeInv => TypeOK
    BY DEF TypeInv
  <1> QED BY <1>1, <1>2, InitTypeInv, PTL DEF Spec

-----------------------------------------------------------------------------
(* When the buckets are faithful to the policies.                          *)

\* There is a bucket for every key, so none is evicted.
Room == IsFiniteSet(Keys) /\ Cardinality(Keys) <= MaxBuckets

\* The keys whose window is no more than twice that of any action, so that no
\* cleanup drops a bucket before its window is over.  Of the shipped policies
\* those of pair, device-register, auth-test and login are such; a login drops
\* buckets after 20 minutes, and those of register last an hour.
Lasting ==
    {k \in Keys : \A a \in Actions : WindowOf(k) + 2 * Lag <= 2 * Window[a]}

\* The policies under which every key is: no window twice another.
WindowsClose == \A a, b \in Actions : Window[a] + 2 * Lag <= 2 * Window[b]

LEMMA AllLasting == WindowsClose => Keys = Lasting
  BY DEF WindowsClose, Lasting, WindowOf, Keys

\* The bucket of a key is the policy's own count; a key without one has no
\* attempt, or its window is over for every clock that was read.
Faithful(k) ==
    /\ k \in DOMAIN buckets =>
          buckets[k].start = opened[k] /\ buckets[k].count = given[k]
    /\ k \notin DOMAIN buckets =>
          given[k] = 0 \/ opened[k] + WindowOf(k) + Lag <= now
    /\ given[k] <= LimitOf(k)

HistoryOK == \A k \in Lasting : Faithful(k)

\* With room for all keys nothing is evicted.
LEMMA NoEviction ==
    ASSUME TypeInv, Room, NEW key \in Keys
    PROVE  Remaining(key) = {DOMAIN buckets}
  <1>1. SUFFICES ASSUME key \notin DOMAIN buckets
                 PROVE  ~(Cardinality(DOMAIN buckets) >= MaxBuckets)
    BY DEF Remaining, MustEvict
  <1>2. /\ IsFiniteSet(Keys \ {key})
        /\ Cardinality(Keys \ {key}) = Cardinality(Keys) - 1
    BY FS_RemoveElement DEF Room
  <1>3. DOMAIN buckets \subseteq Keys \ {key}
    BY <1>1 DEF TypeInv, TypeOK
  <1>4. Cardinality(DOMAIN buckets) <= Cardinality(Keys \ {key})
        /\ Cardinality(DOMAIN buckets) \in Nat
    BY <1>2, <1>3, FS_Subset, FS_CardinalityType
  <1>5. Cardinality(Keys) \in Nat
    BY FS_CardinalityType DEF Room
  <1> QED BY <1>2, <1>4, <1>5, BoundAssumption DEF Room

\* A bucket that is in the map is replaced.
LEMMA WithKnown ==
    ASSUME NEW S, NEW map, map \in [DOMAIN map -> S], NEW key \in DOMAIN map,
           NEW b
    PROVE  With(map, DOMAIN map, key, b) = [map EXCEPT ![key] = b]
  BY DEF With

\* What an attempt at a lasting key does, with the bucket it finds or begins.
LEMMA AllowCases ==
    ASSUME TypeInv, HistoryOK, Room, NEW r \in Reqs, Allow(r),
           Head(jobs[r]).key \in Lasting
    PROVE  LET key == Head(jobs[r]).key
           IN /\ key \in Keys /\ timed[r]
              /\ \/ /\ key \in DOMAIN buckets
                    /\ given[key] = LimitOf(key)
                    /\ stamp[r] < opened[key] + WindowOf(key)
                    /\ wait' = [wait EXCEPT ![r] =
                                   opened[key] + WindowOf(key) - stamp[r]]
                    /\ buckets' = [buckets EXCEPT ![key].seen = stamp[r]]
                    /\ UNCHANGED history
                 \/ /\ key \in DOMAIN buckets
                    /\ given[key] < LimitOf(key)
                    /\ buckets' = [buckets EXCEPT ![key] =
                          [buckets[key] EXCEPT !.seen = stamp[r],
                                           !.count = buckets[key].count + 1]]
                    /\ given' = [given EXCEPT ![key] = @ + 1]
                    /\ UNCHANGED <<opened, wait>>
                 \/ /\ DOMAIN buckets' = DOMAIN buckets \cup {key}
                    /\ buckets'[key] = [count |-> 1, start |-> stamp[r],
                                        seen |-> stamp[r]]
                    /\ \A k \in DOMAIN buckets \ {key} : buckets'[k] = buckets[k]
                    /\ opened' = [opened EXCEPT ![key] = stamp[r]]
                    /\ given' = [given EXCEPT ![key] = 1]
                    /\ UNCHANGED wait
  <1> DEFINE key == Head(jobs[r]).key
             bucket == Current(key, stamp[r])
             kept == [buckets[key] EXCEPT !.seen = stamp[r]]
             new == [count |-> 0, start |-> stamp[r], seen |-> stamp[r]]
  <1>1. timed[r] /\ jobs[r] # <<>> /\ key \in Keys
    BY JobKinds DEF Allow, Rest, TypeInv, TypeOK, TimedOK
  <1>2. Remaining(key) = {DOMAIN buckets}
    BY <1>1, NoEviction
  <1>3. /\ WindowOf(key) \in Nat \ {0} /\ LimitOf(key) \in Nat \ {0}
        /\ stamp[r] \in Nat /\ stamp[r] <= now /\ now <= stamp[r] + Lag
        /\ opened[key] \in Nat /\ given[key] \in Nat /\ Lag \in Nat
        /\ now \in Nat
    BY <1>1, PolicyOfKey, BoundAssumption DEF TypeInv, TypeOK, TimedOK
  <1>4. key \in DOMAIN buckets =>
           /\ buckets[key] \in Bucket /\ buckets[key].count \in 1..LimitOf(key)
           /\ buckets[key].start = opened[key] /\ buckets[key].count = given[key]
    BY DEF TypeInv, TypeOK, CountOK, HistoryOK, Faithful
  <1>5. \/ /\ Exhausted(bucket, key)
           /\ buckets' = With(buckets, DOMAIN buckets, key, bucket)
           /\ wait' = [wait EXCEPT ![r] =
                          bucket.start + WindowOf(key) - stamp[r]]
           /\ UNCHANGED history
        \/ /\ ~Exhausted(bucket, key)
           /\ buckets' = With(buckets, DOMAIN buckets, key,
                              [bucket EXCEPT !.count = @ + 1])
           /\ Record(key, stamp[r])
           /\ UNCHANGED wait
    BY <1>2 DEF Allow, Rest
  <1>6. CASE key \in DOMAIN buckets /\ ~Over(buckets[key], key, stamp[r])
    <2>1. bucket = kept
      BY <1>6 DEF Current
    <2> HIDE DEF key, bucket
    <2>2. /\ bucket.start = opened[key] /\ bucket.count = given[key]
          /\ given[key] \in 1..LimitOf(key)
          /\ stamp[r] < opened[key] + WindowOf(key)
      BY <1>3, <1>4, <1>6, <2>1 DEF Bucket, Over
    <2>3. CASE Exhausted(bucket, key)
      <3>1. With(buckets, DOMAIN buckets, key, bucket)
              = [buckets EXCEPT ![key].seen = stamp[r]]
        BY <1>6, <2>1 DEF With, TypeInv, TypeOK
      <3>2. given[key] = LimitOf(key)
        BY <1>3, <2>2, <2>3 DEF Exhausted
      <3> QED BY <1>1, <1>5, <1>6, <2>2, <2>3, <3>1, <3>2 DEF key
    <2>4. CASE ~Exhausted(bucket, key)
      <3>1. With(buckets, DOMAIN buckets, key, [bucket EXCEPT !.count = @ + 1])
              = [buckets EXCEPT ![key] =
                    [buckets[key] EXCEPT !.seen = stamp[r],
                                           !.count = buckets[key].count + 1]]
        <4> DEFINE b == [bucket EXCEPT !.count = @ + 1]
        <4>1. b = [buckets[key] EXCEPT !.seen = stamp[r],
                                       !.count = buckets[key].count + 1]
          BY <1>4, <1>6, <2>1 DEF Bucket
        <4>2. buckets \in [DOMAIN buckets -> Bucket]
          BY DEF TypeInv, TypeOK
        <4> HIDE DEF b
        <4>3. With(buckets, DOMAIN buckets, key, b) = [buckets EXCEPT ![key] = b]
          BY <1>6, <4>2, WithKnown
        <4> QED BY <4>1, <4>3 DEF b
      <3>2. given[key] < LimitOf(key)
        BY <1>3, <2>2, <2>4 DEF Exhausted
      <3>3. given' = [given EXCEPT ![key] = @ + 1] /\ UNCHANGED opened
        BY <1>3, <1>5, <2>2, <2>4, <3>2 DEF Record
      <3> QED BY <1>1, <1>5, <1>6, <2>4, <3>1, <3>2, <3>3 DEF key
    <2> QED BY <2>3, <2>4
  <1>7. CASE ~(key \in DOMAIN buckets /\ ~Over(buckets[key], key, stamp[r]))
    <2>1. bucket = new
      BY <1>7 DEF Current
    <2>2. given[key] = 0 \/ stamp[r] >= opened[key] + WindowOf(key)
      <3>1. CASE key \in DOMAIN buckets
        BY <1>3, <1>4, <1>7, <3>1 DEF Over
      <3>2. CASE key \notin DOMAIN buckets
        BY <1>1, <1>3, <3>2 DEF HistoryOK, Faithful
      <3> QED BY <3>1, <3>2
    <2> HIDE DEF key, bucket
    <2>3. ~Exhausted(bucket, key)
      BY <1>3, <2>1 DEF Exhausted
    <2>4. [bucket EXCEPT !.count = @ + 1] =
             [count |-> 1, start |-> stamp[r], seen |-> stamp[r]]
      BY <2>1
    <2>5. /\ DOMAIN buckets' = DOMAIN buckets \cup {key}
          /\ buckets'[key] =
                [count |-> 1, start |-> stamp[r], seen |-> stamp[r]]
          /\ \A k \in DOMAIN buckets \ {key} : buckets'[k] = buckets[k]
      BY <1>5, <2>3, <2>4 DEF With
    <2>6. /\ opened' = [opened EXCEPT ![key] = stamp[r]]
          /\ given' = [given EXCEPT ![key] = 1] /\ UNCHANGED wait
      BY <1>3, <1>5, <2>2, <2>3 DEF Record
    <2> QED BY <1>1, <2>5, <2>6 DEF key
  <1> QED BY <1>6, <1>7

\* An attempt leaves every other key as it was.
LEMMA AllowElsewhere ==
    ASSUME TypeInv, Room, NEW r \in Reqs, Allow(r)
    PROVE  LET key == Head(jobs[r]).key
           IN /\ DOMAIN buckets' = DOMAIN buckets \cup {key}
              /\ \A k \in DOMAIN buckets \ {key} : buckets'[k] = buckets[k]
              /\ \A k \in Keys \ {key} :
                    opened'[k] = opened[k] /\ given'[k] = given[k]
              /\ now' = now
  <1> DEFINE key == Head(jobs[r]).key
  <1>1. key \in Keys
    BY JobKinds DEF Allow, TypeInv, TypeOK, TimedOK
  <1>2. Remaining(key) = {DOMAIN buckets}
    BY <1>1, NoEviction
  <1>3. /\ \E b : buckets' = With(buckets, DOMAIN buckets, key, b)
        /\ UNCHANGED history \/ Record(key, stamp[r])
        /\ now' = now
    BY <1>2 DEF Allow
  <1>4. opened \in [Keys -> Nat] /\ given \in [Keys -> Nat]
    BY DEF TypeInv, TypeOK
  <1> HIDE DEF key
  <1>5. \A k \in Keys \ {key} : opened'[k] = opened[k] /\ given'[k] = given[k]
    BY <1>3, <1>4 DEF Record, history
  <1>6. /\ DOMAIN buckets' = DOMAIN buckets \cup {key}
        /\ \A k \in DOMAIN buckets \ {key} : buckets'[k] = buckets[k]
    BY <1>3 DEF With
  <1> QED BY <1>3, <1>5, <1>6 DEF key

\* Every step keeps the lasting buckets faithful.
LEMMA HistoryStep ==
    ASSUME TypeInv, HistoryOK, Room, [Next]_vars
    PROVE  HistoryOK'
  <1> USE BoundAssumption, PolicyOfKey
  <1> USE DEF HistoryOK, Faithful, history
  <1>0. \A k \in Lasting : k \in Keys
    BY DEF Lasting
  <1>1. CASE UNCHANGED vars
    BY <1>1 DEF vars
  <1>2. CASE Tick
    BY <1>0, <1>2 DEF Tick, TypeInv, TypeOK
  <1>3. ASSUME NEW r \in Reqs, NEW action \in Actions, NEW address \in Addresses,
               Arrive(r, action, address)
        PROVE  HistoryOK'
    BY <1>3 DEF Arrive
  <1>4. ASSUME NEW r \in Reqs, ReadClock(r) PROVE HistoryOK'
    BY <1>4 DEF ReadClock
  <1>5. ASSUME NEW r \in Reqs, Cleanup(r) PROVE HistoryOK'
    <2> DEFINE action == Head(jobs[r]).action
    <2>1. timed[r] /\ action \in Actions
      BY <1>5, JobKinds DEF Cleanup, TypeInv, TypeOK, TimedOK
    <2>2. /\ DOMAIN buckets' = {k \in DOMAIN buckets :
                      ~(stamp[r] > buckets[k].seen + 2 * Window[action])}
          /\ \A k \in DOMAIN buckets' : buckets'[k] = buckets[k]
          /\ UNCHANGED <<now, opened, given>>
      BY <1>5 DEF Cleanup, Restricted, Idle, CleanupAge
    <2>3. ASSUME NEW k \in Lasting, k \in DOMAIN buckets,
                 stamp[r] > buckets[k].seen + 2 * Window[action]
          PROVE  opened[k] + WindowOf(k) + Lag <= now
      <3>1. k \in Keys
        BY <1>0
      <3>2. WindowOf(k) + 2 * Lag <= 2 * Window[action]
        BY <2>1 DEF Lasting
      <3>3. /\ buckets[k] \in Bucket /\ buckets[k].start = opened[k]
            /\ buckets[k].start <= buckets[k].seen + Lag
            /\ stamp[r] \in Nat /\ stamp[r] <= now /\ now \in Nat
        BY <2>3 DEF TypeInv, TypeOK, CountOK
      <3>4. Window[action] \in Nat /\ WindowOf(k) \in Nat
        BY <2>1, <3>1, PolicyAssumption
      <3> QED BY <2>3, <3>2, <3>3, <3>4 DEF Bucket
    <2> QED BY <1>0, <2>2, <2>3 DEF TypeInv, TypeOK
  <1>6. ASSUME NEW r \in Reqs, Allow(r) PROVE HistoryOK'
    <2>0. PICK key : key = Head(jobs[r]).key
      OBVIOUS
    <2>1. \A k \in Lasting \ {key} : Faithful(k)'
      <3>1. /\ DOMAIN buckets' = DOMAIN buckets \cup {key}
            /\ \A k \in DOMAIN buckets \ {key} : buckets'[k] = buckets[k]
            /\ \A k \in Keys \ {key} :
                  opened'[k] = opened[k] /\ given'[k] = given[k]
            /\ now' = now
        BY <1>6, <2>0, AllowElsewhere
      <3> QED BY <1>0, <3>1
    <2>2. ASSUME key \in Lasting PROVE Faithful(key)'
      <3>1. /\ key \in Keys /\ LimitOf(key) \in Nat \ {0}
            /\ key \in DOMAIN buckets => buckets[key] \in Bucket
            /\ buckets \in [DOMAIN buckets -> Bucket]
            /\ opened \in [Keys -> Nat] /\ given \in [Keys -> Nat]
        BY <1>0, <2>2 DEF TypeInv, TypeOK
      <3>2. Faithful(key)
        BY <2>2
      <3>3. CASE /\ key \in DOMAIN buckets
                 /\ buckets' = [buckets EXCEPT ![key].seen = stamp[r]]
                 /\ UNCHANGED history
        BY <3>1, <3>2, <3>3 DEF Bucket
      <3>4. CASE /\ key \in DOMAIN buckets /\ given[key] < LimitOf(key)
                 /\ buckets' = [buckets EXCEPT ![key] =
                       [buckets[key] EXCEPT !.seen = stamp[r],
                                            !.count = buckets[key].count + 1]]
                 /\ given' = [given EXCEPT ![key] = @ + 1]
                 /\ UNCHANGED opened
        <4> DEFINE b == [buckets[key] EXCEPT !.seen = stamp[r],
                                             !.count = buckets[key].count + 1]
        <4>1. /\ buckets[key] \in Bucket /\ given[key] \in Nat
              /\ b.start = buckets[key].start
              /\ b.count = buckets[key].count + 1
          BY <3>1, <3>4 DEF Bucket
        <4> HIDE DEF b
        <4>2. /\ buckets' = [buckets EXCEPT ![key] = b]
              /\ key \in DOMAIN buckets' /\ buckets'[key] = b
          BY <3>1, <3>4 DEF b
        <4>3. opened'[key] = opened[key] /\ given'[key] = given[key] + 1
          BY <3>1, <3>4
        <4> QED BY <3>1, <3>2, <3>4, <4>1, <4>2, <4>3
      <3>5. CASE /\ DOMAIN buckets' = DOMAIN buckets \cup {key}
                 /\ buckets'[key] =
                       [count |-> 1, start |-> stamp[r], seen |-> stamp[r]]
                 /\ opened' = [opened EXCEPT ![key] = stamp[r]]
                 /\ given' = [given EXCEPT ![key] = 1]
        <4>1. 1 <= LimitOf(key) /\ opened'[key] = stamp[r] /\ given'[key] = 1
          BY <3>1, <3>5
        <4> QED BY <3>5, <4>1
      <3> HIDE DEF Faithful, HistoryOK
      <3> QED BY <1>6, <2>0, <2>2, <3>3, <3>4, <3>5, AllowCases
    <2> HIDE DEF Faithful
    <2> QED BY <2>1, <2>2 DEF HistoryOK
  <1> QED BY <1>1, <1>2, <1>3, <1>4, <1>5, <1>6 DEF Next

\* Nothing was allowed at first.
LEMMA InitHistoryOK == Init => HistoryOK
  BY PolicyOfKey DEF Init, HistoryOK, Faithful, Lasting

\* The only step that tells a request to wait is a denial.
LEMMA DenialIsAllow ==
    ASSUME TypeInv, Next, NEW r \in Reqs, wait'[r] > wait[r]
    PROVE  Allow(r) /\ Head(jobs[r]).key \in Keys
  <1>1. wait \in [Reqs -> Nat]
    BY DEF TypeInv, TypeOK
  <1>2. ~ UNCHANGED wait
    BY <1>1
  <1>3. PICK q \in Reqs : \/ \E a \in Actions, i \in Addresses : Arrive(q, a, i)
                         \/ Allow(q)
    BY <1>2 DEF Next, Tick, ReadClock, Cleanup
  <1>4. ASSUME NEW a \in Actions, NEW i \in Addresses, Arrive(q, a, i)
        PROVE  FALSE
    <2>1. wait' = [wait EXCEPT ![q] = 0]
      BY <1>4 DEF Arrive
    <2>2. wait'[r] = 0 \/ wait'[r] = wait[r]
      BY <1>1, <2>1
    <2>3. wait[r] \in Nat
      BY <1>1
    <2> QED BY <2>2, <2>3
  <1>5. Allow(q)
    BY <1>3, <1>4
  <1>6. q = r
    BY <1>1, <1>5 DEF Allow, Rest
  <1>7. timed[r] /\ jobs[r] # <<>> /\ Head(jobs[r]).op = "attempt"
    BY <1>5, <1>6 DEF Allow, Rest, TypeInv, TimedOK
  <1>8. Head(jobs[r]) \in Job
    BY <1>7 DEF TypeInv, TypeOK
  <1> QED BY <1>5, <1>6, <1>7, <1>8, JobKinds

\* A denial at the key: its attempts are used up, its window is not over, and
\* the wait is what is left of it.
Denial(r, key) ==
    /\ given[key] = LimitOf(key)
    /\ stamp[r] < opened[key] + WindowOf(key)
    /\ stamp[r] + wait'[r] = opened[key] + WindowOf(key)
    /\ wait'[r] <= WindowOf(key) + Lag

LEMMA DenialStep ==
    ASSUME TypeInv, HistoryOK, Room, Next, NEW r \in Reqs, wait'[r] > wait[r],
           Head(jobs[r]).key \in Lasting
    PROVE  Denial(r, Head(jobs[r]).key)
  <1> DEFINE key == Head(jobs[r]).key
  <1>1. wait \in [Reqs -> Nat] /\ ~ UNCHANGED wait
    BY DEF TypeInv, TypeOK
  <1>2. Allow(r)
    BY DenialIsAllow
  <1>3. /\ key \in Keys /\ timed[r] /\ key \in DOMAIN buckets
        /\ given[key] = LimitOf(key)
        /\ stamp[r] < opened[key] + WindowOf(key)
        /\ wait' = [wait EXCEPT ![r] = opened[key] + WindowOf(key) - stamp[r]]
    BY <1>1, <1>2, AllowCases
  <1>4. opened[key] <= now /\ now <= stamp[r] + Lag
    BY <1>3 DEF HistoryOK, Faithful, TypeInv, TypeOK, TimedOK, CountOK
  <1>5. /\ stamp[r] \in Nat /\ opened[key] \in Nat /\ now \in Nat
        /\ WindowOf(key) \in Nat /\ Lag \in Nat
    BY <1>3, PolicyOfKey, BoundAssumption DEF TypeInv, TypeOK
  <1>6. wait'[r] = opened[key] + WindowOf(key) - stamp[r]
    BY <1>1, <1>3
  <1> HIDE DEF key
  <1>7. Denial(r, key)
    BY <1>3, <1>4, <1>5, <1>6 DEF Denial
  <1> QED BY <1>7 DEF key

LastingLimits == \A key \in Lasting : given[key] <= LimitOf(key)

LastingDenials ==
    [][\A r \in Reqs :
          wait'[r] > wait[r] /\ Head(jobs[r]).key \in Lasting =>
              Denial(r, Head(jobs[r]).key)]_vars

\* Whatever the windows of the other actions are: with room in the map, a key
\* whose window is no more than twice any of theirs is never allowed more than
\* its limit in a window, is denied only when its attempts are used up, and is
\* told exactly the wait that ends its window.
THEOREM LastingKeysAreRight ==
    ASSUME Room
    PROVE  Spec => []LastingLimits /\ LastingDenials
  <1>1. TypeInv /\ [Next]_vars => TypeInv'
    BY TypeStep
  <1>2. TypeInv /\ HistoryOK /\ [Next]_vars => HistoryOK'
    BY HistoryStep
  <1>3. HistoryOK => LastingLimits
    BY DEF HistoryOK, Faithful, LastingLimits
  <1>4. TypeInv /\ HistoryOK /\ [Next]_vars =>
          [\A r \in Reqs :
             wait'[r] > wait[r] /\ Head(jobs[r]).key \in Lasting =>
                 Denial(r, Head(jobs[r]).key)]_vars
    BY DenialStep
  <1> QED BY <1>1, <1>2, <1>3, <1>4, InitTypeInv, InitHistoryOK, PTL
          DEF Spec, LastingDenials

\* The shipped policies, in seconds: no window is under 10 minutes, so an
\* action of at most 15 (pair, device-register, auth-test, login) keeps its
\* limit for every address and account, as long as no request waits more than
\* two and a half minutes for the mutex.
THEOREM ShortWindowsAreKept ==
    ASSUME Room, NEW action \in Actions, Window[action] <= 900, Lag <= 150,
           \A a \in Actions : Window[a] >= 600
    PROVE  Spec => [](\A key \in Keys :
                         key[1] = action => given[key] <= LimitOf(key))
  <1>1. \A key \in Keys : key[1] = action => key \in Lasting
    BY PolicyAssumption, BoundAssumption DEF Lasting, WindowOf
  <1>2. LastingLimits => \A key \in Keys :
                            key[1] = action => given[key] <= LimitOf(key)
    BY <1>1 DEF LastingLimits
  <1>3. Spec => []LastingLimits
    BY LastingKeysAreRight
  <1> QED BY <1>2, <1>3, PTL

\* With room in the map, and windows that differ by no more than a factor of
\* two, no key is allowed more than its limit in a window, whichever actions
\* clean the map up in between.
THEOREM LimitsAreKept ==
    ASSUME Room, WindowsClose
    PROVE  Spec => []LimitKept
  <1>1. LastingLimits => LimitKept
    BY AllLasting DEF LastingLimits, LimitKept
  <1>2. Spec => []LastingLimits
    BY LastingKeysAreRight
  <1> QED BY <1>1, <1>2, PTL

\* Under the same conditions nobody is denied an attempt the policy grants.
THEOREM DenialsAreJustified ==
    ASSUME Room, WindowsClose
    PROVE  Spec => DeniedOnlyAtLimit
  <1>1. TypeInv /\ [Next]_vars => TypeInv'
    BY TypeStep
  <1>2. TypeInv /\ HistoryOK /\ [Next]_vars => HistoryOK'
    BY HistoryStep
  <1>3. TypeInv /\ HistoryOK /\ [Next]_vars =>
          [\A r \in Reqs :
             wait'[r] > wait[r] =>
                 LET key == Head(jobs[r]).key
                 IN /\ given[key] = LimitOf(key)
                    /\ stamp[r] < opened[key] + WindowOf(key)]_vars
    BY AllLasting, DenialIsAllow, DenialStep DEF Denial
  <1> QED BY <1>1, <1>2, <1>3, InitTypeInv, InitHistoryOK, PTL
          DEF Spec, DeniedOnlyAtLimit

\* And the wait they are told is exactly what is left of their window.
THEOREM WaitsAreRight ==
    ASSUME Room, WindowsClose
    PROVE  Spec => WaitIsRight
  <1>1. TypeInv /\ [Next]_vars => TypeInv'
    BY TypeStep
  <1>2. TypeInv /\ HistoryOK /\ [Next]_vars => HistoryOK'
    BY HistoryStep
  <1>3. TypeInv /\ HistoryOK /\ [Next]_vars =>
          [\A r \in Reqs :
             wait'[r] > wait[r] =>
                 LET key == Head(jobs[r]).key
                 IN /\ stamp[r] + wait'[r] = opened[key] + WindowOf(key)
                    /\ wait'[r] <= WindowOf(key) + Lag]_vars
    BY AllLasting, DenialIsAllow, DenialStep DEF Denial
  <1> QED BY <1>1, <1>2, <1>3, InitTypeInv, InitHistoryOK, PTL
          DEF Spec, WaitIsRight

-----------------------------------------------------------------------------
(* The bound on the memory needs none of these conditions.                 *)

MemoryInv == IsFiniteSet(DOMAIN buckets) /\ MemoryBounded

\* A step that does not add a bucket keeps the bound.
LEMMA FewerBuckets ==
    ASSUME MemoryInv, DOMAIN buckets' \subseteq DOMAIN buckets
    PROVE  MemoryInv'
  <1> USE DEF MemoryInv, MemoryBounded
  <1>1. /\ IsFiniteSet(DOMAIN buckets')
        /\ Cardinality(DOMAIN buckets') <= Cardinality(DOMAIN buckets)
        /\ Cardinality(DOMAIN buckets') \in Nat
        /\ Cardinality(DOMAIN buckets) \in Nat
    BY FS_Subset, FS_CardinalityType
  <1> QED BY <1>1, BoundAssumption

\* An attempt adds at most one, and evicts one where the map is full.
LEMMA AllowMemory ==
    ASSUME MemoryInv, NEW r \in Reqs, Allow(r)
    PROVE  MemoryInv'
  <1> USE BoundAssumption DEF MemoryInv, MemoryBounded
  <1> DEFINE key == Head(jobs[r]).key
             held == DOMAIN buckets
  <1>1. PICK keys \in Remaining(key) : DOMAIN buckets' = keys \cup {key}
    BY DEF Allow, Rest, With
  <1> HIDE DEF key
  <1>2. CASE key \in held
    <2>1. keys \subseteq held
      BY <1>1, RemainingSubset
    <2> QED BY <1>1, <1>2, <2>1, FewerBuckets
  <1>3. CASE key \notin held /\ Cardinality(held) < MaxBuckets
    <2>1. keys = held
      BY <1>1, <1>3, FS_CardinalityType DEF Remaining, MustEvict
    <2>2. /\ IsFiniteSet(held \cup {key})
          /\ Cardinality(held \cup {key}) = Cardinality(held) + 1
      BY <1>3, FS_AddElement
    <2>3. Cardinality(held) \in Nat
      BY FS_CardinalityType
    <2> QED BY <1>1, <1>3, <2>1, <2>2, <2>3
  <1>4. CASE key \notin held /\ ~(Cardinality(held) < MaxBuckets)
    <2>1. Cardinality(held) \in Nat
      BY FS_CardinalityType
    <2>2. PICK k \in held : keys = held \ {k}
      BY <1>1, <1>4, <2>1 DEF Remaining, MustEvict
    <2>3. /\ IsFiniteSet(held \ {k})
          /\ Cardinality(held \ {k}) = Cardinality(held) - 1
      BY FS_RemoveElement
    <2>4. /\ IsFiniteSet((held \ {k}) \cup {key})
          /\ Cardinality((held \ {k}) \cup {key}) = Cardinality(held \ {k}) + 1
      BY <1>4, <2>3, FS_AddElement
    <2> QED BY <1>1, <2>1, <2>2, <2>3, <2>4
  <1> QED BY <1>2, <1>3, <1>4

\* However many keys are tried, whatever the policies: the map never holds
\* more than maxRateLimitBuckets.
THEOREM MemoryIsBounded == Spec => []MemoryBounded
  <1>1. Init => MemoryInv
    BY FS_EmptySet, BoundAssumption DEF Init, MemoryInv, MemoryBounded
  <1>2. ASSUME MemoryInv, [Next]_vars PROVE MemoryInv'
    <2>1. CASE \E r \in Reqs : Allow(r)
      BY <2>1, <1>2, AllowMemory
    <2>2. CASE \E r \in Reqs : Cleanup(r)
      <3>1. DOMAIN buckets' \subseteq DOMAIN buckets
        BY <2>2 DEF Cleanup, Restricted
      <3> QED BY <1>2, <3>1, FewerBuckets
    <2>3. CASE UNCHANGED buckets
      BY <1>2, <2>3 DEF MemoryInv, MemoryBounded
    <2> QED BY <1>2, <2>1, <2>2, <2>3 DEF Next, Tick, Arrive, ReadClock, vars
  <1>3. MemoryInv => MemoryBounded
    BY DEF MemoryInv
  <1> QED BY <1>1, <1>2, <1>3, PTL DEF Spec
=============================================================================
