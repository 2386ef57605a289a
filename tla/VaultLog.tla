------------------------------ MODULE VaultLog ------------------------------
(***************************************************************************)
(* What the server promises its devices, without handlers, statements,     *)
(* pages or retries: every vault has a log that only grows at its end, the *)
(* numbers of all logs are drawn from one counter, and a device that reads *)
(* has, up to its position, exactly the log of its own vault.              *)
(***************************************************************************)
EXTENDS Naturals

CONSTANTS Scopes, Followers, ScopeOf

VARIABLES
    log,   \* the rows of each scope; a row has a number seq
    last,  \* the last number given out
    live,  \* the scopes whose user is not deleted
    pos,   \* each follower: where it has read to
    seen   \* and the rows it has read

vars == <<log, last, live, pos, seen>>

Init ==
    /\ log = [s \in Scopes |-> {}] /\ last = 0 /\ live = Scopes
    /\ pos = [d \in Followers |-> 0] /\ seen = [d \in Followers |-> {}]

\* Rows enter at the end, all at once, each with a number of its own.  A number
\* may be drawn and never used.
Append(s) ==
    LET new == log'[s] \ log[s]
    IN /\ log' = [log EXCEPT ![s] = @ \cup new]
       /\ last' \in Nat /\ last <= last'
       /\ \A row \in new : row.seq \in (last + 1)..last'
       /\ \A x, y \in new : x.seq = y.seq => x = y
       /\ UNCHANGED <<live, pos, seen>>

\* A user is deleted, with all logs it has.
Drop ==
    /\ live' \subseteq live
    /\ log' = [s \in Scopes |-> IF s \in live \ live' THEN {} ELSE log[s]]
    /\ UNCHANGED <<last, pos, seen>>

UpTo(s, p) == {row \in log[s] : row.seq <= p}

\* A follower gets all there is up to some position.  Of a deleted user's log
\* it may get what was on its way.
Read(d) ==
    \E p \in 0..last :
        /\ pos' = [pos EXCEPT ![d] = p]
        /\ seen' = [seen EXCEPT ![d] = seen'[d]]
        /\ seen[d] \subseteq seen'[d]
        /\ ScopeOf[d] \in live =>
              seen'[d] = seen[d] \cup UpTo(ScopeOf[d], p)
        /\ UNCHANGED <<log, last, live>>

Next == (\E s \in Scopes : Append(s)) \/ Drop \/ (\E d \in Followers : Read(d))

Spec == Init /\ [][Next]_vars

\* What it comes to: as long as its user is there, a follower has all its log
\* holds up to its position, and nothing its log does not hold.
Promise ==
    \A d \in Followers : ScopeOf[d] \in live =>
        /\ UpTo(ScopeOf[d], pos[d]) \subseteq seen[d]
        /\ seen[d] \subseteq log[ScopeOf[d]]
=============================================================================
