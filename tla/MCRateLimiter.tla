--------------------------- MODULE MCRateLimiter ---------------------------
(* Instances of RateLimiter for TLC. *)
EXTENDS RateLimiter

CONSTANTS login, register

\* Windows in the ratio of the login and the register policies, 10 minutes
\* to an hour, and ones that, like those of login and pair, are less than
\* twice each other.
LoginAndRegister == [a \in Actions |-> IF a = login THEN 1 ELSE 6]
LoginAndPair == [a \in Actions |-> IF a = login THEN 3 ELSE 4]
OneOrTwo == [a \in Actions |-> IF a = login THEN 1 ELSE 2]
=============================================================================
