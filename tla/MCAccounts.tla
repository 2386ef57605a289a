----------------------------- MODULE MCAccounts -----------------------------
(* Instances of Accounts for TLC. *)
EXTENDS Accounts, TLC

\* Random values of one kind, requests and administrators are interchangeable.
Alike == Permutations(Users) \cup Permutations(Secrets) \cup Permutations(Reqs)
             \cup Permutations(Admins)
=============================================================================
