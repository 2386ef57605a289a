---------------------------- MODULE MCBlobStore ----------------------------
(* Instances of BlobStore for TLC. *)
EXTENDS BlobStore, TLC

CONSTANTS u1, u2, v1, v2, small, large, huge

\* Two vaults of one user; a vault of each of two users.
TwoVaults == {<<u1, v1>>, <<u1, v2>>}
OneEach == {<<u1, v1>>, <<u2, v1>>}
\* `large' fills a vault; `huge' is over the limit of one blob.
Sizes == [h \in Hashes |-> CASE h = small -> 1 [] h = large -> 2 [] h = huge -> 4]

\* Requests and temporary names are interchangeable.
Alike == Permutations(Reqs) \cup Permutations(TempNames)
=============================================================================
