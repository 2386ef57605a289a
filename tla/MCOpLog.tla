------------------------------ MODULE MCOpLog ------------------------------
(***************************************************************************)
(* Small instances of OpLog: what differs from one configuration to the    *)
(* next is who shares a scope with whom and what each device pushes.       *)
(***************************************************************************)
EXTENDS OpLog, TLC

CONSTANTS u1, u2, d1, d2, d3, v1, v2, e1, o1, o2, o3

Put(o) == [id |-> o, entity |-> e1, type |-> "upsert"]
Del(o) == [id |-> o, entity |-> e1, type |-> "delete"]

Pushes(b1, b2, b3) ==
    [d \in Devices |-> CASE d = d1 -> b1 [] d = d2 -> b2 [] d = d3 -> b3]

\* The requests are interchangeable.
ReqSymmetry == Permutations(Reqs)

\* Two devices in one vault edit one entity.
OneOwner == [d \in Devices |-> u1]
OneVault == [d \in Devices |-> v1]
EditBatches == Pushes({<<Del(o1)>>}, {<<Del(o2), Put(o3)>>}, {})

\* A device and the ways it can send its operations again.
RetryBatches ==
    Pushes({<<Put(o1), Del(o3)>>, <<Put(o2), Del(o3), Put(o1)>>},
           {<<Put(o2)>>}, {})

\* One device alone.
LiveBatches == Pushes({<<Put(o1), Put(o2)>>}, {}, {})

\* Two vaults of one user and a legacy device of another.
Owners == [d \in Devices |-> IF d = d3 THEN u2 ELSE u1]
OwnVaults == [d \in Devices |->
                 CASE d = d1 -> v1 [] d = d2 -> v2 [] d = d3 -> NoVault]
TenantBatches == Pushes({<<Put(o1)>>}, {}, {<<Put(o3)>>})
=============================================================================
